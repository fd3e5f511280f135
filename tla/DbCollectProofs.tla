--------------------------- MODULE DbCollectProofs ---------------------------
(***************************************************************************)
(* For all databases, tables, options and schema changes: rows stay where  *)
(* they are, none is there twice but after an abandoned attempt, what is   *)
(* looked up by name finds the right database, what is looked for is       *)
(* collected in time, and the collection has no infinitely many steps.     *)
(***************************************************************************)
EXTENDS DbCollect, Variants, SequenceTheorems, FiniteSetTheorems, TLAPS

-----------------------------------------------------------------------------
(***************************************************************************)
(* The order of the functions in a plan.  NotAfter(s, A, B): no function   *)
(* of B comes after one of A; with A = B, at most one of them is there.    *)
(***************************************************************************)
NotAfter(s, A, B) ==
  \A i, j \in DOMAIN s : i < j /\ s[i] \in A => s[j] \notin B

Without(A) == Seq(Functions \ A)

\* A sequence of elements of T.
LEMMA Narrower ==
  ASSUME NEW S, NEW T, NEW s \in Seq(S), \A i \in 1 .. Len(s) : s[i] \in T
  PROVE  s \in Seq(T)
<1>1. Len(s) \in Nat /\ s \in [1 .. Len(s) -> S]
  BY LenProperties
<1>2. s \in [1 .. Len(s) -> T]
  BY <1>1
<1> QED BY <1>1, <1>2, SeqDef

\* Without any function of A, or of B, the order cannot be violated.
LEMMA OrderVoid ==
  ASSUME NEW A, NEW B, NEW s, s \in Without(A) \/ s \in Without(B)
  PROVE  NotAfter(s, A, B)
<1>1. CASE s \in Without(A)
  <2>1. \A i \in DOMAIN s : s[i] \notin A
    BY <1>1, ElementOfSeq, LenProperties DEF Without
  <2> QED BY <2>1 DEF NotAfter
<1>2. CASE s \in Without(B)
  <2>1. \A i \in DOMAIN s : s[i] \notin B
    BY <1>2, ElementOfSeq, LenProperties DEF Without
  <2> QED BY <2>1 DEF NotAfter
<1> QED BY <1>1, <1>2

\* One plan after the other.
LEMMA OrderJoin ==
  ASSUME NEW A, NEW B, NEW s \in Seq(Functions), NEW t \in Seq(Functions),
         NotAfter(s, A, B), NotAfter(t, A, B),
         s \in Without(A) \/ t \in Without(B)
  PROVE  s \o t \in Seq(Functions) /\ NotAfter(s \o t, A, B)
<1>1. /\ s \o t \in Seq(Functions) /\ Len(s) \in Nat /\ Len(t) \in Nat
      /\ DOMAIN s = 1 .. Len(s) /\ DOMAIN t = 1 .. Len(t)
      /\ DOMAIN (s \o t) = 1 .. Len(s) + Len(t)
      /\ \A i \in 1 .. Len(s) + Len(t) : (s \o t)[i] = IF i <= Len(s) THEN s[i] ELSE t[i - Len(s)]
  BY ConcatProperties, LenProperties
<1> SUFFICES ASSUME NEW i \in DOMAIN (s \o t), NEW j \in DOMAIN (s \o t), i < j,
                    (s \o t)[i] \in A
             PROVE  (s \o t)[j] \notin B
  BY <1>1 DEF NotAfter
<1>2. CASE j <= Len(s)
  BY <1>1, <1>2 DEF NotAfter
<1>3. CASE i > Len(s)
  <2>1. i - Len(s) \in DOMAIN t /\ j - Len(s) \in DOMAIN t /\ i - Len(s) < j - Len(s)
    BY <1>1, <1>3
  <2>2. (s \o t)[i] = t[i - Len(s)] /\ (s \o t)[j] = t[j - Len(s)]
    BY <1>1, <1>3
  <2> QED BY <2>1, <2>2 DEF NotAfter
<1>4. CASE i <= Len(s) /\ j > Len(s)
  <2>1. i \in DOMAIN s /\ s[i] \in A /\ (s \o t)[j] = t[j - Len(s)] /\ j - Len(s) \in 1 .. Len(t)
    BY <1>1, <1>4
  <2>2. s \notin Without(A)
    <3> SUFFICES ASSUME s \in Without(A) PROVE FALSE
      OBVIOUS
    <3> QED BY <1>1, <2>1, ElementOfSeq DEF Without
  <2>3. t[j - Len(s)] \in Functions \ B
    BY <2>1, <2>2, ElementOfSeq DEF Without
  <2> QED BY <2>1, <2>3
<1> QED BY <1>1, <1>2, <1>3, <1>4

LEMMA JoinWithout ==
  ASSUME NEW A, NEW s \in Without(A), NEW t \in Without(A)
  PROVE  s \o t \in Without(A)
BY ConcatProperties DEF Without

\* The rest of a plan.
LEMMA OrderTail ==
  ASSUME NEW A, NEW B, NEW s \in Seq(Functions), s # <<>>, NotAfter(s, A, B)
  PROVE  /\ Tail(s) \in Seq(Functions) /\ NotAfter(Tail(s), A, B)
         /\ Head(s) \in A => Tail(s) \in Without(B)
<1>1. /\ Tail(s) \in Seq(Functions) /\ Len(Tail(s)) = Len(s) - 1 /\ Len(s) \in Nat
      /\ Head(s) = s[1] /\ \A i \in 1 .. Len(Tail(s)) : Tail(s)[i] = s[i + 1]
      /\ DOMAIN s = 1 .. Len(s) /\ DOMAIN Tail(s) = 1 .. Len(Tail(s)) /\ Len(s) # 0
  <2>1. Tail(s) \in Seq(Functions) /\ Len(s) \in Nat /\ Len(s) # 0
    BY HeadTailProperties, LenProperties, EmptySeq
  <2> QED BY <2>1, HeadTailProperties, LenProperties
<1>2. NotAfter(Tail(s), A, B)
  BY <1>1 DEF NotAfter
<1>3. ASSUME Head(s) \in A PROVE Tail(s) \in Without(B)
  <2>1. \A i \in 1 .. Len(Tail(s)) : Tail(s)[i] \in Functions \ B
    <3> TAKE i \in 1 .. Len(Tail(s))
    <3>1. i + 1 \in DOMAIN s /\ 1 \in DOMAIN s /\ 1 < i + 1 /\ Tail(s)[i] = s[i + 1]
      BY <1>1
    <3>2. s[i + 1] \notin B
      BY <1>1, <1>3, <3>1 DEF NotAfter
    <3>3. Tail(s)[i] \in Functions
      BY <1>1, ElementOfSeq
    <3> QED BY <3>1, <3>2, <3>3
  <2> QED BY <1>1, <2>1, Narrower DEF Without
<1> QED BY <1>1, <1>2, <1>3

\* Another function in the place of the first.
LEMMA OrderAgain ==
  ASSUME NEW A, NEW B, NEW s \in Seq(Functions), s # <<>>, NotAfter(s, A, B),
         NEW f \in Functions, f \in A => Head(s) \in A
  PROVE  /\ <<f>> \o Tail(s) \in Seq(Functions) /\ NotAfter(<<f>> \o Tail(s), A, B)
<1>1. <<f>> \in Seq(Functions) /\ Tail(s) \in Seq(Functions) /\ NotAfter(Tail(s), A, B)
      /\ (Head(s) \in A => Tail(s) \in Without(B))
  BY OrderTail
<1>2. NotAfter(<<f>>, A, B)
  BY DEF NotAfter
<1>3. f \notin A => <<f>> \in Without(A)
  BY DEF Without
<1> QED BY <1>1, <1>2, <1>3, OrderJoin

GetTables  == {"getTables", "getTablesAgain"}
GetIndexes == {"getIndexes", "getIndexesAgain"}
AskTables  == {"getBloat", "getCitus"}
AskKnown   == {"getStatements", "getCitus"}

\* What holds of every plan, and of what is left of it.
Ordered(s) ==
  /\ s \in Seq(Functions)
  /\ NotAfter(s, GetTables, GetTables)
  /\ NotAfter(s, GetIndexes, GetIndexes)
  /\ NotAfter(s, AskTables, GetTables \cup GetIndexes)
  /\ NotAfter(s, {"getDisabledTriggers"}, GetTables)
  /\ NotAfter(s, AskKnown, {"getExtensions"})

Retries == {"getTablesAgain", "getIndexesAgain"}

Late == GetTables \cup GetIndexes

\* A single function, a function or none, nothing.
LEMMA Singles ==
  ASSUME NEW A, NEW f \in Functions \ A
  PROVE  <<f>> \in Without(A) /\ <<>> \in Without(A)
BY EmptySeq DEF Without

LEMMA Maybes ==
  ASSUME NEW A, NEW c, NEW f \in Functions \ A
  PROVE  When(c, <<f>>) \in Without(A)
BY Singles DEF When

\* The parts of a plan.
LEMMA FirstPart ==
  LET s == When("tables" \notin o.omit,
                <<"getTables">> \o When(o.v10, <<"getPartitionInfo">>) \o <<"getParentInfo">>)
  IN  /\ s \in Without(GetIndexes \cup AskTables \cup AskKnown \cup Retries
                        \cup {"getDisabledTriggers"})
      /\ NotAfter(s, GetTables, GetTables)
<1> DEFINE N == GetIndexes \cup AskTables \cup AskKnown \cup Retries
                 \cup {"getDisabledTriggers"}
           a == <<"getTables">>
           b == When(o.v10, <<"getPartitionInfo">>)
           c == <<"getParentInfo">>
<1>a. {"getTables", "getPartitionInfo", "getParentInfo"} \subseteq Functions \ N
  BY DEF GetIndexes, AskTables, AskKnown, Retries, Functions
<1>b. {"getPartitionInfo", "getParentInfo"} \subseteq Functions \ GetTables
  BY DEF GetTables, Functions
<1>1. /\ a \in Without(N) /\ b \in Without(N) /\ c \in Without(N) /\ <<>> \in Without(N)
  BY <1>a, Singles, Maybes
<1>2. /\ a \in Seq(Functions) /\ b \in Without(GetTables) /\ c \in Without(GetTables)
      /\ <<>> \in Without(GetTables)
  BY <1>a, <1>b, Singles, Maybes
<1>3. NotAfter(a, GetTables, GetTables) /\ NotAfter(<<>>, GetTables, GetTables)
  BY DEF NotAfter
<1> HIDE DEF a, b, c, N
<1>4. b \in Seq(Functions) /\ c \in Seq(Functions)
  BY <1>2, SeqMonotonic DEF Without
<1>5. NotAfter(b, GetTables, GetTables) /\ NotAfter(c, GetTables, GetTables)
  BY <1>2, OrderVoid
<1>6. a \o b \in Seq(Functions) /\ NotAfter(a \o b, GetTables, GetTables)
  BY <1>2, <1>3, <1>4, <1>5, OrderJoin
<1>7. a \o b \o c \in Seq(Functions) /\ NotAfter(a \o b \o c, GetTables, GetTables)
  BY <1>2, <1>4, <1>5, <1>6, OrderJoin
<1>8. a \o b \o c \in Without(N)
  BY <1>1, JoinWithout
<1> QED BY <1>1, <1>3, <1>7, <1>8 DEF When, a, b, c, N

LEMMA SecondPart ==
  LET s == When({"tables", "indexes"} \cap o.omit = {},
                <<"getIndexes">> \o When("indexdefs" \notin o.omit, <<"getIndexDef">>))
  IN  /\ s \in Without(GetTables \cup AskTables \cup AskKnown \cup Retries
                        \cup {"getDisabledTriggers"})
      /\ NotAfter(s, GetIndexes, GetIndexes)
<1> DEFINE N == GetTables \cup AskTables \cup AskKnown \cup Retries
                 \cup {"getDisabledTriggers"}
           a == <<"getIndexes">>
           b == When("indexdefs" \notin o.omit, <<"getIndexDef">>)
<1>a. {"getIndexes", "getIndexDef"} \subseteq Functions \ N
  BY DEF GetTables, AskTables, AskKnown, Retries, Functions
<1>b. "getIndexDef" \in Functions \ GetIndexes
  BY DEF GetIndexes, Functions
<1>1. /\ a \in Without(N) /\ b \in Without(N) /\ <<>> \in Without(N)
  BY <1>a, Singles, Maybes
<1>2. /\ a \in Seq(Functions) /\ b \in Without(GetIndexes)
  BY <1>a, <1>b, Singles, Maybes
<1>3. NotAfter(a, GetIndexes, GetIndexes) /\ NotAfter(<<>>, GetIndexes, GetIndexes)
  BY DEF NotAfter
<1> HIDE DEF a, b, N
<1>4. b \in Seq(Functions) /\ NotAfter(b, GetIndexes, GetIndexes)
  BY <1>2, SeqMonotonic, OrderVoid DEF Without
<1>5. NotAfter(a \o b, GetIndexes, GetIndexes)
  BY <1>2, <1>3, <1>4, OrderJoin
<1>6. a \o b \in Without(N)
  BY <1>1, JoinWithout
<1> QED BY <1>1, <1>3, <1>5, <1>6 DEF When, a, b, N

\* The other parts do not ask for tables or indexes.
LEMMA OrderedMore ==
  ASSUME NEW s, Ordered(s), NEW t \in Without(Late),
         \/ s \in Without(AskKnown) /\ t \in Without(AskKnown)
         \/ t \in Without({"getExtensions"})
  PROVE  Ordered(s \o t)
<1>1. t \in Seq(Functions) /\ t \in Without(GetTables) /\ t \in Without(GetIndexes)
  BY SeqMonotonic DEF Without, Late
<1>2. t \in Without(GetTables \cup GetIndexes)
  BY DEF Late
<1>3. /\ NotAfter(t, GetTables, GetTables) /\ NotAfter(t, GetIndexes, GetIndexes)
      /\ NotAfter(t, AskTables, GetTables \cup GetIndexes)
      /\ NotAfter(t, {"getDisabledTriggers"}, GetTables)
      /\ NotAfter(t, AskKnown, {"getExtensions"})
  BY <1>1, <1>2, OrderVoid
<1>4. NotAfter(s \o t, AskKnown, {"getExtensions"})
  BY <1>1, <1>3, OrderJoin DEF Ordered
<1> QED BY <1>1, <1>2, <1>3, <1>4, OrderJoin DEF Ordered

Has(s, f) == \E k \in DOMAIN s : s[k] = f

LEMMA HasJoin ==
  ASSUME NEW S, NEW s \in Seq(S), NEW t \in Seq(S), NEW f, Has(s, f) \/ Has(t, f)
  PROVE  Has(s \o t, f)
<1>1. /\ Len(s) \in Nat /\ Len(t) \in Nat
      /\ DOMAIN s = 1 .. Len(s) /\ DOMAIN t = 1 .. Len(t)
      /\ DOMAIN (s \o t) = 1 .. Len(s) + Len(t)
      /\ \A i \in 1 .. Len(s) + Len(t) : (s \o t)[i] = IF i <= Len(s) THEN s[i] ELSE t[i - Len(s)]
  BY ConcatProperties, LenProperties
<1>2. CASE Has(s, f)
  <2>1. PICK k \in DOMAIN s : s[k] = f
    BY <1>2 DEF Has
  <2>2. k \in DOMAIN (s \o t) /\ (s \o t)[k] = f
    BY <1>1, <2>1
  <2> QED BY <2>2 DEF Has
<1>3. CASE Has(t, f)
  <2>1. PICK k \in DOMAIN t : t[k] = f
    BY <1>3 DEF Has
  <2>2. k + Len(s) \in 1 .. Len(s) + Len(t) /\ ~(k + Len(s) <= Len(s)) /\ (k + Len(s)) - Len(s) = k
    BY <1>1, <2>1
  <2>3. (s \o t)[k + Len(s)] = f
    BY <1>1, <2>1, <2>2
  <2> QED BY <1>1, <2>2, <2>3 DEF Has
<1> QED BY <1>2, <1>3

LEMMA HasNot ==
  ASSUME NEW A, NEW s \in Without(A), NEW f \in A
  PROVE  ~Has(s, f)
BY ElementOfSeq, LenProperties DEF Without, Has

\* A plan is in order, has no retries, and gets the extensions unless left out.
LEMMA PlanOrdered ==
  /\ Ordered(Plan) /\ Plan \in Without(Retries)
  /\ "extensions" \notin o.omit => Has(Plan, "getExtensions")
<1> DEFINE p1 == When("tables" \notin o.omit,
                      <<"getTables">> \o When(o.v10, <<"getPartitionInfo">>) \o <<"getParentInfo">>)
           p2 == When({"tables", "indexes"} \cap o.omit = {},
                      <<"getIndexes">> \o When("indexdefs" \notin o.omit, <<"getIndexDef">>))
           p3 == When("extensions" \notin o.omit, <<"getExtensions">>)
           p4 == When({"tables", "triggers"} \cap o.omit = {}, <<"getDisabledTriggers">>)
           p5 == When("statements" \notin o.omit, <<"getStatements">>)
           p6 == When("bloat" \notin o.omit, <<"getBloat">>)
           p7 == When("citus" \notin o.omit, <<"getCitus">>)
           M  == AskTables \cup AskKnown \cup Retries \cup {"getDisabledTriggers"}
           N  == Late \cup Retries \cup {"getExtensions"}
<1>a. /\ {"getDisabledTriggers", "getStatements", "getBloat", "getCitus"} \subseteq Functions \ N
      /\ "getExtensions" \in Functions \ (Late \cup AskKnown \cup Retries)
  BY DEF Late, GetTables, GetIndexes, AskKnown, Retries, Functions
<1>1. /\ p3 \in Without(Late \cup AskKnown \cup Retries)
      /\ p4 \in Without(N) /\ p5 \in Without(N) /\ p6 \in Without(N) /\ p7 \in Without(N)
  BY <1>a, Maybes
<1>1a. "extensions" \notin o.omit => Has(p3, "getExtensions")
  BY DEF When, Has
<1>2. /\ p1 \in Without(GetIndexes \cup M) /\ NotAfter(p1, GetTables, GetTables)
      /\ p2 \in Without(GetTables \cup M) /\ NotAfter(p2, GetIndexes, GetIndexes)
  <2>1. /\ GetIndexes \cup M = GetIndexes \cup AskTables \cup AskKnown \cup Retries
                                  \cup {"getDisabledTriggers"}
        /\ GetTables \cup M = GetTables \cup AskTables \cup AskKnown \cup Retries
                                  \cup {"getDisabledTriggers"}
    OBVIOUS
  <2> QED BY <2>1, FirstPart, SecondPart
<1> HIDE DEF p1, p2, p3, p4, p5, p6, p7
<1>3. Ordered(p1 \o p2) /\ p1 \o p2 \in Without(Retries) /\ p1 \o p2 \in Without(AskKnown)
  <2>1. /\ p1 \in Seq(Functions) /\ p1 \in Without(GetIndexes) /\ p1 \in Without(M)
    BY <1>2, SeqMonotonic DEF Without
  <2>2. /\ p2 \in Seq(Functions) /\ p2 \in Without(GetTables) /\ p2 \in Without(M)
    BY <1>2, SeqMonotonic DEF Without
  <2>3. p1 \o p2 \in Seq(Functions) /\ NotAfter(p1 \o p2, GetTables, GetTables)
    BY <1>2, <2>1, <2>2, OrderVoid, OrderJoin
  <2>4. NotAfter(p1 \o p2, GetIndexes, GetIndexes)
    BY <1>2, <2>1, <2>2, OrderVoid, OrderJoin
  <2>5. p1 \o p2 \in Without(M)
    BY <2>1, <2>2, JoinWithout
  <2>6. /\ p1 \o p2 \in Without(AskTables) /\ p1 \o p2 \in Without({"getDisabledTriggers"})
        /\ p1 \o p2 \in Without(AskKnown) /\ p1 \o p2 \in Without(Retries)
    BY <2>5, SeqMonotonic DEF Without
  <2> QED BY <2>3, <2>4, <2>6, OrderVoid DEF Ordered
<1>4. /\ p3 \in Without(Late) /\ p3 \in Without(AskKnown) /\ p3 \in Without(Retries)
      /\ \A p \in {p4, p5, p6, p7} : /\ p \in Without(Late) /\ p \in Without({"getExtensions"})
                                     /\ p \in Without(Retries)
  BY <1>1, SeqMonotonic DEF Without
<1>5. Ordered(p1 \o p2 \o p3) /\ p1 \o p2 \o p3 \in Without(Retries)
      /\ ("extensions" \notin o.omit => Has(p1 \o p2 \o p3, "getExtensions"))
  BY <1>1a, <1>3, <1>4, OrderedMore, JoinWithout, HasJoin DEF Without
<1> DEFINE Fine(s) == /\ Ordered(s) /\ s \in Without(Retries)
                      /\ "extensions" \notin o.omit => Has(s, "getExtensions")
<1>6. ASSUME NEW s, Fine(s), NEW p \in {p4, p5, p6, p7} PROVE Fine(s \o p)
  BY <1>4, <1>6, OrderedMore, JoinWithout, HasJoin DEF Without
<1>7. Fine(p1 \o p2 \o p3)
  BY <1>5
<1> HIDE DEF Fine
<1>8. Fine(p1 \o p2 \o p3 \o p4 \o p5 \o p6 \o p7)
  BY <1>6, <1>7
<1> QED BY <1>8 DEF Fine, Plan, p1, p2, p3, p4, p5, p6, p7

LEMMA OrderedTail ==
  ASSUME NEW s, s # <<>>, Ordered(s)
  PROVE  /\ Ordered(Tail(s))
         /\ Head(s) \in GetTables => Tail(s) \in Without(GetTables)
         /\ Head(s) \in GetIndexes => Tail(s) \in Without(GetIndexes)
         /\ Head(s) \in AskTables => Tail(s) \in Without(GetTables \cup GetIndexes)
         /\ Head(s) = "getDisabledTriggers" => Tail(s) \in Without(GetTables)
         /\ Head(s) \in AskKnown => Tail(s) \in Without({"getExtensions"})
BY OrderTail DEF Ordered

LEMMA OrderedAgain ==
  ASSUME NEW s, s # <<>>, Ordered(s),
         NEW f, \/ f = "getTablesAgain" /\ Head(s) = "getTables"
                \/ f = "getIndexesAgain" /\ Head(s) = "getIndexes"
  PROVE  Ordered(<<f>> \o Tail(s))
<1>1. f \in Functions /\ f \notin AskTables /\ f # "getDisabledTriggers" /\ f \notin AskKnown
  BY DEF Functions, AskTables, AskKnown
<1>2. (f \in GetTables => Head(s) \in GetTables) /\ (f \in GetIndexes => Head(s) \in GetIndexes)
  BY DEF GetTables, GetIndexes
<1> QED BY <1>1, <1>2, OrderAgain DEF Ordered

-----------------------------------------------------------------------------
(***************************************************************************)
(* The lists of rows.  Same: the rows are edited in place.  Extends: rows  *)
(* of database d, with different OIDs, come after them.                    *)
(***************************************************************************)
Same(rows, new) ==
  /\ DOMAIN new = DOMAIN rows /\ Len(new) = Len(rows)
  /\ \A i \in DOMAIN rows : new[i].db = rows[i].db /\ new[i].oid = rows[i].oid

Extends(rows, new, d) ==
  /\ Len(rows) \in Nat /\ Len(new) \in Nat /\ Len(rows) <= Len(new)
  /\ DOMAIN rows = 1 .. Len(rows) /\ DOMAIN new = 1 .. Len(new)
  /\ \A i \in DOMAIN rows : new[i].db = rows[i].db /\ new[i].oid = rows[i].oid
  /\ \A i \in DOMAIN new : i > Len(rows) => new[i].db = d
  /\ \A i, j \in DOMAIN new : Len(rows) < i /\ i < j => new[i].oid # new[j].oid

LEMMA Ascends ==
  ASSUME NEW S, S \subseteq Oids, NEW s \in Ascending(S)
  PROVE  /\ s \in Seq(S)
         /\ \A i, j \in DOMAIN s : i < j => s[i] # s[j]
<1>1. Cardinality(S) \in Nat
  BY OidsAreNumbers, FS_Subset, FS_CardinalityType
<1>2. s \in [1 .. Cardinality(S) -> S] /\ \A i, j \in DOMAIN s : i < j => s[i] < s[j]
  BY DEF Ascending
<1>3. s \in Seq(S)
  BY <1>1, <1>2, SeqDef
<1>4. ASSUME NEW i \in DOMAIN s, NEW j \in DOMAIN s, i < j PROVE s[i] # s[j]
  <2>1. s[i] < s[j] /\ s[i] \in Nat /\ s[j] \in Nat
    BY <1>2, <1>4, OidsAreNumbers
  <2> QED BY <2>1
<1> QED BY <1>3, <1>4

LEMMA Edited ==
  ASSUME NEW T, NEW rows \in Seq(T), NEW new, new = [i \in DOMAIN rows |-> new[i]],
         \A i \in DOMAIN rows : /\ new[i] \in T /\ new[i].db = rows[i].db
                                /\ new[i].oid = rows[i].oid
  PROVE  new \in Seq(T) /\ Same(rows, new)
<1>1. Len(rows) \in Nat /\ DOMAIN rows = 1 .. Len(rows)
  BY LenProperties
<1>2. new \in [1 .. Len(rows) -> T]
  BY <1>1
<1>3. new \in Seq(T)
  BY <1>1, <1>2, SeqDef
<1>4. Len(new) = Len(rows) /\ DOMAIN new = DOMAIN rows
  BY <1>1, <1>2, <1>3, LenProperties
<1> QED BY <1>3, <1>4 DEF Same

\* What is where in a concatenation.
LEMMA Places ==
  ASSUME NEW T, NEW rows \in Seq(T), NEW more \in Seq(T)
  PROVE  /\ rows \o more \in Seq(T)
         /\ Len(rows) \in Nat /\ Len(more) \in Nat /\ Len(rows \o more) = Len(rows) + Len(more)
         /\ DOMAIN rows = 1 .. Len(rows) /\ DOMAIN more = 1 .. Len(more)
         /\ DOMAIN (rows \o more) = 1 .. Len(rows) + Len(more)
         /\ \A i \in DOMAIN rows : (rows \o more)[i] = rows[i]
         /\ \A i \in DOMAIN (rows \o more) : i > Len(rows) =>
              i - Len(rows) \in DOMAIN more /\ (rows \o more)[i] = more[i - Len(rows)]
<1>1. /\ rows \o more \in Seq(T) /\ Len(rows \o more) = Len(rows) + Len(more)
      /\ \A i \in 1 .. Len(rows) + Len(more) :
           (rows \o more)[i] = IF i <= Len(rows) THEN rows[i] ELSE more[i - Len(rows)]
  BY ConcatProperties
<1>2. Len(rows) \in Nat /\ Len(more) \in Nat /\ DOMAIN rows = 1 .. Len(rows) /\ DOMAIN more = 1 .. Len(more)
  BY LenProperties
<1>3. DOMAIN (rows \o more) = 1 .. Len(rows) + Len(more)
  BY <1>1, LenProperties
<1>4. ASSUME NEW i \in DOMAIN rows PROVE (rows \o more)[i] = rows[i]
  <2>1. i \in 1 .. Len(rows) + Len(more) /\ i <= Len(rows)
    BY <1>2
  <2> QED BY <1>1, <2>1
<1>5. ASSUME NEW i \in DOMAIN (rows \o more), i > Len(rows)
      PROVE  i - Len(rows) \in DOMAIN more /\ (rows \o more)[i] = more[i - Len(rows)]
  <2>1. i \in 1 .. Len(rows) + Len(more) /\ ~(i <= Len(rows)) /\ i - Len(rows) \in DOMAIN more
    BY <1>2, <1>3, <1>5
  <2> QED BY <1>1, <2>1
<1> QED BY <1>1, <1>2, <1>3, <1>4, <1>5

\* The rows that a query adds: one per table, in the order of the OIDs.
LEMMA Added ==
  ASSUME NEW T, NEW rows \in Seq(T), NEW S, S \subseteq Oids, NEW s \in Ascending(S),
         NEW more, more = [i \in DOMAIN s |-> more[i]], NEW d,
         \A i \in DOMAIN s : more[i] \in T /\ more[i].db = d /\ more[i].oid = s[i]
  PROVE  rows \o more \in Seq(T) /\ Extends(rows, rows \o more, d)
<1>1. s \in Seq(S) /\ Len(s) \in Nat /\ DOMAIN s = 1 .. Len(s)
      /\ \A i, j \in DOMAIN s : i < j => s[i] # s[j]
  BY Ascends, LenProperties
<1>2. more \in [1 .. Len(s) -> T]
  BY <1>1
<1>3. more \in Seq(T)
  BY <1>1, <1>2, SeqDef
<1>4. Len(more) = Len(s) /\ Len(rows) \in Nat /\ DOMAIN rows = 1 .. Len(rows)
  BY <1>1, <1>2, <1>3, LenProperties
<1> DEFINE new == rows \o more
<1>5. /\ new \in Seq(T) /\ Len(new) = Len(rows) + Len(more) /\ DOMAIN new = 1 .. Len(rows) + Len(more)
      /\ \A i \in DOMAIN rows : new[i] = rows[i]
      /\ \A i \in DOMAIN new : i > Len(rows) =>
           i - Len(rows) \in DOMAIN more /\ new[i] = more[i - Len(rows)]
  BY <1>3, Places
<1> HIDE DEF new
<1>6. \A i \in DOMAIN rows : new[i] = rows[i]
  BY <1>5
<1>7. \A i \in DOMAIN new : i > Len(rows) =>
        /\ i - Len(rows) \in DOMAIN s /\ new[i].db = d /\ new[i].oid = s[i - Len(rows)]
  BY <1>2, <1>5
<1>8. ASSUME NEW i \in DOMAIN new, NEW j \in DOMAIN new, Len(rows) < i, i < j
      PROVE  new[i].oid # new[j].oid
  <2>1. i - Len(rows) < j - Len(rows) /\ j > Len(rows)
    BY <1>1, <1>4, <1>5, <1>8
  <2>2. s[i - Len(rows)] # s[j - Len(rows)]
    BY <1>1, <1>7, <1>8, <2>1
  <2> QED BY <1>7, <1>8, <2>1, <2>2
<1>9. Len(new) \in Nat /\ Len(rows) <= Len(new)
  BY <1>1, <1>4, <1>5
<1>10. Extends(rows, new, d)
  BY <1>4, <1>5, <1>6, <1>7, <1>8, <1>9 DEF Extends
<1> QED BY <1>5, <1>10 DEF new

LEMMA RowEdits ==
  ASSUME NEW d \in DBs
  PROVE  /\ \A r \in TableRow :
              /\ [r EXCEPT !.parent = d] \in TableRow /\ [r EXCEPT !.bloat = TRUE] \in TableRow
              /\ [r EXCEPT !.size = "citus"] \in TableRow
              /\ [r EXCEPT !.parent = d].db = r.db /\ [r EXCEPT !.parent = d].oid = r.oid
              /\ [r EXCEPT !.bloat = TRUE].db = r.db /\ [r EXCEPT !.bloat = TRUE].oid = r.oid
              /\ [r EXCEPT !.size = "citus"].db = r.db /\ [r EXCEPT !.size = "citus"].oid = r.oid
         /\ \A r \in IndexRow :
              /\ [r EXCEPT !.defn = d] \in IndexRow /\ [r EXCEPT !.bloat = TRUE] \in IndexRow
              /\ [r EXCEPT !.defn = d].db = r.db /\ [r EXCEPT !.defn = d].oid = r.oid
              /\ [r EXCEPT !.bloat = TRUE].db = r.db /\ [r EXCEPT !.bloat = TRUE].oid = r.oid
BY DEF TableRow, IndexRow

-----------------------------------------------------------------------------
(***************************************************************************)
(* A list of rows while it is filled.  rows: the list; seen: the abandoned *)
(* attempts; dbs: the databases collected; d: the one that is asked; left: *)
(* the functions still to be called; ask, again: those that add to it.     *)
(***************************************************************************)
TwiceIn(rows, seen, list) ==
  \A i, j \in DOMAIN rows :
    i < j /\ rows[i].db = rows[j].db /\ rows[i].oid = rows[j].oid =>
      /\ <<rows[i].db, list>> \in seen
      /\ \A k \in DOMAIN rows : k \notin {i, j} =>
           rows[k].db # rows[i].db \/ rows[k].oid # rows[i].oid

Single(rows, d) ==
  \A i, j \in DOMAIN rows :
    i < j /\ rows[i].db = d /\ rows[j].db = d => rows[i].oid # rows[j].oid

ListInv(rows, seen, list, dbs, d, left, ask, again) ==
  /\ \A i \in DOMAIN rows : Has(dbs, rows[i].db)
  /\ TwiceIn(rows, seen, list)
  /\ Has(left, ask) => \A i \in DOMAIN rows : rows[i].db # d
  /\ Has(left, again) => <<d, list>> \in seen /\ Single(rows, d)

\* Rows are edited, databases and attempts are added, functions called.
LEMMA InvSame ==
  ASSUME NEW rows, NEW new, NEW seen, NEW seen2, NEW list, NEW dbs, NEW dbs2, NEW d, NEW d2,
         NEW left, NEW left2, NEW ask, NEW again,
         ListInv(rows, seen, list, dbs, d, left, ask, again),
         Same(rows, new), seen \subseteq seen2, \A e : Has(dbs, e) => Has(dbs2, e),
         Has(left2, ask) => Has(left, ask) /\ d2 = d,
         Has(left2, again) => Has(left, again) /\ d2 = d
  PROVE  ListInv(new, seen2, list, dbs2, d2, left2, ask, again)
<1>1. \A i \in DOMAIN new : Has(dbs2, new[i].db)
  BY DEF ListInv, Same
<1>2. TwiceIn(new, seen2, list)
  BY DEF ListInv, Same, TwiceIn
<1>3. Has(left2, ask) => \A i \in DOMAIN new : new[i].db # d2
  BY DEF ListInv, Same
<1>4. Has(left2, again) => <<d2, list>> \in seen2 /\ Single(new, d2)
  BY DEF ListInv, Same, Single
<1> QED BY <1>1, <1>2, <1>3, <1>4 DEF ListInv

\* Rows are added, for the first time or after an abandoned attempt.
LEMMA InvAdd ==
  ASSUME NEW rows, NEW new, NEW seen, NEW seen2, NEW list, NEW dbs, NEW d,
         NEW left, NEW left2, NEW ask, NEW again,
         ListInv(rows, seen, list, dbs, d, left, ask, again),
         Extends(rows, new, d), Has(left, ask) \/ Has(left, again),
         seen \subseteq seen2, Has(dbs, d), ~Has(left2, ask),
         Has(left2, again) => Has(left, ask) /\ <<d, list>> \in seen2
  PROVE  ListInv(new, seen2, list, dbs, d, left2, ask, again)
<1> DEFINE n == Len(rows)
<1>1. /\ n \in Nat /\ DOMAIN rows = 1 .. n /\ DOMAIN new \subseteq Nat
      /\ DOMAIN rows \subseteq DOMAIN new
      /\ \A i \in DOMAIN new : i <= n => i \in DOMAIN rows
  BY DEF Extends
<1>2. \A i \in DOMAIN new : i <= n => new[i].db = rows[i].db /\ new[i].oid = rows[i].oid
  BY <1>1 DEF Extends
<1>3. \A i \in DOMAIN new : ~(i <= n) => new[i].db = d
  BY <1>1 DEF Extends
<1>4. \A i, j \in DOMAIN new : ~(i <= n) /\ i < j => new[i].oid # new[j].oid
  BY <1>1 DEF Extends
<1>4a. \A i, j \in DOMAIN new : ~(i <= n) /\ i < j => ~(j <= n)
  BY <1>1
<1> HIDE DEF n
<1>5. \A i \in DOMAIN new : Has(dbs, new[i].db)
  BY <1>1, <1>2, <1>3 DEF ListInv
<1>6. Single(rows, d) /\ (Has(left, ask) => \A i \in DOMAIN rows : rows[i].db # d)
  BY DEF ListInv, Single
<1>7. TwiceIn(new, seen2, list)
  <2> SUFFICES ASSUME NEW i \in DOMAIN new, NEW j \in DOMAIN new, i < j,
                      new[i].db = new[j].db, new[i].oid = new[j].oid
               PROVE  /\ <<new[i].db, list>> \in seen2
                      /\ \A k \in DOMAIN new : k \notin {i, j} =>
                           new[k].db # new[i].db \/ new[k].oid # new[i].oid
    BY DEF TwiceIn
  <2>0. i <= n
    BY <1>4
  <2>1. CASE j <= n
    <3>1. /\ <<rows[i].db, list>> \in seen
          /\ \A k \in DOMAIN rows : k \notin {i, j} =>
               rows[k].db # rows[i].db \/ rows[k].oid # rows[i].oid
      BY <1>1, <1>2, <2>0, <2>1 DEF ListInv, TwiceIn
    <3>2. ASSUME NEW k \in DOMAIN new, ~(k <= n) PROVE new[k].db # new[i].db
      BY <1>1, <1>2, <1>3, <1>6, <2>0, <2>1, <3>2 DEF Single
    <3> QED BY <1>1, <1>2, <2>0, <2>1, <3>1, <3>2
  <2>2. CASE ~(j <= n)
    <3>1. new[i].db = d /\ rows[i].db = d /\ i \in DOMAIN rows
      BY <1>1, <1>2, <1>3, <2>0, <2>2
    <3>2. <<d, list>> \in seen
      BY <1>6, <3>1 DEF ListInv
    <3>3. ASSUME NEW k \in DOMAIN new, k # i, k # j, new[k].db = d, new[k].oid = new[i].oid
          PROVE  FALSE
      <4>1. CASE k <= n
        <5>1. k \in DOMAIN rows /\ rows[k].db = d /\ rows[k].oid = rows[i].oid
          BY <1>1, <1>2, <2>0, <3>3, <4>1
        <5>2. k < i \/ i < k
          BY <1>1, <3>1, <3>3, <5>1
        <5> QED BY <1>6, <3>1, <5>1, <5>2 DEF Single
      <4>2. CASE ~(k <= n)
        <5>1. k < j \/ j < k
          BY <1>1, <3>3
        <5> QED BY <1>4, <2>2, <3>3, <4>2, <5>1
      <4> QED BY <4>1, <4>2
    <3> QED BY <3>1, <3>2, <3>3
  <2> QED BY <2>1, <2>2
<1>8. ASSUME Has(left2, again) PROVE <<d, list>> \in seen2 /\ Single(new, d)
  <2>1. \A i \in DOMAIN new : i <= n => new[i].db # d
    BY <1>1, <1>2, <1>6, <1>8
  <2>2. Single(new, d)
    BY <1>4, <2>1 DEF Single
  <2> QED BY <1>8, <2>2
<1> QED BY <1>5, <1>7, <1>8 DEF ListInv

-----------------------------------------------------------------------------
(***************************************************************************)
(* What every step does to the lists.                                      *)
(***************************************************************************)
\* Types, and the plan of a database that was noted as collected.
Legal ==
  /\ TypeOK
  /\ pc = "query" => /\ turn <= Len(o.turns) /\ Ordered(todo) /\ Has(collectedDBs, db)

LEMMA Here ==
  ASSUME Legal, pc = "query"
  PROVE  db \in DBs /\ exists[db] \subseteq Oids
<1>1. o.turns \in Seq(DBs)
  BY WorldsAreWorlds DEF Legal, TypeOK, ServerType, World
<1>2. turn \in 1 .. Len(o.turns)
  <2>1. Len(o.turns) \in Nat
    BY <1>1, LenProperties
  <2> QED BY <2>1 DEF Legal, TypeOK, PlaceType
<1>3. o.turns[turn] \in DBs
  BY <1>1, <1>2, ElementOfSeq
<1> QED BY <1>3 DEF db, Legal, TypeOK, ServerType

LEMMA TablesAdded ==
  ASSUME Legal, pc = "query", NEW S, S \subseteq exists[db], NEW size \in {"none", "table"},
         AddTables(S, size)
  PROVE  /\ tables' \in Seq(TableRow) /\ Extends(tables, tables', db)
         /\ \A i \in DOMAIN tables : tables'[i] = tables[i]
         /\ \A i \in DOMAIN tables' : i > Len(tables) =>
              ~tables'[i].bloat /\ tables'[i].size # "citus" /\ tables'[i].parent = NoDB
<1>1. db \in DBs /\ TableOK(S) \subseteq Oids /\ tables \in Seq(TableRow)
  BY Here DEF TableOK, Legal, TypeOK, ListsType
<1>2. PICK s \in Ascending(TableOK(S)) :
        tables' = tables \o [i \in DOMAIN s |-> [db |-> db, oid |-> s[i], size |-> size,
                                                parent |-> NoDB, bloat |-> FALSE]]
  BY DEF AddTables
<1> DEFINE more == [i \in DOMAIN s |-> [db |-> db, oid |-> s[i], size |-> size,
                                       parent |-> NoDB, bloat |-> FALSE]]
<1>3. s \in Seq(TableOK(S))
  BY <1>1, Ascends
<1>4. ASSUME NEW i \in DOMAIN s
      PROVE  more[i] \in TableRow /\ more[i].db = db /\ more[i].oid = s[i]
  <2>1. s[i] \in Oids
    BY <1>1, <1>3, ElementOfSeq, LenProperties
  <2>2. FALSE \in BOOLEAN
    OBVIOUS
  <2> QED BY <1>1, <2>1, <2>2 DEF TableRow
<1>5. /\ more = [i \in DOMAIN s |-> more[i]]
      /\ \A i \in DOMAIN s : ~more[i].bloat /\ more[i].size # "citus" /\ more[i].parent = NoDB
  OBVIOUS
<1>5a. DOMAIN more = DOMAIN s
  OBVIOUS
<1> HIDE DEF more
<1>6. tables \o more \in Seq(TableRow) /\ Extends(tables, tables \o more, db)
  BY <1>1, <1>4, <1>5, Added
<1>7. more \in Seq(TableRow)
  <2>1. more \in [1 .. Len(s) -> TableRow] /\ Len(s) \in Nat
    BY <1>3, <1>4, <1>5, LenProperties
  <2> QED BY <2>1, SeqDef
<1>8. /\ \A i \in DOMAIN tables : (tables \o more)[i] = tables[i]
      /\ \A i \in DOMAIN (tables \o more) : i > Len(tables) =>
           /\ ~(tables \o more)[i].bloat /\ (tables \o more)[i].size # "citus"
           /\ (tables \o more)[i].parent = NoDB
  BY <1>1, <1>5, <1>5a, <1>7, Places
<1>9. tables' = tables \o more
  BY <1>2 DEF more
<1> QED BY <1>6, <1>8, <1>9

LEMMA IndexesAdded ==
  ASSUME Legal, pc = "query", NEW S, S \subseteq exists[db], NEW sized \in BOOLEAN,
         AddIndexes(S, sized)
  PROVE  /\ indexes' \in Seq(IndexRow) /\ Extends(indexes, indexes', db)
         /\ \A i \in DOMAIN indexes : indexes'[i] = indexes[i]
         /\ \A i \in DOMAIN indexes' : i > Len(indexes) => ~indexes'[i].bloat /\ indexes'[i].defn = NoDB
<1> DEFINE R == TableOK(S) \cap Those(o.indexed)
<1>1. db \in DBs /\ R \subseteq Oids /\ indexes \in Seq(IndexRow)
  BY Here DEF TableOK, Legal, TypeOK, ListsType
<1>2. PICK s \in Ascending(R) :
        indexes' = indexes \o [i \in DOMAIN s |-> [db |-> db, oid |-> s[i], sized |-> sized,
                                                  defn |-> NoDB, bloat |-> FALSE]]
  BY DEF AddIndexes
<1> DEFINE more == [i \in DOMAIN s |-> [db |-> db, oid |-> s[i], sized |-> sized,
                                       defn |-> NoDB, bloat |-> FALSE]]
<1>3. s \in Seq(R)
  BY <1>1, Ascends
<1>4. ASSUME NEW i \in DOMAIN s
      PROVE  more[i] \in IndexRow /\ more[i].db = db /\ more[i].oid = s[i]
  <2>1. s[i] \in Oids
    BY <1>1, <1>3, ElementOfSeq, LenProperties
  <2>2. FALSE \in BOOLEAN
    OBVIOUS
  <2> QED BY <1>1, <2>1, <2>2 DEF IndexRow
<1>5. /\ more = [i \in DOMAIN s |-> more[i]]
      /\ \A i \in DOMAIN s : ~more[i].bloat /\ more[i].defn = NoDB
  OBVIOUS
<1>5a. DOMAIN more = DOMAIN s
  OBVIOUS
<1> HIDE DEF more
<1>6. indexes \o more \in Seq(IndexRow) /\ Extends(indexes, indexes \o more, db)
  BY <1>1, <1>4, <1>5, Added
<1>7. more \in Seq(IndexRow)
  <2>1. more \in [1 .. Len(s) -> IndexRow] /\ Len(s) \in Nat
    BY <1>3, <1>4, <1>5, LenProperties
  <2> QED BY <2>1, SeqDef
<1>8. /\ \A i \in DOMAIN indexes : (indexes \o more)[i] = indexes[i]
      /\ \A i \in DOMAIN (indexes \o more) : i > Len(indexes) =>
           ~(indexes \o more)[i].bloat /\ (indexes \o more)[i].defn = NoDB
  BY <1>1, <1>5, <1>5a, <1>7, Places
<1>9. indexes' = indexes \o more
  BY <1>2 DEF more
<1> QED BY <1>6, <1>8, <1>9

LEMMA SameItself ==
  ASSUME NEW T, NEW rows \in Seq(T)
  PROVE  Same(rows, rows)
BY DEF Same

LEMMA ParentsSet ==
  ASSUME Legal, pc = "query", NEW S, SetParent(S)
  PROVE  tables' \in Seq(TableRow) /\ Same(tables, tables')
<1>1. db \in DBs /\ tables \in Seq(TableRow) /\ \A i \in DOMAIN tables : tables[i] \in TableRow
  BY Here, ElementOfSeq, LenProperties DEF Legal, TypeOK, ListsType
<1>2. tables' = [i \in DOMAIN tables |->
                   IF FoundByOID(tables, i) /\ tables[i].oid \in S
                   THEN [tables[i] EXCEPT !.parent = db] ELSE tables[i]]
  BY DEF SetParent
<1>3. \A i \in DOMAIN tables : /\ tables'[i] \in TableRow
                               /\ tables'[i].db = tables[i].db /\ tables'[i].oid = tables[i].oid
  <2> TAKE i \in DOMAIN tables
  <2>1. tables'[i] = tables[i] \/ tables'[i] = [tables[i] EXCEPT !.parent = db]
    BY <1>2
  <2>2. /\ [tables[i] EXCEPT !.parent = db] \in TableRow
        /\ [tables[i] EXCEPT !.parent = db].db = tables[i].db /\ [tables[i] EXCEPT !.parent = db].oid = tables[i].oid
    BY <1>1 DEF TableRow
  <2> QED BY <1>1, <2>1, <2>2
<1>4. tables' = [i \in DOMAIN tables |-> tables'[i]]
  BY <1>2
<1> QED BY <1>1, <1>3, <1>4, Edited

LEMMA DefinitionsSet ==
  ASSUME Legal, pc = "query", AnswerIndexDef
  PROVE  indexes' \in Seq(IndexRow) /\ Same(indexes, indexes')
<1>1. db \in DBs /\ indexes \in Seq(IndexRow) /\ \A i \in DOMAIN indexes : indexes[i] \in IndexRow
  BY Here, ElementOfSeq, LenProperties DEF Legal, TypeOK, ListsType
<1>2. PICK S \in SUBSET Those(o.indexed) :
        indexes' = [i \in DOMAIN indexes |->
                      IF FoundByOID(indexes, i) /\ indexes[i].oid \in S
                      THEN [indexes[i] EXCEPT !.defn = db] ELSE indexes[i]]
  BY DEF AnswerIndexDef
<1>3. \A i \in DOMAIN indexes : /\ indexes'[i] \in IndexRow
                                /\ indexes'[i].db = indexes[i].db /\ indexes'[i].oid = indexes[i].oid
  <2> TAKE i \in DOMAIN indexes
  <2>1. indexes'[i] = indexes[i] \/ indexes'[i] = [indexes[i] EXCEPT !.defn = db]
    BY <1>2
  <2>2. /\ [indexes[i] EXCEPT !.defn = db] \in IndexRow
        /\ [indexes[i] EXCEPT !.defn = db].db = indexes[i].db /\ [indexes[i] EXCEPT !.defn = db].oid = indexes[i].oid
    BY <1>1 DEF IndexRow
  <2> QED BY <1>1, <2>1, <2>2
<1>4. indexes' = [i \in DOMAIN indexes |-> indexes'[i]]
  BY <1>2
<1> QED BY <1>1, <1>3, <1>4, Edited

LEMMA BloatSet ==
  ASSUME Legal, pc = "query", AnswerBloat
  PROVE  /\ tables' \in Seq(TableRow) /\ Same(tables, tables')
         /\ indexes' \in Seq(IndexRow) /\ Same(indexes, indexes')
<1>1. /\ db \in DBs
      /\ tables \in Seq(TableRow) /\ \A i \in DOMAIN tables : tables[i] \in TableRow
      /\ indexes \in Seq(IndexRow) /\ \A i \in DOMAIN indexes : indexes[i] \in IndexRow
  BY Here, ElementOfSeq, LenProperties DEF Legal, TypeOK, ListsType
<1>2. /\ tables' = [i \in DOMAIN tables |->
                      IF FoundByName(tables, i) /\ tables[i].oid \in Those(o.bloated)
                      THEN [tables[i] EXCEPT !.bloat = TRUE] ELSE tables[i]]
      /\ indexes' = [i \in DOMAIN indexes |->
                      IF FoundByName(indexes, i) /\ indexes[i].oid \in Those(o.bloated \cap o.indexed)
                      THEN [indexes[i] EXCEPT !.bloat = TRUE] ELSE indexes[i]]
  BY DEF AnswerBloat, SetBloat
<1>3. \A i \in DOMAIN tables : /\ tables'[i] \in TableRow
                               /\ tables'[i].db = tables[i].db /\ tables'[i].oid = tables[i].oid
  <2> TAKE i \in DOMAIN tables
  <2>1. tables'[i] = tables[i] \/ tables'[i] = [tables[i] EXCEPT !.bloat = TRUE]
    BY <1>2
  <2> QED BY <1>1, <2>1, RowEdits
<1>4. \A i \in DOMAIN indexes : /\ indexes'[i] \in IndexRow
                                /\ indexes'[i].db = indexes[i].db /\ indexes'[i].oid = indexes[i].oid
  <2> TAKE i \in DOMAIN indexes
  <2>1. indexes'[i] = indexes[i] \/ indexes'[i] = [indexes[i] EXCEPT !.bloat = TRUE]
    BY <1>2
  <2> QED BY <1>1, <2>1, RowEdits
<1>5. tables' = [i \in DOMAIN tables |-> tables'[i]] /\ indexes' = [i \in DOMAIN indexes |-> indexes'[i]]
  BY <1>2
<1> QED BY <1>1, <1>3, <1>4, <1>5, Edited

LEMMA SizesSet ==
  ASSUME Legal, pc = "query", GetCitus
  PROVE  tables' \in Seq(TableRow) /\ Same(tables, tables')
<1>1. db \in DBs /\ tables \in Seq(TableRow) /\ \A i \in DOMAIN tables : tables[i] \in TableRow
  BY Here, ElementOfSeq, LenProperties DEF Legal, TypeOK, ListsType
<1>2. CASE UNCHANGED tables
  BY <1>1, <1>2, SameItself
<1>3. ASSUME NEW S, tables' = [i \in DOMAIN tables |->
                                 IF FoundByName(tables, i) /\ tables[i].oid \in S
                                 THEN [tables[i] EXCEPT !.size = "citus"] ELSE tables[i]]
      PROVE  tables' \in Seq(TableRow) /\ Same(tables, tables')
  <2>1. \A i \in DOMAIN tables : /\ tables'[i] \in TableRow
                                 /\ tables'[i].db = tables[i].db /\ tables'[i].oid = tables[i].oid
    <3> TAKE i \in DOMAIN tables
    <3>1. tables'[i] = tables[i] \/ tables'[i] = [tables[i] EXCEPT !.size = "citus"]
      BY <1>3
    <3> QED BY <1>1, <3>1, RowEdits
  <2>2. tables' = [i \in DOMAIN tables |-> tables'[i]]
    BY <1>3
  <2> QED BY <1>1, <2>1, <2>2, Edited
<1> QED BY <1>2, <1>3 DEF GetCitus

\* The steps that leave tables and indexes alone.
Quiet == \/ CollectDatabase \/ EndDatabase \/ Report \/ Dies \/ AnswerExtensions
         \/ AnswerDisabledTriggers \/ GetStatements \/ Create \/ Drop \/ UNCHANGED vars

LEMMA QuietLists == Quiet => UNCHANGED <<tables, indexes>>
<1>1. CollectDatabase \/ EndDatabase \/ Report \/ Dies => UNCHANGED <<tables, indexes>>
  BY DEF CollectDatabase, EndDatabase, LeaveDatabase, Report, Dies, lists
<1>2. AnswerExtensions \/ AnswerDisabledTriggers \/ GetStatements => UNCHANGED <<tables, indexes>>
  BY DEF AnswerExtensions, AnswerDisabledTriggers, AddTriggers, GetStatements, lists
<1>3. Create \/ Drop => UNCHANGED <<tables, indexes>>
  BY DEF Create, Drop, Alter, lists
<1>4. UNCHANGED vars => UNCHANGED <<tables, indexes>>
  BY DEF vars, lists
<1> QED BY <1>1, <1>2, <1>3, <1>4 DEF Quiet

\* The steps that edit rows in place.
Editing == AnswerPartitionInfo \/ AnswerParentInfo \/ AnswerIndexDef \/ AnswerBloat \/ GetCitus

LEMMA NextSplit ==
  ASSUME [Next]_vars
  PROVE  Quiet \/ Editing \/ AnswerTables \/ TablesLockTimeout \/ AnswerIndexes \/ IndexesLockTimeout
BY DEF Next, Program, Quiet, Editing

\* Every step edits the rows of both lists, or adds to one of them.
LEMMA Walk ==
  ASSUME Legal, [Next]_vars
  PROVE  /\ tables' \in Seq(TableRow) /\ indexes' \in Seq(IndexRow)
         /\ \/ /\ Quiet \/ Editing
               /\ Same(tables, tables') /\ Same(indexes, indexes')
            \/ /\ AnswerTables \/ TablesLockTimeout
               /\ Extends(tables, tables', db) /\ Same(indexes, indexes')
            \/ /\ AnswerIndexes \/ IndexesLockTimeout
               /\ Extends(indexes, indexes', db) /\ Same(tables, tables')
<1>0. tables \in Seq(TableRow) /\ indexes \in Seq(IndexRow)
      /\ Same(tables, tables) /\ Same(indexes, indexes)
  BY SameItself DEF Legal, TypeOK, ListsType
<1>1. CASE Quiet
  BY <1>0, <1>1, QuietLists
<1>2. CASE AnswerPartitionInfo \/ AnswerParentInfo
  <2>1. pc = "query" /\ UNCHANGED indexes /\ \E S : SetParent(S)
    BY <1>2 DEF AnswerPartitionInfo, AnswerParentInfo, Doing, SetParent
  <2> QED BY <1>0, <1>2, <2>1, ParentsSet DEF Editing
<1>3. CASE AnswerIndexDef
  <2>1. pc = "query" /\ UNCHANGED tables
    BY <1>3 DEF AnswerIndexDef, Doing
  <2> QED BY <1>0, <1>3, <2>1, DefinitionsSet DEF Editing
<1>4. CASE AnswerBloat
  <2>1. pc = "query"
    BY <1>4 DEF AnswerBloat, SetBloat, Doing
  <2> QED BY <1>0, <1>4, <2>1, BloatSet DEF Editing
<1>5. CASE GetCitus
  <2>1. pc = "query" /\ UNCHANGED indexes
    BY <1>5 DEF GetCitus, Doing
  <2> QED BY <1>0, <1>5, <2>1, SizesSet DEF Editing
<1>6. CASE AnswerTables
  <2>1. pc = "query" /\ UNCHANGED indexes
        /\ \E size \in {"none", "table"} : AddTables(exists[db], size)
    BY <1>6 DEF AnswerTables, Doing
  <2> QED BY <1>0, <1>6, <2>1, TablesAdded
<1>7. CASE TablesLockTimeout
  <2>1. PICK t \in exists[db] : AddTables({u \in exists[db] : u < t}, "table")
    BY <1>7 DEF TablesLockTimeout
  <2>2. pc = "query" /\ UNCHANGED indexes /\ {u \in exists[db] : u < t} \subseteq exists[db]
    BY <1>7 DEF TablesLockTimeout, Doing
  <2>3. tables' \in Seq(TableRow) /\ Extends(tables, tables', db)
    BY <2>1, <2>2, TablesAdded
  <2> QED BY <1>0, <1>7, <2>2, <2>3
<1>8. CASE AnswerIndexes
  <2>0. o.sizes \in BOOLEAN /\ FALSE \in BOOLEAN
    BY WorldsAreWorlds DEF Legal, TypeOK, ServerType, World
  <2>1. pc = "query" /\ UNCHANGED tables
        /\ \E sized \in BOOLEAN : AddIndexes(exists[db], sized)
    BY <1>8, <2>0 DEF AnswerIndexes, Doing
  <2> QED BY <1>0, <1>8, <2>1, IndexesAdded
<1>9. CASE IndexesLockTimeout
  <2>1. PICK t \in Those(o.indexed) : AddIndexes({u \in exists[db] : u < t}, TRUE)
    BY <1>9 DEF IndexesLockTimeout
  <2>2. pc = "query" /\ UNCHANGED tables /\ {u \in exists[db] : u < t} \subseteq exists[db]
    BY <1>9 DEF IndexesLockTimeout, Doing
  <2>3. TRUE \in BOOLEAN
    OBVIOUS
  <2>4. indexes' \in Seq(IndexRow) /\ Extends(indexes, indexes', db)
    BY <2>1, <2>2, <2>3, IndexesAdded
  <2> QED BY <1>0, <1>9, <2>2, <2>4
<1> QED BY <1>1, <1>2, <1>3, <1>4, <1>5, <1>6, <1>7, <1>8, <1>9, NextSplit DEF Editing

LEMMA Least ==
  ASSUME NEW T, T \subseteq Nat, T # {}
  PROVE  \E m \in T : \A n \in T : m <= n
<1>1. OpToRel(<, Nat) = {p \in Nat \X Nat : p[1] < p[2]}
  BY DEF OpToRel
<1>2. PICK m \in T : \A n \in T : <<n, m>> \notin OpToRel(<, Nat)
  BY NatLessThanWellFounded, WFMin
<1>3. \A n \in T : ~(n < m)
  BY <1>1, <1>2
<1> QED BY <1>3

-----------------------------------------------------------------------------
(***************************************************************************)
(* What every step does to the place in the collection.                    *)
(***************************************************************************)
Stays    == UNCHANGED <<pc, turn, todo, collectedDBs, exit>>
Advances == /\ pc = "query" /\ todo # <<>>
            /\ todo' = Tail(todo) /\ UNCHANGED <<pc, turn, collectedDBs, exit>>

LEMMA Moves ==
  ASSUME [Next]_vars
  PROVE  /\ o' = o /\ retried \subseteq retried'
         /\ \/ Stays /\ Quiet
            \/ CollectDatabase \/ EndDatabase \/ Report \/ Dies
            \/ /\ Advances /\ retried' = retried
               /\ \/ AnswerTables \/ AnswerIndexes \/ Editing
                  \/ AnswerExtensions \/ AnswerDisabledTriggers \/ GetStatements
            \/ TablesLockTimeout \/ IndexesLockTimeout
<1>1. CASE CollectDatabase \/ EndDatabase \/ Report \/ Dies
  BY <1>1 DEF CollectDatabase, EndDatabase, LeaveDatabase, Report, Dies, server
<1>2. CASE Create \/ Drop
  BY <1>2 DEF Create, Drop, Alter, place, Stays, Quiet
<1>3. CASE UNCHANGED vars
  BY <1>3 DEF vars, server, place, Stays, Quiet
<1>4. CASE TablesLockTimeout \/ IndexesLockTimeout
  BY <1>4 DEF TablesLockTimeout, IndexesLockTimeout, server
<1>5. CASE AnswerTables \/ AnswerIndexes
  BY <1>5 DEF AnswerTables, AnswerIndexes, Doing, Goes, server, Advances
<1>6. CASE AnswerExtensions \/ AnswerDisabledTriggers \/ GetStatements
  BY <1>6 DEF AnswerExtensions, AnswerDisabledTriggers, AddTriggers, GetStatements,
              Doing, Goes, server, Advances
<1>7. CASE Editing
  <2>1. CASE AnswerPartitionInfo \/ AnswerParentInfo \/ AnswerIndexDef
    BY <1>7, <2>1 DEF AnswerPartitionInfo, AnswerParentInfo, SetParent, AnswerIndexDef,
                Doing, Goes, server, Advances
  <2>2. CASE AnswerBloat \/ GetCitus
    BY <1>7, <2>2 DEF AnswerBloat, SetBloat, GetCitus, Doing, Goes, server, Advances
  <2> QED BY <1>7, <2>1, <2>2 DEF Editing
<1> QED BY <1>1, <1>2, <1>3, <1>4, <1>5, <1>6, <1>7, NextSplit DEF Quiet

LEMMA HasSplit ==
  ASSUME NEW S, NEW s \in Seq(S), NEW t \in Seq(S), NEW f, Has(s \o t, f)
  PROVE  Has(s, f) \/ Has(t, f)
<1>1. /\ Len(s) \in Nat /\ Len(t) \in Nat
      /\ DOMAIN s = 1 .. Len(s) /\ DOMAIN t = 1 .. Len(t)
      /\ DOMAIN (s \o t) = 1 .. Len(s) + Len(t)
      /\ \A i \in 1 .. Len(s) + Len(t) : (s \o t)[i] = IF i <= Len(s) THEN s[i] ELSE t[i - Len(s)]
  BY ConcatProperties, LenProperties
<1>2. PICK k \in 1 .. Len(s) + Len(t) : (s \o t)[k] = f
  BY <1>1 DEF Has
<1>3. CASE k <= Len(s)
  <2>1. k \in DOMAIN s /\ s[k] = f
    BY <1>1, <1>2, <1>3
  <2> QED BY <2>1 DEF Has
<1>4. CASE ~(k <= Len(s))
  <2>1. k - Len(s) \in DOMAIN t /\ t[k - Len(s)] = f
    BY <1>1, <1>2, <1>4
  <2> QED BY <2>1 DEF Has
<1> QED BY <1>3, <1>4

\* What is in the rest, or in first place, is in the plan.
LEMMA HasTail ==
  ASSUME NEW S, NEW s \in Seq(S), s # <<>>
  PROVE  /\ Tail(s) \in Seq(S) /\ Has(s, Head(s)) /\ Head(s) \in S
         /\ \A f : Has(Tail(s), f) => Has(s, f)
         /\ \A f : Has(s, f) => f = Head(s) \/ Has(Tail(s), f)
<1>1. /\ Tail(s) \in Seq(S) /\ Len(Tail(s)) = Len(s) - 1 /\ Len(s) \in Nat \ {0}
      /\ Head(s) = s[1] /\ Head(s) \in S
      /\ DOMAIN s = 1 .. Len(s) /\ DOMAIN Tail(s) = 1 .. Len(Tail(s))
  <2>1. Tail(s) \in Seq(S) /\ Len(s) \in Nat /\ Len(s) # 0
    BY HeadTailProperties, LenProperties, EmptySeq
  <2>2. Head(s) = s[1] /\ 1 \in 1 .. Len(s)
    BY <2>1
  <2> QED BY <2>1, <2>2, HeadTailProperties, LenProperties, ElementOfSeq
<1>2. \A i \in 1 .. Len(Tail(s)) : Tail(s)[i] = s[i + 1]
  BY <1>1, HeadTailProperties
<1>3. Has(s, Head(s))
  BY <1>1 DEF Has
<1>4. ASSUME NEW f, Has(Tail(s), f) PROVE Has(s, f)
  <2>1. PICK k \in DOMAIN Tail(s) : Tail(s)[k] = f
    BY <1>4 DEF Has
  <2>2. k + 1 \in DOMAIN s /\ s[k + 1] = f
    BY <1>1, <1>2, <2>1
  <2> QED BY <2>2 DEF Has
<1>5. ASSUME NEW f, Has(s, f), f # Head(s) PROVE Has(Tail(s), f)
  <2>1. PICK k \in DOMAIN s : s[k] = f
    BY <1>5 DEF Has
  <2>2. k # 1
    BY <1>1, <1>5, <2>1
  <2>3. k - 1 \in 1 .. Len(Tail(s)) /\ (k - 1) + 1 = k
    BY <1>1, <2>1, <2>2
  <2>4. Tail(s)[k - 1] = f
    BY <1>2, <2>1, <2>3
  <2> QED BY <1>1, <2>3, <2>4 DEF Has
<1> QED BY <1>1, <1>3, <1>4, <1>5

\* A lock timeout: the second attempt takes the place of the first.
LEMMA Retrying ==
  ASSUME Legal, NEW first, NEW again,
         \/ TablesLockTimeout /\ first = "getTables" /\ again = "getTablesAgain"
         \/ IndexesLockTimeout /\ first = "getIndexes" /\ again = "getIndexesAgain"
  PROVE  /\ pc = "query" /\ todo # <<>> /\ UNCHANGED <<pc, turn, collectedDBs, exit>>
         /\ Head(todo) = first /\ todo' = <<again>> \o Tail(todo) /\ Ordered(todo')
         /\ \A f : Has(todo', f) <=> f = again \/ Has(Tail(todo), f)
<1>1. /\ pc = "query" /\ todo # <<>> /\ UNCHANGED <<pc, turn, collectedDBs, exit>>
      /\ Head(todo) = first /\ todo' = <<again>> \o Tail(todo)
  BY DEF TablesLockTimeout, IndexesLockTimeout, Doing
<1>2. Ordered(todo)
  BY <1>1 DEF Legal
<1>3. Ordered(<<again>> \o Tail(todo))
  BY <1>1, <1>2, OrderedAgain
<1>4. <<again>> \in Seq(Functions) /\ Tail(todo) \in Seq(Functions)
  <2>1. again \in Functions
    BY DEF Functions
  <2> QED BY <1>1, <1>2, <2>1, HasTail DEF Ordered
<1>5. ASSUME NEW f PROVE Has(todo', f) <=> f = again \/ Has(Tail(todo), f)
  <2>1. Has(<<again>>, f) <=> f = again
    BY DEF Has
  <2> QED BY <1>1, <1>4, <2>1, HasJoin, HasSplit
<1> QED BY <1>1, <1>3, <1>5

LEMMA Advancing ==
  ASSUME Legal, Advances
  PROVE  /\ Ordered(todo') /\ \A f : Has(todo', f) => Has(todo, f)
         /\ Head(todo) \in GetTables => \A f \in GetTables : ~Has(todo', f)
         /\ Head(todo) \in GetIndexes => \A f \in GetIndexes : ~Has(todo', f)
<1>1. todo # <<>> /\ todo' = Tail(todo) /\ Ordered(todo)
  BY DEF Advances, Legal
<1>2. todo \in Seq(Functions)
  BY <1>1 DEF Ordered
<1> QED BY <1>1, <1>2, OrderedTail, HasTail, HasNot

-----------------------------------------------------------------------------
(***************************************************************************)
(* Types.                                                                  *)
(***************************************************************************)
LEMMA ServerStep ==
  ASSUME Legal, [Next]_vars
  PROVE  ServerType'
<1>0. /\ o \in Worlds /\ o' = o /\ exists \in [DBs -> SUBSET Oids] /\ ddl \in 0 .. o.changes
      /\ o.changes \in Nat
  BY Moves, WorldsAreWorlds DEF Legal, TypeOK, ServerType, World
<1>1. CASE Create \/ Drop
  <2>1. pc = "query" /\ \E T \in SUBSET Oids : Alter(T)
    <3>1. pc = "query" /\ exists[db] \subseteq Oids
      BY <1>1, Here DEF Create, Drop
    <3>2. CASE Create
      <4>1. PICK t \in Oids \ exists[db] : Alter(exists[db] \cup {t})
        BY <3>2 DEF Create
      <4>2. exists[db] \cup {t} \in SUBSET Oids
        BY <3>1
      <4> QED BY <3>1, <4>1, <4>2
    <3>3. CASE Drop
      <4>1. PICK t \in exists[db] : Alter(exists[db] \ {t})
        BY <3>3 DEF Drop
      <4>2. exists[db] \ {t} \in SUBSET Oids
        BY <3>1
      <4> QED BY <3>1, <4>1, <4>2
    <3> QED BY <1>1, <3>2, <3>3
  <2>2. PICK T \in SUBSET Oids : Alter(T)
    BY <2>1
  <2>3. exists' \in [DBs -> SUBSET Oids]
    BY <1>0, <2>2 DEF Alter
  <2>4. ddl < o.changes /\ ddl' = ddl + 1
    BY <2>2 DEF Alter
  <2>5. ddl' \in 0 .. o.changes
    BY <1>0, <2>4
  <2> QED BY <1>0, <2>3, <2>5 DEF ServerType
<1>2. CASE UNCHANGED server
  BY <1>0, <1>2 DEF server, ServerType
<1>3. Create \/ Drop \/ UNCHANGED server
  <2>1. CollectDatabase \/ EndDatabase \/ Report \/ Dies => UNCHANGED server
    BY DEF CollectDatabase, EndDatabase, LeaveDatabase, Report, Dies
  <2>2. AnswerTables \/ AnswerIndexes \/ TablesLockTimeout \/ IndexesLockTimeout => UNCHANGED server
    BY DEF AnswerTables, AnswerIndexes, TablesLockTimeout, IndexesLockTimeout, Goes
  <2>3. AnswerExtensions \/ AnswerDisabledTriggers \/ GetStatements => UNCHANGED server
    BY DEF AnswerExtensions, AnswerDisabledTriggers, AddTriggers, GetStatements, Goes
  <2>4. Editing => UNCHANGED server
    BY DEF Editing, AnswerPartitionInfo, AnswerParentInfo, SetParent, AnswerIndexDef,
           AnswerBloat, SetBloat, GetCitus, Goes
  <2>5. UNCHANGED vars => UNCHANGED server
    BY DEF vars
  <2> QED BY <2>1, <2>2, <2>3, <2>4, <2>5, NextSplit DEF Quiet
<1> QED BY <1>1, <1>2, <1>3

LEMMA PlaceStep ==
  ASSUME Legal, [Next]_vars
  PROVE  /\ PlaceType'
         /\ pc' = "query" => turn' <= Len(o'.turns) /\ Ordered(todo') /\ Has(collectedDBs', db')
<1>0. /\ PlaceType /\ o' = o
      /\ pc = "query" => turn <= Len(o.turns) /\ Ordered(todo) /\ Has(collectedDBs, db)
  BY Moves DEF Legal, TypeOK
<1>00. turn \in 1 .. Len(o.turns) + 1 /\ Len(o.turns) \in Nat
  <2>1. o.turns \in Seq(DBs)
    BY WorldsAreWorlds DEF Legal, TypeOK, ServerType, World
  <2> QED BY <1>0, <2>1, LenProperties DEF PlaceType
<1>1. CASE CollectDatabase
  <2>0. turn <= Len(o.turns) /\ pc = "next"
    BY <1>1 DEF CollectDatabase
  <2>1. CASE Collected
    <3>1. turn' = turn + 1 /\ UNCHANGED <<pc, todo, collectedDBs, exit>>
      BY <1>1, <2>1 DEF CollectDatabase
    <3>2. turn' \in 1 .. Len(o.turns) + 1
      BY <1>00, <2>0, <3>1
    <3> QED BY <1>0, <2>0, <3>1, <3>2 DEF PlaceType
  <2>2. CASE ~Collected
    <3>1. /\ pc' = "query" /\ todo' = Plan /\ collectedDBs' = Append(collectedDBs, db)
          /\ UNCHANGED <<turn, exit>>
      BY <1>1, <2>2 DEF CollectDatabase
    <3>2. Ordered(todo')
      BY <3>1, PlanOrdered
    <3>3. db \in DBs
      <4>1. o.turns \in Seq(DBs) /\ turn \in 1 .. Len(o.turns)
        BY <1>00, <2>0, WorldsAreWorlds DEF Legal, TypeOK, ServerType, World
      <4> QED BY <4>1, ElementOfSeq DEF db
    <3>4. collectedDBs' \in Seq(DBs) /\ Has(collectedDBs', db)
      <4>1. /\ collectedDBs \in Seq(DBs) /\ Len(collectedDBs') = Len(collectedDBs) + 1
            /\ collectedDBs' \in Seq(DBs) /\ collectedDBs'[Len(collectedDBs) + 1] = db
        BY <1>0, <3>1, <3>3, AppendProperties DEF PlaceType
      <4>2. Len(collectedDBs) \in Nat /\ DOMAIN collectedDBs' = 1 .. Len(collectedDBs')
        BY <4>1, LenProperties
      <4>3. Len(collectedDBs) + 1 \in DOMAIN collectedDBs'
        BY <4>1, <4>2
      <4> QED BY <4>1, <4>3 DEF Has
    <3>5. db' = db
      BY <1>0, <3>1 DEF db
    <3> QED BY <1>0, <2>0, <3>1, <3>2, <3>4, <3>5 DEF PlaceType, Ordered
  <2> QED BY <2>1, <2>2
<1>2. CASE EndDatabase
  <2>1. /\ pc = "query" /\ pc' = "next" /\ turn' = turn + 1
        /\ UNCHANGED <<todo, collectedDBs, exit>>
    BY <1>2 DEF EndDatabase, LeaveDatabase
  <2>2. turn' \in 1 .. Len(o.turns) + 1
    BY <1>0, <1>00, <2>1
  <2> QED BY <1>0, <2>1, <2>2 DEF PlaceType
<1>3. CASE Report \/ Dies
  <2>1. /\ pc' = "done" /\ exit' \in {"fatal", "report"}
        /\ UNCHANGED <<turn, todo, collectedDBs>>
    BY <1>3 DEF Report, Dies
  <2> QED BY <1>0, <2>1 DEF PlaceType
<1>4. CASE Stays
  <2>1. UNCHANGED <<pc, turn, todo, collectedDBs, exit>>
    BY <1>4 DEF Stays
  <2>2. db' = db
    BY <1>0, <2>1 DEF db
  <2> QED BY <1>0, <2>1, <2>2 DEF PlaceType
<1>5. CASE Advances
  <2>1. UNCHANGED <<pc, turn, collectedDBs, exit>> /\ Ordered(todo')
    BY <1>5, Advancing DEF Advances
  <2>2. db' = db
    BY <1>0, <2>1 DEF db
  <2> QED BY <1>0, <2>1, <2>2 DEF PlaceType, Ordered
<1>6. CASE TablesLockTimeout \/ IndexesLockTimeout
  <2>1. UNCHANGED <<pc, turn, collectedDBs, exit>> /\ Ordered(todo')
    BY <1>6, Retrying
  <2>2. db' = db
    BY <1>0, <2>1 DEF db
  <2> QED BY <1>0, <2>1, <2>2 DEF PlaceType, Ordered
<1> QED BY <1>1, <1>2, <1>3, <1>4, <1>5, <1>6, Moves

\* Of the rows with an OID, TableByOID finds one.
LEMMA OneIsFound ==
  ASSUME tables \in Seq(TableRow), NEW t, \E i \in DOMAIN tables : tables[i].oid = t
  PROVE  \E i \in DOMAIN tables : FoundByOID(tables, i) /\ tables[i].oid = t
<1> DEFINE T == {i \in DOMAIN tables : tables[i].oid = t}
<1>1. Len(tables) \in Nat /\ DOMAIN tables = 1 .. Len(tables)
  BY LenProperties
<1>2. T \subseteq Nat /\ T # {}
  BY <1>1
<1> HIDE DEF T
<1>3. PICK m \in T : \A n \in T : m <= n
  BY <1>2, Least
<1>4. ASSUME NEW j \in DOMAIN tables, j < m PROVE tables[j].oid # tables[m].oid
  <2>1. j \notin T
    BY <1>1, <1>2, <1>3, <1>4
  <2> QED BY <1>3, <2>1 DEF T
<1> QED BY <1>3, <1>4 DEF T, FoundByOID

LEMMA TableOfType ==
  ASSUME tables \in Seq(TableRow), NEW t
  PROVE  TableOf(t) \in DBs \cup {NoDB}
<1>1. CASE \E i \in DOMAIN tables : tables[i].oid = t
  <2> DEFINE c == CHOOSE i \in DOMAIN tables : FoundByOID(tables, i) /\ tables[i].oid = t
  <2>1. c \in DOMAIN tables
    BY <1>1, OneIsFound
  <2>2. tables[c] \in TableRow
    BY <2>1, ElementOfSeq, LenProperties
  <2>3. tables[c].db \in DBs
    BY <2>2 DEF TableRow
  <2> QED BY <1>1, <2>3 DEF TableOf
<1>2. CASE ~ \E i \in DOMAIN tables : tables[i].oid = t
  BY <1>2 DEF TableOf
<1> QED BY <1>1, <1>2

LEMMA TriggersStep ==
  ASSUME Legal, [Next]_vars
  PROVE  triggers' \in Seq(TriggerRow)
<1>0. triggers \in Seq(TriggerRow) /\ tables \in Seq(TableRow)
  BY DEF Legal, TypeOK, ListsType
<1>1. CASE AnswerDisabledTriggers
  <2>1. pc = "query" /\ db \in DBs /\ exists[db] \subseteq Oids
    BY <1>1, Here DEF AnswerDisabledTriggers, AddTriggers, Doing
  <2> DEFINE S == {t \in Those(o.disabled) : TableOf(t) # NoDB \/ o.unnamed}
  <2>2. PICK s \in Ascending(S) :
          triggers' = triggers \o [i \in DOMAIN s |-> [from |-> db, oid |-> s[i], table |-> TableOf(s[i])]]
    BY <1>1 DEF AnswerDisabledTriggers, AddTriggers
  <2>3. S \subseteq Oids
    BY <2>1 DEF Those
  <2> HIDE DEF S
  <2>4. s \in Seq(S) /\ Len(s) \in Nat /\ DOMAIN s = 1 .. Len(s)
    BY <2>3, Ascends, LenProperties
  <2> DEFINE more == [i \in DOMAIN s |-> [from |-> db, oid |-> s[i], table |-> TableOf(s[i])]]
  <2>5. ASSUME NEW i \in DOMAIN s PROVE more[i] \in TriggerRow
    <3>1. s[i] \in Oids
      BY <2>3, <2>4, ElementOfSeq
    <3>2. TableOf(s[i]) \in DBs \cup {NoDB}
      BY <1>0, TableOfType
    <3> QED BY <2>1, <3>1, <3>2 DEF TriggerRow
  <2>6. more \in [1 .. Len(s) -> TriggerRow]
    BY <2>4, <2>5
  <2>7. more \in Seq(TriggerRow)
    BY <2>4, <2>6, SeqDef
  <2> HIDE DEF more
  <2>8. triggers \o more \in Seq(TriggerRow)
    BY <1>0, <2>7, ConcatProperties
  <2> QED BY <2>2, <2>8 DEF more
<1>2. AnswerDisabledTriggers \/ UNCHANGED triggers
  <2>1. CollectDatabase \/ EndDatabase \/ Report \/ Dies => UNCHANGED triggers
    BY DEF CollectDatabase, EndDatabase, LeaveDatabase, Report, Dies, lists
  <2>2. AnswerTables \/ AnswerIndexes \/ TablesLockTimeout \/ IndexesLockTimeout => UNCHANGED triggers
    BY DEF AnswerTables, AnswerIndexes, TablesLockTimeout, IndexesLockTimeout
  <2>3. AnswerExtensions \/ GetStatements => UNCHANGED triggers
    BY DEF AnswerExtensions, GetStatements, lists
  <2>4. Editing => UNCHANGED triggers
    BY DEF Editing, AnswerPartitionInfo, AnswerParentInfo, SetParent, AnswerIndexDef,
           AnswerBloat, SetBloat, GetCitus
  <2>5. UNCHANGED vars \/ Create \/ Drop => UNCHANGED triggers
    BY DEF vars, lists, Create, Drop, Alter
  <2> QED BY <2>1, <2>2, <2>3, <2>4, <2>5, NextSplit DEF Quiet
<1> QED BY <1>0, <1>1, <1>2

LEMMA OthersStep ==
  ASSUME Legal, [Next]_vars
  PROVE  OthersType'
<1>0. /\ extensions \subseteq DBs \X {"pg_stat_statements", "citus"}
      /\ statements \in DBs \cup {NoDB} /\ citusOf \subseteq DBs
      /\ retried \subseteq DBs \X {"tables", "indexes"} /\ gave \subseteq Given
  BY DEF Legal, TypeOK, OthersType
<1> DEFINE Calm == UNCHANGED <<extensions, statements, citusOf>>
<1>1. CASE CollectDatabase \/ EndDatabase \/ Report \/ Dies
  <2>1. UNCHANGED <<extensions, statements, citusOf, retried, gave>>
    BY <1>1 DEF CollectDatabase, EndDatabase, LeaveDatabase, Report, Dies, others
  <2> QED BY <1>0, <2>1 DEF OthersType
<1>2. CASE AnswerTables \/ AnswerIndexes
  <2>1. UNCHANGED <<extensions, statements, citusOf, retried, gave>>
    BY <1>2 DEF AnswerTables, AnswerIndexes, others
  <2> QED BY <1>0, <2>1 DEF OthersType
<1>3. CASE TablesLockTimeout \/ IndexesLockTimeout
  <2>1. /\ UNCHANGED <<extensions, statements, citusOf, gave>> /\ pc = "query"
        /\ \E list \in {"tables", "indexes"} : retried' = retried \cup {<<db, list>>}
    BY <1>3 DEF TablesLockTimeout, IndexesLockTimeout, others, Doing
  <2>2. retried' \subseteq DBs \X {"tables", "indexes"}
    BY <1>0, <2>1, Here
  <2> QED BY <1>0, <2>1, <2>2 DEF OthersType
<1>4. CASE AnswerExtensions
  <2>1. /\ UNCHANGED <<statements, citusOf, retried, gave>> /\ pc = "query"
        /\ extensions' = extensions
              \cup (IF o.pss[db] # "none" THEN {<<db, "pg_stat_statements">>} ELSE {})
              \cup (IF db \in o.citus THEN {<<db, "citus">>} ELSE {})
    BY <1>4 DEF AnswerExtensions, Doing
  <2>2. extensions' \subseteq DBs \X {"pg_stat_statements", "citus"}
    BY <1>0, <2>1, Here
  <2> QED BY <1>0, <2>1, <2>2 DEF OthersType
<1>5. CASE GetStatements
  <2>1. /\ UNCHANGED <<extensions, citusOf, retried, gave>> /\ pc = "query"
        /\ statements' = statements \/ statements' = db
    BY <1>5 DEF GetStatements, Doing
  <2>2. statements' \in DBs \cup {NoDB}
    BY <1>0, <2>1, Here
  <2> QED BY <1>0, <2>1, <2>2 DEF OthersType
<1>6. CASE AnswerDisabledTriggers \/ Editing
  <2>0. (pc = "query" /\ retried' = retried /\ Calm) \/ GetCitus
    BY <1>6 DEF AnswerDisabledTriggers, AddTriggers, Editing, AnswerPartitionInfo,
                AnswerParentInfo, SetParent, AnswerIndexDef, AnswerBloat, SetBloat, Doing, others
  <2>0a. GetCitus => /\ pc = "query" /\ retried' = retried /\ UNCHANGED <<extensions, statements>>
                     /\ (citusOf' = citusOf \cup {db} \/ citusOf' = citusOf)
    BY DEF GetCitus, Doing
  <2>1. pc = "query" /\ db \in DBs /\ exists[db] \subseteq Oids
    BY <2>0, <2>0a, Here
  <2>2. citusOf' \subseteq DBs /\ UNCHANGED <<extensions, statements, retried>>
    BY <1>0, <2>0, <2>0a, <2>1
  <2>3. ASSUME NEW S \in SUBSET Oids,
               NEW kind \in {"parent", "defn", "trigger", "bloat", "index bloat", "size"}
        PROVE  {<<kind, db, t>> : t \in S} \subseteq Given
    <3>1. \A t \in S : <<kind, db, t>> \in Given
      BY <2>1 DEF Given
    <3> QED BY <3>1
  <2>3a. \A P : Those(P) \subseteq Oids
    BY <2>1 DEF Those
  <2>4. \/ gave' = gave
        \/ \E S \in SUBSET Oids :
             \E kind \in {"parent", "defn", "trigger", "bloat", "index bloat", "size"} :
               gave' = gave \cup {<<kind, db, t>> : t \in S}
        \/ \E S, R \in SUBSET Oids :
             gave' = gave \cup {<<"bloat", db, t>> : t \in S} \cup {<<"index bloat", db, t>> : t \in R}
    <3>1. CASE AnswerDisabledTriggers
      <4>1. gave' = gave \cup {<<"trigger", db, t>> : t \in Those(o.disabled)}
        BY <3>1 DEF AnswerDisabledTriggers, AddTriggers, Gave
      <4>2. Those(o.disabled) \in SUBSET Oids
        BY <2>3a
      <4> QED BY <4>1, <4>2
    <3>2. CASE AnswerPartitionInfo \/ AnswerParentInfo
      <4>1. \E P : gave' = gave \cup {<<"parent", db, t>> : t \in Those(P)}
        BY <3>2 DEF AnswerPartitionInfo, AnswerParentInfo, SetParent, Gave
      <4> QED BY <2>3a, <4>1
    <3>3. CASE AnswerIndexDef
      <4>1. \E S \in SUBSET Those(o.indexed) : gave' = gave \cup {<<"defn", db, t>> : t \in S}
        BY <3>3 DEF AnswerIndexDef, Gave
      <4>2. PICK S \in SUBSET Those(o.indexed) : gave' = gave \cup {<<"defn", db, t>> : t \in S}
        BY <4>1
      <4>3. S \in SUBSET Oids
        BY <2>3a
      <4> QED BY <4>2, <4>3
    <3>4. CASE AnswerBloat
      <4>1. gave' = gave \cup {<<"bloat", db, t>> : t \in Those(o.bloated)}
                         \cup {<<"index bloat", db, t>> : t \in Those(o.bloated \cap o.indexed)}
        BY <3>4 DEF AnswerBloat, SetBloat
      <4>2. Those(o.bloated) \in SUBSET Oids /\ Those(o.bloated \cap o.indexed) \in SUBSET Oids
        BY <2>3a
      <4> QED BY <4>1, <4>2
    <3>5. CASE GetCitus
      <4>1. \/ gave' = gave
            \/ \E S \in SUBSET Those(o.spread) : gave' = gave \cup {<<"size", db, t>> : t \in S}
        BY <3>5 DEF GetCitus, Gave
      <4>2. CASE \E S \in SUBSET Those(o.spread) : gave' = gave \cup {<<"size", db, t>> : t \in S}
        <5>1. PICK S \in SUBSET Those(o.spread) : gave' = gave \cup {<<"size", db, t>> : t \in S}
          BY <4>2
        <5>2. S \in SUBSET Oids
          BY <2>3a
        <5> QED BY <5>1, <5>2
      <4> QED BY <4>1, <4>2
    <3> QED BY <1>6, <3>1, <3>2, <3>3, <3>4, <3>5 DEF Editing
  <2>5. gave' \subseteq Given
    <3>1. ASSUME NEW S \in SUBSET Oids, NEW R \in SUBSET Oids,
                 gave' = gave \cup {<<"bloat", db, t>> : t \in S} \cup {<<"index bloat", db, t>> : t \in R}
          PROVE  gave' \subseteq Given
      <4>1. /\ {<<"bloat", db, t>> : t \in S} \subseteq Given
            /\ {<<"index bloat", db, t>> : t \in R} \subseteq Given
        BY <2>3
      <4> QED BY <1>0, <3>1, <4>1
    <3>2. ASSUME NEW S \in SUBSET Oids,
                 NEW kind \in {"parent", "defn", "trigger", "bloat", "index bloat", "size"},
                 gave' = gave \cup {<<kind, db, t>> : t \in S}
          PROVE  gave' \subseteq Given
      <4>1. {<<kind, db, t>> : t \in S} \subseteq Given
        BY <2>3
      <4> QED BY <1>0, <3>2, <4>1
    <3> QED BY <1>0, <2>4, <3>1, <3>2
  <2> QED BY <1>0, <2>2, <2>5 DEF OthersType
<1>7. CASE Create \/ Drop \/ UNCHANGED vars
  <2>1. UNCHANGED <<extensions, statements, citusOf, retried, gave>>
    BY <1>7 DEF Create, Drop, Alter, others, vars
  <2> QED BY <1>0, <2>1 DEF OthersType
<1> QED BY <1>1, <1>2, <1>3, <1>4, <1>5, <1>6, <1>7, NextSplit DEF Quiet

LEMMA LegalInit == Init => Legal
<1> SUFFICES ASSUME Init PROVE Legal
  OBVIOUS
<1>1. o \in World
  BY WorldsAreWorlds DEF Init
<1>2. /\ o.turns \in Seq(DBs) /\ o.exists \in [DBs -> SUBSET Oids] /\ o.changes \in Nat
  BY <1>1 DEF World
<1>3. Len(o.turns) \in Nat
  BY <1>2, LenProperties
<1>4. ServerType
  <2>1. 0 \in 0 .. o.changes
    BY <1>2
  <2> QED BY <1>2, <2>1 DEF Init, ServerType
<1>5. PlaceType
  <2>1. 1 \in 1 .. Len(o.turns) + 1
    BY <1>3
  <2>2. <<>> \in Seq(Functions) /\ <<>> \in Seq(DBs)
    BY EmptySeq
  <2> QED BY <2>1, <2>2 DEF Init, PlaceType
<1>6. ListsType
  BY EmptySeq DEF Init, ListsType
<1>7. OthersType
  BY DEF Init, OthersType
<1> QED BY <1>4, <1>5, <1>6, <1>7 DEF Legal, TypeOK, Init

LEMMA LegalNext == Legal /\ [Next]_vars => Legal'
BY ServerStep, PlaceStep, OthersStep, TriggersStep, Walk DEF Legal, TypeOK, ListsType

\* The variables keep their types: the lists of all databases hold rows of the
\* databases, and the plan only functions that exist, whatever fails.
THEOREM LegalAlways == Spec => []Legal
BY LegalInit, LegalNext, PTL DEF Spec

\* The variables of the collection of all databases' rows keep their types.
THEOREM ListsTypeCorrect == Spec => []TypeOK
<1>1. Legal => TypeOK
  BY DEF Legal
<1> QED BY <1>1, LegalAlways, PTL

\* Nothing that was collected is lost or moved by what is collected later.
THEOREM NothingLost == Spec => RowsStay
<1> DEFINE A == /\ Keeps(tables, tables') /\ Keeps(indexes, indexes')
                /\ statements # NoDB => statements' = statements
<1>1. Legal /\ [Next]_vars => A
  <2> SUFFICES ASSUME Legal, [Next]_vars PROVE A
    OBVIOUS
  <2>0. /\ tables \in Seq(TableRow) /\ indexes \in Seq(IndexRow)
        /\ tables' \in Seq(TableRow) /\ indexes' \in Seq(IndexRow)
    BY Walk DEF Legal, TypeOK, ListsType
  <2>1. /\ Same(tables, tables') => Keeps(tables, tables')
        /\ Same(indexes, indexes') => Keeps(indexes, indexes')
    <3>1. Len(tables) \in Nat /\ Len(indexes) \in Nat
      BY <2>0, LenProperties
    <3> QED BY <3>1 DEF Same, Keeps
  <2>2. /\ Extends(tables, tables', db) => Keeps(tables, tables')
        /\ Extends(indexes, indexes', db) => Keeps(indexes, indexes')
    BY DEF Extends, Keeps
  <2>3. statements # NoDB => statements' = statements
    <3>1. CollectDatabase \/ EndDatabase \/ Report \/ Dies => UNCHANGED statements
      BY DEF CollectDatabase, EndDatabase, LeaveDatabase, Report, Dies, others
    <3>2. AnswerTables \/ AnswerIndexes \/ TablesLockTimeout \/ IndexesLockTimeout
            => UNCHANGED statements
      BY DEF AnswerTables, AnswerIndexes, TablesLockTimeout, IndexesLockTimeout, others
    <3>3. AnswerExtensions \/ AnswerDisabledTriggers => UNCHANGED statements
      BY DEF AnswerExtensions, AnswerDisabledTriggers, AddTriggers, others
    <3>4. Editing => UNCHANGED statements
      BY DEF Editing, AnswerPartitionInfo, AnswerParentInfo, SetParent, AnswerIndexDef,
             AnswerBloat, SetBloat, GetCitus, others
    <3>5. UNCHANGED vars \/ Create \/ Drop => UNCHANGED statements
      BY DEF vars, others, Create, Drop, Alter
    <3>6. GetStatements => (statements # NoDB => statements' = statements)
      BY DEF GetStatements
    <3> QED BY <3>1, <3>2, <3>3, <3>4, <3>5, <3>6, NextSplit DEF Quiet
  <2> QED BY <2>1, <2>2, <2>3, Walk
<1>2. Spec => [][A]_vars
  BY <1>1, LegalAlways, PTL DEF Spec
<1> QED BY <1>2 DEF RowsStay

-----------------------------------------------------------------------------
(***************************************************************************)
(* No row twice.  A database whose tables are still to be asked for has no *)
(* rows; one that is asked again has each row once, and an abandoned       *)
(* attempt.                                                                *)
(***************************************************************************)
Left == IF pc = "query" THEN todo ELSE <<>>

RowsInv ==
  /\ ListInv(tables, retried, "tables", collectedDBs, db, Left, "getTables", "getTablesAgain")
  /\ ListInv(indexes, retried, "indexes", collectedDBs, db, Left, "getIndexes", "getIndexesAgain")

\* A database is begun: it has no rows yet, and its plan has no second attempts.
LEMMA InvStart ==
  ASSUME NEW rows, NEW seen, NEW list, NEW dbs, NEW dbs2, NEW d, NEW left, NEW left2,
         NEW ask, NEW again,
         ListInv(rows, seen, list, dbs, d, left, ask, again),
         ~Has(dbs, d), \A e : Has(dbs, e) => Has(dbs2, e), ~Has(left2, again)
  PROVE  ListInv(rows, seen, list, dbs2, d, left2, ask, again)
BY DEF ListInv

LEMMA RowsInit == Init => RowsInv
<1>1. \A f : ~Has(<<>>, f)
  BY DEF Has
<1> QED BY <1>1 DEF Init, RowsInv, ListInv, TwiceIn, Left

LEMMA AppendHas ==
  ASSUME NEW S, NEW s \in Seq(S), NEW e \in S
  PROVE  \A f : Has(s, f) => Has(Append(s, e), f)
<1>1. /\ Append(s, e) \in Seq(S) /\ Len(s) \in Nat /\ DOMAIN s = 1 .. Len(s)
      /\ Len(Append(s, e)) = Len(s) + 1 /\ \A i \in 1 .. Len(s) : Append(s, e)[i] = s[i]
      /\ DOMAIN Append(s, e) = 1 .. Len(Append(s, e))
  BY AppendProperties, LenProperties
<1>2. DOMAIN s \subseteq DOMAIN Append(s, e)
  BY <1>1
<1> QED BY <1>1, <1>2 DEF Has

LEMMA RowsNext == Legal /\ RowsInv /\ [Next]_vars => RowsInv'
<1> SUFFICES ASSUME Legal, RowsInv, [Next]_vars PROVE RowsInv'
  OBVIOUS
<1>0. /\ o' = o /\ retried \subseteq retried' /\ \A f : ~Has(<<>>, f)
      /\ tables \in Seq(TableRow) /\ indexes \in Seq(IndexRow)
      /\ Same(tables, tables) /\ Same(indexes, indexes)
  BY Moves, SameItself DEF Legal, TypeOK, ListsType, Has
<1> SUFFICES
      /\ ListInv(tables', retried', "tables", collectedDBs', db', Left', "getTables", "getTablesAgain")
      /\ ListInv(indexes', retried', "indexes", collectedDBs', db', Left', "getIndexes", "getIndexesAgain")
  BY DEF RowsInv
<1>a. /\ ListInv(tables, retried, "tables", collectedDBs, db, Left, "getTables", "getTablesAgain")
      /\ ListInv(indexes, retried, "indexes", collectedDBs, db, Left, "getIndexes", "getIndexesAgain")
  BY DEF RowsInv
<1>b. turn' = turn => db' = db
  BY <1>0 DEF db
<1>c. pc # "query" => Left = <<>>
  BY DEF Left
<1>d. pc = "query" => Left = todo
  BY DEF Left
<1>c1. pc' # "query" => Left' = <<>>
  BY DEF Left
<1>d1. pc' = "query" => Left' = todo'
  BY DEF Left
<1> DEFINE Fewer == /\ \A f : Has(Left', f) => Has(Left, f) /\ db' = db
                    /\ Same(tables, tables') /\ Same(indexes, indexes')
                    /\ \A e : Has(collectedDBs, e) => Has(collectedDBs', e)
<1>1. ASSUME Fewer
      PROVE  /\ ListInv(tables', retried', "tables", collectedDBs', db', Left', "getTables", "getTablesAgain")
             /\ ListInv(indexes', retried', "indexes", collectedDBs', db', Left', "getIndexes", "getIndexesAgain")
  <2>1. ListInv(tables', retried', "tables", collectedDBs', db', Left', "getTables", "getTablesAgain")
    BY <1>0, <1>a, <1>1, InvSame
  <2>2. ListInv(indexes', retried', "indexes", collectedDBs', db', Left', "getIndexes", "getIndexesAgain")
    BY <1>0, <1>a, <1>1, InvSame
  <2> QED BY <2>1, <2>2
<1>2. CASE CollectDatabase
  <2>0. UNCHANGED <<tables, indexes, retried>> /\ pc = "next"
    BY <1>2 DEF CollectDatabase, lists
  <2>1. CASE Collected
    <3>1. pc' = "next" /\ UNCHANGED collectedDBs
      BY <1>2, <2>0, <2>1 DEF CollectDatabase
    <3> QED BY <1>0, <1>1, <1>c1, <2>0, <3>1
  <2>2. CASE ~Collected
    <3>1. /\ pc' = "query" /\ todo' = Plan /\ collectedDBs' = Append(collectedDBs, db)
          /\ UNCHANGED turn
      BY <1>2, <2>2 DEF CollectDatabase
    <3>2. ~Has(collectedDBs, db)
      BY <2>2 DEF Collected, Has
    <3>3. ~Has(Left', "getTablesAgain") /\ ~Has(Left', "getIndexesAgain")
      BY <1>d1, <3>1, PlanOrdered, HasNot DEF Retries
    <3>4. \A e : Has(collectedDBs, e) => Has(collectedDBs', e)
      <4>1. collectedDBs \in Seq(DBs) /\ db \in DBs
        <5>1. o.turns \in Seq(DBs) /\ turn \in 1 .. Len(o.turns)
          <6>1. o.turns \in Seq(DBs) /\ turn \in 1 .. Len(o.turns) + 1 /\ turn <= Len(o.turns)
            BY <1>2, WorldsAreWorlds DEF Legal, TypeOK, ServerType, PlaceType, World, CollectDatabase
          <6> QED BY <6>1, LenProperties
        <5> QED BY <5>1, ElementOfSeq DEF db, Legal, TypeOK, PlaceType
      <4> QED BY <3>1, <4>1, AppendHas
    <3>5. db' = db
      BY <1>b, <3>1
    <3>6. ListInv(tables, retried, "tables", collectedDBs', db, Left', "getTables", "getTablesAgain")
      BY <1>a, <3>2, <3>3, <3>4, InvStart
    <3>7. ListInv(indexes, retried, "indexes", collectedDBs', db, Left', "getIndexes", "getIndexesAgain")
      BY <1>a, <3>2, <3>3, <3>4, InvStart
    <3> QED BY <2>0, <3>5, <3>6, <3>7
  <2> QED BY <2>1, <2>2
<1>3. CASE EndDatabase \/ Report \/ Dies
  <2>1. pc' # "query" /\ UNCHANGED <<tables, indexes, collectedDBs>>
    BY <1>3 DEF EndDatabase, LeaveDatabase, Report, Dies, lists
  <2> QED BY <1>0, <1>1, <1>c1, <2>1
<1>4. CASE Stays /\ Quiet
  <2>1. UNCHANGED <<pc, turn, todo, collectedDBs, tables, indexes>>
    BY <1>4, QuietLists DEF Stays
  <2>2. Left' = Left
    BY <2>1 DEF Left
  <2> QED BY <1>0, <1>1, <1>b, <2>1, <2>2
<1>5. CASE Advances
  <2>0. /\ pc = "query" /\ pc' = "query" /\ UNCHANGED <<turn, collectedDBs>>
        /\ db' = db /\ Left = todo /\ Left' = todo' /\ Has(collectedDBs, db)
        /\ todo \in Seq(Functions) /\ todo # <<>>
    BY <1>5, <1>b, <1>d, <1>d1 DEF Advances, Legal, TypeOK, PlaceType
  <2>1. \A f : Has(Left', f) => Has(Left, f)
    BY <1>5, <2>0, Advancing
  <2>2. CASE Same(tables, tables') /\ Same(indexes, indexes')
    BY <1>1, <2>0, <2>1, <2>2
  <2>3. CASE AnswerTables /\ Extends(tables, tables', db) /\ Same(indexes, indexes')
    <3>1. Head(todo) \in {"getTables", "getTablesAgain"}
      BY <2>3 DEF AnswerTables, Doing
    <3>2. ~Has(Left', "getTables") /\ ~Has(Left', "getTablesAgain")
      BY <1>5, <2>0, <3>1, Advancing DEF GetTables
    <3>3. Has(Left, "getTables") \/ Has(Left, "getTablesAgain")
      BY <2>0, <3>1, HasTail
    <3>4. ListInv(tables', retried', "tables", collectedDBs, db, Left', "getTables", "getTablesAgain")
      BY <1>0, <1>a, <2>0, <2>3, <3>2, <3>3, InvAdd
    <3>5. ListInv(indexes', retried', "indexes", collectedDBs, db, Left', "getIndexes", "getIndexesAgain")
      BY <1>0, <1>a, <2>1, <2>3, InvSame
    <3> QED BY <2>0, <3>4, <3>5
  <2>4. CASE AnswerIndexes /\ Extends(indexes, indexes', db) /\ Same(tables, tables')
    <3>1. Head(todo) \in {"getIndexes", "getIndexesAgain"}
      BY <2>4 DEF AnswerIndexes, Doing
    <3>2. ~Has(Left', "getIndexes") /\ ~Has(Left', "getIndexesAgain")
      BY <1>5, <2>0, <3>1, Advancing DEF GetIndexes
    <3>3. Has(Left, "getIndexes") \/ Has(Left, "getIndexesAgain")
      BY <2>0, <3>1, HasTail
    <3>4. ListInv(indexes', retried', "indexes", collectedDBs, db, Left', "getIndexes", "getIndexesAgain")
      BY <1>0, <1>a, <2>0, <2>4, <3>2, <3>3, InvAdd
    <3>5. ListInv(tables', retried', "tables", collectedDBs, db, Left', "getTables", "getTablesAgain")
      BY <1>0, <1>a, <2>1, <2>4, InvSame
    <3> QED BY <2>0, <3>4, <3>5
  <2>5. ~TablesLockTimeout /\ ~IndexesLockTimeout
    <3>1. Len(Tail(todo)) < Len(<<"getTablesAgain">> \o Tail(todo))
          /\ Len(Tail(todo)) < Len(<<"getIndexesAgain">> \o Tail(todo))
      <4>1. /\ Tail(todo) \in Seq(Functions) /\ Len(Tail(todo)) \in Nat
            /\ <<"getTablesAgain">> \in Seq(Functions) /\ <<"getIndexesAgain">> \in Seq(Functions)
        <5>1. "getTablesAgain" \in Functions /\ "getIndexesAgain" \in Functions
          BY DEF Functions
        <5> QED BY <2>0, <5>1, HasTail, LenProperties
      <4>2. /\ Len(<<"getTablesAgain">> \o Tail(todo)) = 1 + Len(Tail(todo))
            /\ Len(<<"getIndexesAgain">> \o Tail(todo)) = 1 + Len(Tail(todo))
        BY <4>1, ConcatProperties
      <4> QED BY <4>1, <4>2
    <3>2. todo' = Tail(todo)
      BY <1>5 DEF Advances
    <3>3. Tail(todo) \in Seq(Functions) /\ Len(Tail(todo)) \in Nat
      BY <2>0, HasTail, LenProperties
    <3>4. /\ Tail(todo) # <<"getTablesAgain">> \o Tail(todo)
          /\ Tail(todo) # <<"getIndexesAgain">> \o Tail(todo)
      BY <3>1, <3>3
    <3>5. /\ TablesLockTimeout => todo' = <<"getTablesAgain">> \o Tail(todo)
          /\ IndexesLockTimeout => todo' = <<"getIndexesAgain">> \o Tail(todo)
      BY DEF TablesLockTimeout, IndexesLockTimeout
    <3> QED BY <3>2, <3>4, <3>5
  <2> QED BY <2>2, <2>3, <2>4, <2>5, Walk
<1>6. CASE TablesLockTimeout
  <2>0. /\ pc = "query" /\ pc' = "query" /\ todo # <<>> /\ Head(todo) = "getTables"
        /\ UNCHANGED <<turn, collectedDBs>>
        /\ \A f : Has(todo', f) <=> f = "getTablesAgain" \/ Has(Tail(todo), f)
    BY <1>6, Retrying
  <2>1. /\ db' = db /\ Left = todo /\ Left' = todo' /\ Has(collectedDBs, db) /\ Ordered(todo)
        /\ todo \in Seq(Functions)
    BY <1>b, <1>d, <1>d1, <2>0 DEF Legal, TypeOK, PlaceType
  <2>2. ~Has(Left', "getTables") /\ Has(Left, "getTables")
    BY <2>0, <2>1, OrderedTail, HasNot, HasTail DEF GetTables
  <2>3. \A f : Has(Left', f) => Has(Left, f) \/ f = "getTablesAgain"
    BY <2>0, <2>1, HasTail
  <2>4. <<db, "tables">> \in retried'
    BY <1>6 DEF TablesLockTimeout
  <2>5. Extends(tables, tables', db) /\ indexes' = indexes
    <3>1. PICK t \in exists[db] : AddTables({u \in exists[db] : u < t}, "table")
      BY <1>6 DEF TablesLockTimeout
    <3>2. {u \in exists[db] : u < t} \subseteq exists[db]
      OBVIOUS
    <3> QED BY <1>6, <2>0, <3>1, <3>2, TablesAdded DEF TablesLockTimeout
  <2>6. ListInv(tables', retried', "tables", collectedDBs, db, Left', "getTables", "getTablesAgain")
    BY <1>0, <1>a, <2>1, <2>2, <2>4, <2>5, InvAdd
  <2>7. ListInv(indexes', retried', "indexes", collectedDBs, db, Left', "getIndexes", "getIndexesAgain")
    BY <1>0, <1>a, <2>3, <2>5, InvSame
  <2> QED BY <2>0, <2>1, <2>6, <2>7
<1>7. CASE IndexesLockTimeout
  <2>0. /\ pc = "query" /\ pc' = "query" /\ todo # <<>> /\ Head(todo) = "getIndexes"
        /\ UNCHANGED <<turn, collectedDBs>>
        /\ \A f : Has(todo', f) <=> f = "getIndexesAgain" \/ Has(Tail(todo), f)
    BY <1>7, Retrying
  <2>1. /\ db' = db /\ Left = todo /\ Left' = todo' /\ Has(collectedDBs, db) /\ Ordered(todo)
        /\ todo \in Seq(Functions)
    BY <1>b, <1>d, <1>d1, <2>0 DEF Legal, TypeOK, PlaceType
  <2>2. ~Has(Left', "getIndexes") /\ Has(Left, "getIndexes")
    BY <2>0, <2>1, OrderedTail, HasNot, HasTail DEF GetIndexes
  <2>3. \A f : Has(Left', f) => Has(Left, f) \/ f = "getIndexesAgain"
    BY <2>0, <2>1, HasTail
  <2>4. <<db, "indexes">> \in retried'
    BY <1>7 DEF IndexesLockTimeout
  <2>5. Extends(indexes, indexes', db) /\ tables' = tables
    <3>1. PICK t \in Those(o.indexed) : AddIndexes({u \in exists[db] : u < t}, TRUE)
      BY <1>7 DEF IndexesLockTimeout
    <3>2. {u \in exists[db] : u < t} \subseteq exists[db] /\ TRUE \in BOOLEAN
      OBVIOUS
    <3> QED BY <1>7, <2>0, <3>1, <3>2, IndexesAdded DEF IndexesLockTimeout
  <2>6. ListInv(indexes', retried', "indexes", collectedDBs, db, Left', "getIndexes", "getIndexesAgain")
    BY <1>0, <1>a, <2>1, <2>2, <2>4, <2>5, InvAdd
  <2>7. ListInv(tables', retried', "tables", collectedDBs, db, Left', "getTables", "getTablesAgain")
    BY <1>0, <1>a, <2>3, <2>5, InvSame
  <2> QED BY <2>0, <2>1, <2>6, <2>7
<1> QED BY <1>2, <1>3, <1>4, <1>5, <1>6, <1>7, Moves

\* A table or an index is in the report once, and twice only after a lock timeout
\* in the middle of the rows of its database.
THEOREM RowsAreOnce == Spec => []NoRowTwice
<1>1. RowsInv => NoRowTwice
  BY DEF RowsInv, ListInv, NoRowTwice, Twice, TwiceIn
<1> QED BY <1>1, RowsInit, RowsNext, LegalAlways, PTL DEF Spec

-----------------------------------------------------------------------------
(***************************************************************************)
(* In time.  The extensions of the database are known, or getExtensions is *)
(* still in the plan; and then nothing that needs them comes before it.    *)
(***************************************************************************)
Known == /\ o.pss[db] # "none" => <<db, "pg_stat_statements">> \in extensions
         /\ db \in o.citus => <<db, "citus">> \in extensions

KnownInv == pc = "query" /\ "extensions" \notin o.omit => Has(todo, "getExtensions") \/ Known

LEMMA ExtensionsGrow ==
  ASSUME [Next]_vars
  PROVE  extensions \subseteq extensions'
<1>1. CollectDatabase \/ EndDatabase \/ Report \/ Dies => UNCHANGED extensions
  BY DEF CollectDatabase, EndDatabase, LeaveDatabase, Report, Dies, others
<1>2. AnswerTables \/ AnswerIndexes \/ TablesLockTimeout \/ IndexesLockTimeout => UNCHANGED extensions
  BY DEF AnswerTables, AnswerIndexes, TablesLockTimeout, IndexesLockTimeout, others
<1>3. AnswerDisabledTriggers \/ GetStatements => UNCHANGED extensions
  BY DEF AnswerDisabledTriggers, AddTriggers, GetStatements, others
<1>4. Editing => UNCHANGED extensions
  BY DEF Editing, AnswerPartitionInfo, AnswerParentInfo, SetParent, AnswerIndexDef,
         AnswerBloat, SetBloat, GetCitus, others
<1>5. UNCHANGED vars \/ Create \/ Drop => UNCHANGED extensions
  BY DEF vars, others, Create, Drop, Alter
<1>6. AnswerExtensions => extensions \subseteq extensions'
  BY DEF AnswerExtensions
<1> QED BY <1>1, <1>2, <1>3, <1>4, <1>5, <1>6, NextSplit DEF Quiet

LEMMA KnownNext == Legal /\ KnownInv /\ [Next]_vars => KnownInv'
<1> SUFFICES ASSUME Legal, KnownInv, [Next]_vars, pc' = "query", "extensions" \notin o'.omit
             PROVE  Has(todo', "getExtensions") \/ Known'
  BY DEF KnownInv
<1>0. o' = o /\ extensions \subseteq extensions' /\ (turn' = turn => db' = db)
  BY Moves, ExtensionsGrow DEF db
<1>1. CASE CollectDatabase
  <2>1. pc = "next"
    BY <1>1 DEF CollectDatabase
  <2>2. ~Collected
    BY <1>1, <2>1 DEF CollectDatabase
  <2>3. todo' = Plan
    BY <1>1, <2>2 DEF CollectDatabase
  <2> QED BY <1>0, <2>3, PlanOrdered
<1>2. CASE EndDatabase \/ Report \/ Dies
  BY <1>2 DEF EndDatabase, LeaveDatabase, Report, Dies
<1>3. CASE Stays
  BY <1>0, <1>3 DEF Stays, KnownInv, Known
<1>4. CASE Advances /\ (\/ AnswerTables \/ AnswerIndexes \/ Editing
                        \/ AnswerExtensions \/ AnswerDisabledTriggers \/ GetStatements)
  <2>0. /\ pc = "query" /\ todo # <<>> /\ todo' = Tail(todo) /\ db' = db
        /\ todo \in Seq(Functions)
    BY <1>0, <1>4 DEF Advances, Legal, TypeOK, PlaceType
  <2>1. CASE Known
    BY <1>0, <2>0, <2>1 DEF Known
  <2>2. CASE Has(todo, "getExtensions") /\ Head(todo) # "getExtensions"
    BY <2>0, <2>2, HasTail
  <2>3. CASE Head(todo) = "getExtensions"
    <3>1. AnswerExtensions
      BY <1>4, <2>3 DEF AnswerTables, AnswerIndexes, Editing, AnswerPartitionInfo,
            AnswerParentInfo, AnswerIndexDef, AnswerBloat, SetBloat, GetCitus,
            AnswerDisabledTriggers, AddTriggers, GetStatements, Doing
    <3>2. /\ o.pss[db] # "none" => <<db, "pg_stat_statements">> \in extensions'
          /\ db \in o.citus => <<db, "citus">> \in extensions'
      BY <3>1 DEF AnswerExtensions
    <3> QED BY <1>0, <2>0, <3>2 DEF Known
  <2> QED BY <1>0, <2>0, <2>1, <2>2, <2>3 DEF KnownInv
<1>5. CASE TablesLockTimeout \/ IndexesLockTimeout
  <2>1. PICK first \in {"getTables", "getIndexes"} :
          /\ pc = "query" /\ todo # <<>> /\ Head(todo) = first /\ turn' = turn
          /\ \A f : Has(Tail(todo), f) => Has(todo', f)
    BY <1>5, Retrying
  <2>2. todo \in Seq(Functions)
    BY DEF Legal, TypeOK, PlaceType
  <2>3. Has(todo, "getExtensions") => Has(todo', "getExtensions")
    BY <2>1, <2>2, HasTail
  <2> QED BY <1>0, <2>1, <2>3 DEF KnownInv, Known
<1> QED BY <1>1, <1>2, <1>3, <1>4, <1>5, Moves

\* When statements, sizes of distributed tables or disabled triggers are asked
\* for, what they are looked up in has been collected.
THEOREM LookedUpInTime == Spec => []KnownInTime
<1>1. Init => KnownInv
  BY DEF Init, KnownInv
<1>2. Legal /\ KnownInv => KnownInTime
  <2> SUFFICES ASSUME Legal, KnownInv, pc = "query", todo # <<>>
               PROVE  /\ Head(todo) \in {"getStatements", "getCitus"} /\ "extensions" \notin o.omit => Known
                      /\ Head(todo) = "getDisabledTriggers" =>
                           \A i \in DOMAIN todo : todo[i] \notin {"getTables", "getTablesAgain"}
    BY DEF KnownInTime, Known
  <2>1. todo \in Seq(Functions) /\ Ordered(todo)
    BY DEF Legal, TypeOK, PlaceType
  <2>2. ASSUME Head(todo) \in {"getStatements", "getCitus"}, "extensions" \notin o.omit
        PROVE  Known
    <3>1. ~Has(Tail(todo), "getExtensions")
      BY <2>1, <2>2, OrderedTail, HasNot DEF AskKnown
    <3>2. ~Has(todo, "getExtensions")
      BY <2>1, <2>2, <3>1, HasTail
    <3> QED BY <2>2, <3>2 DEF KnownInv
  <2>3. ASSUME Head(todo) = "getDisabledTriggers"
        PROVE  \A i \in DOMAIN todo : todo[i] \notin {"getTables", "getTablesAgain"}
    <3>1. \A f \in GetTables : ~Has(Tail(todo), f)
      BY <2>1, <2>3, OrderedTail, HasNot
    <3>2. \A f \in GetTables : ~Has(todo, f)
      BY <2>1, <2>3, <3>1, HasTail DEF GetTables
    <3> QED BY <3>2 DEF Has, GetTables
  <2> QED BY <2>2, <2>3
<1> QED BY <1>1, <1>2, KnownNext, LegalAlways, PTL DEF Spec

-----------------------------------------------------------------------------
(***************************************************************************)
(* What is looked up by name.  P: the positions of the rows that are       *)
(* marked; said: what was answered, by kind, database and OID.  A database *)
(* of which something was said is collected, and gets no more rows.        *)
(***************************************************************************)
Marks(rows, P, kind, said) ==
  \A i \in DOMAIN rows :
    i \in P <=> FirstNamed(rows, i) /\ <<kind, rows[i].db, rows[i].oid>> \in said

LEMMA MarksSame ==
  ASSUME NEW rows, NEW new, NEW P, NEW P2, NEW kind, NEW said, NEW said2,
         Marks(rows, P, kind, said), Same(rows, new),
         \A i \in DOMAIN rows : i \in P2 <=> i \in P,
         \A d, t : <<kind, d, t>> \in said2 <=> <<kind, d, t>> \in said
  PROVE  Marks(new, P2, kind, said2)
<1>1. \A i \in DOMAIN rows : FirstNamed(new, i) <=> FirstNamed(rows, i)
  BY DEF Same, FirstNamed
<1> QED BY <1>1 DEF Marks, Same

\* Rows of a database that nothing was said of.
LEMMA MarksAdd ==
  ASSUME NEW rows, NEW new, NEW P, NEW P2, NEW kind, NEW said, NEW said2, NEW d,
         Marks(rows, P, kind, said), Extends(rows, new, d),
         \A i \in DOMAIN rows : i \in P2 <=> i \in P,
         \A i \in DOMAIN new : i > Len(rows) => i \notin P2,
         \A e, t : <<kind, e, t>> \in said2 <=> <<kind, e, t>> \in said,
         \A t : <<kind, d, t>> \notin said
  PROVE  Marks(new, P2, kind, said2)
<1>1. /\ DOMAIN rows \subseteq DOMAIN new /\ Len(rows) \in Nat
      /\ DOMAIN rows = 1 .. Len(rows) /\ DOMAIN new = 1 .. Len(new)
  BY DEF Extends
<1>2. \A i \in DOMAIN rows : new[i].db = rows[i].db /\ new[i].oid = rows[i].oid
  BY DEF Extends
<1>3. ASSUME NEW i \in DOMAIN rows PROVE FirstNamed(new, i) <=> FirstNamed(rows, i)
  <2>1. \A j \in DOMAIN new : j < i => j \in DOMAIN rows
    BY <1>1
  <2> QED BY <1>1, <1>2, <2>1 DEF FirstNamed
<1>4. ASSUME NEW i \in DOMAIN new
      PROVE  i \in P2 <=> FirstNamed(new, i) /\ <<kind, new[i].db, new[i].oid>> \in said2
  <2>1. CASE i \in DOMAIN rows
    BY <1>2, <1>3, <2>1 DEF Marks
  <2>2. CASE i \notin DOMAIN rows
    <3>1. i > Len(rows)
      BY <1>1, <2>2
    <3>2. new[i].db = d
      BY <3>1 DEF Extends
    <3> QED BY <3>1, <3>2
  <2> QED BY <2>1, <2>2
<1> QED BY <1>4 DEF Marks

\* Something is said of the tables S of database d, and marks their first rows.
MarksFirst(rows, P, P2, d, S) ==
  \A i \in DOMAIN rows :
    i \in P2 <=> i \in P \/ (rows[i].db = d /\ FirstNamed(rows, i) /\ rows[i].oid \in S)

SaysOf(kind, said, said2, d, S) ==
  \A e, t : <<kind, e, t>> \in said2 <=> <<kind, e, t>> \in said \/ (e = d /\ t \in S)

LEMMA MarksSet ==
  ASSUME NEW rows, NEW new, NEW P, NEW P2, NEW kind, NEW said, NEW said2, NEW d, NEW S,
         Marks(rows, P, kind, said), Same(rows, new),
         MarksFirst(rows, P, P2, d, S), SaysOf(kind, said, said2, d, S)
  PROVE  Marks(new, P2, kind, said2)
<1>1. \A i \in DOMAIN rows : FirstNamed(new, i) <=> FirstNamed(rows, i)
  BY DEF Same, FirstNamed
<1>2. ASSUME NEW i \in DOMAIN rows
      PROVE  i \in P2 <=> FirstNamed(rows, i) /\ <<kind, rows[i].db, rows[i].oid>> \in said2
  <2>1. i \in P <=> FirstNamed(rows, i) /\ <<kind, rows[i].db, rows[i].oid>> \in said
    BY DEF Marks
  <2>2. <<kind, rows[i].db, rows[i].oid>> \in said2
          <=> <<kind, rows[i].db, rows[i].oid>> \in said \/ (rows[i].db = d /\ rows[i].oid \in S)
    BY DEF SaysOf
  <2> QED BY <2>1, <2>2 DEF MarksFirst
<1> QED BY <1>1, <1>2 DEF Marks, Same

LEMMA FoundIsFirst ==
  ASSUME NEW rows, NEW i \in DOMAIN rows
  PROVE  FoundByName(rows, i) <=> rows[i].db = db /\ FirstNamed(rows, i)
<1>1. \A j \in DOMAIN rows : <<rows[j].db, rows[j].oid>> # <<rows[i].db, rows[i].oid>>
                            <=> (rows[j].db = rows[i].db => rows[j].oid # rows[i].oid)
  OBVIOUS
<1> QED BY <1>1 DEF FoundByName, FirstNamed

BloatedTables  == {i \in DOMAIN tables : tables[i].bloat}
SizedTables    == {i \in DOMAIN tables : tables[i].size = "citus"}
BloatedIndexes == {i \in DOMAIN indexes : indexes[i].bloat}

NamedKinds == {"bloat", "size", "index bloat"}

SaidInv ==
  \A kind \in NamedKinds : \A e, t :
    <<kind, e, t>> \in gave => /\ Has(collectedDBs, e)
                               /\ (\E f \in Late : Has(Left, f)) => e # db

MarkInv == /\ Marks(tables, BloatedTables, "bloat", gave)
           /\ Marks(tables, SizedTables, "size", gave)
           /\ Marks(indexes, BloatedIndexes, "index bloat", gave)

\* All but two functions say nothing of these kinds.
SaysNothing == \A kind \in NamedKinds : \A e, t : <<kind, e, t>> \in gave' <=> <<kind, e, t>> \in gave

LEMMA Silent ==
  ASSUME [Next]_vars
  PROVE  SaysNothing \/ AnswerBloat \/ GetCitus
<1>1. UNCHANGED gave => SaysNothing
  BY DEF SaysNothing
<1>2. CollectDatabase \/ EndDatabase \/ Report \/ Dies => UNCHANGED gave
  BY DEF CollectDatabase, EndDatabase, LeaveDatabase, Report, Dies
<1>3. AnswerTables \/ AnswerIndexes \/ TablesLockTimeout \/ IndexesLockTimeout => UNCHANGED gave
  BY DEF AnswerTables, AnswerIndexes, TablesLockTimeout, IndexesLockTimeout
<1>4. AnswerExtensions \/ GetStatements \/ Create \/ Drop \/ UNCHANGED vars => UNCHANGED gave
  BY DEF AnswerExtensions, GetStatements, Create, Drop, Alter, vars
<1>5. ASSUME NEW k \in {"parent", "defn", "trigger"}, NEW S, Gave(k, S) PROVE SaysNothing
  <2>1. gave' = gave \cup {<<k, db, t>> : t \in S} /\ k \notin NamedKinds
    BY <1>5 DEF Gave, NamedKinds
  <2> QED BY <2>1 DEF SaysNothing
<1>6. AnswerPartitionInfo \/ AnswerParentInfo \/ AnswerIndexDef \/ AnswerDisabledTriggers
        => SaysNothing
  <2>1. AnswerPartitionInfo \/ AnswerParentInfo => \E S : Gave("parent", S)
    BY DEF AnswerPartitionInfo, AnswerParentInfo, SetParent
  <2>2. AnswerIndexDef => \E S : Gave("defn", S)
    BY DEF AnswerIndexDef
  <2>3. AnswerDisabledTriggers => \E S : Gave("trigger", S)
    BY DEF AnswerDisabledTriggers, AddTriggers
  <2> QED BY <1>5, <2>1, <2>2, <2>3
<1> QED BY <1>1, <1>2, <1>3, <1>4, <1>6, NextSplit DEF Quiet, Editing

LEMMA SaidNext == Legal /\ SaidInv /\ [Next]_vars => SaidInv'
<1> SUFFICES ASSUME Legal, SaidInv, [Next]_vars, NEW kind \in NamedKinds, NEW e, NEW t,
                    <<kind, e, t>> \in gave'
             PROVE  Has(collectedDBs', e) /\ ((\E f \in Late : Has(Left', f)) => e # db')
  BY DEF SaidInv
<1>0. o' = o /\ (turn' = turn => db' = db) /\ \A f : ~Has(<<>>, f)
  BY Moves DEF db, Has
<1>0a. <<kind, e, t>> \in gave =>
         Has(collectedDBs, e) /\ ((\E f \in Late : Has(Left, f)) => e # db)
  BY DEF SaidInv
<1>1. CASE CollectDatabase
  <2>0. <<kind, e, t>> \in gave /\ pc = "next"
    BY <1>1 DEF CollectDatabase
  <2>1. CASE Collected
    <3>1. pc' = "next" /\ UNCHANGED collectedDBs
      BY <1>1, <2>0, <2>1 DEF CollectDatabase
    <3> QED BY <1>0, <1>0a, <2>0, <3>1 DEF Left
  <2>2. CASE ~Collected
    <3>1. ~Has(collectedDBs, db) /\ turn' = turn /\ collectedDBs' = Append(collectedDBs, db)
      BY <1>1, <2>2 DEF CollectDatabase, Collected, Has
    <3>2. collectedDBs \in Seq(DBs) /\ db \in DBs
      <4>1. o.turns \in Seq(DBs) /\ turn \in 1 .. Len(o.turns)
        <5>1. o.turns \in Seq(DBs) /\ turn \in 1 .. Len(o.turns) + 1 /\ turn <= Len(o.turns)
          BY <1>1, WorldsAreWorlds DEF Legal, TypeOK, ServerType, PlaceType, World, CollectDatabase
        <5> QED BY <5>1, LenProperties
      <4> QED BY <4>1, ElementOfSeq DEF db, Legal, TypeOK, PlaceType
    <3>3. Has(collectedDBs, e) /\ e # db
      BY <1>0a, <2>0, <3>1
    <3>4. Has(collectedDBs', e)
      BY <3>1, <3>2, <3>3, AppendHas
    <3> QED BY <1>0, <3>1, <3>3, <3>4
  <2> QED BY <2>1, <2>2
<1>2. CASE EndDatabase \/ Report \/ Dies
  <2>1. pc' # "query" /\ UNCHANGED <<collectedDBs, gave>>
    BY <1>2 DEF EndDatabase, LeaveDatabase, Report, Dies
  <2> QED BY <1>0, <1>0a, <2>1 DEF Left
<1>3. CASE Stays /\ Quiet
  <2>1. UNCHANGED <<pc, turn, todo, collectedDBs>>
    BY <1>3 DEF Stays
  <2>2. Left' = Left /\ db' = db
    BY <1>0, <2>1 DEF Left
  <2>3. <<kind, e, t>> \in gave
    <3>1. SaysNothing
      <4>1. CASE AnswerBloat \/ GetCitus
        <5>1. pc = "query" /\ todo # <<>> /\ todo' = Tail(todo) /\ todo' = todo
          BY <2>1, <4>1 DEF AnswerBloat, SetBloat, GetCitus, Doing, Goes
        <5>2. todo \in Seq(Functions)
          BY DEF Legal, TypeOK, PlaceType
        <5>3. Len(Tail(todo)) = Len(todo) - 1 /\ Len(todo) \in Nat
          BY <5>1, <5>2, HeadTailProperties, LenProperties
        <5> QED BY <5>1, <5>3
      <4> QED BY <4>1, Silent
    <3> QED BY <3>1 DEF SaysNothing
  <2> QED BY <1>0a, <2>1, <2>2, <2>3
<1>4. CASE Advances
  <2>0. /\ pc = "query" /\ pc' = "query" /\ UNCHANGED <<turn, collectedDBs>>
        /\ db' = db /\ Left = todo /\ Left' = todo' /\ Has(collectedDBs, db) /\ Ordered(todo)
        /\ todo \in Seq(Functions) /\ todo # <<>> /\ todo' = Tail(todo)
    BY <1>0, <1>4 DEF Advances, Legal, TypeOK, PlaceType, Left
  <2>1. CASE SaysNothing
    <3>1. \A f : Has(Left', f) => Has(Left, f)
      BY <1>4, <2>0, Advancing
    <3> QED BY <1>0a, <2>0, <2>1, <3>1 DEF SaysNothing
  <2>2. CASE AnswerBloat \/ GetCitus
    <3>1. Head(todo) \in AskTables
      BY <2>2 DEF AnswerBloat, SetBloat, GetCitus, Doing, AskTables
    <3>2. \A f \in Late : ~Has(Left', f)
      BY <2>0, <3>1, OrderedTail, HasNot DEF Late
    <3>3. <<kind, e, t>> \in gave \/ e = db
      <4>1. ASSUME NEW k, NEW S, <<kind, e, t>> \in {<<k, db, u>> : u \in S}
            PROVE  e = db
        BY <4>1
      <4>2. AnswerBloat => \E S, R : gave' = gave \cup {<<"bloat", db, u>> : u \in S}
                                                 \cup {<<"index bloat", db, u>> : u \in R}
        BY DEF AnswerBloat, SetBloat
      <4>3. GetCitus => gave' = gave \/ \E S : gave' = gave \cup {<<"size", db, u>> : u \in S}
        BY DEF GetCitus, Gave
      <4> QED BY <2>2, <4>1, <4>2, <4>3
    <3> QED BY <1>0a, <2>0, <3>2, <3>3
  <2> QED BY <2>1, <2>2, Silent
<1>5. CASE TablesLockTimeout \/ IndexesLockTimeout
  <2>0. PICK first \in {"getTables", "getIndexes"} :
          /\ pc = "query" /\ todo # <<>> /\ Head(todo) = first
          /\ UNCHANGED <<pc, turn, collectedDBs>>
    BY <1>5, Retrying
  <2>1. <<kind, e, t>> \in gave
    BY <1>5 DEF TablesLockTimeout, IndexesLockTimeout
  <2>2. Has(Left, first) /\ first \in Late
    BY <2>0, HasTail DEF Left, Late, GetTables, GetIndexes, Legal, TypeOK, PlaceType
  <2> QED BY <1>0, <1>0a, <2>0, <2>1, <2>2
<1> QED BY <1>1, <1>2, <1>3, <1>4, <1>5, Moves

\* No step but those two, or one that adds rows, touches a mark.
Unmarking == /\ \A i \in DOMAIN tables : /\ i \in BloatedTables' <=> i \in BloatedTables
                                         /\ i \in SizedTables' <=> i \in SizedTables
             /\ \A i \in DOMAIN indexes : i \in BloatedIndexes' <=> i \in BloatedIndexes

LEMMA MarksKept ==
  ASSUME Legal, Quiet \/ AnswerPartitionInfo \/ AnswerParentInfo \/ AnswerIndexDef
  PROVE  Same(tables, tables') /\ Same(indexes, indexes') /\ Unmarking
<1>0. tables \in Seq(TableRow) /\ indexes \in Seq(IndexRow)
      /\ Same(tables, tables) /\ Same(indexes, indexes)
  BY SameItself DEF Legal, TypeOK, ListsType
<1>0a. /\ \A i \in DOMAIN tables : tables[i] \in TableRow
       /\ \A i \in DOMAIN indexes : indexes[i] \in IndexRow
  BY <1>0, ElementOfSeq, LenProperties
<1>1. UNCHANGED tables => /\ Same(tables, tables')
                          /\ \A i \in DOMAIN tables : /\ i \in BloatedTables' <=> i \in BloatedTables
                                                      /\ i \in SizedTables' <=> i \in SizedTables
  BY <1>0 DEF BloatedTables, SizedTables
<1>2. UNCHANGED indexes => /\ Same(indexes, indexes')
                           /\ \A i \in DOMAIN indexes : i \in BloatedIndexes' <=> i \in BloatedIndexes
  BY <1>0 DEF BloatedIndexes
<1>3. CASE Quiet
  BY <1>1, <1>2, <1>3, QuietLists DEF Unmarking
<1>4. CASE AnswerPartitionInfo \/ AnswerParentInfo
  <2>1. PICK S : SetParent(S)
    BY <1>4 DEF AnswerPartitionInfo, AnswerParentInfo
  <2>2. pc = "query" /\ UNCHANGED indexes
    BY <1>4 DEF AnswerPartitionInfo, AnswerParentInfo, SetParent, Doing
  <2>3. Same(tables, tables')
    BY <2>1, <2>2, ParentsSet
  <2>4. tables' = [i \in DOMAIN tables |->
                     IF FoundByOID(tables, i) /\ tables[i].oid \in S
                     THEN [tables[i] EXCEPT !.parent = db] ELSE tables[i]]
    BY <2>1 DEF SetParent
  <2>5. ASSUME NEW i \in DOMAIN tables
        PROVE  tables'[i].bloat = tables[i].bloat /\ tables'[i].size = tables[i].size
    <3>1. tables'[i] = tables[i] \/ tables'[i] = [tables[i] EXCEPT !.parent = db]
      BY <2>4
    <3>2. /\ [tables[i] EXCEPT !.parent = db].bloat = tables[i].bloat
          /\ [tables[i] EXCEPT !.parent = db].size = tables[i].size
      BY <1>0a DEF TableRow
    <3> QED BY <3>1, <3>2
  <2>6. DOMAIN tables' = DOMAIN tables
    BY <2>4
  <2> QED BY <1>2, <2>2, <2>3, <2>5, <2>6 DEF Unmarking, BloatedTables, SizedTables
<1>5. CASE AnswerIndexDef
  <2>1. pc = "query" /\ UNCHANGED tables
    BY <1>5 DEF AnswerIndexDef, Doing
  <2>2. Same(indexes, indexes')
    BY <1>5, <2>1, DefinitionsSet
  <2>3. PICK S \in SUBSET Those(o.indexed) :
          indexes' = [i \in DOMAIN indexes |->
                        IF FoundByOID(indexes, i) /\ indexes[i].oid \in S
                        THEN [indexes[i] EXCEPT !.defn = db] ELSE indexes[i]]
    BY <1>5 DEF AnswerIndexDef
  <2>4. ASSUME NEW i \in DOMAIN indexes PROVE indexes'[i].bloat = indexes[i].bloat
    <3>1. indexes'[i] = indexes[i] \/ indexes'[i] = [indexes[i] EXCEPT !.defn = db]
      BY <2>3
    <3>2. [indexes[i] EXCEPT !.defn = db].bloat = indexes[i].bloat
      BY <1>0a DEF IndexRow
    <3> QED BY <3>1, <3>2
  <2>5. DOMAIN indexes' = DOMAIN indexes
    BY <2>3
  <2> QED BY <1>1, <2>1, <2>2, <2>4, <2>5 DEF Unmarking, BloatedIndexes
<1> QED BY <1>3, <1>4, <1>5

LEMMA MarkNext == Legal /\ SaidInv /\ MarkInv /\ [Next]_vars => MarkInv'
<1> SUFFICES ASSUME Legal, SaidInv, MarkInv, [Next]_vars PROVE MarkInv'
  OBVIOUS
<1> SUFFICES /\ Marks(tables', BloatedTables', "bloat", gave')
             /\ Marks(tables', SizedTables', "size", gave')
             /\ Marks(indexes', BloatedIndexes', "index bloat", gave')
  BY DEF MarkInv
<1>0. /\ Marks(tables, BloatedTables, "bloat", gave)
      /\ Marks(tables, SizedTables, "size", gave)
      /\ Marks(indexes, BloatedIndexes, "index bloat", gave)
  BY DEF MarkInv
<1>0a. /\ tables \in Seq(TableRow) /\ indexes \in Seq(IndexRow)
       /\ Same(tables, tables) /\ Same(indexes, indexes)
       /\ \A i \in DOMAIN tables : tables[i] \in TableRow
       /\ \A i \in DOMAIN indexes : indexes[i] \in IndexRow
  BY SameItself, ElementOfSeq, LenProperties DEF Legal, TypeOK, ListsType
<1>b. SaysNothing => \A e, t : <<"bloat", e, t>> \in gave' <=> <<"bloat", e, t>> \in gave
  BY DEF SaysNothing, NamedKinds
<1>s. SaysNothing => \A e, t : <<"size", e, t>> \in gave' <=> <<"size", e, t>> \in gave
  BY DEF SaysNothing, NamedKinds
<1>i. SaysNothing => \A e, t : <<"index bloat", e, t>> \in gave' <=> <<"index bloat", e, t>> \in gave
  BY DEF SaysNothing, NamedKinds
<1>1. CASE AnswerBloat
  <2>0. pc = "query"
    BY <1>1 DEF AnswerBloat, SetBloat, Doing
  <2>1. Same(tables, tables') /\ Same(indexes, indexes')
    BY <1>1, <2>0, BloatSet
  <2> DEFINE S == Those(o.bloated)
             R == Those(o.bloated \cap o.indexed)
  <2>2. /\ tables' = [i \in DOMAIN tables |->
                      IF FoundByName(tables, i) /\ tables[i].oid \in S
                      THEN [tables[i] EXCEPT !.bloat = TRUE] ELSE tables[i]]
        /\ indexes' = [i \in DOMAIN indexes |->
                      IF FoundByName(indexes, i) /\ indexes[i].oid \in R
                      THEN [indexes[i] EXCEPT !.bloat = TRUE] ELSE indexes[i]]
        /\ gave' = gave \cup {<<"bloat", db, t>> : t \in S} \cup {<<"index bloat", db, t>> : t \in R}
    BY <1>1 DEF AnswerBloat, SetBloat
  <2> HIDE DEF S, R
  <2>3. ASSUME NEW i \in DOMAIN tables
        PROVE  /\ i \in BloatedTables' <=>
                    \/ i \in BloatedTables
                    \/ tables[i].db = db /\ FirstNamed(tables, i) /\ tables[i].oid \in S
               /\ i \in SizedTables' <=> i \in SizedTables
    <3>1. tables'[i] = IF FoundByName(tables, i) /\ tables[i].oid \in S
                       THEN [tables[i] EXCEPT !.bloat = TRUE] ELSE tables[i]
      BY <2>2
    <3>2. /\ [tables[i] EXCEPT !.bloat = TRUE].bloat = TRUE
          /\ [tables[i] EXCEPT !.bloat = TRUE].size = tables[i].size
      BY <1>0a DEF TableRow
    <3>3. FoundByName(tables, i) <=> tables[i].db = db /\ FirstNamed(tables, i)
      BY FoundIsFirst
    <3>4. DOMAIN tables' = DOMAIN tables
      BY <2>2
    <3>5. tables'[i].bloat <=> tables[i].bloat \/ (FoundByName(tables, i) /\ tables[i].oid \in S)
      BY <3>1, <3>2
    <3>6. tables'[i].size = tables[i].size
      BY <3>1, <3>2
    <3> QED BY <3>3, <3>4, <3>5, <3>6 DEF BloatedTables, SizedTables
  <2>4. ASSUME NEW i \in DOMAIN indexes
        PROVE  i \in BloatedIndexes' <=>
                 \/ i \in BloatedIndexes
                 \/ indexes[i].db = db /\ FirstNamed(indexes, i) /\ indexes[i].oid \in R
    <3>1. indexes'[i] = IF FoundByName(indexes, i) /\ indexes[i].oid \in R
                        THEN [indexes[i] EXCEPT !.bloat = TRUE] ELSE indexes[i]
      BY <2>2
    <3>2. [indexes[i] EXCEPT !.bloat = TRUE].bloat = TRUE
      BY <1>0a DEF IndexRow
    <3>3. FoundByName(indexes, i) <=> indexes[i].db = db /\ FirstNamed(indexes, i)
      BY FoundIsFirst
    <3>4. DOMAIN indexes' = DOMAIN indexes
      BY <2>2
    <3>5. indexes'[i].bloat <=> indexes[i].bloat \/ (FoundByName(indexes, i) /\ indexes[i].oid \in R)
      BY <3>1, <3>2
    <3> QED BY <3>3, <3>4, <3>5 DEF BloatedIndexes
  <2>5. /\ \A e, t : <<"bloat", e, t>> \in gave' <=> <<"bloat", e, t>> \in gave \/ (e = db /\ t \in S)
        /\ \A e, t : <<"index bloat", e, t>> \in gave' <=>
                        <<"index bloat", e, t>> \in gave \/ (e = db /\ t \in R)
        /\ \A e, t : <<"size", e, t>> \in gave' <=> <<"size", e, t>> \in gave
    BY <2>2
  <2>6. Marks(tables', BloatedTables', "bloat", gave')
    <3>1. MarksFirst(tables, BloatedTables, BloatedTables', db, S)
      BY <2>3 DEF MarksFirst
    <3>2. SaysOf("bloat", gave, gave', db, S)
      BY <2>5 DEF SaysOf
    <3> QED BY <1>0, <2>1, <3>1, <3>2, MarksSet
  <2>7. Marks(indexes', BloatedIndexes', "index bloat", gave')
    <3>1. MarksFirst(indexes, BloatedIndexes, BloatedIndexes', db, R)
      BY <2>4 DEF MarksFirst
    <3>2. SaysOf("index bloat", gave, gave', db, R)
      BY <2>5 DEF SaysOf
    <3> QED BY <1>0, <2>1, <3>1, <3>2, MarksSet
  <2>8. Marks(tables', SizedTables', "size", gave')
    BY <1>0, <2>1, <2>3, <2>5, MarksSame
  <2> QED BY <2>6, <2>7, <2>8
<1>2. CASE GetCitus
  <2>0. pc = "query" /\ UNCHANGED indexes
    BY <1>2 DEF GetCitus, Doing
  <2>1. Same(tables, tables')
    BY <1>2, <2>0, SizesSet
  <2>1a. \A i \in DOMAIN indexes : i \in BloatedIndexes' <=> i \in BloatedIndexes
    BY <2>0 DEF BloatedIndexes
  <2>2. CASE UNCHANGED <<tables, gave>>
    <3>1. \A i \in DOMAIN tables : /\ i \in BloatedTables' <=> i \in BloatedTables
                                   /\ i \in SizedTables' <=> i \in SizedTables
      BY <2>2 DEF BloatedTables, SizedTables
    <3>2. \A k, e, t : <<k, e, t>> \in gave' <=> <<k, e, t>> \in gave
      BY <2>2
    <3>3. Marks(tables', BloatedTables', "bloat", gave')
      BY <1>0, <2>1, <3>1, <3>2, MarksSame
    <3>4. Marks(tables', SizedTables', "size", gave')
      BY <1>0, <2>1, <3>1, <3>2, MarksSame
    <3>5. Marks(indexes', BloatedIndexes', "index bloat", gave')
      BY <1>0, <1>0a, <2>0, <2>1a, <3>2, MarksSame
    <3> QED BY <3>3, <3>4, <3>5 DEF MarkInv
  <2>3. ASSUME NEW S, Gave("size", S),
               tables' = [i \in DOMAIN tables |->
                            IF FoundByName(tables, i) /\ tables[i].oid \in S
                            THEN [tables[i] EXCEPT !.size = "citus"] ELSE tables[i]]
        PROVE  MarkInv'
    <3>1. ASSUME NEW i \in DOMAIN tables
          PROVE  /\ i \in SizedTables' <=>
                      \/ i \in SizedTables
                      \/ tables[i].db = db /\ FirstNamed(tables, i) /\ tables[i].oid \in S
                 /\ i \in BloatedTables' <=> i \in BloatedTables
      <4>1. tables'[i] = IF FoundByName(tables, i) /\ tables[i].oid \in S
                         THEN [tables[i] EXCEPT !.size = "citus"] ELSE tables[i]
        BY <2>3
      <4>2. /\ [tables[i] EXCEPT !.size = "citus"].size = "citus"
            /\ [tables[i] EXCEPT !.size = "citus"].bloat = tables[i].bloat
        BY <1>0a DEF TableRow
      <4>3. FoundByName(tables, i) <=> tables[i].db = db /\ FirstNamed(tables, i)
        BY FoundIsFirst
      <4>4. DOMAIN tables' = DOMAIN tables
        BY <2>3
      <4>5. tables'[i].size = "citus" <=>
              tables[i].size = "citus" \/ (FoundByName(tables, i) /\ tables[i].oid \in S)
        BY <4>1, <4>2
      <4>6. tables'[i].bloat = tables[i].bloat
        BY <4>1, <4>2
      <4> QED BY <4>3, <4>4, <4>5, <4>6 DEF BloatedTables, SizedTables
    <3>2. /\ \A e, t : <<"size", e, t>> \in gave' <=> <<"size", e, t>> \in gave \/ (e = db /\ t \in S)
          /\ \A e, t : <<"bloat", e, t>> \in gave' <=> <<"bloat", e, t>> \in gave
          /\ \A e, t : <<"index bloat", e, t>> \in gave' <=> <<"index bloat", e, t>> \in gave
      BY <2>3 DEF Gave
    <3>3. Marks(tables', SizedTables', "size", gave')
      <4>1. MarksFirst(tables, SizedTables, SizedTables', db, S)
        BY <3>1 DEF MarksFirst
      <4>2. SaysOf("size", gave, gave', db, S)
        BY <3>2 DEF SaysOf
      <4> QED BY <1>0, <2>1, <4>1, <4>2, MarksSet
    <3>4. Marks(tables', BloatedTables', "bloat", gave')
      BY <1>0, <2>1, <3>1, <3>2, MarksSame
    <3>5. Marks(indexes', BloatedIndexes', "index bloat", gave')
      BY <1>0, <1>0a, <2>0, <2>1a, <3>2, MarksSame
    <3> QED BY <3>3, <3>4, <3>5 DEF MarkInv
  <2> QED BY <1>2, <2>2, <2>3 DEF GetCitus, MarkInv
<1>3. CASE SaysNothing /\ (Quiet \/ AnswerPartitionInfo \/ AnswerParentInfo \/ AnswerIndexDef)
  <2>1. Same(tables, tables') /\ Same(indexes, indexes') /\ Unmarking
    BY <1>3, MarksKept
  <2>2. Marks(tables', BloatedTables', "bloat", gave')
    BY <1>0, <1>b, <1>3, <2>1, MarksSame DEF Unmarking
  <2>3. Marks(tables', SizedTables', "size", gave')
    BY <1>0, <1>s, <1>3, <2>1, MarksSame DEF Unmarking
  <2>4. Marks(indexes', BloatedIndexes', "index bloat", gave')
    BY <1>0, <1>i, <1>3, <2>1, MarksSame DEF Unmarking
  <2> QED BY <2>2, <2>3, <2>4
<1>4. ASSUME pc = "query", todo # <<>>, Head(todo) \in Late
      PROVE  \A kind \in NamedKinds : \A t : <<kind, db, t>> \notin gave
  <2>1. Left = todo /\ Has(todo, Head(todo))
    BY <1>4, HasTail DEF Left, Legal, TypeOK, PlaceType
  <2> QED BY <1>4, <2>1 DEF SaidInv
<1>5. CASE SaysNothing /\ (AnswerTables \/ TablesLockTimeout)
  <2>1. /\ pc = "query" /\ todo # <<>> /\ Head(todo) \in Late /\ UNCHANGED indexes
    BY <1>5 DEF AnswerTables, TablesLockTimeout, Doing, Late, GetTables
  <2>2. \E S \in SUBSET exists[db], size \in {"none", "table"} : AddTables(S, size)
    <3>1. CASE AnswerTables
      BY <3>1 DEF AnswerTables
    <3>2. CASE TablesLockTimeout
      <4>1. PICK t \in exists[db] : AddTables({u \in exists[db] : u < t}, "table")
        BY <3>2 DEF TablesLockTimeout
      <4>2. {u \in exists[db] : u < t} \in SUBSET exists[db]
        OBVIOUS
      <4> QED BY <4>1, <4>2
    <3> QED BY <1>5, <3>1, <3>2
  <2>3. /\ tables' \in Seq(TableRow) /\ Extends(tables, tables', db)
        /\ \A i \in DOMAIN tables : tables'[i] = tables[i]
        /\ \A i \in DOMAIN tables' : i > Len(tables) => ~tables'[i].bloat /\ tables'[i].size # "citus"
    BY <2>1, <2>2, TablesAdded
  <2>4. DOMAIN tables \subseteq DOMAIN tables'
    BY <2>3 DEF Extends
  <2>5. \A i \in DOMAIN tables : /\ i \in BloatedTables' <=> i \in BloatedTables
                                 /\ i \in SizedTables' <=> i \in SizedTables
    BY <2>3, <2>4 DEF BloatedTables, SizedTables
  <2>6. \A i \in DOMAIN tables' : i > Len(tables) => i \notin BloatedTables' /\ i \notin SizedTables'
    BY <2>3 DEF BloatedTables, SizedTables
  <2>7. \A t : <<"bloat", db, t>> \notin gave /\ <<"size", db, t>> \notin gave
    BY <1>4, <2>1 DEF NamedKinds
  <2>8. Marks(tables', BloatedTables', "bloat", gave')
    <3>1. \A i \in DOMAIN tables : i \in BloatedTables' <=> i \in BloatedTables
      BY <2>5
    <3>2. \A i \in DOMAIN tables' : i > Len(tables) => i \notin BloatedTables'
      BY <2>6
    <3>3. \A t : <<"bloat", db, t>> \notin gave
      BY <2>7
    <3> QED BY <1>0, <1>b, <1>5, <2>3, <3>1, <3>2, <3>3, MarksAdd
  <2>9. Marks(tables', SizedTables', "size", gave')
    <3>1. \A i \in DOMAIN tables : i \in SizedTables' <=> i \in SizedTables
      BY <2>5
    <3>2. \A i \in DOMAIN tables' : i > Len(tables) => i \notin SizedTables'
      BY <2>6
    <3>3. \A t : <<"size", db, t>> \notin gave
      BY <2>7
    <3> QED BY <1>0, <1>s, <1>5, <2>3, <3>1, <3>2, <3>3, MarksAdd
  <2>10. \A i \in DOMAIN indexes : i \in BloatedIndexes' <=> i \in BloatedIndexes
    BY <2>1 DEF BloatedIndexes
  <2>11. Marks(indexes', BloatedIndexes', "index bloat", gave')
    BY <1>0, <1>0a, <1>i, <1>5, <2>1, <2>10, MarksSame
  <2> QED BY <2>8, <2>9, <2>11
<1>6. CASE SaysNothing /\ (AnswerIndexes \/ IndexesLockTimeout)
  <2>1. /\ pc = "query" /\ todo # <<>> /\ Head(todo) \in Late /\ UNCHANGED tables
    BY <1>6 DEF AnswerIndexes, IndexesLockTimeout, Doing, Late, GetIndexes
  <2>2. \E S \in SUBSET exists[db], sized \in BOOLEAN : AddIndexes(S, sized)
    <3>1. CASE AnswerIndexes
      <4>1. o.sizes \in BOOLEAN /\ FALSE \in BOOLEAN /\ exists[db] \in SUBSET exists[db]
        BY WorldsAreWorlds DEF Legal, TypeOK, ServerType, World
      <4>2. AddIndexes(exists[db], o.sizes) \/ AddIndexes(exists[db], FALSE)
        BY <3>1 DEF AnswerIndexes
      <4> QED BY <4>1, <4>2
    <3>2. CASE IndexesLockTimeout
      <4>1. PICK t \in Those(o.indexed) : AddIndexes({u \in exists[db] : u < t}, TRUE)
        BY <3>2 DEF IndexesLockTimeout
      <4>2. {u \in exists[db] : u < t} \in SUBSET exists[db] /\ TRUE \in BOOLEAN
        OBVIOUS
      <4> QED BY <4>1, <4>2
    <3> QED BY <1>6, <3>1, <3>2
  <2>3. /\ indexes' \in Seq(IndexRow) /\ Extends(indexes, indexes', db)
        /\ \A i \in DOMAIN indexes : indexes'[i] = indexes[i]
        /\ \A i \in DOMAIN indexes' : i > Len(indexes) => ~indexes'[i].bloat
    BY <2>1, <2>2, IndexesAdded
  <2>4. DOMAIN indexes \subseteq DOMAIN indexes'
    BY <2>3 DEF Extends
  <2>5. \A i \in DOMAIN indexes : i \in BloatedIndexes' <=> i \in BloatedIndexes
    BY <2>3, <2>4 DEF BloatedIndexes
  <2>6. \A i \in DOMAIN indexes' : i > Len(indexes) => i \notin BloatedIndexes'
    BY <2>3 DEF BloatedIndexes
  <2>7. \A t : <<"index bloat", db, t>> \notin gave
    BY <1>4, <2>1 DEF NamedKinds
  <2>8. Marks(indexes', BloatedIndexes', "index bloat", gave')
    BY <1>0, <1>i, <1>6, <2>3, <2>5, <2>6, <2>7, MarksAdd
  <2>9. \A i \in DOMAIN tables : /\ i \in BloatedTables' <=> i \in BloatedTables
                                 /\ i \in SizedTables' <=> i \in SizedTables
    BY <2>1 DEF BloatedTables, SizedTables
  <2>10. Marks(tables', BloatedTables', "bloat", gave') /\ Marks(tables', SizedTables', "size", gave')
    <3>1. Marks(tables', BloatedTables', "bloat", gave')
      BY <1>0, <1>0a, <1>b, <1>6, <2>1, <2>9, MarksSame
    <3>2. Marks(tables', SizedTables', "size", gave')
      BY <1>0, <1>0a, <1>s, <1>6, <2>1, <2>9, MarksSame
    <3> QED BY <3>1, <3>2
  <2> QED BY <2>8, <2>10
<1> QED BY <1>1, <1>2, <1>3, <1>5, <1>6, Silent, NextSplit DEF Editing

\* Bloat and the sizes of distributed tables are given to the first row with the
\* database and the OID they were said of, and to no other.
THEOREM NamesHitHome == Spec => []NamesHitTheirDatabase
<1>1. Init => SaidInv /\ MarkInv
  BY DEF Init, SaidInv, MarkInv, Marks
<1>2. MarkInv => NamesHitTheirDatabase
  BY DEF MarkInv, Marks, NamesHitTheirDatabase, BloatedTables, SizedTables, BloatedIndexes
<1> QED BY <1>1, <1>2, SaidNext, MarkNext, LegalAlways, PTL DEF Spec

-----------------------------------------------------------------------------
(***************************************************************************)
(* Triggers.  The database that is asked is the last that was collected,   *)
(* and once a trigger of a database is listed, it gets no more tables.     *)
(***************************************************************************)
Latest(dbs, d) ==
  /\ dbs # <<>> /\ dbs[Len(dbs)] = d
  /\ \A k \in DOMAIN dbs : k < Len(dbs) => dbs[k] # d

LastInv == pc = "query" => Latest(collectedDBs, db)

FromInv ==
  \A k \in DOMAIN triggers :
    /\ Has(collectedDBs, triggers[k].from)
    /\ (\E f \in GetTables : Has(Left, f)) => triggers[k].from # db

BeforeIn(dbs, d, e) == \E i, j \in DOMAIN dbs : i < j /\ dbs[i] = d /\ dbs[j] = e

\* TriggersPlaced, of one trigger.
Placed(g, rows, dbs, unnamed) ==
  IF g.table = NoDB
  THEN unnamed /\ \A i \in DOMAIN rows : rows[i].oid = g.oid => BeforeIn(dbs, g.from, rows[i].db)
  ELSE /\ ~BeforeIn(dbs, g.from, g.table)
       /\ \E i \in DOMAIN rows : First(rows, i) /\ rows[i].oid = g.oid /\ rows[i].db = g.table

LEMMA PlacedIs ==
  TriggersPlaced <=> \A k \in DOMAIN triggers : Placed(triggers[k], tables, collectedDBs, o.unnamed)
BY DEF TriggersPlaced, Placed, Before, BeforeIn

\* Rows are edited.
LEMMA PlacedSame ==
  ASSUME NEW g, NEW rows, NEW new, NEW dbs, NEW u, Placed(g, rows, dbs, u), Same(rows, new)
  PROVE  Placed(g, new, dbs, u)
<1>1. \A i \in DOMAIN rows : First(rows, i) => First(new, i)
  BY DEF First, Same
<1>2. DOMAIN new = DOMAIN rows
      /\ \A i \in DOMAIN rows : new[i].db = rows[i].db /\ new[i].oid = rows[i].oid
  BY DEF Same
<1>3. CASE g.table = NoDB
  BY <1>2, <1>3 DEF Placed
<1>4. CASE g.table # NoDB
  BY <1>1, <1>2, <1>4 DEF Placed
<1> QED BY <1>3, <1>4

\* Rows are added, of a database collected after that of the trigger.
LEMMA PlacedAdd ==
  ASSUME NEW g, NEW rows, NEW new, NEW dbs, NEW u, NEW d, Placed(g, rows, dbs, u),
         Extends(rows, new, d), BeforeIn(dbs, g.from, d)
  PROVE  Placed(g, new, dbs, u)
<1>1. /\ DOMAIN rows = 1 .. Len(rows) /\ DOMAIN new = 1 .. Len(new) /\ Len(rows) \in Nat
      /\ DOMAIN rows \subseteq DOMAIN new
      /\ \A i \in DOMAIN rows : new[i].db = rows[i].db /\ new[i].oid = rows[i].oid
      /\ \A i \in DOMAIN new : i > Len(rows) => new[i].db = d
  BY DEF Extends
<1>2. ASSUME NEW i \in DOMAIN rows, First(rows, i) PROVE First(new, i)
  <2>1. \A j \in DOMAIN new : j < i => j \in DOMAIN rows
    BY <1>1
  <2> QED BY <1>1, <1>2, <2>1 DEF First
<1>3. CASE g.table = NoDB
  <2>1. ASSUME NEW i \in DOMAIN new, new[i].oid = g.oid PROVE BeforeIn(dbs, g.from, new[i].db)
    <3>1. CASE i \in DOMAIN rows
      BY <1>1, <1>3, <2>1, <3>1 DEF Placed
    <3>2. CASE i \notin DOMAIN rows
      <4>1. i > Len(rows)
        BY <1>1, <3>2
      <4> QED BY <1>1, <4>1
    <3> QED BY <3>1, <3>2
  <2> QED BY <1>3, <2>1 DEF Placed
<1>4. CASE g.table # NoDB
  <2>1. PICK i \in DOMAIN rows : First(rows, i) /\ rows[i].oid = g.oid /\ rows[i].db = g.table
    BY <1>4 DEF Placed
  <2>2. i \in DOMAIN new /\ First(new, i) /\ new[i].oid = g.oid /\ new[i].db = g.table
    BY <1>1, <1>2, <2>1
  <2> QED BY <1>4, <2>2 DEF Placed
<1> QED BY <1>3, <1>4

\* A new database follows: the order of those before it stays.
LEMMA BeforeMore ==
  ASSUME NEW S, NEW dbs \in Seq(S), NEW d \in S, ~Has(dbs, d)
  PROVE  /\ \A e, f : BeforeIn(dbs, e, f) => BeforeIn(Append(dbs, d), e, f)
         /\ \A e, f : Has(dbs, f) /\ BeforeIn(Append(dbs, d), e, f) => BeforeIn(dbs, e, f)
<1>1. /\ Len(dbs) \in Nat /\ DOMAIN dbs = 1 .. Len(dbs)
      /\ DOMAIN Append(dbs, d) = 1 .. Len(dbs) + 1
      /\ \A i \in DOMAIN dbs : Append(dbs, d)[i] = dbs[i]
      /\ Append(dbs, d)[Len(dbs) + 1] = d
  BY AppendProperties, LenProperties
<1>2. ASSUME NEW e, NEW f, BeforeIn(dbs, e, f) PROVE BeforeIn(Append(dbs, d), e, f)
  <2>1. DOMAIN dbs \subseteq DOMAIN Append(dbs, d)
    BY <1>1
  <2> QED BY <1>1, <1>2, <2>1 DEF BeforeIn
<1>3. ASSUME NEW e, NEW f, Has(dbs, f), BeforeIn(Append(dbs, d), e, f) PROVE BeforeIn(dbs, e, f)
  <2>1. PICK i \in DOMAIN Append(dbs, d), j \in DOMAIN Append(dbs, d) :
          i < j /\ Append(dbs, d)[i] = e /\ Append(dbs, d)[j] = f
    BY <1>3 DEF BeforeIn
  <2>2. f # d
    BY <1>3
  <2>3. j # Len(dbs) + 1
    BY <1>1, <2>1, <2>2
  <2>4. j \in DOMAIN dbs /\ i \in DOMAIN dbs
    BY <1>1, <2>1, <2>3
  <2> QED BY <1>1, <2>1, <2>4 DEF BeforeIn
<1> QED BY <1>2, <1>3

\* The tables found so far are of the databases before it.
LEMMA PlacedMore ==
  ASSUME NEW g, NEW rows, NEW S, NEW dbs \in Seq(S), NEW u, NEW d \in S, Placed(g, rows, dbs, u),
         ~Has(dbs, d), \A i \in DOMAIN rows : Has(dbs, rows[i].db)
  PROVE  Placed(g, rows, Append(dbs, d), u)
<1>4. CASE g.table = NoDB
  BY <1>4, BeforeMore DEF Placed
<1>5. CASE g.table # NoDB
  <2>1. PICK i \in DOMAIN rows : First(rows, i) /\ rows[i].oid = g.oid /\ rows[i].db = g.table
    BY <1>5 DEF Placed
  <2>2. Has(dbs, g.table)
    BY <2>1
  <2>3. ~BeforeIn(Append(dbs, d), g.from, g.table)
    BY <1>5, <2>2, BeforeMore DEF Placed
  <2> QED BY <1>5, <2>1, <2>3 DEF Placed
<1> QED BY <1>4, <1>5

\* What comes before the last database, and that nothing comes after it.
LEMMA LatestOrder ==
  ASSUME NEW S, NEW dbs \in Seq(S), NEW d, Latest(dbs, d)
  PROVE  /\ \A e : Has(dbs, e) /\ e # d => BeforeIn(dbs, e, d)
         /\ \A e : ~BeforeIn(dbs, d, e)
<1>1. Len(dbs) \in Nat /\ DOMAIN dbs = 1 .. Len(dbs) /\ Len(dbs) # 0
  BY LenProperties, EmptySeq DEF Latest
<1>2. Len(dbs) \in DOMAIN dbs
  BY <1>1
<1>3. ASSUME NEW e, Has(dbs, e), e # d PROVE BeforeIn(dbs, e, d)
  <2>1. PICK k \in DOMAIN dbs : dbs[k] = e
    BY <1>3 DEF Has
  <2>2. k # Len(dbs)
    BY <1>3, <2>1 DEF Latest
  <2>3. k < Len(dbs)
    BY <1>1, <2>1, <2>2
  <2> QED BY <1>2, <2>1, <2>3 DEF BeforeIn, Latest
<1>4. ASSUME NEW e, BeforeIn(dbs, d, e) PROVE FALSE
  <2>1. PICK i \in DOMAIN dbs, j \in DOMAIN dbs : i < j /\ dbs[i] = d /\ dbs[j] = e
    BY <1>4 DEF BeforeIn
  <2>2. i < Len(dbs)
    BY <1>1, <2>1
  <2> QED BY <2>1, <2>2 DEF Latest
<1> QED BY <1>3, <1>4

\* A database that is new, or the one that was asked already.
LEMMA Continues ==
  ASSUME Legal, [Next]_vars
  PROVE  \/ /\ CollectDatabase /\ ~Has(collectedDBs, db) /\ db \in DBs /\ db' = db
            /\ collectedDBs' = Append(collectedDBs, db) /\ UNCHANGED <<tables, triggers>>
         \/ /\ pc' # "query" /\ UNCHANGED <<tables, triggers, collectedDBs>>
         \/ /\ pc = "query" /\ pc' = "query" /\ db' = db /\ UNCHANGED collectedDBs
            /\ \A f \in GetTables : Has(Left', f) => \E e \in GetTables : Has(Left, e)
         \/ UNCHANGED <<pc, turn, todo, collectedDBs, tables, triggers>> /\ db' = db /\ Left' = Left
<1>0. o' = o /\ (turn' = turn => db' = db)
  BY Moves DEF db
<1>1. CASE CollectDatabase
  <2>1. CASE Collected
    <3>1. pc = "next" /\ pc' = pc /\ UNCHANGED <<tables, triggers, collectedDBs>>
      BY <1>1, <2>1 DEF CollectDatabase, lists
    <3> QED BY <3>1
  <2>2. CASE ~Collected
    <3>1. /\ ~Has(collectedDBs, db) /\ turn' = turn /\ collectedDBs' = Append(collectedDBs, db)
          /\ UNCHANGED <<tables, triggers>>
      BY <1>1, <2>2 DEF CollectDatabase, Collected, Has, lists
    <3>2. db \in DBs
      <4>1. o.turns \in Seq(DBs) /\ turn \in 1 .. Len(o.turns)
        <5>1. o.turns \in Seq(DBs) /\ turn \in 1 .. Len(o.turns) + 1 /\ turn <= Len(o.turns)
          BY <1>1, WorldsAreWorlds DEF Legal, TypeOK, ServerType, PlaceType, World, CollectDatabase
        <5> QED BY <5>1, LenProperties
      <4> QED BY <4>1, ElementOfSeq DEF db
    <3> QED BY <1>0, <1>1, <3>1, <3>2
  <2> QED BY <2>1, <2>2
<1>2. CASE EndDatabase \/ Report \/ Dies
  <2>1. pc' # "query" /\ UNCHANGED <<tables, triggers, collectedDBs>>
    BY <1>2 DEF EndDatabase, LeaveDatabase, Report, Dies, lists
  <2> QED BY <2>1
<1>3. CASE Advances
  <2>1. /\ pc = "query" /\ pc' = "query" /\ UNCHANGED <<turn, collectedDBs>>
        /\ \A f : Has(todo', f) => Has(todo, f)
    BY <1>3, Advancing DEF Advances
  <2>2. Left = todo /\ Left' = todo'
    BY <2>1 DEF Left
  <2> QED BY <1>0, <2>1, <2>2
<1>4. CASE TablesLockTimeout \/ IndexesLockTimeout
  <2>1. PICK first \in {"getTables", "getIndexes"}, again \in {"getTablesAgain", "getIndexesAgain"} :
          /\ pc = "query" /\ todo # <<>> /\ Head(todo) = first
          /\ first = "getIndexes" => again = "getIndexesAgain"
          /\ UNCHANGED <<pc, turn, collectedDBs>>
          /\ \A f : Has(todo', f) <=> f = again \/ Has(Tail(todo), f)
    <3>1. CASE TablesLockTimeout
      <4>1. /\ pc = "query" /\ todo # <<>> /\ Head(todo) = "getTables"
            /\ UNCHANGED <<pc, turn, collectedDBs>>
            /\ \A f : Has(todo', f) <=> f = "getTablesAgain" \/ Has(Tail(todo), f)
        BY <3>1, Retrying
      <4> QED BY <4>1
    <3>2. CASE IndexesLockTimeout
      <4>1. /\ pc = "query" /\ todo # <<>> /\ Head(todo) = "getIndexes"
            /\ UNCHANGED <<pc, turn, collectedDBs>>
            /\ \A f : Has(todo', f) <=> f = "getIndexesAgain" \/ Has(Tail(todo), f)
        BY <3>2, Retrying
      <4> QED BY <4>1
    <3> QED BY <1>4, <3>1, <3>2
  <2>2. Left = todo /\ Left' = todo'
    BY <2>1 DEF Left
  <2>3. Has(todo, first) /\ \A f : Has(Tail(todo), f) => Has(todo, f)
    BY <2>1, HasTail DEF Legal, TypeOK, PlaceType
  <2>4. \A f \in GetTables : Has(todo', f) => \E e \in GetTables : Has(todo, e)
    BY <2>1, <2>3 DEF GetTables
  <2> QED BY <1>0, <2>1, <2>2, <2>4
<1>5. CASE Stays /\ Quiet
  <2>1. UNCHANGED <<pc, turn, todo, collectedDBs, tables, indexes>>
    BY <1>5, QuietLists DEF Stays
  <2>2. Left' = Left /\ db' = db
    BY <1>0, <2>1 DEF Left
  <2>3. CASE AnswerDisabledTriggers \/ AnswerExtensions \/ GetStatements
    <3>1. pc = "query"
      BY <2>3 DEF AnswerDisabledTriggers, AddTriggers, AnswerExtensions, GetStatements, Doing
    <3> QED BY <2>1, <2>2, <3>1
  <2>4. CASE CollectDatabase \/ EndDatabase \/ Report \/ Dies
    BY <1>1, <1>2, <2>4
  <2>5. CASE Create \/ Drop \/ UNCHANGED vars
    <3>1. UNCHANGED triggers
      BY <2>5 DEF Create, Drop, Alter, vars, lists
    <3> QED BY <2>1, <2>2, <3>1
  <2> QED BY <1>5, <2>3, <2>4, <2>5 DEF Quiet
<1> QED BY <1>1, <1>2, <1>3, <1>4, <1>5, Moves

LEMMA LastNext == Legal /\ LastInv /\ [Next]_vars => LastInv'
<1> SUFFICES ASSUME Legal, LastInv, [Next]_vars, pc' = "query" PROVE Latest(collectedDBs', db')
  BY DEF LastInv
<1>0. collectedDBs \in Seq(DBs)
  BY DEF Legal, TypeOK, PlaceType
<1>1. CASE /\ ~Has(collectedDBs, db) /\ db \in DBs /\ db' = db
           /\ collectedDBs' = Append(collectedDBs, db)
  <2>1. /\ Append(collectedDBs, db) # <<>> /\ Len(collectedDBs) \in Nat
        /\ Len(Append(collectedDBs, db)) = Len(collectedDBs) + 1
        /\ Append(collectedDBs, db)[Len(collectedDBs) + 1] = db
        /\ DOMAIN Append(collectedDBs, db) = 1 .. Len(collectedDBs) + 1
        /\ DOMAIN collectedDBs = 1 .. Len(collectedDBs)
        /\ \A i \in 1 .. Len(collectedDBs) : Append(collectedDBs, db)[i] = collectedDBs[i]
    BY <1>0, <1>1, AppendProperties, LenProperties
  <2>2. ASSUME NEW k \in 1 .. Len(collectedDBs) + 1, k < Len(collectedDBs) + 1
        PROVE  Append(collectedDBs, db)[k] # db
    <3>1. k \in 1 .. Len(collectedDBs)
      BY <2>1, <2>2
    <3> QED BY <1>1, <2>1, <3>1 DEF Has
  <2> QED BY <1>1, <2>1, <2>2 DEF Latest
<1>2. CASE pc = "query" /\ db' = db /\ UNCHANGED collectedDBs
  BY <1>2 DEF LastInv
<1> QED BY <1>1, <1>2, Continues

\* The trigger rows that are added.
LEMMA TriggersAdded ==
  ASSUME Legal, [Next]_vars
  PROVE  /\ DOMAIN triggers \subseteq DOMAIN triggers'
         /\ \A k \in DOMAIN triggers : triggers'[k] = triggers[k]
         /\ triggers' = triggers \/ AnswerDisabledTriggers
         /\ AnswerDisabledTriggers =>
              \A k \in DOMAIN triggers' : k \notin DOMAIN triggers =>
                /\ triggers'[k].from = db /\ triggers'[k].table = TableOf(triggers'[k].oid)
                /\ triggers'[k].table # NoDB \/ o.unnamed
<1>0. triggers \in Seq(TriggerRow) /\ tables \in Seq(TableRow)
  BY DEF Legal, TypeOK, ListsType
<1>1. CASE AnswerDisabledTriggers
  <2>1. pc = "query" /\ db \in DBs /\ exists[db] \subseteq Oids
    BY <1>1, Here DEF AnswerDisabledTriggers, AddTriggers, Doing
  <2> DEFINE S == {t \in Those(o.disabled) : TableOf(t) # NoDB \/ o.unnamed}
  <2>2. PICK s \in Ascending(S) :
          triggers' = triggers \o [i \in DOMAIN s |-> [from |-> db, oid |-> s[i], table |-> TableOf(s[i])]]
    BY <1>1 DEF AnswerDisabledTriggers, AddTriggers
  <2>3. S \subseteq Oids
    BY <2>1 DEF Those
  <2>3a. \A t \in S : TableOf(t) # NoDB \/ o.unnamed
    OBVIOUS
  <2> HIDE DEF S
  <2>4. s \in Seq(S) /\ Len(s) \in Nat /\ DOMAIN s = 1 .. Len(s)
    BY <2>3, Ascends, LenProperties
  <2> DEFINE more == [i \in DOMAIN s |-> [from |-> db, oid |-> s[i], table |-> TableOf(s[i])]]
  <2>5. ASSUME NEW i \in DOMAIN s
        PROVE  /\ more[i] \in TriggerRow /\ more[i].from = db /\ more[i].table = TableOf(more[i].oid)
               /\ more[i].table # NoDB \/ o.unnamed
    <3>0. s[i] \in S
      BY <2>4, ElementOfSeq
    <3>1. s[i] \in Oids
      BY <2>3, <3>0
    <3>2. TableOf(s[i]) \in DBs \cup {NoDB}
      BY <1>0, TableOfType
    <3>3. more[i] = [from |-> db, oid |-> s[i], table |-> TableOf(s[i])]
      OBVIOUS
    <3>4. [from |-> db, oid |-> s[i], table |-> TableOf(s[i])] \in TriggerRow
      BY <2>1, <3>1, <3>2 DEF TriggerRow
    <3> HIDE DEF more
    <3>5. more[i].from = db /\ more[i].oid = s[i] /\ more[i].table = TableOf(s[i])
      BY <3>3
    <3> QED BY <2>3a, <3>0, <3>3, <3>4, <3>5
  <2>6. more \in [1 .. Len(s) -> TriggerRow]
    BY <2>4, <2>5
  <2>7. more \in Seq(TriggerRow)
    BY <2>4, <2>6, SeqDef
  <2>7a. DOMAIN more = DOMAIN s /\ triggers' = triggers \o more
    BY <2>2
  <2> HIDE DEF more
  <2>8. /\ Len(triggers) \in Nat /\ Len(more) \in Nat
        /\ DOMAIN triggers = 1 .. Len(triggers) /\ DOMAIN triggers' = 1 .. Len(triggers) + Len(more)
        /\ \A i \in DOMAIN triggers : triggers'[i] = triggers[i]
        /\ \A i \in DOMAIN triggers' : i > Len(triggers) =>
             i - Len(triggers) \in DOMAIN more /\ triggers'[i] = more[i - Len(triggers)]
    BY <1>0, <2>7, <2>7a, Places
  <2>9. DOMAIN triggers \subseteq DOMAIN triggers'
    BY <2>8
  <2>10. \A k \in DOMAIN triggers' : k \notin DOMAIN triggers => k > Len(triggers)
    BY <2>8
  <2> QED BY <1>1, <2>5, <2>7a, <2>8, <2>9, <2>10
<1>2. CASE triggers' = triggers /\ ~AnswerDisabledTriggers
  BY <1>2
<1>3. AnswerDisabledTriggers \/ UNCHANGED triggers
  <2>1. CollectDatabase \/ EndDatabase \/ Report \/ Dies => UNCHANGED triggers
    BY DEF CollectDatabase, EndDatabase, LeaveDatabase, Report, Dies, lists
  <2>2. AnswerTables \/ AnswerIndexes \/ TablesLockTimeout \/ IndexesLockTimeout => UNCHANGED triggers
    BY DEF AnswerTables, AnswerIndexes, TablesLockTimeout, IndexesLockTimeout
  <2>3. AnswerExtensions \/ GetStatements => UNCHANGED triggers
    BY DEF AnswerExtensions, GetStatements, lists
  <2>4. Editing => UNCHANGED triggers
    BY DEF Editing, AnswerPartitionInfo, AnswerParentInfo, SetParent, AnswerIndexDef,
           AnswerBloat, SetBloat, GetCitus
  <2>5. UNCHANGED vars \/ Create \/ Drop => UNCHANGED triggers
    BY DEF vars, lists, Create, Drop, Alter
  <2> QED BY <2>1, <2>2, <2>3, <2>4, <2>5, NextSplit DEF Quiet
<1> QED BY <1>1, <1>2, <1>3

LEMMA FromNext == Legal /\ FromInv /\ [Next]_vars => FromInv'
<1> SUFFICES ASSUME Legal, FromInv, [Next]_vars, NEW k \in DOMAIN triggers'
             PROVE  /\ Has(collectedDBs', triggers'[k].from)
                    /\ (\E f \in GetTables : Has(Left', f)) => triggers'[k].from # db'
  BY DEF FromInv
<1>0. /\ \A i \in DOMAIN triggers :
            /\ Has(collectedDBs, triggers[i].from)
            /\ (\E f \in GetTables : Has(Left, f)) => triggers[i].from # db
      /\ collectedDBs \in Seq(DBs) /\ \A f : ~Has(<<>>, f)
  BY DEF FromInv, Legal, TypeOK, PlaceType, Has
<1>1. CASE AnswerDisabledTriggers
  <2>1. /\ pc = "query" /\ UNCHANGED <<pc, turn, collectedDBs>> /\ todo # <<>> /\ o' = o
        /\ Head(todo) = "getDisabledTriggers" /\ todo' = Tail(todo)
    BY <1>1 DEF AnswerDisabledTriggers, AddTriggers, Doing, Goes, server
  <2>2. Has(collectedDBs, db) /\ Ordered(todo) /\ Left' = todo' /\ db' = db
    BY <2>1 DEF Legal, Left, db
  <2>3. \A f \in GetTables : ~Has(Left', f)
    BY <2>1, <2>2, OrderedTail, HasNot
  <2>4. Has(collectedDBs', triggers'[k].from)
    BY <1>0, <1>1, <2>1, <2>2, TriggersAdded
  <2> QED BY <2>3, <2>4
<1>2. CASE triggers' = triggers
  <2>1. CASE /\ ~Has(collectedDBs, db) /\ db \in DBs /\ db' = db
             /\ collectedDBs' = Append(collectedDBs, db)
    BY <1>0, <1>2, <2>1, AppendHas
  <2>2. CASE pc' # "query" /\ UNCHANGED collectedDBs
    BY <1>0, <1>2, <2>2 DEF Left
  <2>3. CASE /\ db' = db /\ UNCHANGED collectedDBs
             /\ \A f \in GetTables : Has(Left', f) => \E e \in GetTables : Has(Left, e)
    BY <1>0, <1>2, <2>3
  <2> QED BY <2>1, <2>2, <2>3, Continues
<1> QED BY <1>1, <1>2, TriggersAdded

LEMMA PlacedNext ==
  Legal /\ RowsInv /\ LastInv /\ FromInv /\ TriggersPlaced /\ [Next]_vars => TriggersPlaced'
<1> SUFFICES ASSUME Legal, RowsInv, LastInv, FromInv, TriggersPlaced, [Next]_vars
             PROVE  TriggersPlaced'
  OBVIOUS
<1>a. TriggersPlaced' <=>
        \A k \in DOMAIN triggers' : Placed(triggers'[k], tables', collectedDBs', o.unnamed)
  BY Moves DEF TriggersPlaced, Placed, Before, BeforeIn
<1> SUFFICES ASSUME NEW k \in DOMAIN triggers'
             PROVE  Placed(triggers'[k], tables', collectedDBs', o.unnamed)
  BY <1>a
<1>0. /\ \A i \in DOMAIN triggers : Placed(triggers[i], tables, collectedDBs, o.unnamed)
      /\ \A i \in DOMAIN tables : Has(collectedDBs, tables[i].db)
      /\ collectedDBs \in Seq(DBs) /\ tables \in Seq(TableRow)
  BY PlacedIs DEF RowsInv, ListInv, Legal, TypeOK, PlaceType, ListsType
<1>1. CASE /\ ~Has(collectedDBs, db) /\ db \in DBs /\ UNCHANGED <<tables, triggers>>
           /\ collectedDBs' = Append(collectedDBs, db)
  BY <1>0, <1>1, PlacedMore
<1>2. CASE UNCHANGED <<tables, triggers, collectedDBs>>
  BY <1>0, <1>2
<1>3. CASE pc = "query" /\ UNCHANGED collectedDBs
  <2>0. /\ \A e : Has(collectedDBs, e) /\ e # db => BeforeIn(collectedDBs, e, db)
        /\ \A e : ~BeforeIn(collectedDBs, db, e)
    BY <1>0, <1>3, LatestOrder DEF LastInv
  <2>1. CASE AnswerDisabledTriggers
    <3>0. UNCHANGED tables
      BY <2>1 DEF AnswerDisabledTriggers, AddTriggers
    <3>1. CASE k \in DOMAIN triggers
      BY <1>0, <1>3, <3>0, <3>1, TriggersAdded
    <3>2. CASE k \notin DOMAIN triggers
      <4> DEFINE g == triggers'[k]
      <4>1. g.from = db /\ g.table = TableOf(g.oid) /\ (g.table # NoDB \/ o.unnamed)
        BY <2>1, <3>2, TriggersAdded
      <4> HIDE DEF g
      <4>2. CASE \E i \in DOMAIN tables : tables[i].oid = g.oid
        <5> DEFINE c == CHOOSE i \in DOMAIN tables : FoundByOID(tables, i) /\ tables[i].oid = g.oid
        <5>1. c \in DOMAIN tables /\ FoundByOID(tables, c) /\ tables[c].oid = g.oid
          BY <1>0, <4>2, OneIsFound
        <5>2. g.table = tables[c].db
          BY <4>1, <4>2 DEF TableOf
        <5> HIDE DEF c
        <5>3. tables[c].db \in DBs
          <6>1. tables[c] \in TableRow
            BY <1>0, <5>1, ElementOfSeq, LenProperties
          <6> QED BY <6>1 DEF TableRow
        <5>4. g.table # NoDB /\ First(tables, c)
          BY <5>1, <5>2, <5>3, NoDBIsNone DEF First, FoundByOID
        <5>5. Placed(g, tables, collectedDBs, o.unnamed)
          BY <2>0, <4>1, <5>1, <5>2, <5>4 DEF Placed
        <5> QED BY <1>3, <3>0, <5>5 DEF g
      <4>3. CASE ~ \E i \in DOMAIN tables : tables[i].oid = g.oid
        <5>1. g.table = NoDB
          BY <4>1, <4>3 DEF TableOf
        <5>2. Placed(g, tables, collectedDBs, o.unnamed)
          BY <4>1, <4>3, <5>1 DEF Placed
        <5> QED BY <1>3, <3>0, <5>2 DEF g
      <4> QED BY <4>2, <4>3
    <3> QED BY <3>1, <3>2
  <2>2. CASE triggers' = triggers /\ Same(tables, tables')
    BY <1>0, <1>3, <2>2, PlacedSame
  <2>3. CASE triggers' = triggers /\ (AnswerTables \/ TablesLockTimeout) /\ Extends(tables, tables', db)
    <3>1. todo # <<>> /\ Head(todo) \in GetTables
      BY <2>3 DEF AnswerTables, TablesLockTimeout, Doing, GetTables
    <3>2. \E f \in GetTables : Has(Left, f)
      BY <1>3, <3>1, HasTail DEF Left, Legal, TypeOK, PlaceType
    <3>3. Has(collectedDBs, triggers[k].from) /\ triggers[k].from # db
      BY <2>3, <3>2 DEF FromInv
    <3>4. BeforeIn(collectedDBs, triggers[k].from, db)
      BY <2>0, <3>3
    <3> QED BY <1>0, <1>3, <2>3, <3>4, PlacedAdd
  <2>4. AnswerTables \/ TablesLockTimeout => triggers' = triggers
    BY DEF AnswerTables, TablesLockTimeout
  <2> QED BY <2>1, <2>2, <2>3, <2>4, Walk, TriggersAdded
<1> QED BY <1>1, <1>2, <1>3, Continues

\* A disabled trigger is listed under a table that was collected no later, and
\* without one only if no such table has its OID.
THEOREM TriggersFindTables == Spec => []TriggersPlaced
<1>1. Init => LastInv /\ FromInv /\ TriggersPlaced
  BY DEF Init, LastInv, FromInv, TriggersPlaced
<1> QED BY <1>1, RowsInit, RowsNext, LastNext, FromNext, PlacedNext, LegalAlways, PTL DEF Spec

-----------------------------------------------------------------------------
(***************************************************************************)
(* The collection comes to an end.                                         *)
(***************************************************************************)
Phase     == IF pc = "done" THEN 0 ELSE 1
NamesLeft == Len(o.turns) + 1 - turn
Opening   == IF pc = "next" THEN 1 ELSE 0
Retry     == IF todo # <<>> /\ Head(todo) \in {"getTables", "getIndexes"} THEN 1 ELSE 0
Changes   == o.changes - ddl

\* The names still to come, the functions still to be called for this one, whether
\* the next of them may be called again, and what others may still change.
Variant == <<Phase, NamesLeft, Opening, Len(todo), Retry, Changes>>

LEMMA BelowOfSix ==
  ASSUME NEW a1, NEW a2, NEW a3, NEW a4, NEW a5, NEW a6,
         NEW b1, NEW b2, NEW b3, NEW b4, NEW b5, NEW b6,
         \/ a1 < b1
         \/ a1 = b1 /\ a2 < b2
         \/ a1 = b1 /\ a2 = b2 /\ a3 < b3
         \/ a1 = b1 /\ a2 = b2 /\ a3 = b3 /\ a4 < b4
         \/ a1 = b1 /\ a2 = b2 /\ a3 = b3 /\ a4 = b4 /\ a5 < b5
         \/ a1 = b1 /\ a2 = b2 /\ a3 = b3 /\ a4 = b4 /\ a5 = b5 /\ a6 < b6
  PROVE  Below(<<a1, a2, a3, a4, a5, a6>>, <<b1, b2, b3, b4, b5, b6>>)
<1> DEFINE a == <<a1, a2, a3, a4, a5, a6>>
           b == <<b1, b2, b3, b4, b5, b6>>
<1>1. DOMAIN b = 1 .. 6
  OBVIOUS
<1>2. /\ a[1] = a1 /\ a[2] = a2 /\ a[3] = a3 /\ a[4] = a4 /\ a[5] = a5 /\ a[6] = a6
      /\ b[1] = b1 /\ b[2] = b2 /\ b[3] = b3 /\ b[4] = b4 /\ b[5] = b5 /\ b[6] = b6
  OBVIOUS
<1>3. \E k \in 1 .. 6 : a[k] < b[k] /\ \A j \in 1 .. k - 1 : a[j] = b[j]
  <2> HIDE DEF a, b
  <2> QED BY <1>2
<1> QED BY <1>1, <1>3 DEF Below

LEMMA OneLess == ASSUME NEW n \in Nat, NEW t \in Nat PROVE n + 1 - (t + 1) < n + 1 - t
OBVIOUS

LEMMA VariantType == Legal => Variant \in [1 .. 6 -> Nat]
<1> SUFFICES ASSUME Legal PROVE Variant \in [1 .. 6 -> Nat]
  OBVIOUS
<1>1. o.turns \in Seq(DBs) /\ o.changes \in Nat
  BY WorldsAreWorlds DEF Legal, TypeOK, ServerType, World
<1>2. Len(o.turns) \in Nat /\ Len(todo) \in Nat
  BY <1>1, LenProperties DEF Legal, TypeOK, PlaceType
<1>3. NamesLeft \in Nat /\ Changes \in Nat
  BY <1>1, <1>2 DEF Legal, TypeOK, PlaceType, ServerType, NamesLeft, Changes
<1>4. Phase \in Nat /\ Opening \in Nat /\ Retry \in Nat
  BY DEF Phase, Opening, Retry
<1>5. Variant \in Seq(Nat) /\ Len(Variant) = 6
  BY <1>2, <1>3, <1>4 DEF Variant
<1> QED BY <1>5, LenProperties

LEMMA VariantStep == Legal /\ Next => Below(Variant', Variant)
<1> SUFFICES ASSUME Legal, Next PROVE Below(Variant', Variant)
  OBVIOUS
<1>0. /\ o' = o /\ Len(o.turns) \in Nat /\ turn \in Nat /\ o.changes \in Nat
      /\ Len(todo) \in Nat /\ pc \in {"next", "query", "done"} /\ ddl \in Nat
  <2>1. o.turns \in Seq(DBs) /\ o.changes \in Nat
    BY WorldsAreWorlds DEF Legal, TypeOK, ServerType, World
  <2> QED BY <2>1, Moves, LenProperties DEF Legal, TypeOK, PlaceType, ServerType
<1> SUFFICES \/ Phase' < Phase
             \/ Phase' = Phase /\ NamesLeft' < NamesLeft
             \/ Phase' = Phase /\ NamesLeft' = NamesLeft /\ Opening' < Opening
             \/ Phase' = Phase /\ NamesLeft' = NamesLeft /\ Opening' = Opening /\ Len(todo') < Len(todo)
             \/ Phase' = Phase /\ NamesLeft' = NamesLeft /\ Opening' = Opening /\ Len(todo') = Len(todo)
                /\ Retry' < Retry
             \/ Phase' = Phase /\ NamesLeft' = NamesLeft /\ Opening' = Opening /\ Len(todo') = Len(todo)
                /\ Retry' = Retry /\ Changes' < Changes
  BY BelowOfSix DEF Variant
<1>1. CASE CollectDatabase
  <2>1. pc = "next" /\ (\/ pc' = "next" /\ turn' = turn + 1
                        \/ pc' = "query" /\ turn' = turn)
    BY <1>1 DEF CollectDatabase
  <2> QED BY <1>0, <2>1 DEF Phase, NamesLeft, Opening
<1>2. CASE EndDatabase
  <2>1. pc = "query" /\ pc' = "next" /\ turn' = turn + 1
    BY <1>2 DEF EndDatabase, LeaveDatabase
  <2>2. Phase' = Phase
    BY <2>1 DEF Phase
  <2>3. NamesLeft' = Len(o.turns) + 1 - (turn + 1)
    BY <1>0, <2>1 DEF NamesLeft
  <2>4. NamesLeft' < NamesLeft
    BY <1>0, <2>3, OneLess DEF NamesLeft
  <2> QED BY <2>2, <2>4
<1>3. CASE Report \/ Dies
  <2>1. pc \in {"next", "query"} /\ pc' = "done"
    BY <1>3 DEF Report, Dies, Doing
  <2> QED BY <2>1 DEF Phase
<1>4. CASE Advances
  <2>1. UNCHANGED <<pc, turn>> /\ todo # <<>> /\ todo' = Tail(todo) /\ todo \in Seq(Functions)
    BY <1>4 DEF Advances, Legal, TypeOK, PlaceType
  <2>2. Len(todo') = Len(todo) - 1
    BY <2>1, HeadTailProperties
  <2>3. Phase' = Phase /\ NamesLeft' = NamesLeft /\ Opening' = Opening /\ Len(todo') < Len(todo)
    BY <1>0, <2>1, <2>2 DEF Phase, NamesLeft, Opening
  <2> QED BY <2>3
<1>5. CASE TablesLockTimeout \/ IndexesLockTimeout
  <2>1. PICK again \in {"getTablesAgain", "getIndexesAgain"} :
          /\ UNCHANGED <<pc, turn>> /\ todo # <<>> /\ Head(todo) \in {"getTables", "getIndexes"}
          /\ todo' = <<again>> \o Tail(todo)
    BY <1>5 DEF TablesLockTimeout, IndexesLockTimeout, Doing
  <2>2. /\ Tail(todo) \in Seq(Functions) /\ Len(Tail(todo)) = Len(todo) - 1
        /\ <<again>> \in Seq(Functions) /\ Len(<<again>>) = 1
    BY <2>1, HeadTailProperties DEF Legal, TypeOK, PlaceType, Functions
  <2>3. Len(todo') = Len(todo) /\ todo' # <<>> /\ Head(todo') = again
    <3>1. Len(todo') = Len(todo) /\ todo'[1] = again
      BY <1>0, <2>1, <2>2, ConcatProperties
    <3> QED BY <2>1, <2>2, <3>1
  <2>4. Phase' = Phase /\ NamesLeft' = NamesLeft /\ Opening' = Opening /\ Retry' < Retry
    BY <1>0, <2>1, <2>3 DEF Phase, NamesLeft, Opening, Retry
  <2> QED BY <2>3, <2>4
<1>6. CASE Create \/ Drop
  <2>1. ddl < o.changes /\ ddl' = ddl + 1 /\ UNCHANGED <<pc, turn, todo>>
    BY <1>6 DEF Create, Drop, Alter, place
  <2>2. Phase' = Phase /\ NamesLeft' = NamesLeft /\ Opening' = Opening /\ Retry' = Retry
    BY <1>0, <2>1 DEF Phase, NamesLeft, Opening, Retry
  <2>3. Changes' < Changes
    BY <1>0, <2>1 DEF Changes
  <2> QED BY <2>1, <2>2, <2>3
<1>7. \/ CollectDatabase \/ EndDatabase \/ Report \/ Dies \/ Advances
      \/ TablesLockTimeout \/ IndexesLockTimeout \/ Create \/ Drop
  <2>1. AnswerExtensions \/ AnswerDisabledTriggers \/ GetStatements => Advances
    BY DEF AnswerExtensions, AnswerDisabledTriggers, AddTriggers, GetStatements, Doing, Goes,
           server, Advances
  <2>2. AnswerTables \/ AnswerIndexes => Advances
    BY DEF AnswerTables, AnswerIndexes, Doing, Goes, server, Advances
  <2>3. AnswerPartitionInfo \/ AnswerParentInfo \/ AnswerIndexDef => Advances
    BY DEF AnswerPartitionInfo, AnswerParentInfo, SetParent, AnswerIndexDef, Doing, Goes,
           server, Advances
  <2>4. AnswerBloat \/ GetCitus => Advances
    BY DEF AnswerBloat, SetBloat, GetCitus, Doing, Goes, server, Advances
  <2> QED BY <2>1, <2>2, <2>3, <2>4 DEF Next, Program
<1> QED BY <1>1, <1>2, <1>3, <1>4, <1>5, <1>6, <1>7

\* The collection ends, whatever fails and whoever changes the schema: each
\* step brings it nearer, a lock timeout and a second attempt included.
THEOREM CollectionRunsOut ==
  Spec => [](Variant \in [1 .. 6 -> Nat]) /\ [][Below(Variant', Variant)]_vars
<1>1. Legal /\ [Next]_vars => [Below(Variant', Variant)]_vars
  BY VariantStep
<1> QED BY <1>1, VariantType, LegalAlways, PTL DEF Spec
=============================================================================
