------------------------ MODULE ContractNumbersProofs ------------------------
(***************************************************************************)
(* Numbers stay distinct over every history of a message, and contracts of *)
(* one major version stay compatible although publications overlap.        *)
(***************************************************************************)
EXTENDS ContractNumbers, FiniteSetTheorems, WellFoundedInduction, TLAPS

\* A bounded set of naturals has a largest element (0 when it is empty).
LEMMA LargestBounds ==
  ASSUME NEW S \in SUBSET Nat, NEW b \in Nat, \A y \in S : y <= b
  PROVE  /\ Largest(S) \in Nat
         /\ Largest(S) <= b
         /\ \A y \in S : y <= Largest(S)
<1> DEFINE T == {x \in Nat : \A y \in S : y <= x}
<1>1. PICK x \in T : \A y \in T : ~(<<y, x>> \in OpToRel(<, Nat))
  <2>1. T \subseteq Nat /\ T # {}
    OBVIOUS
  <2> QED BY <2>1, NatLessThanWellFounded, WFMin
<1>2. \A y \in T : ~(y < x)
  BY <1>1 DEF OpToRel
<1>3. x \in S \cup {0}
  <2>1. SUFFICES ASSUME x # 0, x \notin S PROVE FALSE
    OBVIOUS
  <2>2. x - 1 \in Nat /\ \A y \in S : y <= x - 1
    BY <2>1
  <2> QED BY <2>2, <1>2
<1>4. \A y \in S : y <= x
  OBVIOUS
<1>5. Largest(S) \in S \cup {0} /\ \A y \in S : y <= Largest(S)
  <2> HIDE DEF T
  <2> QED BY <1>3, <1>4 DEF Largest
<1> HIDE DEF T
<1>6. Largest(S) \in Nat /\ Largest(S) <= b
  <2>1. CASE Largest(S) \in S
    BY <2>1
  <2>2. CASE Largest(S) = 0
    BY <2>2
  <2> QED BY <1>5, <2>1, <2>2
<1> QED BY <1>5, <1>6

\* The position of a field among the new ones, in the order of the names.
LEMMA RankGrows ==
  ASSUME NEW F \in SUBSET Names, NEW n \in F
  PROVE  /\ Cardinality({k \in F : k <= n}) \in Nat
         /\ Cardinality({k \in F : k <= n}) >= 1
         /\ Cardinality({k \in F : k <= n}) <= Cardinality(Names)
         /\ \A j \in F : j < n =>
               Cardinality({k \in F : k <= j}) < Cardinality({k \in F : k <= n})
<1> DEFINE Below(j) == {k \in F : k <= j}
<1>0. IsFiniteSet(Names) /\ Names \subseteq Nat /\ Cardinality(Names) \in Nat
  BY ContractNumbersAssumption, FS_CardinalityType
<1>1. \A j \in F : IsFiniteSet(Below(j)) /\ Cardinality(Below(j)) \in Nat
  <2>1. \A j \in F : IsFiniteSet(Below(j))
    BY <1>0, FS_Subset
  <2> QED BY <2>1, FS_CardinalityType
<1>2. Cardinality(Below(n)) <= Cardinality(Names)
  <2>1. Below(n) \subseteq Names
    OBVIOUS
  <2> HIDE DEF Below
  <2> QED BY <2>1, <1>0, FS_Subset
<1>3. Cardinality(Below(n)) # 0
  <2>1. n \in Below(n)
    BY <1>0
  <2> HIDE DEF Below
  <2> QED BY <2>1, <1>1, FS_EmptySet
<1>4. ASSUME NEW j \in F, j < n PROVE Cardinality(Below(j)) < Cardinality(Below(n))
  <2>1. Below(j) \subseteq Below(n) /\ Below(j) # Below(n)
    <3>1. \A k \in F : k <= j => k <= n
      BY <1>0, <1>4
    <3>2. n \in Below(n) /\ n \notin Below(j)
      BY <1>0, <1>4
    <3> QED BY <3>1, <3>2
  <2> HIDE DEF Below
  <2>2. /\ Cardinality(Below(j)) <= Cardinality(Below(n))
        /\ Cardinality(Below(j)) # Cardinality(Below(n))
    BY <2>1, <1>1, FS_Subset
  <2> QED BY <2>2, <1>1
<1> QED BY <1>1, <1>2, <1>3, <1>4

-----------------------------------------------------------------------------
(* One message *)

Shapes == [Names -> Types \cup {NoType}]

\* The inductive part of NumbersAreDistinct: the fields of a message have
\* distinct numbers, none is reserved, and all are bounded.
GoodMessage(message) ==
    /\ \E b \in Nat : /\ \A n \in Names : message.number[n] <= b
                      /\ \A r \in message.numbers : r <= b
    /\ \A n, k \in Present(message) :
          /\ message.number[n] \notin message.numbers
          /\ n # k => message.number[n] # message.number[k]

LEMMA NoMessageIsGood == NoMessage \in MessageRows /\ GoodMessage(NoMessage)
<1>1. NoMessage \in MessageRows
  BY DEF NoMessage, MessageRows
<1>2. Present(NoMessage) = {}
  BY DEF NoMessage, Present
<1>3. \A n \in Names : NoMessage.number[n] <= 0
  BY DEF NoMessage
<1>4. NoMessage.numbers = {}
  BY DEF NoMessage
<1> QED BY <1>1, <1>2, <1>3, <1>4 DEF GoodMessage

\* A kept field has its number, a new one a number above all that were used.
LEMMA FreshNumbersAreNew ==
  ASSUME NEW old \in MessageRows, NEW want \in Shapes,
         NEW b \in Nat,
         \A n \in Names : old.number[n] <= b,
         \A r \in old.numbers : r <= b
  PROVE  /\ Occupied(old, want) \in SUBSET Nat
         /\ Largest(Occupied(old, want)) \in Nat
         /\ \A o \in Occupied(old, want) : o <= Largest(Occupied(old, want))
         /\ \A n \in Fresh(old, want) :
               /\ FreshNumber(old, want, n) \in Nat
               /\ FreshNumber(old, want, n) > Largest(Occupied(old, want))
               /\ FreshNumber(old, want, n) <= b + Cardinality(Names)
               /\ \A k \in Fresh(old, want) :
                     k # n => FreshNumber(old, want, n) # FreshNumber(old, want, k)
<1> DEFINE O == Occupied(old, want)
           F == Fresh(old, want)
<1>0. old.number \in [Names -> Nat] /\ old.numbers \in SUBSET Nat
  BY DEF MessageRows
<1>1. O \in SUBSET Nat /\ \A o \in O : o <= b
  BY <1>0 DEF Occupied, Reserved, Retired, Numbers, Present
<1>2. Largest(O) \in Nat /\ Largest(O) <= b /\ \A o \in O : o <= Largest(O)
  <2> HIDE DEF O
  <2> QED BY <1>1, LargestBounds
<1>3. F \in SUBSET Names /\ Names \subseteq Nat /\ Cardinality(Names) \in Nat
  BY ContractNumbersAssumption, FS_CardinalityType DEF Fresh, Desired
<1>4. ASSUME NEW n \in F
      PROVE  /\ FreshNumber(old, want, n) \in Nat
             /\ FreshNumber(old, want, n) > Largest(O)
             /\ FreshNumber(old, want, n) <= b + Cardinality(Names)
             /\ \A j \in F : j < n => FreshNumber(old, want, j) < FreshNumber(old, want, n)
  <2>1. \A j \in F : FreshNumber(old, want, j) = Largest(O) + Cardinality({k \in F : k <= j})
    BY DEF FreshNumber
  <2> HIDE DEF O, F
  <2>2. /\ Cardinality({k \in F : k <= n}) \in Nat
        /\ Cardinality({k \in F : k <= n}) >= 1
        /\ Cardinality({k \in F : k <= n}) <= Cardinality(Names)
    BY <1>3, RankGrows
  <2>3. \A j \in F : Cardinality({k \in F : k <= j}) \in Nat
    BY <1>3, RankGrows
  <2>4. \A j \in F : j < n =>
               Cardinality({k \in F : k <= j}) < Cardinality({k \in F : k <= n})
    BY <1>3, RankGrows
  <2> DEFINE rank(j) == Cardinality({k \in F : k <= j})
             top == Largest(O)
  <2>5. FreshNumber(old, want, n) = top + rank(n) /\ top \in Nat /\ top <= b
    BY <2>1, <1>2
  <2>6. rank(n) \in Nat /\ rank(n) >= 1 /\ rank(n) <= Cardinality(Names)
    BY <2>2
  <2>7. ASSUME NEW j \in F, j < n PROVE FreshNumber(old, want, j) < FreshNumber(old, want, n)
    <3>1. FreshNumber(old, want, j) = top + rank(j) /\ rank(j) \in Nat /\ rank(j) < rank(n)
      BY <2>1, <2>3, <2>4, <2>7
    <3> HIDE DEF rank, top
    <3> QED BY <3>1, <2>5, <2>6
  <2> HIDE DEF rank, top
  <2>8. /\ FreshNumber(old, want, n) \in Nat
        /\ FreshNumber(old, want, n) > top
        /\ FreshNumber(old, want, n) <= b + Cardinality(Names)
    BY <2>5, <2>6, <1>3
  <2> QED BY <2>7, <2>8 DEF top
<1>5. ASSUME NEW n \in F, NEW k \in F, n # k PROVE n < k \/ k < n
  <2>1. n \in Nat /\ k \in Nat
    BY <1>3
  <2> QED BY <2>1, <1>5
<1>6. \A n, k \in F : n # k => FreshNumber(old, want, n) # FreshNumber(old, want, k)
  <2> HIDE DEF F
  <2> QED BY <1>4, <1>5
<1> QED BY <1>1, <1>2, <1>4, <1>6

\* Numbering keeps the numbers of a message distinct and off the reserved ones.
LEMMA NumberedIsGood ==
  ASSUME NEW old \in MessageRows, GoodMessage(old), NEW want \in Shapes
  PROVE  Numbered(old, want) \in MessageRows /\ GoodMessage(Numbered(old, want))
<1> DEFINE O == Occupied(old, want)
           F == Fresh(old, want)
           K == Kept(old, want)
           new == Numbered(old, want)
<1>0. /\ old.number \in [Names -> Nat] /\ old.numbers \in SUBSET Nat
      /\ old.type \in Shapes /\ old.names \in SUBSET Names
  BY DEF MessageRows, Shapes
<1>1. PICK b \in Nat : /\ \A n \in Names : old.number[n] <= b
                       /\ \A r \in old.numbers : r <= b
  BY DEF GoodMessage
<1>2. /\ O \in SUBSET Nat
      /\ Largest(O) \in Nat
      /\ \A o \in O : o <= Largest(O)
      /\ \A n \in F : /\ FreshNumber(old, want, n) \in Nat
                      /\ FreshNumber(old, want, n) > Largest(O)
                      /\ FreshNumber(old, want, n) <= b + Cardinality(Names)
                      /\ \A k \in F : k # n => FreshNumber(old, want, n) # FreshNumber(old, want, k)
  BY <1>0, <1>1, FreshNumbersAreNew
<1>3. /\ K \subseteq Present(old) /\ K \subseteq Names /\ F \subseteq Names
      /\ F = Desired(want) \ K /\ K \subseteq Desired(want) /\ Desired(want) \subseteq Names
  BY <1>0 DEF Kept, Present, Desired, Fresh
<1>4. /\ \A n \in K : new.number[n] = old.number[n] /\ old.number[n] \in O
      /\ \A n \in F : new.number[n] = FreshNumber(old, want, n)
      /\ \A n \in Names \ (K \cup F) : new.number[n] = 0
      /\ new.numbers = Reserved(old, want) /\ new.type = want
      /\ Reserved(old, want) \subseteq O
  BY <1>3 DEF Numbered, Occupied, Numbers
<1>5. new \in MessageRows
  <2>1. new.number \in [Names -> Nat]
    BY <1>0, <1>2, <1>3 DEF Numbered, Fresh
  <2>2. Reserved(old, want) \subseteq Nat
    BY <1>2, <1>4
  <2>3. old.names \cup (Present(old) \ Desired(want)) \subseteq Names
    BY <1>0 DEF Present
  <2> QED BY <2>1, <2>2, <2>3 DEF Numbered, MessageRows, Shapes
<1>6. Present(new) = K \cup F
  BY <1>3, <1>4 DEF Present, Desired
<1>7. \A n \in K : old.number[n] \notin Reserved(old, want)
  BY <1>0, <1>3 DEF GoodMessage, Reserved, Retired, Present
<1>8. \A n, k \in K : n # k => old.number[n] # old.number[k]
  BY <1>3 DEF GoodMessage
<1>9. ASSUME NEW n \in Present(new), NEW k \in Present(new)
      PROVE  new.number[n] \notin new.numbers /\ (n # k => new.number[n] # new.number[k])
  <2> HIDE DEF O, F, K, new
  <2>1. \A j \in F : new.number[j] \in Nat /\ new.number[j] \notin O
    BY <1>2, <1>4
  <2>2. new.number[n] \notin new.numbers
    BY <2>1, <1>4, <1>6, <1>7
  <2>3. CASE n \in K /\ k \in K
    BY <2>2, <2>3, <1>4, <1>8
  <2>4. CASE n \in F /\ k \in F
    BY <2>2, <2>4, <1>2, <1>4
  <2>5. CASE n \in K /\ k \in F
    BY <2>1, <2>2, <2>5, <1>4
  <2>6. CASE n \in F /\ k \in K
    BY <2>1, <2>2, <2>6, <1>4
  <2> QED BY <2>3, <2>4, <2>5, <2>6, <1>6
<1>10. \E c \in Nat : /\ \A n \in Names : new.number[n] <= c
                      /\ \A r \in new.numbers : r <= c
  <2> DEFINE c == b + Cardinality(Names)
  <2>1. c \in Nat /\ b <= c
    BY ContractNumbersAssumption, FS_CardinalityType
  <2>2. \A r \in new.numbers : r <= b
    BY <1>0, <1>1, <1>4 DEF Reserved, Retired, Present
  <2>3. \A r \in new.numbers : r \in Nat
    BY <1>2, <1>4
  <2>4. \A n \in Names : new.number[n] <= c
    <3> SUFFICES ASSUME NEW n \in Names PROVE new.number[n] <= c
      OBVIOUS
    <3>1. CASE n \in K
      <4>1. new.number[n] = old.number[n] /\ old.number[n] <= b /\ old.number[n] \in Nat
        BY <3>1, <1>0, <1>1, <1>4
      <4> HIDE DEF c, new
      <4> QED BY <4>1, <2>1
    <3>2. CASE n \in F
      BY <3>2, <1>2, <1>4
    <3>3. CASE n \notin K \cup F
      <4>1. new.number[n] = 0
        BY <3>3, <1>4
      <4> HIDE DEF c, new
      <4> QED BY <4>1, <2>1
    <3> QED BY <3>1, <3>2, <3>3
  <2> HIDE DEF c, new
  <2> QED BY <2>1, <2>2, <2>3, <2>4
<1> QED BY <1>5, <1>9, <1>10 DEF GoodMessage

-----------------------------------------------------------------------------
(* One contract *)

GoodContract(c) ==
    c \in ContractRows /\ \A m \in Messages : GoodMessage(c.message[m])

\* How a generated contract stands to the one it was generated against.
Derives(base, d) ==
    \/ d.minor = 0
    \/ SameDescriptor(base, d)
    \/ base.major = d.major /\ d.minor = base.minor + 1 /\ Preserves(base, d)

LEMMA NoContractIsGood == GoodContract(NoContract)
<1>1. NoContract \in ContractRows
  BY NoMessageIsGood DEF NoContract, ContractRows
<1>2. \A m \in Messages : NoContract.message[m] = NoMessage
  BY DEF NoContract
<1> QED BY <1>1, <1>2, NoMessageIsGood DEF GoodContract

\* Numbering without a break keeps every field of the message.
LEMMA UnbrokenMessage ==
  ASSUME NEW old \in MessageRows, NEW want \in Shapes, NEW m \in Messages,
         ~BreaksMessage(old, want, m, TRUE)
  PROVE  /\ \A n \in Present(old) : /\ Numbered(old, want).number[n] = old.number[n]
                                    /\ Numbered(old, want).type[n] = old.type[n]
         /\ m[2] = "request" => Present(Numbered(old, want)) = Present(old)
<1>1. Present(old) \subseteq Kept(old, want) /\ Present(old) \subseteq Names
  BY DEF BreaksMessage, Retired, Present
<1>2. \A n \in Kept(old, want) : n \in Names /\ want[n] = old.type[n] /\ n \in Present(old)
  BY DEF Kept, Desired, Present
<1>3. \A n \in Present(old) : /\ Numbered(old, want).number[n] = old.number[n]
                              /\ Numbered(old, want).type[n] = old.type[n]
  BY <1>1, <1>2 DEF Numbered
<1>4. ASSUME m[2] = "request" PROVE Present(Numbered(old, want)) = Present(old)
  <2>1. Desired(want) = Kept(old, want)
    BY <1>4 DEF BreaksMessage, Fresh, Kept
  <2>2. Present(Numbered(old, want)) = Desired(want)
    BY DEF Numbered, Present, Desired
  <2> QED BY <2>1, <2>2, <1>1, <1>2
<1> QED BY <1>3, <1>4

LEMMA GeneratedDerives ==
  ASSUME NEW base, GoodContract(base), NEW i \in Interfaces
  PROVE  GoodContract(Generated(base, i)) /\ Derives(base, Generated(base, i))
<1> DEFINE breaks == base.major = 0 \/ Breaks(base, i)
           next == [major |-> IF breaks THEN base.major + 1 ELSE base.major,
                    minor |-> IF breaks THEN 0 ELSE base.minor + 1,
                    methods |-> i.methods, message |-> Described(base, i), stamp |-> 0]
           d == Generated(base, i)
<1>0. /\ base.major \in Nat /\ base.minor \in Nat /\ base.methods \in SUBSET Methods
      /\ base.message \in [Messages -> MessageRows]
      /\ \A m \in Messages : GoodMessage(base.message[m])
  BY DEF GoodContract, ContractRows
<1>1. /\ i.methods \in SUBSET Methods
      /\ i.fields \in [Messages -> Shapes]
  BY ContractNumbersAssumption DEF Shapes
<1>2. \A m \in Messages : Previous(base, m) \in MessageRows /\ GoodMessage(Previous(base, m))
  BY <1>0, NoMessageIsGood DEF Previous
<1>3. \A m \in Messages : /\ Described(base, i)[m] \in MessageRows
                          /\ GoodMessage(Described(base, i)[m])
  BY <1>1, <1>2, NumberedIsGood, NoMessageIsGood DEF Described
<1>4. Described(base, i) \in [Messages -> MessageRows]
  BY <1>3 DEF Described
<1>5. next \in ContractRows
  <2>1. base.major + 1 \in Nat /\ base.minor + 1 \in Nat
    BY <1>0
  <2> QED BY <2>1, <1>0, <1>1, <1>4 DEF ContractRows
<1>6. d = IF SameDescriptor(base, next) THEN [next EXCEPT !.minor = base.minor] ELSE next
  BY DEF Generated
<1>7. /\ d.major = next.major /\ d.methods = i.methods /\ d.message = Described(base, i)
      /\ d \in ContractRows
  <2>1. [next EXCEPT !.minor = base.minor] \in ContractRows
    BY <1>0, <1>5 DEF ContractRows
  <2> QED BY <1>5, <1>6, <2>1
<1>8. GoodContract(d)
  BY <1>3, <1>7 DEF GoodContract
<1>9. CASE SameDescriptor(base, next)
  <2>1. SameDescriptor(base, d)
    BY <1>7, <1>9 DEF SameDescriptor
  <2> QED BY <1>8, <2>1 DEF Derives
<1>10. CASE ~SameDescriptor(base, next) /\ breaks
  <2>1. d.minor = 0
    BY <1>6, <1>10
  <2> QED BY <1>8, <2>1 DEF Derives
<1>11. CASE ~SameDescriptor(base, next) /\ ~breaks
  <2>1. d.major = base.major /\ d.minor = base.minor + 1
    BY <1>6, <1>11
  <2>2. base.methods \subseteq i.methods
    BY <1>11 DEF Breaks
  <2>3. ASSUME NEW m \in Messages, m[1] \in base.methods
        PROVE  /\ base.message[m] \in MessageRows /\ i.fields[m] \in Shapes
               /\ ~BreaksMessage(base.message[m], i.fields[m], m, TRUE)
               /\ d.message[m] = Numbered(base.message[m], i.fields[m])
    <3>1. Previous(base, m) = base.message[m] /\ m[1] \in i.methods
      BY <2>2, <2>3 DEF Previous
    <3>2. (m[1] \in base.methods) = TRUE
      BY <2>3
    <3>3. ~BreaksMessage(Previous(base, m), i.fields[m], m, m[1] \in base.methods)
      BY <3>1, <1>11 DEF Breaks
    <3>4. ~BreaksMessage(base.message[m], i.fields[m], m, TRUE)
      BY <3>1, <3>3, <2>3 DEF BreaksMessage
    <3>5. d.message[m] = Numbered(base.message[m], i.fields[m])
      BY <3>1, <1>7 DEF Described
    <3> QED BY <3>4, <3>5, <1>0, <1>1
  <2>4. Preserves(base, d)
    <3>1. ASSUME NEW m \in Messages, m[1] \in base.methods
          PROVE  /\ \A n \in Present(base.message[m]) :
                       /\ d.message[m].number[n] = base.message[m].number[n]
                       /\ d.message[m].type[n] = base.message[m].type[n]
                 /\ m[2] = "request" => Present(d.message[m]) = Present(base.message[m])
      <4> DEFINE old == base.message[m]
                 want == i.fields[m]
      <4>1. /\ old \in MessageRows /\ want \in Shapes
            /\ ~BreaksMessage(old, want, m, TRUE) /\ d.message[m] = Numbered(old, want)
        BY <2>3, <3>1
      <4> HIDE DEF d, breaks, next, old, want
      <4>2. /\ \A n \in Present(old) : /\ Numbered(old, want).number[n] = old.number[n]
                                       /\ Numbered(old, want).type[n] = old.type[n]
            /\ m[2] = "request" => Present(Numbered(old, want)) = Present(old)
        BY <4>1, UnbrokenMessage
      <4> QED BY <4>1, <4>2 DEF old
    <3>2. base.methods \subseteq d.methods
      BY <1>7, <2>2
    <3> HIDE DEF d, breaks, next
    <3> QED BY <3>1, <3>2 DEF Preserves
  <2> QED BY <1>8, <2>1, <2>4 DEF Derives
<1> QED BY <1>9, <1>10, <1>11

-----------------------------------------------------------------------------
(* All contracts *)

\* The versions of a major version have no gap: the base of a contract is stored.
NoGap ==
    \A c \in contracts : \A k \in 0 .. c.minor :
       \E b \in contracts : b.major = c.major /\ b.minor = k

\* A contract under way was generated against one that is stored, the latest or not.
UnderWay ==
    \A p \in Publications :
       /\ GoodContract(pub[p].contract)
       /\ \/ pub[p].contract.minor = 0
          \/ \E base \in contracts : Derives(base, pub[p].contract)

\* The inductive invariant.
IInv ==
    /\ TypeOK
    /\ \A c \in contracts : GoodContract(c)
    /\ UnderWay
    /\ NoGap
    /\ SameMajorIsCompatible

LEMMA InitEstablishes == Init => IInv
<1> SUFFICES ASSUME Init PROVE IInv
  OBVIOUS
<1>1. contracts = {} /\ \A p \in Publications : pub[p].contract = NoContract
  BY DEF Init
<1>2. NoContract \in ContractRows /\ NoContract.minor = 0
  BY NoContractIsGood DEF GoodContract, NoContract
<1>3. TypeOK
  BY <1>1, <1>2 DEF TypeOK, Init
<1> QED BY <1>1, <1>2, <1>3, NoContractIsGood DEF IInv, UnderWay, NoGap, SameMajorIsCompatible

LEMMA PreservesIsTransitive ==
  ASSUME NEW c, NEW d, NEW e, Preserves(c, d), Preserves(d, e)
  PROVE  Preserves(c, e)
<1>1. c.methods \subseteq d.methods /\ d.methods \subseteq e.methods
  BY DEF Preserves
<1>2. ASSUME NEW m \in Messages, m[1] \in c.methods
      PROVE  /\ \A n \in Present(c.message[m]) : /\ e.message[m].number[n] = c.message[m].number[n]
                                                /\ e.message[m].type[n] = c.message[m].type[n]
             /\ m[2] = "request" => Present(e.message[m]) = Present(c.message[m])
  <2>1. m[1] \in d.methods
    BY <1>1, <1>2
  <2>2. Present(c.message[m]) \subseteq Present(d.message[m])
    BY <1>2 DEF Preserves, Present
  <2> QED BY <1>2, <2>1, <2>2 DEF Preserves
<1> QED BY <1>1, <1>2 DEF Preserves

\* What a step that does not store a contract may change.
LEMMA PublicationSteps ==
  ASSUME IInv, UNCHANGED contracts,
         NEW p \in Publications, NEW at \in {"idle", "prepared", "inserting"}, NEW c,
         GoodContract(c),
         c.minor = 0 \/ \E base \in contracts : Derives(base, c),
         pub' = [pub EXCEPT ![p] = [at |-> at, contract |-> c]]
  PROVE  IInv'
<1>0. pub \in [Publications -> [at : {"idle", "prepared", "inserting"}, contract : ContractRows]]
  BY DEF IInv, TypeOK
<1>1. TypeOK'
  BY <1>0 DEF IInv, TypeOK, GoodContract
<1>2. UnderWay'
  <2> SUFFICES ASSUME NEW q \in Publications
               PROVE  /\ GoodContract(pub'[q].contract)
                      /\ \/ pub'[q].contract.minor = 0
                         \/ \E base \in contracts : Derives(base, pub'[q].contract)
    BY DEF UnderWay
  <2>1. CASE q = p
    <3>1. pub'[q].contract = c
      BY <2>1, <1>0
    <3> QED BY <3>1
  <2>2. CASE q # p
    <3>1. pub'[q] = pub[q]
      BY <2>2, <1>0
    <3> QED BY <3>1 DEF IInv, UnderWay
  <2> QED BY <2>1, <2>2
<1>3. (\A d \in contracts : GoodContract(d))' /\ NoGap' /\ SameMajorIsCompatible'
  BY DEF IInv, NoGap, SameMajorIsCompatible
<1> QED BY <1>1, <1>2, <1>3 DEF IInv

\* Storing a contract: its version is not there, so nothing after it is, and
\* everything before it is compatible with its base.
LEMMA CommitSteps ==
  ASSUME IInv, NEW p \in Publications, CommitContract(p)
  PROVE  IInv'
<1> DEFINE new == pub[p].contract
<1>0. /\ pub \in [Publications -> [at : {"idle", "prepared", "inserting"}, contract : ContractRows]]
      /\ contracts' = contracts \cup {new}
      /\ \A c \in contracts : ~SameDescriptor(c, new) /\ (c.major # new.major \/ c.minor # new.minor)
      /\ pub' = [pub EXCEPT ![p] = [at |-> "idle", contract |-> NoContract]]
  BY DEF IInv, TypeOK, CommitContract, Idle
<1>1. GoodContract(new)
  BY DEF IInv, UnderWay
<1>2. \A c \in contracts' : GoodContract(c) /\ c.major \in Nat /\ c.minor \in Nat
  BY <1>0, <1>1 DEF IInv, GoodContract, ContractRows
<1>3. TypeOK'
  BY <1>0, <1>2, NoContractIsGood DEF IInv, TypeOK, GoodContract
<1>4. UnderWay'
  <2> SUFFICES ASSUME NEW q \in Publications
               PROVE  /\ GoodContract(pub'[q].contract)
                      /\ \/ pub'[q].contract.minor = 0
                         \/ \E base \in contracts' : Derives(base, pub'[q].contract)
    BY DEF UnderWay
  <2>1. CASE q = p
    <3>1. pub'[q].contract = NoContract
      BY <2>1, <1>0
    <3> QED BY <3>1, NoContractIsGood DEF NoContract
  <2>2. CASE q # p
    <3>1. pub'[q] = pub[q]
      BY <2>2, <1>0
    <3> QED BY <3>1, <1>0 DEF IInv, UnderWay
  <2> QED BY <2>1, <2>2
<1>5. \/ new.minor = 0
      \/ \E base \in contracts :
            base.major = new.major /\ new.minor = base.minor + 1 /\ Preserves(base, new)
  BY <1>0 DEF IInv, UnderWay, Derives
<1>6. NoGap'
  <2> SUFFICES ASSUME NEW c \in contracts', NEW k \in 0 .. c.minor
               PROVE  \E b \in contracts' : b.major = c.major /\ b.minor = k
    BY DEF NoGap
  <2>1. CASE c \in contracts
    BY <2>1, <1>0 DEF IInv, NoGap
  <2>2. CASE c = new /\ k = new.minor
    BY <2>2, <1>0
  <2>3. CASE c = new /\ k # new.minor
    <3>1. new.minor # 0 /\ new.minor \in Nat /\ k \in Nat /\ k < new.minor
      BY <2>3, <1>1 DEF GoodContract, ContractRows
    <3>2. PICK base \in contracts : base.major = new.major /\ new.minor = base.minor + 1
      BY <3>1, <1>5
    <3>3. base.minor \in Nat
      BY <1>0, <1>2
    <3>4. k \in 0 .. base.minor
      BY <3>1, <3>2, <3>3
    <3> QED BY <2>3, <3>2, <3>4, <1>0 DEF IInv, NoGap
  <2> QED BY <2>1, <2>2, <2>3, <1>0
<1>7. ASSUME NEW c \in contracts, c.major = new.major PROVE c.minor < new.minor
  <2>1. c.minor \in Nat /\ new.minor \in Nat
    BY <1>0, <1>2
  <2>2. SUFFICES ASSUME new.minor <= c.minor PROVE FALSE
    BY <2>1
  <2>3. new.minor \in 0 .. c.minor
    BY <2>1, <2>2
  <2>4. PICK b \in contracts : b.major = c.major /\ b.minor = new.minor
    BY <2>3 DEF IInv, NoGap
  <2> QED BY <2>4, <1>0, <1>7
<1>8. ASSUME NEW c \in contracts, c.major = new.major PROVE Preserves(c, new)
  <2>1. c.minor \in Nat /\ new.minor \in Nat /\ c.minor < new.minor
    BY <1>0, <1>2, <1>7, <1>8
  <2>2. PICK base \in contracts :
           base.major = new.major /\ new.minor = base.minor + 1 /\ Preserves(base, new)
    BY <2>1, <1>5
  <2>3. base.minor \in Nat
    BY <1>0, <1>2
  <2>4. c.minor <= base.minor
    BY <2>1, <2>2, <2>3
  <2>5. Preserves(c, base)
    BY <2>2, <2>4, <1>8 DEF IInv, SameMajorIsCompatible
  <2> QED BY <2>2, <2>5, PreservesIsTransitive
<1>9. SameMajorIsCompatible'
  <2> SUFFICES ASSUME NEW c \in contracts', NEW d \in contracts', c.major = d.major, c.minor <= d.minor
               PROVE  Preserves(c, d)
    BY DEF SameMajorIsCompatible
  <2>1. CASE c \in contracts /\ d \in contracts
    BY <2>1 DEF IInv, SameMajorIsCompatible
  <2>2. CASE c \in contracts /\ d = new
    BY <2>2, <1>8
  <2>3. CASE c = new /\ d \in contracts
    <3>1. d.minor < new.minor /\ d.minor \in Nat /\ new.minor \in Nat
      BY <2>3, <1>0, <1>2, <1>7
    <3> QED BY <2>3, <3>1
  <2>4. CASE c = new /\ d = new
    BY <2>4 DEF Preserves
  <2> QED BY <2>1, <2>2, <2>3, <2>4, <1>0
<1> QED BY <1>2, <1>3, <1>4, <1>6, <1>9 DEF IInv

LEMMA NextPreserves == IInv /\ [Next]_vars => IInv'
<1> SUFFICES ASSUME IInv, [Next]_vars PROVE IInv'
  OBVIOUS
<1>0. NoContract.minor = 0 /\ GoodContract(NoContract)
  BY NoContractIsGood DEF NoContract
<1>1. ASSUME NEW p \in Publications, NEW i \in Interfaces, Prepare(p, i) PROVE IInv'
  <2>1. PICK base \in IF contracts = {} THEN {NoContract} ELSE Latest :
           pub' = [pub EXCEPT ![p] = [at |-> "prepared", contract |-> Generated(base, i)]]
    BY <1>1 DEF Prepare
  <2>2. UNCHANGED contracts
    BY <1>1 DEF Prepare
  <2>3. base \in contracts \/ base = NoContract
    BY <2>1 DEF Latest
  <2>4. GoodContract(base)
    BY <2>3, <1>0 DEF IInv
  <2>5. GoodContract(Generated(base, i)) /\ Derives(base, Generated(base, i))
    BY <2>4, GeneratedDerives
  <2>6. base = NoContract => Generated(base, i).minor = 0
    BY DEF NoContract, Generated, SameDescriptor
  <2>7. Generated(base, i).minor = 0 \/ \E b \in contracts : Derives(b, Generated(base, i))
    BY <2>3, <2>5, <2>6
  <2> QED BY <2>1, <2>2, <2>5, <2>7, PublicationSteps
<1>2. ASSUME NEW p \in Publications, Fail(p) \/ ReuseContract(p) PROVE IInv'
  <2>1. /\ pub' = [pub EXCEPT ![p] = [at |-> "idle", contract |-> NoContract]]
        /\ UNCHANGED contracts
    BY <1>2 DEF Fail, ReuseContract, Idle
  <2> QED BY <2>1, <1>0, PublicationSteps
<1>3. ASSUME NEW p \in Publications, InsertContract(p) PROVE IInv'
  <2> DEFINE c == pub[p].contract
             d == [c EXCEPT !.stamp = Now]
  <2>1. GoodContract(c) /\ Now \in Nat
    BY <1>3, ContractNumbersAssumption DEF IInv, UnderWay, InsertContract
  <2>2. /\ d \in ContractRows /\ d.major = c.major /\ d.minor = c.minor
        /\ d.methods = c.methods /\ d.message = c.message
    <3> HIDE DEF c
    <3> QED BY <2>1 DEF GoodContract, ContractRows
  <2>3. GoodContract(d)
    BY <2>1, <2>2 DEF GoodContract
  <2>4. d.minor = 0 \/ \E base \in contracts : Derives(base, d)
    <3>1. c.minor = 0 \/ \E base \in contracts : Derives(base, c)
      BY DEF IInv, UnderWay
    <3> HIDE DEF c, d
    <3> QED BY <3>1, <2>2 DEF Derives, SameDescriptor, Preserves
  <2>5. pub' = [pub EXCEPT ![p] = [at |-> "inserting", contract |-> d]] /\ UNCHANGED contracts
    BY <1>3 DEF InsertContract
  <2> HIDE DEF c, d
  <2> QED BY <2>3, <2>4, <2>5, PublicationSteps
<1>4. ASSUME NEW p \in Publications, CommitContract(p) PROVE IInv'
  BY <1>4, CommitSteps
<1>5. CASE UNCHANGED vars
  BY <1>5 DEF vars, IInv, TypeOK, UnderWay, NoGap, SameMajorIsCompatible
<1> QED BY <1>1, <1>2, <1>3, <1>4, <1>5 DEF Next

-----------------------------------------------------------------------------
(* Theorems *)

THEOREM Invariant == Spec => []IInv
<1> QED BY InitEstablishes, NextPreserves, PTL DEF Spec

\* Rows and publications keep their types (models.py 301-332).
THEOREM TypeCorrect == Spec => []TypeOK
<1>1. IInv => TypeOK
  BY DEF IInv
<1> QED BY <1>1, Invariant, PTL

\* In every contract ever stored the field numbers of a message are distinct
\* and none is reserved, for any interfaces and any number of contracts
\* (generator.py 479-531).
THEOREM NumbersStayDistinct == Spec => []NumbersAreDistinct
<1>1. IInv => NumbersAreDistinct
  BY DEF IInv, GoodContract, GoodMessage, NumbersAreDistinct
<1> QED BY <1>1, Invariant, PTL

\* However many publications overlap, contracts of one major version are
\* compatible in the order of their minor versions (README.md 423-424).
THEOREM SameMajorStaysCompatible == Spec => []SameMajorIsCompatible
<1>1. IInv => SameMajorIsCompatible
  BY DEF IInv
<1> QED BY <1>1, Invariant, PTL

=============================================================================
