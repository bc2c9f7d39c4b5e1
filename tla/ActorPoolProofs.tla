--------------------------- MODULE ActorPoolProofs ---------------------------
(***************************************************************************)
(* The pool of one profile, for any number of requests, replicas, handles, *)
(* faults and retirements: nobody kills an actor under a lease,            *)
(* no live actor is hidden behind a stale entry, and a retired profile     *)
(* leaves no actor but one behind the entry of a cancelled creation.       *)
(***************************************************************************)
EXTENDS ActorPool, FiniteSetTheorems, WellFoundedInduction, TLAPS

RequestRecords ==
    [pc : Pcs, list : Lists, eligible : SUBSET Handles, grow : Nat, tasks : SUBSET Replicas]
ReaperRecords ==
    [pc : {"idle", "status", "drain", "check", "kill"}, list : Lists,
     todo : SUBSET Candidates, current : Int, desired : Int]
RetireRecords ==
    [pc : {"idle", "discover", "drain", "status", "kill", "retired"}, list : Lists,
     crossed : BOOLEAN]
BudgetRecords == [requests : SUBSET Requests, faults : Nat, retirements : Nat]
Tasks == [Replicas -> Handles \cup {None, Scheduled, Defunct}]

\* The parts of TypeOK.
ClusterOK ==
    /\ alive \subseteq Handles /\ draining \subseteq alive
    /\ name \in [Replicas -> HandleOrNone]
    /\ holds \in [Handles -> SUBSET Requests] /\ idle \in [Handles -> 0..2]
ManagerOK ==
    /\ actors \in [Replicas -> HandleOrNone] /\ creating \in Tasks
    /\ registered \in BOOLEAN /\ recent \in BOOLEAN
RequestsOK == req \in [Requests -> RequestRecords]
ReaperOK == reaper \in ReaperRecords
RetireOK == retire \in RetireRecords
BudgetOK == budget \in BudgetRecords

LEMMA TypeParts ==
  TypeOK <=> ClusterOK /\ ManagerOK /\ RequestsOK /\ ReaperOK /\ RetireOK /\ BudgetOK
BY DEF TypeOK, ClusterOK, ManagerOK, RequestsOK, ReaperOK, RetireOK, BudgetOK, Tasks,
       RequestRecords, ReaperRecords, RetireRecords, BudgetRecords

LEMMA TypePartsKept ==
  TypeOK' <=> /\ ClusterOK' /\ ManagerOK' /\ RequestsOK' /\ ReaperOK' /\ RetireOK' /\ BudgetOK'
BY DEF TypeOK, ClusterOK, ManagerOK, RequestsOK, ReaperOK, RetireOK, BudgetOK, Tasks,
       RequestRecords, ReaperRecords, RetireRecords, BudgetRecords

-----------------------------------------------------------------------------
(* What the helpers return *)

\* A list is the pairs of some replicas, one of each.
OneEach(list) == \A x, y \in list : x[1] = y[1] => x = y

LEMMA EmptyList == {} \in Lists /\ OneEach({})
BY FS_EmptySet DEF Lists, OneEach

LEMMA SublistIsList ==
  ASSUME NEW list \in Lists, NEW part \in SUBSET list
  PROVE  part \in Lists /\ (OneEach(list) => OneEach(part))
BY FS_Subset DEF Lists, OneEach

\* The entries of a table are a list.
LEMMA ListedIsList ==
  ASSUME NEW table \in [Replicas -> HandleOrNone]
  PROVE  /\ Listed(table) \in Lists /\ OneEach(Listed(table))
         /\ \A r \in Replicas : table[r] # NoActor => <<r, table[r]>> \in Listed(table)
         /\ \A x \in Listed(table) : x[1] \in Replicas /\ x[2] = table[x[1]] /\ x[2] \in Handles
<1> DEFINE D == {x \in Replicas : table[x] # NoActor}
           f == [r \in D |-> <<r, table[r]>>]
<1>1. IsFiniteSet(Replicas)
  BY PoolAssumption, FS_Interval DEF Replicas
<1>2. IsFiniteSet(D)
  BY <1>1, FS_Subset
<1>3. f \in Surjection(D, Listed(table))
  BY DEF Surjection, Listed
<1>4. IsFiniteSet(Listed(table))
  <2> HIDE DEF D, f
  <2> QED BY <1>2, <1>3, FS_Surjection
<1>5. \A x \in Listed(table) : x[1] \in Replicas /\ x[2] = table[x[1]] /\ x[2] \in Handles
                                /\ x = <<x[1], x[2]>>
  BY DEF Listed, HandleOrNone
<1>6. Listed(table) \subseteq Replicas \X Handles
  BY <1>5
<1>7. OneEach(Listed(table))
  BY <1>5 DEF OneEach
<1>8. \A r \in Replicas : table[r] # NoActor => <<r, table[r]>> \in Listed(table)
  BY DEF Listed
<1> QED BY <1>4, <1>5, <1>6, <1>7, <1>8 DEF Lists

LEMMA DiscoveredType == ManagerOK /\ ClusterOK => Discovered \in [Replicas -> HandleOrNone]
BY DEF ManagerOK, ClusterOK, Discovered

LEMMA WithoutSilentType ==
  ASSUME ManagerOK, NEW list, NEW seen
  PROVE  WithoutSilent(list, seen) \in [Replicas -> HandleOrNone]
BY DEF ManagerOK, WithoutSilent, HandleOrNone

\* Only replicas with neither an actor nor a creation task get a task.
LEMMA ScheduledTasksType ==
  ASSUME ManagerOK, NEW table, NEW desired
  PROVE  /\ ScheduledTasks(table, desired) \in Tasks
         /\ \A r \in Replicas :
               \/ ScheduledTasks(table, desired)[r] = creating[r]
               \/ /\ ScheduledTasks(table, desired)[r] = Scheduled
                  /\ table[r] = NoActor /\ creating[r] = None
<1> DEFINE free == {r \in Replicas : table[r] = NoActor /\ creating[r] = None}
           missing == AtMostMax(desired) - (MaxReplicas - Cardinality(free))
           start == {r \in free : Cardinality({x \in free : x < r}) < missing}
<1>1. ScheduledTasks(table, desired) = [r \in Replicas |-> IF r \in start THEN Scheduled ELSE creating[r]]
  BY DEF ScheduledTasks
<1>2. \A r \in start : table[r] = NoActor /\ creating[r] = None
  OBVIOUS
<1> HIDE DEF start
<1> QED BY <1>1, <1>2 DEF ManagerOK, Tasks

\* A fault uses up the bound, and nothing else of it.
LEMMA FaultTyped == BudgetOK /\ (Fault \/ UNCHANGED budget) => BudgetOK'
BY DEF BudgetOK, BudgetRecords, Fault

LEMMA AnswerTyped ==
  ASSUME BudgetOK, NEW list, NEW seen, Answer(list, seen)
  PROVE  BudgetOK'
BY FaultTyped DEF Answer

LEMMA CallFailsTyped ==
  ASSUME BudgetOK, NEW h, CallFails(h)
  PROVE  BudgetOK'
BY FaultTyped DEF CallFails

LEMMA SeenIsList ==
  ASSUME NEW list \in Lists, NEW seen \in SUBSET Live(list)
  PROVE  seen \in Lists /\ (OneEach(list) => OneEach(seen))
<1>1. seen \in SUBSET list
  BY DEF Live
<1> QED BY <1>1, SublistIsList

LEMMA DesiredIsInt ==
  ASSUME ClusterOK, NEW seen \in Lists, NEW pending \in Nat
  PROVE  DesiredCounts(seen, pending) \subseteq Int
<1> DEFINE active == UNION {holds[x[2]] : x \in {y \in seen : y[2] \notin draining}}
           hot == AtLeast1((Cardinality(active) + pending + Target - 1) \div Target)
           wanted == IF hot > 1 THEN hot + WarmSpares ELSE hot
<1>1. active \subseteq Requests
  BY DEF ClusterOK, Lists
<1>2. Cardinality(active) \in Nat
  BY <1>1, PoolAssumption, FS_Subset, FS_CardinalityType
<1> HIDE DEF active
<1>3. hot \in Int
  <2>1. Cardinality(active) + pending + Target - 1 \in Int /\ Target \in Nat \ {0}
    BY <1>2, PoolAssumption
  <2>2. (Cardinality(active) + pending + Target - 1) \div Target \in Int
    BY <2>1
  <2> QED BY <2>2 DEF AtLeast1
<1> HIDE DEF hot
<1>4. AtMostMax(wanted) \in Int /\ MaxReplicas \in Int
  BY <1>3, PoolAssumption DEF AtMostMax
<1> HIDE DEF wanted
<1>5. DesiredCounts(seen, pending) =
        IF HotTraffic /\ recent THEN AtMostMax(wanted)..MaxReplicas ELSE {AtMostMax(wanted)}
  BY DEF DesiredCounts, active, hot, wanted
<1> QED BY <1>4, <1>5

\* Records of requests.
LEMMA RequestTyped ==
  ASSUME NEW x \in RequestRecords, NEW p \in Pcs, NEW l \in Lists, NEW e \in SUBSET Handles,
         NEW t \in SUBSET Replicas
  PROVE  /\ [x EXCEPT !.pc = p] \in RequestRecords
         /\ [x EXCEPT !.eligible = e] \in RequestRecords
         /\ [x EXCEPT !.tasks = t] \in RequestRecords
         /\ [x EXCEPT !.pc = p, !.list = l] \in RequestRecords
         /\ [x EXCEPT !.pc = p, !.tasks = t] \in RequestRecords
BY DEF RequestRecords

LEMMA IdleRequestTyped == IdleRequest \in RequestRecords
BY EmptyList DEF IdleRequest, RequestRecords, Pcs

LEMMA RequestGoesTo == \A p \in Pcs : [IdleRequest EXCEPT !.pc = p] \in RequestRecords
<1> TAKE p \in Pcs
<1> QED BY IdleRequestTyped DEF RequestRecords

LEMMA SetReqTyped ==
  ASSUME RequestsOK, NEW q \in Requests, NEW x \in RequestRecords, SetReq(q, x)
  PROVE  RequestsOK'
BY DEF RequestsOK, SetReq

LEMMA WokenTyped ==
  ASSUME RequestsOK, NEW ended, NEW made \in BOOLEAN
  PROVE  /\ Woken(ended, made) \in [Requests -> RequestRecords]
         /\ \A q \in Requests : Woken(ended, made)[q].pc \in {"idle", "leased"}
                                 <=> req[q].pc \in {"idle", "leased"}
<1>1. ASSUME NEW q \in Requests
      PROVE  /\ Woken(ended, made)[q] \in RequestRecords
             /\ Woken(ended, made)[q].pc \in {"idle", "leased"} <=> req[q].pc \in {"idle", "leased"}
  <2> DEFINE next == IF made THEN "snapshot" ELSE "poll"
             rest == req[q].tasks \ ended
  <2>1. req[q] \in RequestRecords /\ next \in Pcs \ {"idle", "leased"} /\ rest \in SUBSET Replicas
    BY DEF RequestsOK, RequestRecords, Pcs
  <2>2. Woken(ended, made)[q] = IF req[q].pc = "wait" /\ req[q].tasks \cap ended # {}
                                THEN [IdleRequest EXCEPT !.pc = next]
                                ELSE [req[q] EXCEPT !.tasks = rest]
    BY DEF Woken
  <2> HIDE DEF next, rest
  <2>3. [IdleRequest EXCEPT !.pc = next] \in RequestRecords /\ [IdleRequest EXCEPT !.pc = next].pc = next
    BY <2>1, IdleRequestTyped, RequestTyped, EmptyList DEF IdleRequest
  <2>4. [req[q] EXCEPT !.tasks = rest] \in RequestRecords /\ [req[q] EXCEPT !.tasks = rest].pc = req[q].pc
    BY <2>1 DEF RequestRecords
  <2> QED BY <2>1, <2>2, <2>3, <2>4
<1>2. Woken(ended, made) = [q \in Requests |-> Woken(ended, made)[q]]
  BY DEF Woken
<1> QED BY <1>1, <1>2

\* A kill leaves every variable of the cluster typed.
LEMMA KillTyped ==
  ASSUME ClusterOK, NEW H, Kill(H)
  PROVE  ClusterOK'
<1>1. alive' \subseteq Handles /\ draining' \subseteq alive'
  BY DEF ClusterOK, Kill
<1>2. name' \in [Replicas -> HandleOrNone]
  BY DEF ClusterOK, Kill, HandleOrNone
<1>3. holds' \in [Handles -> SUBSET Requests]
  BY DEF ClusterOK, Kill
<1>4. idle' \in [Handles -> 0..2]
  BY DEF ClusterOK, Kill
<1> QED BY <1>1, <1>2, <1>3, <1>4 DEF ClusterOK

-----------------------------------------------------------------------------
(* The pass of the reaper *)

\* The one to reap: the candidate of the greatest replica.
LastOf(todo) == CHOOSE c \in todo : \A d \in todo : d.replica <= c.replica

\* Of some candidates one has the greatest replica.
LEMMA LastExists ==
  ASSUME NEW S \in SUBSET Candidates, S # {}
  PROVE  LastOf(S) \in S /\ \A d \in S : d.replica <= LastOf(S).replica
<1> DEFINE T == {x \in Nat : \E c \in S : c.replica = MaxReplicas - 1 - x}
<1>1. MaxReplicas \in Nat /\ \A c \in S : c.replica \in Int /\ c.replica <= MaxReplicas - 1
  BY PoolAssumption DEF Candidates, Replicas
<1>2. \A c \in S : MaxReplicas - 1 - c.replica \in T
  <2> TAKE c \in S
  <2>1. c.replica \in Int /\ MaxReplicas - 1 - c.replica \in Nat
    BY <1>1
  <2>2. c.replica = MaxReplicas - 1 - (MaxReplicas - 1 - c.replica)
    BY <1>1, <2>1
  <2> QED BY <2>1, <2>2
<1>3. PICK x \in T : \A y \in T : ~(<<y, x>> \in OpToRel(<, Nat))
  <2>1. T \subseteq Nat /\ T # {}
    BY <1>2
  <2> QED BY <2>1, NatLessThanWellFounded, WFMin
<1>4. \A y \in T : ~(y < x)
  BY <1>3 DEF OpToRel
<1>5. PICK c \in S : c.replica = MaxReplicas - 1 - x
  OBVIOUS
<1>6. \A d \in S : d.replica <= c.replica
  <2> TAKE d \in S
  <2>1. ~(MaxReplicas - 1 - d.replica < x)
    BY <1>2, <1>4
  <2> QED BY <2>1, <1>1, <1>5
<1> HIDE DEF T
<1> QED BY <1>5, <1>6 DEF LastOf

\* At most one candidate of each replica.
OneOfEach(todo) == \A c, d \in todo : c.replica = d.replica => c = d

\* What a scan leaves: nothing, or some of the candidates, of which the last is
\* the next to drain or, when it drains already, to look at.
LEMMA ScanPicks ==
  ASSUME NEW todo \in SUBSET Candidates, OneOfEach(todo), NEW current \in Int, NEW desired \in Int
  PROVE  LET s == Scan(todo, current, desired)
         IN  /\ s \in ReaperRecords /\ s.list = {} /\ s.todo \subseteq todo
             /\ s.pc \in {"idle", "drain", "check"}
             /\ s.pc # "idle" => s.todo # {}
             /\ s.pc = "check" => LastOf(s.todo).draining
<1> DEFINE fit == {c \in todo : Reapable(c, current, desired)}
           next == LastOf(fit)
           rest == {c \in todo : c.replica <= next.replica}
           s == Scan(todo, current, desired)
<1>1. s = IF fit = {} THEN IdleReaper
          ELSE [pc |-> IF next.draining THEN "check" ELSE "drain", list |-> {},
                todo |-> rest, current |-> current, desired |-> desired]
  BY DEF Scan, LastOf
<1>2. /\ fit \in SUBSET Candidates /\ rest \in SUBSET todo /\ rest \in SUBSET Candidates
      /\ s = Scan(todo, current, desired)
  OBVIOUS
<1>3. CASE fit = {}
  <2>1. IdleReaper \in ReaperRecords
    BY EmptyList DEF IdleReaper, ReaperRecords
  <2> HIDE DEF fit, next, rest
  <2>2. s = IdleReaper
    BY <1>1, <1>3
  <2> HIDE DEF s
  <2> QED BY <1>2, <2>1, <2>2 DEF IdleReaper
<1>4. CASE fit # {}
  <2>1. next \in fit
    BY <1>2, <1>4, LastExists
  <2>2. next \in rest /\ next.replica \in Int
    BY <2>1 DEF Candidates, Replicas
  <2>3. \A d \in rest : d.replica <= next.replica /\ d.replica \in Int
    BY DEF Candidates, Replicas
  <2>4. LastOf(rest) \in rest /\ next.replica <= LastOf(rest).replica
    BY <1>2, <2>2, LastExists
  <2>5. LastOf(rest) = next
    <3>1. LastOf(rest).replica = next.replica
      BY <2>2, <2>3, <2>4
    <3> QED BY <3>1, <2>2, <2>4 DEF OneOfEach
  <2>6. next.draining \in BOOLEAN
    BY <2>1 DEF Candidates
  <2>7. rest # {} /\ {} \in Lists
    BY <2>2, EmptyList
  <2> HIDE DEF fit, next, rest
  <2>8. s = [pc |-> IF next.draining THEN "check" ELSE "drain", list |-> {},
             todo |-> rest, current |-> current, desired |-> desired]
    BY <1>1, <1>4
  <2> HIDE DEF s
  <2>9. s \in ReaperRecords
    BY <1>2, <2>7, <2>8 DEF ReaperRecords
  <2> QED BY <1>2, <2>5, <2>7, <2>8, <2>9
<1> QED BY <1>3, <1>4

-----------------------------------------------------------------------------
(* Names and what the manager remembers of them *)

\* Ray's table names running actors, and every running actor has a name.
NamesAreAlive ==
    /\ \A r \in Replicas : name[r] # NoActor => name[r] \in alive
    /\ \A h \in alive : \E r \in Replicas : name[r] = h

\* The actor of a replica, in _actors or being created, is the named one unless
\* it is dead; when it is dead, nothing else has taken its name.
KnownIsNamed ==
    \A r \in Replicas :
        /\ actors[r] # NoActor => creating[r] = None /\ name[r] \in {actors[r], NoActor}
        /\ creating[r] \in Handles => name[r] \in {creating[r], NoActor}
        /\ actors[r] \in alive => name[r] = actors[r]
        /\ creating[r] \in alive => name[r] = creating[r]

Tables == NamesAreAlive /\ KnownIsNamed

\* An actor somebody remembers does not come back, keeps draining, and gets no
\* lease once it drains.
ActorsKept ==
    \A h \in Handles : h \in alive' /\ h \in Remembered =>
        /\ h \in alive
        /\ h \in draining => h \in draining'
        /\ h \in draining /\ holds[h] = {} => holds'[h] = {}

\* Actors disappear with their names, and the manager forgets or starts tasks.
LEMMA TablesShrink ==
  ASSUME ClusterOK, ManagerOK, ManagerOK', Tables, alive' \subseteq alive,
         \A r \in Replicas : name'[r] = IF name[r] \in alive' THEN name[r] ELSE NoActor,
         \A r \in Replicas : actors'[r] \in {actors[r], NoActor},
         \A r \in Replicas : creating'[r] = creating[r] \/ creating'[r] \notin Handles,
         \A r \in Replicas : actors'[r] # NoActor => creating'[r] = None
  PROVE  Tables'
<1>1. NoActor \notin Handles /\ None \notin Handles
  BY PoolAssumption
<1>2. NamesAreAlive'
  <2>1. \A h \in alive' : \E r \in Replicas : name'[r] = h
    BY DEF Tables, NamesAreAlive
  <2>2. \A r \in Replicas : name'[r] # NoActor => name'[r] \in alive'
    OBVIOUS
  <2> QED BY <2>1, <2>2 DEF NamesAreAlive
<1>3. KnownIsNamed'
  <2> SUFFICES ASSUME NEW r \in Replicas
               PROVE  /\ actors'[r] # NoActor => creating'[r] = None /\ name'[r] \in {actors'[r], NoActor}
                      /\ creating'[r] \in Handles => name'[r] \in {creating'[r], NoActor}
                      /\ actors'[r] \in alive' => name'[r] = actors'[r]
                      /\ creating'[r] \in alive' => name'[r] = creating'[r]
    BY DEF KnownIsNamed
  <2>1. /\ actors[r] # NoActor => creating[r] = None /\ name[r] \in {actors[r], NoActor}
        /\ creating[r] \in Handles => name[r] \in {creating[r], NoActor}
        /\ actors[r] \in alive => name[r] = actors[r]
        /\ creating[r] \in alive => name[r] = creating[r]
    BY DEF Tables, KnownIsNamed
  <2>2. alive \subseteq Handles
    BY DEF ClusterOK
  <2> QED BY <1>1, <2>1, <2>2
<1> QED BY <1>2, <1>3 DEF Tables

\* The same when no actor disappears.
LEMMA TablesForget ==
  ASSUME ClusterOK, ManagerOK, ManagerOK', Tables, UNCHANGED <<alive, name>>,
         \A r \in Replicas : actors'[r] \in {actors[r], NoActor},
         \A r \in Replicas : creating'[r] = creating[r] \/ creating'[r] \notin Handles,
         \A r \in Replicas : actors'[r] # NoActor => creating'[r] = None
  PROVE  Tables'
<1>1. \A r \in Replicas : name'[r] = IF name[r] \in alive' THEN name[r] ELSE NoActor
  BY DEF Tables, NamesAreAlive
<1> QED BY <1>1, TablesShrink

LEMMA TablesSame ==
  ASSUME Tables, UNCHANGED <<alive, name, actors, creating>>
  PROVE  Tables'
BY DEF Tables, NamesAreAlive, KnownIsNamed

\* Named actors are adopted.
LEMMA TablesAdopt ==
  ASSUME ClusterOK, ManagerOK, Tables, UNCHANGED <<alive, name, creating>>,
         \A r \in Replicas : actors'[r] \in {Discovered[r], NoActor}
  PROVE  Tables'
<1>1. NamesAreAlive'
  BY DEF Tables, NamesAreAlive
<1>2. \A r \in Replicas : Discovered[r] = IF actors[r] = NoActor /\ creating[r] = None
                                          THEN name[r] ELSE actors[r]
  BY DEF Discovered
<1>3. KnownIsNamed'
  <2> SUFFICES ASSUME NEW r \in Replicas
               PROVE  /\ actors'[r] # NoActor => creating[r] = None /\ name[r] \in {actors'[r], NoActor}
                      /\ creating[r] \in Handles => name[r] \in {creating[r], NoActor}
                      /\ actors'[r] \in alive => name[r] = actors'[r]
                      /\ creating[r] \in alive => name[r] = creating[r]
    BY DEF KnownIsNamed
  <2>1. /\ actors[r] # NoActor => creating[r] = None /\ name[r] \in {actors[r], NoActor}
        /\ creating[r] \in Handles => name[r] \in {creating[r], NoActor}
        /\ actors[r] \in alive => name[r] = actors[r]
        /\ creating[r] \in alive => name[r] = creating[r]
    BY DEF Tables, KnownIsNamed
  <2>2. NoActor \notin alive
    BY PoolAssumption DEF ClusterOK
  <2> QED BY <1>2, <2>1, <2>2
<1> QED BY <1>1, <1>3 DEF Tables

LEMMA KillKeeps ==
  ASSUME ClusterOK, Tables, NEW H, Kill(H)
  PROVE  /\ ActorsKept /\ alive' \subseteq alive
         /\ \A r \in Replicas : name'[r] = IF name[r] \in alive' THEN name[r] ELSE NoActor
<1>1. \A r \in Replicas : name'[r] = IF name[r] \in H THEN NoActor ELSE name[r]
  BY DEF Kill
<1>2. alive' = alive \ H /\ \A r \in Replicas : name[r] # NoActor => name[r] \in alive
  BY DEF Kill, Tables, NamesAreAlive
<1>3. ActorsKept
  BY DEF ActorsKept, ClusterOK, Kill
<1> QED BY <1>1, <1>2, <1>3

LEMMA ClusterSame ==
  ASSUME ClusterOK, UNCHANGED cluster
  PROVE  ClusterOK' /\ ActorsKept
BY DEF ClusterOK, ActorsKept, cluster

-----------------------------------------------------------------------------
(* Types, names and actors over the steps of a request *)

PoolKept == TypeOK' /\ Tables' /\ ActorsKept

LEMMA ReaperRetireSame ==
  ASSUME TypeOK
  PROVE  /\ reaper' = reaper => ReaperOK'
         /\ retire' = retire => RetireOK'
         /\ budget' = budget => BudgetOK'
         /\ UNCHANGED manager => ManagerOK'
         /\ req' = req => RequestsOK'
BY TypeParts DEF ReaperOK, RetireOK, BudgetOK, ManagerOK, RequestsOK, manager

LEMMA ArriveKeeps ==
  ASSUME TypeOK, Tables, NEW q \in Requests, Arrive(q)
  PROVE  PoolKept
<1>1. ClusterOK' /\ ActorsKept
  BY TypeParts, ClusterSame DEF Arrive
<1>2. ManagerOK'
  <2>1. ManagerOK /\ actors' = actors /\ creating' = creating /\ registered' = TRUE /\ recent' = TRUE
    BY TypeParts DEF Arrive
  <2> QED BY <2>1 DEF ManagerOK
<1>3. [IdleRequest EXCEPT !.pc = "snapshot"] \in RequestRecords
  BY RequestGoesTo DEF Pcs
<1>4. RequestsOK'
  BY <1>3, TypeParts, SetReqTyped DEF Arrive
<1>5. RetireOK'
  <2>1. retire' = [retire EXCEPT !.crossed = @ \/ retire.pc \in {"discover", "drain", "status", "kill"}]
    BY DEF Arrive
  <2>2. retire \in RetireRecords
    BY TypeParts DEF RetireOK
  <2> QED BY <2>1, <2>2 DEF RetireOK, RetireRecords
<1>6. ReaperOK' /\ BudgetOK'
  BY ReaperRetireSame DEF Arrive
<1>7. Tables'
  BY TablesSame DEF Arrive, cluster
<1> QED BY <1>1, <1>2, <1>4, <1>5, <1>6, <1>7, TypePartsKept DEF PoolKept

LEMMA PreparePoolKeeps ==
  ASSUME TypeOK, Tables, NEW q \in Requests, PreparePool(q)
  PROVE  PoolKept
<1>1. ClusterOK' /\ ActorsKept
  BY TypeParts, ClusterSame DEF PreparePool
<1>2. Discovered \in [Replicas -> HandleOrNone]
  BY TypeParts, DiscoveredType
<1>3. ManagerOK'
  <2>1. ManagerOK /\ actors' = Discovered /\ UNCHANGED <<creating, registered, recent>>
    BY TypeParts DEF PreparePool
  <2> QED BY <1>2, <2>1 DEF ManagerOK
<1>4. [IdleRequest EXCEPT !.pc = "status", !.list = Listed(Discovered)] \in RequestRecords
  BY <1>2, ListedIsList, IdleRequestTyped, RequestTyped DEF Pcs
<1>5. RequestsOK'
  BY <1>4, TypeParts, SetReqTyped DEF PreparePool
<1>6. ReaperOK' /\ RetireOK' /\ BudgetOK'
  BY ReaperRetireSame DEF PreparePool
<1>7. Tables'
  BY TypeParts, TablesAdopt DEF PreparePool, cluster
<1> QED BY <1>1, <1>3, <1>5, <1>6, <1>7, TypePartsKept DEF PoolKept

\* The manager after statuses: some actors forgotten, some tasks started.
LEMMA ForgetKeeps ==
  ASSUME TypeOK, Tables, UNCHANGED <<cluster, registered, recent>>,
         actors' \in [Replicas -> HandleOrNone], creating' \in Tasks,
         \A r \in Replicas : actors'[r] \in {actors[r], NoActor},
         \A r \in Replicas : \/ creating'[r] = creating[r]
                             \/ creating'[r] = Scheduled /\ actors'[r] = NoActor
  PROVE  ClusterOK' /\ ManagerOK' /\ Tables' /\ ActorsKept
<1>1. ClusterOK' /\ ActorsKept
  BY TypeParts, ClusterSame
<1>2. ManagerOK'
  BY TypeParts DEF ManagerOK
<1>3. \A r \in Replicas : actors'[r] # NoActor => creating'[r] = None
  BY DEF Tables, KnownIsNamed
<1>4. \A r \in Replicas : creating'[r] = creating[r] \/ creating'[r] \notin Handles
  BY PoolAssumption
<1>5. Tables'
  BY <1>2, <1>3, <1>4, TypeParts, TablesForget DEF cluster
<1> QED BY <1>1, <1>2, <1>5

LEMMA WithoutSilentForgets ==
  ASSUME NEW list, NEW seen, NEW r \in Replicas
  PROVE  WithoutSilent(list, seen)[r] \in {actors[r], NoActor}
BY DEF WithoutSilent

LEMMA ReadStatusesKeeps ==
  ASSUME TypeOK, Tables, NEW q \in Requests, ReadStatuses(q)
  PROVE  PoolKept
<1> DEFINE list == req[q].list
<1>1. PICK seen \in SUBSET Live(list) :
        /\ Answer(list, seen)
        /\ actors' = WithoutSilent(list, seen)
        /\ \E desired \in DesiredCounts(seen, 1) : creating' = ScheduledTasks(actors', desired)
        /\ SetReq(q, [pc |-> "try", list |-> {},
                      eligible |-> {x[2] : x \in {y \in seen : Accepts(y[2])}},
                      grow |-> IF Running(creating') = {} /\ Cardinality(seen) < MaxReplicas
                               THEN Cardinality(seen) + 1 ELSE 0,
                      tasks |-> Running(creating')])
  BY DEF ReadStatuses
<1> DEFINE fits == {x[2] : x \in {y \in seen : Accepts(y[2])}}
           more == IF Running(creating') = {} /\ Cardinality(seen) < MaxReplicas
                   THEN Cardinality(seen) + 1 ELSE 0
           rec == [pc |-> "try", list |-> {}, eligible |-> fits, grow |-> more,
                   tasks |-> Running(creating')]
<1>2. actors' \in [Replicas -> HandleOrNone]
  BY <1>1, TypeParts, WithoutSilentType
<1>3. /\ creating' \in Tasks
      /\ \A r \in Replicas : \/ creating'[r] = creating[r]
                             \/ creating'[r] = Scheduled /\ actors'[r] = NoActor
  <2>1. ManagerOK
    BY TypeParts
  <2> QED BY <1>1, <2>1, ScheduledTasksType
<1>4. \A r \in Replicas : actors'[r] \in {actors[r], NoActor}
  BY <1>1, WithoutSilentForgets
<1>5. ClusterOK' /\ ManagerOK' /\ Tables' /\ ActorsKept
  BY <1>2, <1>3, <1>4, ForgetKeeps DEF ReadStatuses
<1>6. list \in Lists
  BY TypeParts DEF RequestsOK, RequestRecords
<1>7. seen \in Lists
  BY <1>1, <1>6, SeenIsList
<1>8. rec \in RequestRecords
  <2>1. fits \in SUBSET Handles
    BY <1>7 DEF Lists
  <2>2. more \in Nat
    BY <1>7, FS_CardinalityType DEF Lists
  <2>3. Running(creating') \in SUBSET Replicas /\ "try" \in Pcs
    BY DEF Running, Pcs
  <2> HIDE DEF fits, more
  <2> QED BY <2>1, <2>2, <2>3, EmptyList DEF RequestRecords
<1>9. SetReq(q, rec)
  BY <1>1
<1>10. RequestsOK'
  <2> HIDE DEF rec
  <2> QED BY <1>8, <1>9, TypeParts, SetReqTyped
<1>11. ReaperOK' /\ RetireOK'
  BY ReaperRetireSame DEF ReadStatuses
<1>12. BudgetOK'
  BY <1>1, TypeParts, AnswerTyped
<1> QED BY <1>5, <1>10, <1>11, <1>12, TypePartsKept DEF PoolKept

LEMMA TryCandidateKeeps ==
  ASSUME TypeOK, Tables, NEW q \in Requests, NEW h \in Handles, TryCandidate(q, h)
  PROVE  PoolKept
<1>1. holds' = holds \/ (h \notin draining /\ holds' = [holds EXCEPT ![h] = @ \cup {q}])
  BY DEF TryCandidate, Accepts
<1>2. idle' = idle \/ idle' = [idle EXCEPT ![h] = 0]
  BY DEF TryCandidate
<1>3. /\ UNCHANGED <<alive, name, draining, manager, reaper, retire>>
      /\ UNCHANGED budget \/ CallFails(h)
  BY DEF TryCandidate
<1>4. ClusterOK'
  BY <1>1, <1>2, <1>3, TypeParts DEF ClusterOK
<1>5. ActorsKept
  BY <1>1, <1>3, TypeParts DEF ActorsKept, ClusterOK
<1>6. RequestsOK'
  <2>1. req[q] \in RequestRecords
    BY TypeParts DEF RequestsOK
  <2>2. /\ [IdleRequest EXCEPT !.pc = "leased"] \in RequestRecords
        /\ [req[q] EXCEPT !.eligible = req[q].eligible \ {h}] \in RequestRecords
    <3>1. [IdleRequest EXCEPT !.pc = "leased"] \in RequestRecords
      BY RequestGoesTo DEF Pcs
    <3>2. [req[q] EXCEPT !.eligible = req[q].eligible \ {h}] \in RequestRecords
      BY <2>1 DEF RequestRecords
    <3> QED BY <3>1, <3>2
  <2>3. \/ SetReq(q, [IdleRequest EXCEPT !.pc = "leased"])
        \/ SetReq(q, [req[q] EXCEPT !.eligible = req[q].eligible \ {h}])
        \/ SetReq(q, IdleRequest)
    BY DEF TryCandidate
  <2> QED BY <2>2, <2>3, IdleRequestTyped, TypeParts, SetReqTyped
<1>7. BudgetOK'
  BY <1>3, TypeParts, CallFailsTyped, ReaperRetireSame
<1>8. ManagerOK' /\ ReaperOK' /\ RetireOK'
  BY <1>3, ReaperRetireSame
<1>9. Tables'
  BY <1>3, TablesSame DEF manager
<1> QED BY <1>4, <1>5, <1>6, <1>7, <1>8, <1>9, TypePartsKept DEF PoolKept

LEMMA NoCandidateKeeps ==
  ASSUME TypeOK, Tables, NEW q \in Requests, NoCandidate(q)
  PROVE  PoolKept
<1>1. \/ creating' = ScheduledTasks(actors, req[q].grow)
      \/ creating' = creating
  BY DEF NoCandidate
<1>2. actors' = actors /\ actors \in [Replicas -> HandleOrNone] /\ creating \in Tasks /\ ManagerOK
  BY TypeParts DEF NoCandidate, ManagerOK
<1>3. /\ creating' \in Tasks
      /\ \A r \in Replicas : \/ creating'[r] = creating[r]
                             \/ creating'[r] = Scheduled /\ actors'[r] = NoActor
  BY <1>1, <1>2, ScheduledTasksType
<1>4. ClusterOK' /\ ManagerOK' /\ Tables' /\ ActorsKept
  BY <1>2, <1>3, ForgetKeeps DEF NoCandidate
<1>5. RequestsOK'
  <2> DEFINE tasks == IF req[q].grow > 0 THEN Running(creating') ELSE req[q].tasks
             pc == IF tasks = {} THEN "poll" ELSE "wait"
  <2>1. tasks \in SUBSET Replicas
    BY TypeParts DEF RequestsOK, RequestRecords, Running
  <2>2. SetReq(q, [IdleRequest EXCEPT !.pc = pc, !.tasks = tasks])
    BY DEF NoCandidate
  <2> HIDE DEF tasks
  <2>3. pc \in Pcs
    BY DEF Pcs
  <2> HIDE DEF pc
  <2>4. [IdleRequest EXCEPT !.pc = pc, !.tasks = tasks] \in RequestRecords
    BY <2>1, <2>3, IdleRequestTyped, RequestTyped, EmptyList
  <2> QED BY <2>2, <2>4, TypeParts, SetReqTyped
<1>6. ReaperOK' /\ RetireOK' /\ BudgetOK'
  BY ReaperRetireSame DEF NoCandidate
<1> QED BY <1>4, <1>5, <1>6, TypePartsKept DEF PoolKept

LEMMA PollKeeps ==
  ASSUME TypeOK, Tables, NEW q \in Requests, Poll(q) \/ Overload(q)
  PROVE  PoolKept
<1>1. ClusterOK' /\ ActorsKept
  <2>1. ClusterOK /\ UNCHANGED cluster
    BY TypeParts DEF Poll, Overload
  <2> QED BY <2>1, ClusterSame
<1>2. [IdleRequest EXCEPT !.pc = "snapshot"] \in RequestRecords
  BY RequestGoesTo DEF Pcs
<1>3. RequestsOK'
  BY <1>2, IdleRequestTyped, TypeParts, SetReqTyped DEF Poll, Overload
<1>4. ManagerOK' /\ ReaperOK' /\ RetireOK' /\ BudgetOK'
  BY ReaperRetireSame DEF Poll, Overload
<1>5. Tables'
  BY TablesSame DEF Poll, Overload, cluster, manager
<1> QED BY <1>1, <1>3, <1>4, <1>5, TypePartsKept DEF PoolKept

LEMMA FinishKeeps ==
  ASSUME TypeOK, Tables, NEW q \in Requests, Finish(q)
  PROVE  PoolKept
<1>1. /\ UNCHANGED <<alive, name, draining, idle, manager, reaper, retire, budget>>
      /\ holds' = [h \in Handles |-> holds[h] \ {q}]
  BY DEF Finish
<1>2. ClusterOK'
  BY <1>1, TypeParts DEF ClusterOK
<1>3. ActorsKept
  BY <1>1, TypeParts DEF ActorsKept
<1>4. RequestsOK'
  BY IdleRequestTyped, TypeParts, SetReqTyped DEF Finish
<1>5. ManagerOK' /\ ReaperOK' /\ RetireOK' /\ BudgetOK'
  BY <1>1, ReaperRetireSame
<1>6. Tables'
  BY <1>1, TablesSame DEF manager
<1> QED BY <1>2, <1>3, <1>4, <1>5, <1>6, TypePartsKept DEF PoolKept

-----------------------------------------------------------------------------
(* ... over creations and the environment *)

LEMMA EndTaskTyped ==
  ASSUME TypeOK, NEW r \in Replicas, NEW made \in BOOLEAN, EndTask(r, made)
  PROVE  /\ RequestsOK' /\ creating' \in Tasks
         /\ creating' = [creating EXCEPT ![r] = None]
<1>1. RequestsOK'
  BY TypeParts, WokenTyped DEF EndTask, RequestsOK
<1> QED BY <1>1, TypeParts DEF EndTask, ManagerOK, Tasks

\* The task takes the named actor.
LEMMA TakeNamedKeeps ==
  ASSUME TypeOK, Tables, NEW r \in Replicas, creating[r] = Scheduled, name[r] # NoActor,
         creating' = [creating EXCEPT ![r] = name[r]],
         UNCHANGED <<cluster, actors, registered, recent, req, reaper, retire, budget>>
  PROVE  PoolKept
<1>1. ClusterOK' /\ ActorsKept
  BY TypeParts, ClusterSame
<1>2. name[r] \in alive /\ name[r] \in Handles
  BY TypeParts DEF Tables, NamesAreAlive, ClusterOK
<1>3. creating \in Tasks /\ creating' \in Tasks
  BY <1>2, TypeParts DEF ManagerOK, Tasks
<1>4. ManagerOK'
  BY <1>3, TypeParts DEF ManagerOK
<1>5. RequestsOK' /\ ReaperOK' /\ RetireOK' /\ BudgetOK'
  BY ReaperRetireSame
<1>6. NamesAreAlive'
  BY DEF Tables, NamesAreAlive, cluster
<1>7. KnownIsNamed'
  <2>1. actors[r] = NoActor
    BY PoolAssumption DEF Tables, KnownIsNamed, None, Scheduled
  <2>2. /\ creating'[r] = name[r]
        /\ \A x \in Replicas : x # r => creating'[x] = creating[x]
    BY <1>3 DEF Tasks
  <2>3. NoActor \notin alive
    BY PoolAssumption, TypeParts DEF ClusterOK
  <2>4. UNCHANGED <<alive, name, actors>>
    BY DEF cluster
  <2> QED BY <2>1, <2>2, <2>3, <2>4 DEF Tables, KnownIsNamed
<1> QED BY <1>1, <1>4, <1>5, <1>6, <1>7, TypePartsKept DEF PoolKept, Tables

\* The task makes an actor, of a handle nobody remembers.
LEMMA MakeActorKeeps ==
  ASSUME TypeOK, Tables, NEW r \in Replicas, creating[r] = Scheduled, name[r] = NoActor,
         NEW h \in Handles \ Remembered,
         alive' = alive \cup {h}, name' = [name EXCEPT ![r] = h],
         creating' = [creating EXCEPT ![r] = h],
         UNCHANGED <<draining, holds, idle, actors, registered, recent, req, reaper, retire, budget>>
  PROVE  PoolKept
<1>1. h \notin alive /\ \A x \in Replicas : actors[x] # h /\ creating[x] # h
  BY DEF Remembered
<1>2. ClusterOK'
  BY TypeParts DEF ClusterOK, HandleOrNone
<1>3. ActorsKept
  BY DEF ActorsKept
<1>4. creating \in Tasks /\ creating' \in Tasks /\ name \in [Replicas -> HandleOrNone]
  BY TypeParts DEF ManagerOK, ClusterOK, Tasks
<1>5. ManagerOK'
  BY <1>4, TypeParts DEF ManagerOK
<1>6. RequestsOK' /\ ReaperOK' /\ RetireOK' /\ BudgetOK'
  BY ReaperRetireSame
<1>7. /\ creating'[r] = h /\ name'[r] = h
      /\ \A x \in Replicas : x # r => creating'[x] = creating[x] /\ name'[x] = name[x]
  BY <1>4 DEF Tasks
<1>8. NamesAreAlive'
  <2>1. \A x \in Replicas : name'[x] # NoActor => name'[x] \in alive'
    BY <1>7 DEF Tables, NamesAreAlive
  <2>2. \A k \in alive' : \E x \in Replicas : name'[x] = k
    <3> TAKE k \in alive'
    <3>1. CASE k = h
      BY <3>1, <1>7
    <3>2. CASE k # h
      <4>1. k \in alive /\ k # NoActor
        BY <3>2, TypeParts, PoolAssumption DEF ClusterOK
      <4>2. PICK x \in Replicas : name[x] = k
        BY <4>1 DEF Tables, NamesAreAlive
      <4>3. name'[x] = k
        BY <4>1, <4>2, <1>7
      <4> QED BY <4>3
    <3> QED BY <3>1, <3>2
  <2> QED BY <2>1, <2>2 DEF NamesAreAlive
<1>9. KnownIsNamed'
  <2>1. actors[r] = NoActor /\ actors' = actors
    BY PoolAssumption DEF Tables, KnownIsNamed, None, Scheduled
  <2>2. NoActor \notin alive /\ NoActor # h
    BY PoolAssumption, TypeParts DEF ClusterOK
  <2>3. SUFFICES ASSUME NEW x \in Replicas
                 PROVE  /\ actors[x] # NoActor => creating'[x] = None /\ name'[x] \in {actors[x], NoActor}
                        /\ creating'[x] \in Handles => name'[x] \in {creating'[x], NoActor}
                        /\ actors[x] \in alive' => name'[x] = actors[x]
                        /\ creating'[x] \in alive' => name'[x] = creating'[x]
    BY <2>1 DEF KnownIsNamed
  <2>4. CASE x = r
    BY <2>1, <2>2, <2>4, <1>7
  <2>5. CASE x # r
    <3>1. creating'[x] = creating[x] /\ name'[x] = name[x] /\ actors[x] # h /\ creating[x] # h
      BY <2>5, <1>1, <1>7
    <3> QED BY <3>1 DEF Tables, KnownIsNamed
  <2> QED BY <2>4, <2>5
<1> QED BY <1>2, <1>3, <1>5, <1>6, <1>8, <1>9, TypePartsKept DEF PoolKept, Tables

LEMMA EndTaskForgets ==
  ASSUME TypeOK, Tables, NEW r \in Replicas, creating[r] # None, EndTask(r, FALSE),
         UNCHANGED <<cluster, actors, registered, recent, reaper, retire>>, BudgetOK'
  PROVE  PoolKept
<1>1. RequestsOK' /\ creating' \in Tasks /\ creating' = [creating EXCEPT ![r] = None]
  BY EndTaskTyped
<1>2. ClusterOK' /\ ActorsKept
  BY TypeParts, ClusterSame
<1>3. ManagerOK'
  BY <1>1, TypeParts DEF ManagerOK
<1>4. ReaperOK' /\ RetireOK'
  BY ReaperRetireSame
<1>5. creating \in Tasks /\ None \notin Handles
  BY TypeParts, PoolAssumption DEF ManagerOK
<1>6. \A x \in Replicas : creating'[x] = creating[x] \/ creating'[x] = None
  BY <1>1, <1>5 DEF Tasks
<1>7. Tables'
  <2>1. \A x \in Replicas : actors'[x] # NoActor => creating'[x] = None
    BY <1>6 DEF Tables, KnownIsNamed
  <2> QED BY <2>1, <1>3, <1>5, <1>6, TypeParts, TablesForget DEF cluster
<1> QED BY <1>1, <1>2, <1>3, <1>4, <1>7, TypePartsKept DEF PoolKept

LEMMA StartCreationKeeps ==
  ASSUME TypeOK, Tables, NEW r \in Replicas, StartCreation(r)
  PROVE  PoolKept
<1>1. /\ creating[r] = Scheduled /\ Scheduled # None
      /\ UNCHANGED <<draining, holds, idle, actors, registered, recent, reaper, retire, budget>>
  BY DEF StartCreation, Scheduled, None
<1>2. CASE /\ name[r] # NoActor
           /\ creating' = [creating EXCEPT ![r] = name[r]]
           /\ UNCHANGED <<alive, name, req>>
  BY <1>1, <1>2, TakeNamedKeeps DEF cluster
<1>3. CASE \E h \in Handles \ Remembered :
              /\ name[r] = NoActor
              /\ alive' = alive \cup {h}
              /\ name' = [name EXCEPT ![r] = h]
              /\ creating' = [creating EXCEPT ![r] = h]
              /\ UNCHANGED req
  <2>1. PICK h \in Handles \ Remembered :
              /\ name[r] = NoActor
              /\ alive' = alive \cup {h}
              /\ name' = [name EXCEPT ![r] = h]
              /\ creating' = [creating EXCEPT ![r] = h]
              /\ UNCHANGED req
    BY <1>3
  <2> QED BY <1>1, <2>1, MakeActorKeeps
<1>4. CASE EndTask(r, FALSE) /\ UNCHANGED <<alive, name>>
  <2>1. BudgetOK'
    BY <1>1, ReaperRetireSame
  <2> QED BY <1>1, <1>4, <2>1, EndTaskForgets DEF cluster
<1> QED BY <1>2, <1>3, <1>4 DEF StartCreation

LEMMA FinishCreationKeeps ==
  ASSUME TypeOK, Tables, NEW r \in Replicas, FinishCreation(r)
  PROVE  PoolKept
<1>1. creating[r] \in Handles /\ creating[r] # None
  BY PoolAssumption DEF FinishCreation
<1>2. CASE CallFails(creating[r]) /\ EndTask(r, FALSE) /\ UNCHANGED actors
  <2>1. BudgetOK'
    BY <1>2, TypeParts, CallFailsTyped
  <2>2. UNCHANGED <<cluster, actors, registered, recent, reaper, retire>>
    BY <1>2 DEF FinishCreation
  <2> QED BY <1>1, <1>2, <2>1, <2>2, EndTaskForgets
<1>3. CASE /\ creating[r] \in alive /\ UNCHANGED budget
           /\ actors' = [actors EXCEPT ![r] = creating[r]] /\ EndTask(r, TRUE)
  <2>1. /\ actors' = [actors EXCEPT ![r] = creating[r]] /\ EndTask(r, TRUE)
        /\ UNCHANGED <<cluster, registered, recent, reaper, retire, budget>>
    BY <1>3 DEF FinishCreation
  <2>2. RequestsOK' /\ creating' \in Tasks /\ creating' = [creating EXCEPT ![r] = None]
    BY <2>1, EndTaskTyped
  <2>3. ClusterOK' /\ ActorsKept
    BY <2>1, TypeParts, ClusterSame
  <2>4. actors \in [Replicas -> HandleOrNone] /\ creating \in Tasks
    BY TypeParts DEF ManagerOK
  <2>5. ManagerOK'
    BY <2>1, <2>2, <1>1, TypeParts DEF ManagerOK, HandleOrNone
  <2>6. ReaperOK' /\ RetireOK' /\ BudgetOK'
    BY <2>1, ReaperRetireSame
  <2>7. /\ creating'[r] = None /\ actors'[r] = creating[r]
        /\ \A x \in Replicas : x # r => creating'[x] = creating[x] /\ actors'[x] = actors[x]
    BY <2>1, <2>2, <2>4 DEF Tasks
  <2>8. UNCHANGED <<alive, name>>
    BY <2>1 DEF cluster
  <2>9. NamesAreAlive'
    BY <2>8 DEF Tables, NamesAreAlive
  <2>10. KnownIsNamed'
    <3>1. None \notin Handles /\ alive \subseteq Handles
      BY PoolAssumption, TypeParts DEF ClusterOK
    <3> QED BY <3>1, <2>7, <2>8, <1>1, <1>3 DEF Tables, KnownIsNamed
  <2> QED BY <2>2, <2>3, <2>5, <2>6, <2>9, <2>10, TypePartsKept DEF PoolKept, Tables
<1> QED BY <1>2, <1>3 DEF FinishCreation

LEMMA DieKeeps ==
  ASSUME TypeOK, Tables, NEW h \in Handles, Die(h)
  PROVE  PoolKept
<1>1. Kill({h}) /\ UNCHANGED <<manager, req, reaper, retire>>
  BY DEF Die
<1>2. ClusterOK'
  BY <1>1, TypeParts, KillTyped
<1>3. /\ ActorsKept /\ alive' \subseteq alive
      /\ \A r \in Replicas : name'[r] = IF name[r] \in alive' THEN name[r] ELSE NoActor
  BY <1>1, TypeParts, KillKeeps
<1>4. ManagerOK' /\ RequestsOK' /\ ReaperOK' /\ RetireOK'
  BY <1>1, ReaperRetireSame
<1>5. BudgetOK'
  BY TypeParts, FaultTyped DEF Die
<1>6. Tables'
  <2>1. \A r \in Replicas : actors'[r] # NoActor => creating'[r] = None
    BY <1>1 DEF Tables, KnownIsNamed, manager
  <2> QED BY <2>1, <1>1, <1>3, <1>4, TypeParts, TablesShrink DEF manager
<1> QED BY <1>2, <1>3, <1>4, <1>5, <1>6, TypePartsKept DEF PoolKept

LEMMA RestartKeeps ==
  ASSUME TypeOK, Tables, Restart
  PROVE  PoolKept
<1>1. ClusterOK' /\ ActorsKept
  BY TypeParts, ClusterSame DEF Restart
<1>2. ManagerOK'
  BY DEF Restart, ManagerOK, Tasks, HandleOrNone
<1>3. RequestsOK'
  BY TypeParts, IdleRequestTyped DEF Restart, RequestsOK
<1>4. ReaperOK' /\ RetireOK'
  BY EmptyList DEF Restart, ReaperOK, RetireOK, IdleReaper, IdleRetire, ReaperRecords, RetireRecords
<1>5. BudgetOK'
  BY TypeParts, FaultTyped DEF Restart
<1>6. Tables'
  <2>1. \A r \in Replicas : actors'[r] = NoActor /\ creating'[r] \notin Handles
    BY PoolAssumption DEF Restart
  <2>2. UNCHANGED <<alive, name>>
    BY DEF Restart, cluster
  <2> QED BY <2>1, <2>2, <1>2, TypeParts, TablesForget
<1> QED BY <1>1, <1>2, <1>3, <1>4, <1>5, <1>6, TypePartsKept DEF PoolKept

LEMMA AgeIdleKeeps ==
  ASSUME TypeOK, Tables, NEW h \in Handles, AgeIdle(h)
  PROVE  PoolKept
<1>1. /\ UNCHANGED <<alive, name, draining, holds, manager, req, reaper, retire, budget>>
      /\ idle' = [idle EXCEPT ![h] = @ + 1] /\ idle[h] < 2
  BY DEF AgeIdle
<1>2. ClusterOK'
  BY <1>1, TypeParts DEF ClusterOK
<1>3. ActorsKept
  BY <1>1 DEF ActorsKept
<1>4. ManagerOK' /\ RequestsOK' /\ ReaperOK' /\ RetireOK' /\ BudgetOK'
  BY <1>1, ReaperRetireSame
<1>5. Tables'
  BY <1>1, TablesSame DEF manager
<1> QED BY <1>2, <1>3, <1>4, <1>5, TypePartsKept DEF PoolKept

LEMMA CoolDownKeeps ==
  ASSUME TypeOK, Tables, CoolDown
  PROVE  PoolKept
<1>1. ClusterOK' /\ ActorsKept
  BY TypeParts, ClusterSame DEF CoolDown
<1>2. ManagerOK'
  BY TypeParts DEF CoolDown, ManagerOK
<1>3. RequestsOK' /\ ReaperOK' /\ RetireOK' /\ BudgetOK'
  BY ReaperRetireSame DEF CoolDown
<1>4. Tables'
  BY TablesSame DEF CoolDown, cluster
<1> QED BY <1>1, <1>2, <1>3, <1>4, TypePartsKept DEF PoolKept

LEMMA ListActorPoolsKeeps ==
  ASSUME TypeOK, Tables, ListActorPools
  PROVE  PoolKept
<1>1. ClusterOK' /\ ActorsKept
  BY TypeParts, ClusterSame DEF ListActorPools
<1>2. Discovered \in [Replicas -> HandleOrNone]
  BY TypeParts, DiscoveredType
<1>3. PICK seen \in SUBSET Live(Listed(Discovered)) :
        /\ Answer(Listed(Discovered), seen)
        /\ actors' = [r \in Replicas |-> IF <<r, Discovered[r]>> \in seen THEN Discovered[r] ELSE NoActor]
  BY DEF ListActorPools
<1>4. ManagerOK'
  BY <1>2, <1>3, TypeParts DEF ListActorPools, ManagerOK, HandleOrNone
<1>5. RequestsOK' /\ ReaperOK' /\ RetireOK'
  BY ReaperRetireSame DEF ListActorPools
<1>6. Tables'
  <2>1. \A r \in Replicas : actors'[r] \in {Discovered[r], NoActor}
    BY <1>3
  <2> QED BY <2>1, TypeParts, TablesAdopt DEF ListActorPools, cluster
<1>7. BudgetOK'
  BY <1>3, TypeParts, AnswerTyped
<1> QED BY <1>1, <1>4, <1>5, <1>6, <1>7, TypePartsKept DEF PoolKept

-----------------------------------------------------------------------------
(* The reaper knows what drains *)

\* A candidate whose status said it drains does, while it runs; the one to be
\* looked at and killed drains, and the one to be killed has no lease.
ReaperSawDraining ==
    /\ OneEach(reaper.list) /\ OneOfEach(reaper.todo)
    /\ reaper.pc \in {"drain", "check", "kill"} => reaper.todo # {}
    /\ \A c \in reaper.todo : c.draining /\ c.handle \in alive => c.handle \in draining
    /\ reaper.pc \in {"check", "kill"} /\ ReapTarget.handle \in alive => ReapTarget.handle \in draining
    /\ reaper.pc = "kill" /\ ReapTarget.handle \in alive => holds[ReapTarget.handle] = {}

LEMMA CandidatesRemembered == \A c \in reaper.todo : c.handle \in Remembered
<1> TAKE c \in reaper.todo
<1> DEFINE H == {x.handle : x \in reaper.todo}
           rest == alive \cup {actors[r] : r \in Replicas} \cup {creating[r] : r \in Replicas}
                   \cup (UNION {{x[2] : x \in req[q].list} \cup req[q].eligible : q \in Requests})
                   \cup {x[2] : x \in reaper.list}
<1>1. c.handle \in H
  OBVIOUS
<1>2. Remembered = rest \cup H \cup {x[2] : x \in retire.list}
  BY DEF Remembered
<1> HIDE DEF H, rest
<1> QED BY <1>1, <1>2

LEMMA TargetIsCandidate ==
  ASSUME TypeOK, ReaperSawDraining, reaper.pc \in {"drain", "check", "kill"}
  PROVE  /\ ReapTarget \in reaper.todo /\ ReapTarget.replica \in Replicas
         /\ ReapTarget.handle \in Handles /\ ReapTarget.handle \in Remembered
<1>1. reaper.todo \in SUBSET Candidates /\ reaper.todo # {}
  BY TypeParts DEF ReaperOK, ReaperRecords, ReaperSawDraining
<1>2. ReapTarget \in reaper.todo
  BY <1>1, LastExists DEF ReapTarget, LastOf
<1>3. ReapTarget.handle \in Remembered
  BY <1>2, CandidatesRemembered
<1> QED BY <1>1, <1>2, <1>3 DEF Candidates

\* The steps of others leave what the reaper knows true.
LEMMA ReaperFollows ==
  ASSUME TypeOK, ReaperSawDraining, ActorsKept, reaper' = reaper
  PROVE  ReaperSawDraining'
<1>1. \A c \in reaper.todo : c.handle \in Handles /\ c.handle \in Remembered
  BY CandidatesRemembered, TypeParts DEF ReaperOK, ReaperRecords, Candidates
<1>2. \A c \in reaper.todo : c.draining /\ c.handle \in alive' => c.handle \in draining'
  BY <1>1 DEF ReaperSawDraining, ActorsKept
<1>3. ReapTarget' = ReapTarget
  BY DEF ReapTarget
<1>4. reaper.pc \in {"check", "kill"} /\ ReapTarget.handle \in alive' => ReapTarget.handle \in draining'
  BY TargetIsCandidate DEF ReaperSawDraining, ActorsKept
<1>5. reaper.pc = "kill" /\ ReapTarget.handle \in alive' => holds'[ReapTarget.handle] = {}
  BY TargetIsCandidate DEF ReaperSawDraining, ActorsKept
<1> HIDE DEF ReapTarget
<1> QED BY <1>2, <1>3, <1>4, <1>5 DEF ReaperSawDraining

LEMMA IdleReaperKnows == reaper' = IdleReaper => ReaperSawDraining' /\ ReaperOK'
<1>1. IdleReaper \in ReaperRecords
  BY EmptyList DEF IdleReaper, ReaperRecords
<1> QED BY <1>1, EmptyList DEF ReaperSawDraining, ReaperOK, IdleReaper, OneOfEach

\* A scan of candidates whose statuses still hold.
LEMMA ScanKeeps ==
  ASSUME NEW todo \in SUBSET Candidates, OneOfEach(todo), NEW current \in Int, NEW desired \in Int,
         \A c \in todo : c.draining /\ c.handle \in alive' => c.handle \in draining',
         reaper' = Scan(todo, current, desired)
  PROVE  ReaperSawDraining' /\ ReaperOK'
<1>1. /\ reaper' \in ReaperRecords /\ reaper'.list = {} /\ reaper'.todo \subseteq todo
      /\ reaper'.pc \in {"idle", "drain", "check"}
      /\ reaper'.pc # "idle" => reaper'.todo # {}
      /\ reaper'.pc = "check" => LastOf(reaper'.todo).draining
  BY ScanPicks
<1>2. ReapTarget' = LastOf(reaper'.todo)
  BY DEF ReapTarget, LastOf
<1>3. reaper'.todo # {} => LastOf(reaper'.todo) \in reaper'.todo
  BY <1>1, LastExists
<1>4. OneEach(reaper'.list) /\ OneOfEach(reaper'.todo)
  BY <1>1, EmptyList DEF OneOfEach
<1> HIDE DEF ReapTarget, LastOf
<1>5. ReaperSawDraining'
  BY <1>1, <1>2, <1>3, <1>4 DEF ReaperSawDraining
<1> QED BY <1>1, <1>5 DEF ReaperOK

\* What remains of a pass once its target is dealt with.
LEMMA RestKeeps ==
  ASSUME TypeOK, ReaperSawDraining, ActorsKept, NEW current \in Int, reaper' = ReapRest(current)
  PROVE  ReaperSawDraining' /\ ReaperOK'
<1> DEFINE rest == reaper.todo \ {ReapTarget}
<1>1. rest \in SUBSET Candidates /\ reaper.desired \in Int
  BY TypeParts DEF ReaperOK, ReaperRecords
<1>2. OneOfEach(rest)
  BY DEF ReaperSawDraining, OneOfEach
<1>3. \A c \in rest : c.draining /\ c.handle \in alive' => c.handle \in draining'
  <2>1. \A c \in rest : c.handle \in Remembered /\ c.handle \in Handles
    BY <1>1, CandidatesRemembered DEF Candidates
  <2> QED BY <2>1 DEF ReaperSawDraining, ActorsKept
<1>4. reaper' = Scan(rest, current, reaper.desired)
  BY DEF ReapRest
<1> HIDE DEF rest
<1> QED BY <1>1, <1>2, <1>3, <1>4, ScanKeeps

LEMMA ReapStartKeeps ==
  ASSUME TypeOK, Tables, ReaperSawDraining, ReapStart
  PROVE  PoolKept /\ ReaperSawDraining'
<1>1. ClusterOK' /\ ActorsKept
  BY TypeParts, ClusterSame DEF ReapStart
<1>2. Discovered \in [Replicas -> HandleOrNone]
  BY TypeParts, DiscoveredType
<1>3. ManagerOK'
  BY <1>2, TypeParts DEF ReapStart, ManagerOK
<1>4. Listed(Discovered) \in Lists /\ OneEach(Listed(Discovered))
  BY <1>2, ListedIsList
<1>5. reaper' = [IdleReaper EXCEPT !.pc = "status", !.list = Listed(Discovered)]
  BY DEF ReapStart
<1>6. ReaperOK'
  <2> DEFINE list == Listed(Discovered)
  <2> HIDE DEF list
  <2>1. ASSUME list \in Lists
        PROVE  [IdleReaper EXCEPT !.pc = "status", !.list = list] \in ReaperRecords
    <3>1. IdleReaper \in ReaperRecords
      BY EmptyList DEF ReaperRecords, IdleReaper
    <3> QED BY <2>1, <3>1 DEF ReaperRecords
  <2> USE DEF list
  <2> QED BY <2>1, <1>4, <1>5 DEF ReaperOK
<1>7. ReaperSawDraining'
  BY <1>4, <1>5 DEF ReaperSawDraining, IdleReaper, OneOfEach
<1>8. RequestsOK' /\ RetireOK' /\ BudgetOK'
  BY ReaperRetireSame DEF ReapStart
<1>9. Tables'
  BY TypeParts, TablesAdopt DEF ReapStart, cluster
<1> QED BY <1>1, <1>3, <1>6, <1>7, <1>8, <1>9, TypePartsKept DEF PoolKept

LEMMA ReapStatusKeeps ==
  ASSUME TypeOK, Tables, ReaperSawDraining, ReapStatus
  PROVE  PoolKept /\ ReaperSawDraining'
<1>1. PICK seen \in SUBSET Live(reaper.list) :
        /\ Answer(reaper.list, seen)
        /\ actors' = WithoutSilent(reaper.list, seen)
        /\ \E desired \in DesiredCounts(seen, 0) :
              reaper' = Scan({Candidate(x) : x \in seen}, Cardinality(Listed(actors')), desired)
  BY DEF ReapStatus
<1> DEFINE todo == {Candidate(x) : x \in seen}
           current == Cardinality(Listed(actors'))
<1>2. /\ UNCHANGED <<cluster, creating, registered, recent, req, retire>>
      /\ actors' = WithoutSilent(reaper.list, seen)
  BY <1>1 DEF ReapStatus
<1>3. reaper.list \in Lists /\ OneEach(reaper.list)
  BY TypeParts DEF ReaperOK, ReaperRecords, ReaperSawDraining
<1>4. seen \in Lists /\ OneEach(seen)
  BY <1>1, <1>3, SeenIsList
<1>5. actors' \in [Replicas -> HandleOrNone]
  BY <1>2, TypeParts, WithoutSilentType
<1>6. PICK desired \in DesiredCounts(seen, 0) : reaper' = Scan(todo, current, desired)
  BY <1>1
<1>7. current \in Int /\ desired \in Int
  <2>1. desired \in Int
    BY <1>4, <1>6, TypeParts, DesiredIsInt
  <2>2. current \in Int
    BY <1>5, ListedIsList, FS_CardinalityType DEF Lists
  <2> QED BY <2>1, <2>2
<1>8. \A x \in seen : /\ Candidate(x) \in Candidates
                      /\ Candidate(x).replica = x[1] /\ Candidate(x).handle = x[2]
                      /\ Candidate(x).draining <=> x[2] \in draining
  <2> TAKE x \in seen
  <2>1. x[1] \in Replicas /\ x[2] \in Handles
    BY <1>4 DEF Lists
  <2>2. idle[x[2]] \in 0..2
    BY <2>1, TypeParts DEF ClusterOK
  <2> DEFINE drains == x[2] \in draining
             unused == holds[x[2]] = {}
  <2>3. drains \in BOOLEAN /\ unused \in BOOLEAN
    OBVIOUS
  <2>4. Candidate(x) = [replica |-> x[1], handle |-> x[2], draining |-> drains,
                        empty |-> unused, idle |-> idle[x[2]]]
    BY DEF Candidate
  <2> HIDE DEF unused
  <2> HIDE DEF drains
  <2>5. Candidate(x).draining = drains
    BY <2>4
  <2>6. Candidate(x) \in Candidates
    BY <2>1, <2>2, <2>3, <2>4 DEF Candidates
  <2>7. Candidate(x).replica = x[1] /\ Candidate(x).handle = x[2]
    BY <2>4
  <2> USE DEF drains
  <2> QED BY <2>5, <2>6, <2>7
<1>9. \A c \in todo : \E x \in seen : c = Candidate(x)
  OBVIOUS
<1> HIDE DEF todo
<1>10. todo \in SUBSET Candidates /\ OneOfEach(todo)
  <2>1. \A c \in todo : c \in Candidates
    BY <1>8, <1>9
  <2>2. ASSUME NEW c \in todo, NEW d \in todo, c.replica = d.replica PROVE c = d
    <3>1. PICK x \in seen : c = Candidate(x)
      BY <1>9
    <3>2. PICK y \in seen : d = Candidate(y)
      BY <1>9
    <3>3. x[1] = y[1]
      BY <1>8, <2>2, <3>1, <3>2
    <3> QED BY <1>4, <3>1, <3>2, <3>3 DEF OneEach
  <2> QED BY <2>1, <2>2 DEF OneOfEach
<1>11. \A c \in todo : c.draining /\ c.handle \in alive' => c.handle \in draining'
  <2>1. ASSUME NEW c \in todo, c.draining PROVE c.handle \in draining
    <3>1. PICK x \in seen : c = Candidate(x)
      BY <1>9
    <3> QED BY <1>8, <2>1, <3>1
  <2> QED BY <1>2, <2>1 DEF cluster
<1>12. ReaperSawDraining' /\ ReaperOK'
  <2> HIDE DEF current
  <2> QED BY <1>6, <1>7, <1>10, <1>11, ScanKeeps
<1>13. ClusterOK' /\ ManagerOK' /\ Tables' /\ ActorsKept
  <2>1. \A r \in Replicas : actors'[r] \in {actors[r], NoActor}
    BY <1>2, WithoutSilentForgets
  <2>2. creating' \in Tasks
    BY <1>2, TypeParts DEF ManagerOK
  <2> QED BY <2>1, <2>2, <1>2, <1>5, ForgetKeeps
<1>14. RequestsOK' /\ RetireOK'
  BY <1>2, ReaperRetireSame
<1>15. BudgetOK'
  BY <1>1, TypeParts, AnswerTyped
<1> QED BY <1>12, <1>13, <1>14, <1>15, TypePartsKept DEF PoolKept

LEMMA ReapDrainKeeps ==
  ASSUME TypeOK, Tables, ReaperSawDraining, ReapDrain
  PROVE  PoolKept /\ ReaperSawDraining'
<1>1. /\ reaper.pc = "drain"
      /\ UNCHANGED <<alive, name, holds, idle, manager, req, retire>>
      /\ UNCHANGED budget \/ CallFails(ReapTarget.handle)
      /\ \/ ReapTarget.handle \in alive /\ draining' = draining \cup {ReapTarget.handle}
            /\ reaper' = [reaper EXCEPT !.pc = "check"]
         \/ /\ reaper' = IdleReaper
            /\ draining' \in {draining, draining \cup ({ReapTarget.handle} \cap alive)}
  BY DEF ReapDrain
<1>2. ClusterOK' /\ ActorsKept
  BY <1>1, TypeParts DEF ClusterOK, ActorsKept
<1>3. ManagerOK' /\ RequestsOK' /\ RetireOK' /\ BudgetOK'
  BY <1>1, TypeParts, CallFailsTyped, ReaperRetireSame
<1>4. Tables'
  BY <1>1, TablesSame DEF manager
<1>5. ReaperSawDraining' /\ ReaperOK'
  <2>1. CASE reaper' = IdleReaper
    BY <2>1, IdleReaperKnows
  <2>2. CASE /\ draining' = draining \cup {ReapTarget.handle}
             /\ reaper' = [reaper EXCEPT !.pc = "check"]
    <3>1. reaper \in ReaperRecords
      BY TypeParts DEF ReaperOK
    <3>2. /\ reaper'.pc = "check" /\ reaper'.list = reaper.list /\ reaper'.todo = reaper.todo
          /\ reaper' \in ReaperRecords
      BY <3>1, <2>2 DEF ReaperRecords
    <3>3. ReapTarget' = ReapTarget
      BY <3>2 DEF ReapTarget
    <3> HIDE DEF ReapTarget
    <3> QED BY <1>1, <2>2, <3>2, <3>3 DEF ReaperSawDraining, ReaperOK
  <2> QED BY <1>1, <2>1, <2>2
<1> QED BY <1>2, <1>3, <1>4, <1>5, TypePartsKept DEF PoolKept

LEMMA ReapCheckKeeps ==
  ASSUME TypeOK, Tables, ReaperSawDraining, ReapCheck
  PROVE  PoolKept /\ ReaperSawDraining'
<1>1. /\ reaper.pc = "check"
      /\ UNCHANGED <<cluster, manager, req, retire>>
      /\ UNCHANGED budget \/ CallFails(ReapTarget.handle)
      /\ \/ reaper' = IdleReaper
         \/ reaper' = ReapRest(reaper.current)
         \/ holds[ReapTarget.handle] = {} /\ reaper' = [reaper EXCEPT !.pc = "kill"]
  BY DEF ReapCheck
<1>2. ClusterOK' /\ ActorsKept
  BY <1>1, TypeParts, ClusterSame
<1>3. ManagerOK' /\ RequestsOK' /\ RetireOK' /\ BudgetOK'
  BY <1>1, TypeParts, CallFailsTyped, ReaperRetireSame
<1>4. Tables'
  BY <1>1, TablesSame DEF manager, cluster
<1>5. reaper \in ReaperRecords
  BY TypeParts DEF ReaperOK
<1>6. ReaperSawDraining' /\ ReaperOK'
  <2>1. CASE reaper' = IdleReaper
    BY <2>1, IdleReaperKnows
  <2>2. CASE reaper' = ReapRest(reaper.current)
    <3>1. reaper.current \in Int
      BY <1>5 DEF ReaperRecords
    <3> QED BY <3>1, <2>2, <1>2, RestKeeps
  <2>3. CASE holds[ReapTarget.handle] = {} /\ reaper' = [reaper EXCEPT !.pc = "kill"]
    <3>2. /\ reaper'.pc = "kill" /\ reaper'.list = reaper.list /\ reaper'.todo = reaper.todo
          /\ reaper' \in ReaperRecords
      BY <1>5, <2>3 DEF ReaperRecords
    <3>3. ReapTarget' = ReapTarget
      BY <3>2 DEF ReapTarget
    <3> HIDE DEF ReapTarget
    <3> QED BY <1>1, <2>3, <3>2, <3>3 DEF ReaperSawDraining, ReaperOK, cluster
  <2> QED BY <1>1, <2>1, <2>2, <2>3
<1> QED BY <1>2, <1>3, <1>4, <1>6, TypePartsKept DEF PoolKept

LEMMA ReapKillKeeps ==
  ASSUME TypeOK, Tables, ReaperSawDraining, ReapKill
  PROVE  PoolKept /\ ReaperSawDraining'
<1>1. /\ Kill({ReapTarget.handle}) /\ reaper.pc = "kill"
      /\ actors' = [actors EXCEPT ![ReapTarget.replica] = NoActor]
      /\ reaper' = ReapRest(reaper.current - 1)
      /\ UNCHANGED <<creating, registered, recent, req, retire, budget>>
  BY DEF ReapKill
<1>2. ClusterOK'
  BY <1>1, TypeParts, KillTyped
<1>3. /\ ActorsKept /\ alive' \subseteq alive
      /\ \A r \in Replicas : name'[r] = IF name[r] \in alive' THEN name[r] ELSE NoActor
  BY <1>1, TypeParts, KillKeeps
<1>4. actors \in [Replicas -> HandleOrNone]
  BY TypeParts DEF ManagerOK
<1>5. ManagerOK'
  BY <1>1, <1>4, TypeParts DEF ManagerOK, HandleOrNone
<1>6. RequestsOK' /\ RetireOK' /\ BudgetOK'
  BY <1>1, ReaperRetireSame
<1>7. reaper.current - 1 \in Int
  BY TypeParts DEF ReaperOK, ReaperRecords
<1>8. ReaperSawDraining' /\ ReaperOK'
  BY <1>1, <1>3, <1>7, RestKeeps
<1>9. Tables'
  <2>1. \A r \in Replicas : actors'[r] \in {actors[r], NoActor}
    BY <1>1, <1>4
  <2>2. \A r \in Replicas : actors'[r] # NoActor => creating'[r] = None
    BY <2>1, <1>1 DEF Tables, KnownIsNamed
  <2> QED BY <2>1, <2>2, <1>1, <1>3, <1>5, TypeParts, TablesShrink
<1> QED BY <1>2, <1>3, <1>5, <1>6, <1>8, <1>9, TypePartsKept DEF PoolKept

-----------------------------------------------------------------------------
(* The retirement knows what drains, and what is left when nobody interferes *)

\* When every drain_actor call works, the actors to retire drain once the calls
\* returned, and have no lease once they are to be killed.
RetireeIsDrained ==
    ~DrainCanFail => \A x \in retire.list : x[2] \in alive =>
        /\ retire.pc \in {"status", "kill"} => x[2] \in draining
        /\ retire.pc = "kill" => holds[x[2]] = {}

Retiring == retire.pc \in {"discover", "drain", "status", "kill"}
Forgotten == retire.pc = "retired" /\ ~registered

\* While no request was in reserve since the retirement began: nothing is on
\* its way until the profile is registered again, and every actor is on the list
\* of those to retire, or hidden.
RetirementIsQuiet ==
    ~retire.crossed =>
        /\ Retiring \/ Forgotten => InReserve = {} /\ Running(creating) = {}
        /\ retire.pc \in {"drain", "status", "kill"} =>
              \A h \in alive : Hidden(h) \/ \E x \in retire.list : x[2] = h
        /\ Forgotten => \A h \in alive : Hidden(h)

RetireKept == RetireeIsDrained' /\ RetirementIsQuiet'

LEMMA RetireesRemembered ==
  ASSUME TypeOK
  PROVE  \A x \in retire.list : x[2] \in Remembered /\ x[2] \in Handles
<1> TAKE x \in retire.list
<1> DEFINE H == {y[2] : y \in retire.list}
           rest == alive \cup {actors[r] : r \in Replicas} \cup {creating[r] : r \in Replicas}
                   \cup (UNION {{y[2] : y \in req[q].list} \cup req[q].eligible : q \in Requests})
                   \cup {y[2] : y \in reaper.list} \cup {y.handle : y \in reaper.todo}
<1>1. x[2] \in H
  OBVIOUS
<1>2. Remembered = rest \cup H
  BY DEF Remembered
<1>3. x[2] \in Handles
  BY TypeParts DEF RetireOK, RetireRecords, Lists
<1> HIDE DEF H, rest
<1> QED BY <1>1, <1>2, <1>3

\* The steps of others leave what the retirement knows true.
LEMMA RetireeFollows ==
  ASSUME TypeOK, RetireeIsDrained, ActorsKept, retire' = retire
  PROVE  RetireeIsDrained'
BY RetireesRemembered DEF RetireeIsDrained, ActorsKept

\* Steps that bring nothing on its way.
LEMMA QuietFollows ==
  ASSUME RetirementIsQuiet, retire' = retire, alive' \subseteq alive,
         registered' = registered \/ registered' = TRUE,
         InReserve = {} => InReserve' = {},
         Running(creating) = {} => Running(creating') = {},
         \A h \in alive' : Hidden(h) => Hidden(h)'
  PROVE  RetirementIsQuiet'
<1>1. Retiring' <=> Retiring
  BY DEF Retiring
<1>2. Forgotten' => Forgotten
  BY DEF Forgotten
<1> QED BY <1>1, <1>2 DEF RetirementIsQuiet

\* Steps of what is on its way already.
LEMMA QuietBusy ==
  ASSUME RetirementIsQuiet, retire' = retire, registered' = registered,
         InReserve # {} \/ Running(creating) # {}
  PROVE  RetirementIsQuiet'
<1>1. ~retire.crossed => ~Retiring /\ ~Forgotten
  BY DEF RetirementIsQuiet
<1>2. (Retiring' <=> Retiring) /\ (Forgotten' <=> Forgotten)
  BY DEF Retiring, Forgotten
<1>3. ~retire'.crossed => ~Retiring' /\ ~Forgotten'
  BY <1>1, <1>2
<1>4. Retiring' <=> retire'.pc \in {"discover", "drain", "status", "kill"}
  BY DEF Retiring
<1> QED BY <1>3, <1>4 DEF RetirementIsQuiet

LEMMA HiddenSame ==
  ASSUME UNCHANGED <<name, creating>>, NEW h
  PROVE  Hidden(h)' <=> Hidden(h)
BY DEF Hidden

LEMMA InReserveSame ==
  ASSUME req' = req
  PROVE  InReserve' = InReserve
BY DEF InReserve

\* Killed actors lose their name, the others keep it.
LEMMA KillHides ==
  ASSUME NEW H, Kill(H), creating' = creating, NEW h \in alive', Hidden(h)
  PROVE  Hidden(h)'
<1>1. h \notin H /\ \A r \in Replicas : name'[r] = IF name[r] \in H THEN NoActor ELSE name[r]
  BY DEF Kill
<1> QED BY <1>1 DEF Hidden

-----------------------------------------------------------------------------
(* The steps of the retirement *)

LEMMA IdleRetireKnows == retire' = IdleRetire => RetireKept /\ RetireOK'
<1>1. IdleRetire \in RetireRecords
  BY EmptyList DEF IdleRetire, RetireRecords
<1> QED BY <1>1 DEF RetireKept, RetireeIsDrained, RetirementIsQuiet, RetireOK, IdleRetire,
                    Retiring, Forgotten

\* Every actor is on the snapshot's list, or hidden, when no task runs.
LEMMA SnapshotKeeps ==
  ASSUME TypeOK, Tables, NEW crossed \in BOOLEAN, TakeSnapshot(crossed),
         UNCHANGED <<cluster, creating>>,
         ~crossed => InReserve' = {} /\ Running(creating) = {}
  PROVE  /\ ClusterOK' /\ ManagerOK' /\ RetireOK' /\ Tables' /\ ActorsKept
         /\ RetireKept
<1> DEFINE list == Listed(Discovered)
<1>1. /\ actors' = Discovered
      /\ registered' = (registered /\ list # {})
      /\ recent' = (recent /\ list # {})
      /\ retire' = [pc |-> IF list = {} THEN "retired" ELSE "drain", list |-> list, crossed |-> crossed]
  BY DEF TakeSnapshot
<1>2. Discovered \in [Replicas -> HandleOrNone]
  BY TypeParts, DiscoveredType
<1>3. /\ list \in Lists
      /\ \A r \in Replicas : Discovered[r] # NoActor => <<r, Discovered[r]>> \in list
  BY <1>2, ListedIsList
<1>4. \A r \in Replicas : Discovered[r] = IF actors[r] = NoActor /\ creating[r] = None
                                          THEN name[r] ELSE actors[r]
  BY DEF Discovered
<1> HIDE DEF list
<1>5. ClusterOK' /\ ActorsKept
  BY TypeParts, ClusterSame
<1>6. ManagerOK'
  BY <1>1, <1>2, TypeParts DEF ManagerOK
<1>7. Tables'
  BY <1>1, TypeParts, TablesAdopt DEF cluster
<1>8. RetireOK'
  BY <1>1, <1>3 DEF RetireOK, RetireRecords
<1>9. RetireeIsDrained'
  BY <1>1 DEF RetireeIsDrained
<1>10. ASSUME ~crossed, NEW h \in alive
       PROVE  Hidden(h)' \/ \E x \in list : x[2] = h
  <2>1. PICK r \in Replicas : name[r] = h
    BY DEF Tables, NamesAreAlive
  <2>2. creating[r] \in {None, Defunct}
    BY <1>10 DEF Running
  <2>3. CASE creating[r] = Defunct
    <3>1. name'[r] = h /\ creating'[r] = Defunct
      BY <2>1, <2>3 DEF cluster
    <3> QED BY <3>1 DEF Hidden
  <2>4. CASE creating[r] = None
    <3>1. h # NoActor
      BY PoolAssumption, TypeParts DEF ClusterOK
    <3>2. Discovered[r] = h
      BY <3>1, <2>1, <2>4, <1>4 DEF Tables, KnownIsNamed
    <3>3. <<r, h>> \in list
      BY <3>1, <3>2, <1>3
    <3> QED BY <3>3
  <2> QED BY <2>2, <2>3, <2>4
<1>11. RetirementIsQuiet'
  <2>1. SUFFICES ASSUME ~crossed PROVE RetirementIsQuiet'
    BY <1>1 DEF RetirementIsQuiet
  <2>2. \A h \in alive' : Hidden(h)' \/ \E x \in retire'.list : x[2] = h
    BY <1>1, <1>10, <2>1 DEF cluster
  <2>3. InReserve' = {} /\ Running(creating') = {}
    BY <2>1
  <2>4. Forgotten' => list = {}
    BY <1>1 DEF Forgotten
  <2>5. Forgotten' => \A h \in alive' : Hidden(h)'
    BY <1>1, <2>2, <2>4
  <2> QED BY <2>2, <2>3, <2>5 DEF RetirementIsQuiet
<1> QED BY <1>5, <1>6, <1>7, <1>8, <1>9, <1>11 DEF RetireKept

LEMMA RetireStartKeeps ==
  ASSUME TypeOK, Tables, RetireStart
  PROVE  PoolKept /\ RetireKept
<1>1. /\ budget' = [budget EXCEPT !.retirements = @ - 1] /\ budget.retirements > 0
      /\ creating' = [r \in Replicas |-> IF creating[r] \in {Scheduled, Defunct}
                                         THEN Defunct ELSE None]
      /\ req' = Woken(Running(creating), FALSE)
      /\ UNCHANGED <<cluster, reaper>>
  BY DEF RetireStart
<1>2. BudgetOK'
  BY <1>1, TypeParts DEF BudgetOK, BudgetRecords
<1>3. RequestsOK' /\ InReserve' = InReserve
  <2>1. /\ req' \in [Requests -> RequestRecords]
        /\ \A q \in Requests : req'[q].pc \in {"idle", "leased"} <=> req[q].pc \in {"idle", "leased"}
    BY <1>1, TypeParts, WokenTyped
  <2> QED BY <2>1 DEF RequestsOK, InReserve
<1>4. ReaperOK'
  BY <1>1, ReaperRetireSame
<1>5. creating' \in Tasks /\ \A r \in Replicas : creating'[r] \in {None, Defunct}
  BY <1>1 DEF Tasks
<1>6. Running(creating') = {}
  BY <1>5 DEF Running
<1>7. CASE (\A r \in Replicas : creating[r] = None) /\ TakeSnapshot(InReserve # {})
  <2>1. creating' = creating
    <3>1. creating = [r \in Replicas |-> creating[r]]
      BY TypeParts DEF ManagerOK, Tasks
    <3>2. \A r \in Replicas : creating'[r] = creating[r]
      BY <1>1, <1>7 DEF None, Scheduled, Defunct
    <3>3. creating' = [r \in Replicas |-> creating'[r]]
      BY <1>1
    <3> QED BY <3>1, <3>2, <3>3
  <2> DEFINE crossed == InReserve # {}
  <2>2. crossed \in BOOLEAN /\ TakeSnapshot(crossed) /\ (~crossed => InReserve' = {})
    BY <1>3, <1>7
  <2>3. Running(creating) = {}
    BY <2>1, <1>6
  <2> HIDE DEF crossed
  <2>4. /\ ClusterOK' /\ ManagerOK' /\ RetireOK' /\ Tables' /\ ActorsKept
        /\ RetireKept
    BY <2>1, <2>2, <2>3, <1>1, SnapshotKeeps
  <2> QED BY <2>4, <1>2, <1>3, <1>4, TypePartsKept DEF PoolKept
<1>8. CASE /\ retire' = [pc |-> "discover", list |-> {}, crossed |-> InReserve # {}]
           /\ UNCHANGED <<actors, registered, recent>>
  <2>1. ClusterOK' /\ ActorsKept
    BY <1>1, TypeParts, ClusterSame
  <2>2. ManagerOK'
    BY <1>5, <1>8, TypeParts DEF ManagerOK
  <2>3. Tables'
    <3>1. \A r \in Replicas : actors'[r] # NoActor => creating'[r] = None
      BY <1>1, <1>8 DEF Tables, KnownIsNamed, None, Scheduled, Defunct
    <3>2. \A r \in Replicas : creating'[r] \notin Handles
      BY <1>5, PoolAssumption
    <3> QED BY <3>1, <3>2, <1>1, <1>8, <2>2, TypeParts, TablesForget DEF cluster
  <2>4. RetireOK'
    BY <1>8, EmptyList DEF RetireOK, RetireRecords
  <2>5. RetireeIsDrained'
    BY <1>8 DEF RetireeIsDrained
  <2>6. RetirementIsQuiet'
    BY <1>3, <1>6, <1>8 DEF RetirementIsQuiet, Forgotten
  <2> QED BY <2>1, <2>2, <2>3, <2>4, <2>5, <2>6, <1>2, <1>3, <1>4, TypePartsKept
          DEF PoolKept, RetireKept
<1> QED BY <1>7, <1>8 DEF RetireStart

LEMMA RetireDiscoverKeeps ==
  ASSUME TypeOK, Tables, RetirementIsQuiet, RetireDiscover
  PROVE  PoolKept /\ RetireKept
<1>1. /\ retire.pc = "discover" /\ TakeSnapshot(retire.crossed)
      /\ UNCHANGED <<cluster, creating, req, reaper, budget>>
  BY DEF RetireDiscover
<1>2. ~retire.crossed => InReserve' = {} /\ Running(creating) = {}
  BY <1>1, InReserveSame DEF RetirementIsQuiet, Retiring
<1>3. retire.crossed \in BOOLEAN
  BY TypeParts DEF RetireOK, RetireRecords
<1>4. /\ ClusterOK' /\ ManagerOK' /\ RetireOK' /\ Tables' /\ ActorsKept
      /\ RetireKept
  BY <1>1, <1>2, <1>3, SnapshotKeeps
<1>5. RequestsOK' /\ ReaperOK' /\ BudgetOK'
  BY <1>1, ReaperRetireSame
<1> QED BY <1>4, <1>5, TypePartsKept DEF PoolKept

\* A step of the retirement that goes on with the same list.
LEMMA QuietGoesOn ==
  ASSUME RetirementIsQuiet, retire.pc \in {"drain", "status"}, retire'.pc \in {"status", "kill"},
         retire'.list = retire.list, retire'.crossed = retire.crossed,
         UNCHANGED <<alive, name, creating, registered, req>>
  PROVE  RetirementIsQuiet'
<1>1. InReserve' = InReserve /\ Running(creating') = Running(creating)
  BY InReserveSame
<1>2. \A h \in alive : Hidden(h)' <=> Hidden(h)
  BY HiddenSame
<1>3. ~Forgotten'
  BY DEF Forgotten
<1>4. Retiring
  BY DEF Retiring
<1> QED BY <1>1, <1>2, <1>3, <1>4 DEF RetirementIsQuiet

LEMMA RetireDrainKeeps ==
  ASSUME TypeOK, Tables, RetirementIsQuiet, RetireDrain
  PROVE  PoolKept /\ RetireKept
<1> DEFINE listed == {x[2] : x \in retire.list} \cap alive
<1>1. PICK drained \in SUBSET listed :
             /\ draining' = draining \cup drained
             /\ \/ /\ drained = listed \/ DrainCanFail
                   /\ retire' = [retire EXCEPT !.pc = "status"]
                \/ retire' = IdleRetire
  BY DEF RetireDrain
<1>2. retire.pc = "drain" /\ UNCHANGED <<alive, name, holds, idle, manager, req, reaper, budget>>
  BY DEF RetireDrain
<1>3. ClusterOK' /\ ActorsKept
  BY <1>1, <1>2, TypeParts DEF ClusterOK, ActorsKept
<1>4. ManagerOK' /\ RequestsOK' /\ ReaperOK' /\ BudgetOK'
  BY <1>2, ReaperRetireSame
<1>5. Tables'
  BY <1>2, TablesSame DEF manager
<1>6. RetireOK' /\ RetireKept
  <2>1. CASE retire' = IdleRetire
    BY <2>1, IdleRetireKnows
  <2>2. CASE /\ drained = listed \/ DrainCanFail
             /\ retire' = [retire EXCEPT !.pc = "status"]
    <3>1. /\ retire'.pc = "status" /\ retire'.list = retire.list /\ retire'.crossed = retire.crossed
          /\ RetireOK'
      BY <2>2, TypeParts DEF RetireOK, RetireRecords
    <3>2. ~DrainCanFail => \A x \in retire.list : x[2] \in alive => x[2] \in draining'
      BY <1>1, <2>2
    <3>3. RetireeIsDrained'
      BY <3>1, <3>2, <1>2 DEF RetireeIsDrained
    <3>4. RetirementIsQuiet'
      BY <3>1, <1>2, QuietGoesOn DEF manager
    <3> QED BY <3>1, <3>3, <3>4 DEF RetireKept
  <2> QED BY <1>1, <2>1, <2>2
<1> QED BY <1>3, <1>4, <1>5, <1>6, TypePartsKept DEF PoolKept

LEMMA RetireStatusKeeps ==
  ASSUME TypeOK, Tables, RetireeIsDrained, RetirementIsQuiet, RetireStatus
  PROVE  PoolKept /\ RetireKept
<1>1. /\ retire.pc = "status" /\ UNCHANGED <<cluster, manager, req, reaper, budget>>
      /\ \A x \in retire.list : x[2] \in alive => holds[x[2]] = {}
      /\ retire' = [retire EXCEPT !.pc = "kill"]
  BY DEF RetireStatus
<1>2. ClusterOK' /\ ActorsKept
  BY <1>1, TypeParts, ClusterSame
<1>3. ManagerOK' /\ RequestsOK' /\ ReaperOK' /\ BudgetOK'
  BY <1>1, ReaperRetireSame
<1>4. Tables'
  BY <1>1, TablesSame DEF manager, cluster
<1>5. /\ retire'.pc = "kill" /\ retire'.list = retire.list /\ retire'.crossed = retire.crossed
      /\ RetireOK'
  BY <1>1, TypeParts DEF RetireOK, RetireRecords
<1>6. RetireeIsDrained'
  BY <1>1, <1>5 DEF RetireeIsDrained, cluster
<1>7. RetirementIsQuiet'
  BY <1>1, <1>5, QuietGoesOn DEF manager, cluster
<1> QED BY <1>2, <1>3, <1>4, <1>5, <1>6, <1>7, TypePartsKept DEF PoolKept, RetireKept

LEMMA RetireGiveUpKeeps ==
  ASSUME TypeOK, Tables, RetireGiveUp
  PROVE  PoolKept /\ RetireKept
<1>1. retire' = IdleRetire /\ UNCHANGED <<cluster, manager, req, reaper, budget>>
  BY DEF RetireGiveUp
<1>2. ClusterOK' /\ ActorsKept
  BY <1>1, TypeParts, ClusterSame
<1>3. ManagerOK' /\ RequestsOK' /\ ReaperOK' /\ BudgetOK'
  BY <1>1, ReaperRetireSame
<1>4. Tables'
  BY <1>1, TablesSame DEF manager, cluster
<1>5. RetireOK' /\ RetireKept
  BY <1>1, IdleRetireKnows
<1> QED BY <1>2, <1>3, <1>4, <1>5, TypePartsKept DEF PoolKept

LEMMA RetireKillKeeps ==
  ASSUME TypeOK, Tables, RetirementIsQuiet, RetireKill
  PROVE  PoolKept /\ RetireKept
<1> DEFINE H == {x[2] : x \in retire.list}
<1>1. /\ retire.pc = "kill" /\ Kill(H)
      /\ actors' = [r \in Replicas |-> IF \E x \in retire.list : x[1] = r
                                       THEN NoActor ELSE actors[r]]
      /\ registered' = FALSE /\ recent' = FALSE
      /\ retire' = [retire EXCEPT !.pc = "retired", !.list = {}]
      /\ UNCHANGED <<creating, req, reaper, budget>>
  BY DEF RetireKill
<1>2. ClusterOK'
  BY <1>1, TypeParts, KillTyped
<1>3. /\ ActorsKept /\ alive' \subseteq alive
      /\ \A r \in Replicas : name'[r] = IF name[r] \in alive' THEN name[r] ELSE NoActor
  BY <1>1, TypeParts, KillKeeps
<1>4. actors' \in [Replicas -> HandleOrNone] /\ \A r \in Replicas : actors'[r] \in {actors[r], NoActor}
  BY <1>1, TypeParts DEF ManagerOK, HandleOrNone
<1>5. ManagerOK'
  BY <1>1, <1>4, TypeParts DEF ManagerOK
<1>6. RequestsOK' /\ ReaperOK' /\ BudgetOK'
  BY <1>1, ReaperRetireSame
<1>7. Tables'
  <2>1. \A r \in Replicas : actors'[r] # NoActor => creating'[r] = None
    BY <1>1, <1>4 DEF Tables, KnownIsNamed
  <2> QED BY <2>1, <1>1, <1>3, <1>4, <1>5, TypeParts, TablesShrink
<1>8. /\ retire'.pc = "retired" /\ retire'.list = {} /\ retire'.crossed = retire.crossed
      /\ RetireOK'
  BY <1>1, TypeParts, EmptyList DEF RetireOK, RetireRecords
<1>9. RetireeIsDrained'
  BY <1>8 DEF RetireeIsDrained
<1>10. RetirementIsQuiet'
  <2>1. SUFFICES ASSUME ~retire.crossed PROVE RetirementIsQuiet'
    BY <1>8 DEF RetirementIsQuiet
  <2>2. InReserve' = {} /\ Running(creating') = {}
    BY <1>1, <2>1, InReserveSame DEF RetirementIsQuiet, Retiring
  <2>3. \A h \in alive' : Hidden(h)'
    <3> TAKE h \in alive'
    <3>1. h \in alive /\ h \notin H
      BY <1>1 DEF Kill
    <3>2. Hidden(h)
      BY <3>1, <2>1, <1>1 DEF RetirementIsQuiet
    <3> QED BY <3>2, <1>1, KillHides
  <2> QED BY <2>2, <2>3, <1>8 DEF RetirementIsQuiet
<1> QED BY <1>2, <1>3, <1>5, <1>6, <1>7, <1>8, <1>9, <1>10, TypePartsKept DEF PoolKept, RetireKept

-----------------------------------------------------------------------------
(* What the steps of others leave of a retirement *)

LEMMA ArriveQuiet ==
  ASSUME TypeOK, NEW q \in Requests, Arrive(q)
  PROVE  /\ RetirementIsQuiet'
         /\ retire'.pc = retire.pc /\ retire'.list = retire.list
<1>1. /\ retire' = [retire EXCEPT !.crossed = @ \/ Retiring]
      /\ registered' = TRUE
  BY DEF Arrive, Retiring
<1>2. retire \in RetireRecords
  BY TypeParts DEF RetireOK
<1>3. /\ retire'.pc = retire.pc /\ retire'.list = retire.list
      /\ retire'.crossed <=> retire.crossed \/ Retiring
  BY <1>1, <1>2 DEF RetireRecords
<1>4. ~Forgotten'
  BY <1>1 DEF Forgotten
<1>5. Retiring' <=> Retiring
  BY <1>3 DEF Retiring
<1>6. Retiring' <=> retire'.pc \in {"discover", "drain", "status", "kill"}
  BY DEF Retiring
<1>7. ~retire'.crossed => ~Retiring'
  BY <1>3, <1>5
<1>8. RetirementIsQuiet'
  BY <1>4, <1>6, <1>7 DEF RetirementIsQuiet
<1> QED BY <1>3, <1>8

LEMMA RequestQuiet ==
  ASSUME TypeOK, RetirementIsQuiet, NEW q \in Requests,
         \/ PreparePool(q) \/ ReadStatuses(q) \/ NoCandidate(q) \/ Poll(q) \/ Overload(q)
         \/ \E h \in Handles : TryCandidate(q, h)
  PROVE  RetirementIsQuiet'
<1>1. q \in InReserve
  <2>1. req[q].pc \in {"snapshot", "status", "try", "poll"}
    BY DEF PreparePool, ReadStatuses, NoCandidate, Poll, Overload, TryCandidate, At
  <2> QED BY <2>1 DEF InReserve
<1>2. retire' = retire /\ registered' = registered
  BY DEF PreparePool, ReadStatuses, NoCandidate, Poll, Overload, TryCandidate, manager
<1> QED BY <1>1, <1>2, QuietBusy

LEMMA FinishQuiet ==
  ASSUME TypeOK, RetirementIsQuiet, NEW q \in Requests, Finish(q)
  PROVE  RetirementIsQuiet'
<1>1. UNCHANGED <<alive, name, draining, idle, manager, reaper, retire, budget>>
  BY DEF Finish
<1>2. InReserve = {} => InReserve' = {}
  <2>1. req' = [req EXCEPT ![q] = IdleRequest] /\ IdleRequest.pc = "idle"
    BY DEF Finish, SetReq, IdleRequest
  <2>2. req \in [Requests -> RequestRecords]
    BY TypeParts DEF RequestsOK
  <2>3. \A p \in Requests : req'[p] = IF p = q THEN IdleRequest ELSE req[p]
    BY <2>1, <2>2
  <2> QED BY <2>1, <2>3 DEF InReserve
<1>3. \A h \in alive' : Hidden(h) => Hidden(h)'
  BY <1>1, HiddenSame DEF manager
<1> QED BY <1>1, <1>2, <1>3, QuietFollows DEF manager

LEMMA CreationQuiet ==
  ASSUME TypeOK, RetirementIsQuiet, NEW r \in Replicas, StartCreation(r) \/ FinishCreation(r)
  PROVE  RetirementIsQuiet'
<1>1. creating[r] = Scheduled \/ creating[r] \in Handles
  BY DEF StartCreation, FinishCreation
<1>2. creating[r] \notin {None, Defunct}
  BY <1>1, PoolAssumption DEF None, Scheduled, Defunct
<1>3. r \in Running(creating)
  BY <1>2 DEF Running
<1>4. retire' = retire /\ registered' = registered
  BY DEF StartCreation, FinishCreation
<1> QED BY <1>3, <1>4, QuietBusy

\* Steps that change neither names, tasks nor requests.
LEMMA OthersQuiet ==
  ASSUME RetirementIsQuiet, UNCHANGED <<alive, name, creating, req, retire>>,
         registered' = registered \/ registered' = TRUE
  PROVE  RetirementIsQuiet'
<1>1. \A h \in alive' : Hidden(h) => Hidden(h)'
  BY HiddenSame
<1> QED BY <1>1, InReserveSame, QuietFollows

LEMMA KillQuiet ==
  ASSUME RetirementIsQuiet, NEW H, Kill(H), UNCHANGED <<creating, registered, req, retire>>
  PROVE  RetirementIsQuiet'
<1>1. alive' \subseteq alive
  BY DEF Kill
<1>2. \A h \in alive' : Hidden(h) => Hidden(h)'
  BY KillHides
<1> QED BY <1>1, <1>2, InReserveSame, QuietFollows

LEMMA ReapQuiet ==
  ASSUME RetirementIsQuiet, Reap
  PROVE  RetirementIsQuiet'
<1>1. CASE ReapStart
  BY <1>1, OthersQuiet DEF ReapStart, cluster
<1>2. CASE ReapStatus
  BY <1>2, OthersQuiet DEF ReapStatus, cluster
<1>3. CASE ReapDrain
  BY <1>3, OthersQuiet DEF ReapDrain, manager
<1>4. CASE ReapCheck
  BY <1>4, OthersQuiet DEF ReapCheck, cluster, manager
<1>5. CASE ReapKill
  BY <1>5, KillQuiet DEF ReapKill
<1> QED BY <1>1, <1>2, <1>3, <1>4, <1>5 DEF Reap

-----------------------------------------------------------------------------
(* The invariant *)

IInv == TypeOK /\ Tables /\ ReaperSawDraining /\ RetireeIsDrained /\ RetirementIsQuiet

\* The profile starts unknown, with no actor.
LEMMA InitKeeps == Init => IInv
<1> SUFFICES ASSUME Init PROVE IInv
  OBVIOUS
<1>1. ClusterOK /\ ManagerOK
  <2>1. name \in [Replicas -> HandleOrNone] /\ actors \in [Replicas -> HandleOrNone]
    BY DEF Init, HandleOrNone
  <2>2. holds \in [Handles -> SUBSET Requests] /\ idle \in [Handles -> 0..2]
    BY DEF Init
  <2>3. creating \in Tasks /\ registered \in BOOLEAN /\ recent \in BOOLEAN
    BY DEF Init, Tasks
  <2>4. alive \subseteq Handles /\ draining \subseteq alive
    BY DEF Init
  <2> QED BY <2>1, <2>2, <2>3, <2>4 DEF ClusterOK, ManagerOK
<1>2. RequestsOK
  BY IdleRequestTyped DEF Init, RequestsOK
<1>3. ReaperOK /\ RetireOK
  BY EmptyList DEF Init, ReaperOK, RetireOK, IdleReaper, IdleRetire, ReaperRecords, RetireRecords
<1>4. BudgetOK
  BY PoolAssumption DEF Init, BudgetOK, BudgetRecords
<1>5. Tables
  BY PoolAssumption DEF Init, Tables, NamesAreAlive, KnownIsNamed
<1>6. ReaperSawDraining
  BY EmptyList DEF Init, ReaperSawDraining, IdleReaper, OneOfEach
<1>7. RetireeIsDrained /\ RetirementIsQuiet
  BY DEF Init, RetireeIsDrained, RetirementIsQuiet, IdleRetire, Retiring, Forgotten
<1> QED BY <1>1, <1>2, <1>3, <1>4, <1>5, <1>6, <1>7, TypeParts DEF IInv

\* What follows for the reaper and the retirement from a step of neither.
LEMMA FollowKeeps ==
  ASSUME IInv, PoolKept, RetirementIsQuiet', reaper' = reaper, retire' = retire
  PROVE  IInv'
BY ReaperFollows, RetireeFollows DEF IInv, PoolKept

LEMMA RequestKeeps ==
  ASSUME IInv, NEW q \in Requests, Arrive(q) \/ RequestStep(q) \/ Overload(q)
  PROVE  IInv'
<1>1. TypeOK /\ Tables /\ RetirementIsQuiet
  BY DEF IInv
<1>2. CASE Arrive(q)
  <2>1. PoolKept
    BY <1>1, <1>2, ArriveKeeps
  <2>2. RetirementIsQuiet' /\ retire'.pc = retire.pc /\ retire'.list = retire.list
    BY <1>1, <1>2, ArriveQuiet
  <2>3. reaper' = reaper
    BY <1>2 DEF Arrive
  <2>4. ReaperSawDraining'
    BY <2>1, <2>3, ReaperFollows DEF IInv, PoolKept
  <2>5. RetireeIsDrained'
    BY <2>1, <2>2, RetireesRemembered DEF IInv, PoolKept, RetireeIsDrained, ActorsKept
  <2> QED BY <2>1, <2>2, <2>4, <2>5 DEF IInv, PoolKept
<1>3. CASE PreparePool(q) \/ ReadStatuses(q) \/ NoCandidate(q) \/ Poll(q) \/ Overload(q)
  <2>1. PoolKept
    BY <1>1, <1>3, PreparePoolKeeps, ReadStatusesKeeps, NoCandidateKeeps, PollKeeps
  <2>2. RetirementIsQuiet'
    BY <1>1, <1>3, RequestQuiet
  <2>3. reaper' = reaper /\ retire' = retire
    BY <1>3 DEF PreparePool, ReadStatuses, NoCandidate, Poll, Overload
  <2> QED BY <2>1, <2>2, <2>3, FollowKeeps
<1>4. CASE Finish(q)
  <2>1. PoolKept
    BY <1>1, <1>4, FinishKeeps
  <2>2. RetirementIsQuiet'
    BY <1>1, <1>4, FinishQuiet
  <2> QED BY <1>4, <2>1, <2>2, FollowKeeps DEF Finish
<1>5. CASE \E h \in Handles : TryCandidate(q, h)
  <2>1. PICK h \in Handles : TryCandidate(q, h)
    BY <1>5
  <2>2. PoolKept
    BY <1>1, <2>1, TryCandidateKeeps
  <2>3. RetirementIsQuiet'
    BY <1>1, <2>1, RequestQuiet
  <2> QED BY <2>1, <2>2, <2>3, FollowKeeps DEF TryCandidate
<1> QED BY <1>2, <1>3, <1>4, <1>5 DEF RequestStep

LEMMA CreationKeeps ==
  ASSUME IInv, NEW r \in Replicas, Creation(r)
  PROVE  IInv'
<1>1. TypeOK /\ Tables /\ RetirementIsQuiet
  BY DEF IInv
<1>2. RetirementIsQuiet'
  BY <1>1, CreationQuiet DEF Creation
<1>3. CASE StartCreation(r)
  BY <1>1, <1>2, <1>3, StartCreationKeeps, FollowKeeps DEF StartCreation
<1>4. CASE FinishCreation(r)
  BY <1>1, <1>2, <1>4, FinishCreationKeeps, FollowKeeps DEF FinishCreation
<1> QED BY <1>3, <1>4 DEF Creation

LEMMA ReapKeeps ==
  ASSUME IInv, Reap
  PROVE  IInv'
<1>1. TypeOK /\ Tables /\ ReaperSawDraining /\ RetirementIsQuiet
  BY DEF IInv
<1>2. RetirementIsQuiet'
  BY <1>1, ReapQuiet
<1>3. PoolKept /\ ReaperSawDraining'
  BY <1>1, ReapStartKeeps, ReapStatusKeeps, ReapDrainKeeps, ReapCheckKeeps, ReapKillKeeps DEF Reap
<1>4. retire' = retire
  BY DEF Reap, ReapStart, ReapStatus, ReapDrain, ReapCheck, ReapKill
<1>5. RetireeIsDrained'
  BY <1>3, <1>4, RetireeFollows DEF IInv, PoolKept
<1> QED BY <1>2, <1>3, <1>5 DEF IInv, PoolKept

LEMMA RetireKeeps ==
  ASSUME IInv, Retire
  PROVE  IInv'
<1>1. TypeOK /\ Tables /\ RetireeIsDrained /\ RetirementIsQuiet
  BY DEF IInv
<1>2. PoolKept /\ RetireKept
  BY <1>1, RetireStartKeeps, RetireDiscoverKeeps, RetireDrainKeeps, RetireStatusKeeps,
     RetireGiveUpKeeps, RetireKillKeeps DEF Retire
<1>3. reaper' = reaper
  BY DEF Retire, RetireStart, RetireDiscover, RetireDrain, RetireStatus, RetireGiveUp, RetireKill
<1>4. ReaperSawDraining'
  BY <1>2, <1>3, ReaperFollows DEF IInv, PoolKept
<1> QED BY <1>2, <1>4 DEF IInv, PoolKept, RetireKept

LEMMA EnvironmentKeeps ==
  ASSUME IInv, \/ \E h \in Handles : Die(h) \/ AgeIdle(h)
               \/ Restart \/ CoolDown \/ ListActorPools
  PROVE  IInv'
<1>1. TypeOK /\ Tables /\ RetirementIsQuiet
  BY DEF IInv
<1>2. ASSUME NEW h \in Handles, Die(h) PROVE IInv'
  <2>1. RetirementIsQuiet'
    BY <1>1, <1>2, KillQuiet DEF Die, manager
  <2> QED BY <1>1, <1>2, <2>1, DieKeeps, FollowKeeps DEF Die
<1>3. ASSUME NEW h \in Handles, AgeIdle(h) PROVE IInv'
  <2>1. RetirementIsQuiet'
    BY <1>1, <1>3, OthersQuiet DEF AgeIdle, manager
  <2> QED BY <1>1, <1>3, <2>1, AgeIdleKeeps, FollowKeeps DEF AgeIdle
<1>4. CASE Restart
  <2>1. PoolKept
    BY <1>1, <1>4, RestartKeeps
  <2>2. ReaperSawDraining' /\ RetireKept
    BY <1>4, IdleReaperKnows, IdleRetireKnows DEF Restart
  <2> QED BY <2>1, <2>2 DEF IInv, PoolKept, RetireKept
<1>5. CASE CoolDown
  <2>1. RetirementIsQuiet'
    BY <1>1, <1>5, OthersQuiet DEF CoolDown, cluster
  <2> QED BY <1>1, <1>5, <2>1, CoolDownKeeps, FollowKeeps DEF CoolDown
<1>6. CASE ListActorPools
  <2>1. RetirementIsQuiet'
    BY <1>1, <1>6, OthersQuiet DEF ListActorPools, cluster
  <2> QED BY <1>1, <1>6, <2>1, ListActorPoolsKeeps, FollowKeeps DEF ListActorPools
<1> QED BY <1>2, <1>3, <1>4, <1>5, <1>6

LEMMA StutterKeeps == IInv /\ UNCHANGED vars => IInv'
<1> SUFFICES ASSUME IInv, UNCHANGED vars PROVE IInv'
  OBVIOUS
<1>1. UNCHANGED cluster /\ UNCHANGED manager /\ UNCHANGED <<req, reaper, retire, budget>>
  BY DEF vars
<1>2. TypeOK /\ Tables /\ RetirementIsQuiet
  BY DEF IInv
<1>3. ClusterOK' /\ ActorsKept
  BY <1>1, <1>2, TypeParts, ClusterSame
<1>4. ManagerOK' /\ RequestsOK' /\ ReaperOK' /\ RetireOK' /\ BudgetOK'
  BY <1>1, <1>2, ReaperRetireSame
<1>5. Tables'
  BY <1>1, <1>2, TablesSame DEF cluster, manager
<1>6. RetirementIsQuiet'
  BY <1>1, <1>2, OthersQuiet DEF cluster, manager
<1> QED BY <1>1, <1>3, <1>4, <1>5, <1>6, TypePartsKept, FollowKeeps DEF PoolKept

LEMMA NextKeeps == IInv /\ [Next]_vars => IInv'
BY RequestKeeps, CreationKeeps, ReapKeeps, RetireKeeps, EnvironmentKeeps, StutterKeeps DEF Next

LEMMA InvariantHolds == Spec => []IInv
BY InitKeeps, NextKeeps, PTL DEF Spec

-----------------------------------------------------------------------------
(* Theorems *)

\* Every variable keeps its type.
THEOREM TypeCorrect == Spec => []TypeOK
<1>1. IInv => TypeOK
  BY DEF IInv
<1> QED BY <1>1, InvariantHolds, PTL

\* The handle remembered for a replica is the named actor unless that one is
\* dead, and no replica is in _actors and being created at once.
THEOREM OneOwner == Spec => []ReplicaHasOneOwner
<1>1. IInv => ReplicaHasOneOwner
  BY DEF IInv, Tables, KnownIsNamed, ReplicaHasOneOwner
<1> QED BY <1>1, InvariantHolds, PTL

\* A retirement that no request crossed leaves no actor but hidden ones.
THEOREM RetirementLeavesNone == Spec => []RetiredPoolIsGone
<1>1. IInv => RetiredPoolIsGone
  BY DEF IInv, RetirementIsQuiet, Forgotten, RetiredPoolIsGone
<1> QED BY <1>1, InvariantHolds, PTL

\* No live actor is hidden from those who would use, reap or retire it.
THEOREM NothingForgotten == Spec => []NoActorIsForgotten
<1>1. TypeOK /\ ReplicaHasOneOwner /\ RetiredPoolIsGone => NoActorIsForgotten
  BY DEF NoActorIsForgotten
<1> QED BY <1>1, TypeCorrect, OneOwner, RetirementLeavesNone, PTL

\* Neither the reaper nor a retirement kills an actor under a lease.
LEMMA KillsAreOfEmpty ==
  ASSUME IInv, Next, NEW h \in Handles, h \in alive, holds[h] # {}, h \notin alive'
  PROVE  \/ budget'.faults # budget.faults
         \/ DrainCanFail /\ retire.pc = "kill" /\ retire'.pc = "retired"
<1>1. CASE ReapKill
  <2>1. reaper.pc = "kill" /\ h = ReapTarget.handle
    BY <1>1 DEF ReapKill, Kill
  <2> QED BY <2>1 DEF IInv, ReaperSawDraining
<1>2. CASE RetireKill
  <2>1. retire.pc = "kill" /\ \E x \in retire.list : x[2] = h
    BY <1>2 DEF RetireKill, Kill
  <2>2. retire'.pc = "retired"
    BY <1>2, TypeParts DEF RetireKill, IInv, RetireOK, RetireRecords
  <2> QED BY <2>1, <2>2 DEF IInv, RetireeIsDrained
<1>3. ASSUME NEW k \in Handles, Die(k) PROVE budget'.faults # budget.faults
  <2>1. budget' = [budget EXCEPT !.faults = @ - 1] /\ budget \in BudgetRecords
    BY <1>3, TypeParts DEF Die, Fault, IInv, BudgetOK
  <2> QED BY <2>1 DEF BudgetRecords
<1>4. CASE \E q \in Requests : Arrive(q) \/ RequestStep(q) \/ Overload(q)
  <2>1. PICK q \in Requests : Arrive(q) \/ RequestStep(q) \/ Overload(q)
    BY <1>4
  <2>2. alive' = alive
    BY <2>1 DEF Arrive, RequestStep, Overload, PreparePool, ReadStatuses, NoCandidate, Poll, Finish,
                TryCandidate, cluster
  <2> QED BY <2>2
<1>5. CASE \E r \in Replicas : Creation(r)
  BY <1>5 DEF Creation, StartCreation, FinishCreation, cluster
<1>6. CASE ReapStart \/ ReapStatus \/ ReapDrain \/ ReapCheck
  BY <1>6 DEF ReapStart, ReapStatus, ReapDrain, ReapCheck, cluster
<1>7. CASE RetireStart \/ RetireDiscover \/ RetireDrain \/ RetireStatus \/ RetireGiveUp
  BY <1>7 DEF RetireStart, RetireDiscover, RetireDrain, RetireStatus, RetireGiveUp, cluster
<1>8. CASE (\E k \in Handles : AgeIdle(k)) \/ Restart \/ CoolDown \/ ListActorPools
  BY <1>8 DEF AgeIdle, Restart, CoolDown, ListActorPools, cluster
<1> QED BY <1>1, <1>2, <1>3, <1>4, <1>5, <1>6, <1>7, <1>8 DEF Next, Reap, Retire

THEOREM KillsOnlyEmpty == Spec => KillOnlyEmpty
<1> DEFINE Empty == \A h \in Handles : h \in alive /\ holds[h] # {} =>
                      \/ h \in alive'
                      \/ budget'.faults # budget.faults
                      \/ DrainCanFail /\ retire.pc = "kill" /\ retire'.pc = "retired"
<1>1. IInv /\ [Next]_vars => [Empty]_vars
  BY KillsAreOfEmpty
<1> QED BY <1>1, InvariantHolds, PTL DEF Spec, KillOnlyEmpty
=============================================================================
