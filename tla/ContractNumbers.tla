--------------------------- MODULE ContractNumbers ---------------------------
(***************************************************************************)
(* The gRPC contracts of one service: how their fields are numbered, when  *)
(* their version grows, and how overlapping publications register them.    *)
(*                                                                         *)
(* A publication reads the latest contract, generates its own against that *)
(* descriptor, and registers it minutes later in another transaction, which*)
(* takes no lock: only the unique constraints on digest and version order  *)
(* the publications.  The constant response field "execution", the messages*)
(* of nested structures and the reserved band 19000-19999 are left out.    *)
(***************************************************************************)
EXTENDS Integers, FiniteSets

CONSTANTS
    Methods,       \* method names
    Names,         \* field names, in their sorting order
    Types,         \* field signatures: a type, repeated or not
    NoType,        \* the signature of a field that is not there
    Interfaces,    \* the interfaces a publication may declare
    Publications,  \* publications under way at the same time
    MaxContracts,  \* bound on the contracts of the service
    MaxStamp       \* bound on the times at which they are inserted

Messages == Methods \X {"request", "response"}

ASSUME ContractNumbersAssumption ==
    /\ Names \subseteq Nat /\ IsFiniteSet(Names)
    /\ NoType \notin Types
    /\ Interfaces \subseteq
          [methods : SUBSET Methods, fields : [Messages -> [Names -> Types \cup {NoType}]]]
    /\ MaxContracts \in Nat /\ MaxStamp \in Nat

VARIABLES
    contracts,  \* the committed rows of api_contracts
    pub         \* a publication: where it stands, and its contract

vars == <<contracts, pub>>

\* A message of a descriptor: number and signature of each field (0 and NoType
\* when it is not there), and what is reserved.
NoMessage ==
    [number |-> [n \in Names |-> 0], type |-> [n \in Names |-> NoType],
     numbers |-> {}, names |-> {}]

NoContract ==
    [major |-> 0, minor |-> 0, methods |-> {}, message |-> [m \in Messages |-> NoMessage],
     stamp |-> 0]

Init ==
    /\ contracts = {}
    /\ pub = [p \in Publications |-> [at |-> "idle", contract |-> NoContract]]

Present(message) == {n \in Names : message.type[n] # NoType}
Numbers(message) == {message.number[n] : n \in Present(message)}
Largest(S) == CHOOSE x \in S \cup {0} : \A y \in S : y <= x

-----------------------------------------------------------------------------
(* Numbering one message against its predecessor *)

Desired(want) == {n \in Names : want[n] # NoType}
Kept(old, want) == {n \in Desired(want) : old.type[n] = want[n]}
Retired(old, want) == Present(old) \ Kept(old, want)
Fresh(old, want) == Desired(want) \ Kept(old, want)

Reserved(old, want) == old.numbers \cup {old.number[n] : n \in Retired(old, want)}

\* Mutant: only the numbers of the fields are taken.
OccupiedUnreserved(old, want) == {old.number[n] : n \in Kept(old, want)}

Occupied(old, want) == Reserved(old, want) \cup Numbers(old)

\* New fields get the next numbers in the order of their names.
FreshNumber(old, want, n) ==
    Largest(Occupied(old, want)) + Cardinality({k \in Fresh(old, want) : k <= n})

Numbered(old, want) ==
    [number |-> [n \in Names |-> IF n \in Kept(old, want) THEN old.number[n]
                                 ELSE IF n \in Desired(want) THEN FreshNumber(old, want, n)
                                 ELSE 0],
     type |-> want,
     numbers |-> Reserved(old, want),
     names |-> old.names \cup (Present(old) \ Desired(want))]

\* A new field breaks a request that existed: every parameter is required.
BreaksMessage(old, want, m, known) ==
    \/ Retired(old, want) # {}
    \/ known /\ m[2] = "request" /\ Fresh(old, want) # {}

-----------------------------------------------------------------------------
(* Generating a contract against the previous one *)

\* A method that is new, or was away, starts afresh.
Previous(base, m) == IF m[1] \in base.methods THEN base.message[m] ELSE NoMessage

ReusesReservedName(base, i) ==
    \E m \in Messages :
       m[1] \in i.methods /\ Desired(i.fields[m]) \cap Previous(base, m).names # {}

Breaks(base, i) ==
    \/ base.methods \ i.methods # {}
    \/ \E m \in Messages :
          /\ m[1] \in i.methods
          /\ BreaksMessage(Previous(base, m), i.fields[m], m, m[1] \in base.methods)

Described(base, i) ==
    [m \in Messages |-> IF m[1] \in i.methods THEN Numbered(Previous(base, m), i.fields[m])
                        ELSE NoMessage]

\* The package carries the major version, so it is part of the descriptor.
SameDescriptor(c, d) ==
    c.major = d.major /\ c.methods = d.methods /\ c.message = d.message

\* The minor version grows for a compatible change, the major for another, and
\* an unchanged descriptor keeps the version it had.
Generated(base, i) ==
    LET breaks == base.major = 0 \/ Breaks(base, i)
        next == [major |-> IF breaks THEN base.major + 1 ELSE base.major,
                 minor |-> IF breaks THEN 0 ELSE base.minor + 1,
                 methods |-> i.methods, message |-> Described(base, i), stamp |-> 0]
    IN IF SameDescriptor(base, next) THEN [next EXCEPT !.minor = base.minor] ELSE next

-----------------------------------------------------------------------------
(* Publications *)

\* ORDER BY created_at DESC LIMIT 1: transactions that began at the same time are in no order.
Latest == {c \in contracts : \A d \in contracts : d.stamp <= c.stamp}

Inserting == {p \in Publications : pub[p].at = "inserting"}
\* created_at is the time at which the transaction began.
Now == Largest({c.stamp : c \in contracts} \cup {pub[p].contract.stamp : p \in Inserting}) + 1

\* persist_resolved_revision reads the latest contract and generates its own,
\* unless no method is offered over gRPC.
Prepare(p, i) ==
    /\ pub[p].at = "idle"
    /\ i.methods # {}
    /\ Cardinality(contracts) < MaxContracts
    /\ \E base \in IF contracts = {} THEN {NoContract} ELSE Latest :
          /\ ~ReusesReservedName(base, i)
          /\ pub' = [pub EXCEPT ![p] = [at |-> "prepared", contract |-> Generated(base, i)]]
    /\ UNCHANGED contracts

Idle(p) == [pub EXCEPT ![p] = [at |-> "idle", contract |-> NoContract]]

\* Protoc, the store or the manager failed.
Fail(p) ==
    /\ pub[p].at # "idle"
    /\ pub' = Idle(p)
    /\ UNCHANGED contracts

Newer(c, d) == c.major > d.major \/ (c.major = d.major /\ c.minor > d.minor)

\* The same digest is stored: the row is kept if it has this version, else 409.
ReuseContract(p) ==
    /\ pub[p].at = "prepared"
    /\ \E c \in contracts : SameDescriptor(c, pub[p].contract)
    /\ pub' = Idle(p)
    /\ UNCHANGED contracts

\* A changed schema needs a version newer than the latest.
InsertContract(p) ==
    /\ pub[p].at = "prepared"
    /\ Now \in 1 .. MaxStamp
    /\ ~\E c \in contracts : SameDescriptor(c, pub[p].contract)
    /\ contracts # {} => \E latest \in Latest : Newer(pub[p].contract, latest)
    /\ pub' = [pub EXCEPT ![p] = [at |-> "inserting",
                                   contract |-> [pub[p].contract EXCEPT !.stamp = Now]]]
    /\ UNCHANGED contracts

\* Mutant: the constraint on the version is missing.
CommitContractUnconstrained(p) ==
    /\ pub[p].at = "inserting"
    /\ contracts' = contracts \cup {pub[p].contract}
    /\ pub' = Idle(p)

\* uq_contract_service_digest and uq_contract_service_version, else 409.
CommitContract(p) ==
    /\ pub[p].at = "inserting"
    /\ Cardinality(contracts) < MaxContracts
    /\ \A c \in contracts :
          /\ ~SameDescriptor(c, pub[p].contract)
          /\ c.major # pub[p].contract.major \/ c.minor # pub[p].contract.minor
    /\ contracts' = contracts \cup {pub[p].contract}
    /\ pub' = Idle(p)

Next == \E p \in Publications :
    \/ \E i \in Interfaces : Prepare(p, i)
    \/ Fail(p) \/ ReuseContract(p) \/ InsertContract(p) \/ CommitContract(p)

Spec == Init /\ [][Next]_vars

-----------------------------------------------------------------------------
(* Properties *)

MessageRows ==
    [number : [Names -> Nat], type : [Names -> Types \cup {NoType}], numbers : SUBSET Nat,
     names : SUBSET Names]

ContractRows ==
    [major : Nat, minor : Nat, methods : SUBSET Methods, message : [Messages -> MessageRows],
     stamp : Nat]

\* Every variable keeps its type: api_contracts (models.py 301-332).
TypeOK ==
    /\ contracts \subseteq ContractRows
    /\ pub \in [Publications -> [at : {"idle", "prepared", "inserting"}, contract : ContractRows]]

\* In every message of every contract the numbers are distinct and none is
\* reserved, however often fields changed, left and were added: protoc refuses
\* the sources otherwise, and the service could not publish any more
\* (_assign_numbers, generator.py 479-531).
NumbersAreDistinct ==
    \A c \in contracts : \A m \in Messages : \A n, k \in Present(c.message[m]) :
       /\ c.message[m].number[n] \notin c.message[m].numbers
       /\ n # k => c.message[m].number[n] # c.message[m].number[k]

Preserves(c, d) ==
    /\ c.methods \subseteq d.methods
    /\ \A m \in Messages : m[1] \in c.methods =>
          /\ \A n \in Present(c.message[m]) :
                /\ d.message[m].number[n] = c.message[m].number[n]
                /\ d.message[m].type[n] = c.message[m].type[n]
          /\ m[2] = "request" => Present(d.message[m]) = Present(c.message[m])

\* A client of a contract works with every later contract of the same major
\* version, although publications overlap and generate against contracts that
\* are not the latest any more: "automatically bumps the contract major version
\* for breaking changes and the minor version for compatible schema additions"
\* (README.md 423-424).
SameMajorIsCompatible ==
    \A c, d \in contracts : c.major = d.major /\ c.minor <= d.minor => Preserves(c, d)
=============================================================================
