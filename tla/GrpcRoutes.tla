------------------------------ MODULE GrpcRoutes ------------------------------
(***************************************************************************)
(* Who owns which gRPC method.  In the database a service that is ACTIVE   *)
(* publishes the methods of its routed revision, and no two services may   *)
(* publish the same one: a transaction that would make a service publish   *)
(* takes an advisory lock, looks at the other services and commits.  In    *)
(* the manager the registry holds a snapshot of what is published; after   *)
(* its transaction every administrative request refreshes the snapshot,    *)
(* and so does a loop.  A refresh reads the database, and installs what it *)
(* read some time later.                                                   *)
(*                                                                         *)
(* A revision is abstracted to the set of its gRPC methods (a gRPC service *)
(* name, which must be unique too, counts as one more).  Which revision is *)
(* ACTIVE is the concern of Publication.                                   *)
(***************************************************************************)
EXTENDS Integers, FiniteSets

CONSTANTS
    Services,
    Methods,     \* gRPC methods
    Calls,       \* concurrent RPCs
    Loop,        \* refresh_routes_forever
    Nobody,
    MaxRequests  \* bound: administrative requests

ASSUME RoutesAssumption ==
    /\ Loop \notin Services
    /\ Nobody \notin Services
    /\ MaxRequests \in Nat

VARIABLES
    status,      \* Service.status
    methods,     \* methods of the revision Service.active_revision_id
    tx,          \* the transaction that holds the row of a service
    advisory,    \* who holds the advisory lock
    routes,      \* GrpcRouteRegistry._routes
    refresh,     \* refresh of the request of a service, and of the loop
    rpc,         \* an RPC and the route it is pinned to
    requests     \* administrative requests so far

database == <<status, methods, tx, advisory>>
routesVars == <<database, routes, refresh, rpc, requests>>

Refreshers == Services \cup {Loop}

NoTx == [pc |-> "none", seen |-> "none", methods |-> {}]
Silent == [s \in Services |-> {}]
NotRefreshing == [pc |-> "idle", read |-> Silent]
NoCall == [pc |-> "idle", service |-> Nobody, methods |-> {}]

RoutesInit ==
    /\ status = [s \in Services |-> "REGISTERED"]
    /\ methods = [s \in Services |-> {}]
    /\ tx = [s \in Services |-> NoTx]
    /\ advisory = Nobody
    /\ routes = Silent
    /\ refresh = [x \in Refreshers |-> NotRefreshing]
    /\ rpc = [c \in Calls |-> NoCall]
    /\ requests = 0

-----------------------------------------------------------------------------
(* Helpers *)

\* list_active_endpoints, one SELECT.
Published == [s \in Services |-> IF status[s] = "ACTIVE" THEN methods[s] ELSE {}]

Conflicts(s, M) == \E t \in Services \ {s} : Published[t] \cap M # {}

\* A request may lock the row of the service.  Bound: the service's last
\* request has refreshed the routes.
RowIsFree(s) ==
    /\ tx[s] = NoTx
    /\ status[s] # "DELETED"
    /\ refresh[s].pc = "idle"
    /\ requests < MaxRequests

DueRefresh(s) == refresh' = [refresh EXCEPT ![s].pc = "due"]

\* The status a transaction decides on: the one in the row, or that of an
\* earlier time if a publication read the service before its build.  One that
\* read STOPPED does not activate anything.
SeenStatus(s) ==
    {"REGISTERED", status[s]} \cup IF status[s] = "STOPPED" THEN {"ACTIVE"} ELSE {}

-----------------------------------------------------------------------------
(* activate_revision and start_service *)

BeginActivation(s) ==
    /\ RowIsFree(s)
    /\ \E seen \in SeenStatus(s), M \in SUBSET Methods :
          tx' = [tx EXCEPT ![s] = [pc |-> "locked", seen |-> seen, methods |-> M]]
    /\ requests' = requests + 1
    /\ UNCHANGED <<status, methods, advisory, routes, refresh, rpc>>

\* start_service looks at the revision the service has.
BeginStart(s) ==
    /\ RowIsFree(s)
    /\ status[s] = "STOPPED"
    /\ tx' = [tx EXCEPT ![s] = [pc |-> "locked", seen |-> "start", methods |-> methods[s]]]
    /\ requests' = requests + 1
    /\ UNCHANGED <<status, methods, advisory, routes, refresh, rpc>>

\* Mutant: only a service that is ACTIVE already is checked.
NeedsCheckActive(s) == tx[s].methods # {} /\ tx[s].seen = "ACTIVE"

\* A revision without methods, or of a stopped service, publishes nothing.
NeedsCheck(s) == tx[s].methods # {} /\ tx[s].seen # "STOPPED"

\* pg_advisory_xact_lock, held to the end of the transaction.
TakeLock(s) ==
    /\ tx[s].pc = "locked"
    /\ NeedsCheck(s)
    /\ advisory = Nobody
    /\ advisory' = s
    /\ tx' = [tx EXCEPT ![s].pc = "advisory"]
    /\ UNCHANGED <<status, methods, routes, refresh, rpc, requests>>

AdvisoryReleased(s) == IF advisory = s THEN Nobody ELSE advisory

\* Look at what the other services publish.
CheckRoutes(s) ==
    /\ tx[s].pc = "advisory"
    /\ ~Conflicts(s, tx[s].methods)
    /\ tx' = [tx EXCEPT ![s].pc = "checked"]
    /\ UNCHANGED <<status, methods, advisory, routes, refresh, rpc, requests>>

\* A conflict, another refusal, or the loss of the connection.
RollBack(s) ==
    /\ tx[s].pc # "none"
    /\ advisory' = AdvisoryReleased(s)
    /\ tx' = [tx EXCEPT ![s] = NoTx]
    /\ UNCHANGED <<status, methods, routes, refresh, rpc, requests>>

\* Only a status that differs from the one seen is written.
Commit(s) ==
    /\ tx[s].pc = IF NeedsCheck(s) THEN "checked" ELSE "locked"
    /\ methods' = [methods EXCEPT ![s] = tx[s].methods]
    /\ status' = [status EXCEPT ![s] = IF tx[s].seen \in {"REGISTERED", "start"} THEN "ACTIVE" ELSE @]
    /\ advisory' = AdvisoryReleased(s)
    /\ tx' = [tx EXCEPT ![s] = NoTx]
    /\ DueRefresh(s)
    /\ UNCHANGED <<routes, rpc, requests>>

-----------------------------------------------------------------------------
(* stop_service and delete_service *)

StopService(s) ==
    /\ RowIsFree(s)
    /\ status[s] = "ACTIVE"
    /\ status' = [status EXCEPT ![s] = "STOPPED"]
    /\ requests' = requests + 1
    /\ DueRefresh(s)
    /\ UNCHANGED <<methods, tx, advisory, routes, rpc>>

DeleteService(s) ==
    /\ RowIsFree(s)
    /\ status[s] # "ACTIVE"
    /\ \A c \in Calls : rpc[c].pc = "running" => rpc[c].service # s
    /\ status' = [status EXCEPT ![s] = "DELETED"]
    /\ methods' = [methods EXCEPT ![s] = {}]
    /\ requests' = requests + 1
    /\ DueRefresh(s)
    /\ UNCHANGED <<tx, advisory, routes, rpc>>

-----------------------------------------------------------------------------
(* The registry *)

\* The loop wakes up.
LoopWakes ==
    /\ refresh[Loop].pc = "idle"
    /\ DueRefresh(Loop)
    /\ UNCHANGED <<database, routes, rpc, requests>>

\* Mutant: only requests refresh the routes.
ReadRoutesOfRequest(x) ==
    /\ x \in Services
    /\ refresh[x].pc = "due"
    /\ refresh' = [refresh EXCEPT ![x] = [pc |-> "read", read |-> Published]]
    /\ UNCHANGED <<database, routes, rpc, requests>>

ReadRoutes(x) ==
    /\ refresh[x].pc = "due"
    /\ refresh' = [refresh EXCEPT ![x] = [pc |-> "read", read |-> Published]]
    /\ UNCHANGED <<database, routes, rpc, requests>>

Unambiguous(table) ==
    \A s, t \in Services : s # t => table[s] \cap table[t] = {}

\* replace raises DuplicateGrpcRouteError, and keeps what there is, if two
\* services publish a method.
InstallRoutes(x) ==
    /\ refresh[x].pc = "read"
    /\ routes' = IF Unambiguous(refresh[x].read) THEN refresh[x].read ELSE routes
    /\ refresh' = [refresh EXCEPT ![x] = NotRefreshing]
    /\ UNCHANGED <<database, rpc, requests>>

-----------------------------------------------------------------------------
(* RPCs *)

\* DynamicGrpcHandler.service: the route is pinned to the call.
Resolve(c) ==
    /\ rpc[c].pc = "idle"
    /\ \E s \in Services :
          /\ routes[s] # {}
          /\ rpc' = [rpc EXCEPT ![c] = [pc |-> "pinned", service |-> s, methods |-> routes[s]]]
    /\ UNCHANGED <<database, routes, refresh, requests>>

\* begin_invocation: the foreign keys refuse a service that is deleted.
BeginInvocation(c) ==
    /\ rpc[c].pc = "pinned"
    /\ rpc' = [rpc EXCEPT ![c] = IF status[rpc[c].service] = "DELETED" THEN NoCall
                                 ELSE [@ EXCEPT !.pc = "running"]]
    /\ UNCHANGED <<database, routes, refresh, requests>>

FinishInvocation(c) ==
    /\ rpc[c].pc = "running"
    /\ rpc' = [rpc EXCEPT ![c] = NoCall]
    /\ UNCHANGED <<database, routes, refresh, requests>>

-----------------------------------------------------------------------------
RoutesNext ==
    \/ \E s \in Services :
          \/ BeginActivation(s) \/ BeginStart(s) \/ TakeLock(s) \/ CheckRoutes(s)
          \/ RollBack(s) \/ Commit(s) \/ StopService(s) \/ DeleteService(s)
    \/ LoopWakes
    \/ \E x \in Refreshers : ReadRoutes(x) \/ InstallRoutes(x)
    \/ \E c \in Calls : Resolve(c) \/ BeginInvocation(c) \/ FinishInvocation(c)

RoutesSpec == RoutesInit /\ [][RoutesNext]_routesVars

\* The loop goes round, and a refresh that began ends.
RoutesFairness ==
    /\ WF_routesVars(LoopWakes)
    /\ \A x \in Refreshers : WF_routesVars(ReadRoutes(x)) /\ WF_routesVars(InstallRoutes(x))

RoutesFairSpec == RoutesSpec /\ RoutesFairness

-----------------------------------------------------------------------------
(* Properties *)

Tables == [Services -> SUBSET Methods]

\* Every variable keeps its type, and the advisory lock is held exactly by the
\* transaction between its check and its end.
RoutesTypeOK ==
    /\ status \in [Services -> {"REGISTERED", "ACTIVE", "STOPPED", "DELETED"}]
    /\ methods \in Tables
    /\ tx \in [Services -> [pc : {"none", "locked", "advisory", "checked"},
                            seen : {"none", "REGISTERED", "ACTIVE", "STOPPED", "start"},
                            methods : SUBSET Methods]]
    /\ advisory \in Services \cup {Nobody}
    /\ \A s \in Services : tx[s].pc \in {"advisory", "checked"} <=> advisory = s
    /\ routes \in Tables
    /\ refresh \in [Refreshers -> [pc : {"idle", "due", "read"}, read : Tables]]
    /\ rpc \in [Calls -> [pc : {"idle", "pinned", "running"},
                          service : Services \cup {Nobody}, methods : SUBSET Methods]]
    /\ requests \in 0..MaxRequests

\* No two services publish the same method, however activations, starts and
\* publications overlap ("gRPC method ... is already published by service",
\* repository.py 1229-1234), so no refresh ever raises DuplicateGrpcRouteError.
MethodsAreUnique ==
    /\ Unambiguous(Published)
    /\ \A x \in Refreshers : Unambiguous(refresh[x].read)

\* When administration rests, the registry comes to hold what is published,
\* although refreshes may install their snapshots out of order.
RoutesConverge == <>[](routes = Published)
=============================================================================
