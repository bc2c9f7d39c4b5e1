--------------------------- MODULE RuntimeProfiles ---------------------------
(***************************************************************************)
(* The versions of one runtime label in the database, and the requests and *)
(* background tasks of the manager that move them.  A transaction that     *)
(* takes the row lock it needs before it reads is one step.  The others    *)
(* are a read and a write: a validation keeps the label as it was when the *)
(* version was created (the session never expires its objects), an         *)
(* activation reads the version without a lock, a publication binds the    *)
(* version it resolved before a long build, an invocation resolves its     *)
(* endpoint and then inserts its row.  Requests, tasks and a restart of    *)
(* the manager interleave freely between those steps.                      *)
(*                                                                         *)
(* A write may be decided on a value that has changed since it was read.   *)
(* Three history variables name what such a write touched, until a later   *)
(* one repairs it: no action reads them.  The properties say how far the   *)
(* damage goes, in every interleaving before and after such writes.        *)
(*                                                                         *)
(* A service has one revision here, bound to one version; its invocations  *)
(* are one at a time.                                                      *)
(***************************************************************************)
EXTENDS FiniteSets

CONSTANTS
    Versions,        \* versions of the label
    Services,        \* services whose revisions use the label
    Invoked,         \* bound: the services among them that are invoked
    NoVersion

ASSUME ProfilesAssumption == NoVersion \notin Versions /\ Invoked \subseteq Services

VARIABLES
    active,      \* RuntimeLabel.active_version_id
    status,      \* RuntimeProfileVersion.status
    bound,       \* RevisionRuntimeProfile: version and tracking mode
    running,     \* version of the RUNNING invocation of a service
    validation,  \* validate_runtime_record: the active version its session saw
    activations, \* what the calls of activate_runtime_profile under way have read
    publication, \* a publication between resolving its profile and binding it
    arriving,    \* an invocation between resolving its target and its row
    task,        \* drain_and_retire_profile
    orphans,     \* services whose RUNNING invocation was lost in a restart
    marred,      \* history: versions whose status does not follow from their last decision
    lateBound,   \* history: services bound to a version that had been replaced or retired meanwhile
    lateRun      \* history: services whose invocation began on a retired version

database == <<active, status, bound, running>>
memory == <<validation, activations, publication, arriving, task>>
history == <<marred, lateBound, lateRun>>
vars == <<database, memory, orphans, history>>

Unbound == [version |-> NoVersion, tracking |-> FALSE]
NoValidation == [pc |-> "none", seen |-> NoVersion]
NoPublication == Unbound

Init ==
    /\ active = NoVersion
    /\ status = [v \in Versions |-> "none"]
    /\ bound = [s \in Services |-> Unbound]
    /\ running = [s \in Services |-> NoVersion]
    /\ validation = [v \in Versions |-> NoValidation]
    /\ activations = {}
    /\ publication = [s \in Services |-> NoPublication]
    /\ arriving = [s \in Services |-> NoVersion]
    /\ task = [v \in Versions |-> "none"]
    /\ orphans = {}
    /\ marred = {}
    /\ lateBound = {}
    /\ lateRun = {}

References(b, v) == {s \in Services : b[s].version = v}

\* Mutant: an invocation that started is not counted any more.
ExecutionsAccepted(v) == {s \in Services : arriving[s] = v}

Executions(v) == {s \in Services : running[s] = v}

\* Mutant: the tracking revisions stay on the old version.
MovedNone(v) == bound

\* The TRACK_ACTIVE bindings move to the version that is activated.
Moved(v) == [s \in Services |-> IF bound[s].tracking THEN [bound[s] EXCEPT !.version = v] ELSE bound[s]]

Tracking == {s \in Services : bound[s].tracking}

-----------------------------------------------------------------------------
(* Creation and validation *)

CreateVersion(v) ==
    /\ status[v] = "none"
    /\ status' = [status EXCEPT ![v] = "VALIDATING"]
    /\ validation' = [validation EXCEPT ![v] = [pc |-> "running", seen |-> active]]
    /\ UNCHANGED <<active, bound, running, activations, publication, arriving, task, orphans, history>>

\* READY, whatever the status became meanwhile: the session still holds
\* VALIDATING.  A label that had no active version activates this one; that
\* it has one by now is not seen either.
ValidationSucceeds(v) ==
    /\ validation[v].pc = "running"
    /\ \/ /\ validation[v].seen = NoVersion
          /\ active' = v
          /\ status' = [status EXCEPT ![v] = "ACTIVE"]
          /\ bound' = Moved(v)
          /\ marred' = (marred \ {v}) \cup (Versions \cap {active})
          /\ lateBound' = lateBound \ Tracking
       \/ /\ validation[v].seen # NoVersion
          /\ status' = [status EXCEPT ![v] = "READY"]
          /\ UNCHANGED <<active, bound, marred, lateBound>>
    /\ validation' = [validation EXCEPT ![v] = NoValidation]
    /\ UNCHANGED <<running, activations, publication, arriving, task, orphans, lateRun>>

ValidationFails(v) ==
    /\ validation[v].pc = "running"
    /\ status' = [status EXCEPT ![v] = "FAILED"]
    /\ validation' = [validation EXCEPT ![v] = NoValidation]
    /\ UNCHANGED <<active, bound, running, activations, publication, arriving, task, orphans, history>>

\* Another version has this environment digest, or the activation is refused:
\* the transaction rolls back and the version stays VALIDATING.
ValidationAborts(v) ==
    /\ validation[v].pc = "running"
    /\ validation' = [validation EXCEPT ![v] = NoValidation]
    /\ UNCHANGED <<database, activations, publication, arriving, task, orphans, history>>

-----------------------------------------------------------------------------
(* Activation *)

\* Mutant: every version that was valid once can be activated.
ReadForActivationAny(v) ==
    /\ status[v] \notin {"none", "VALIDATING", "FAILED"}
    /\ activations' = activations \cup {[version |-> v, seen |-> status[v]]}
    /\ UNCHANGED <<database, validation, publication, arriving, task, orphans, history>>

\* The version is read without a lock.
ReadForActivation(v) ==
    /\ status[v] \in {"READY", "ACTIVE"}
    /\ activations' = activations \cup {[version |-> v, seen |-> status[v]]}
    /\ UNCHANGED <<database, validation, publication, arriving, task, orphans, history>>

\* One of any number of calls that read the same goes on.
Resume(a) ==
    /\ a \in activations
    /\ activations' \in {activations, activations \ {a}}

\* The status is no longer the one an activation read, nor the one it writes.
Outdated(v, seen) == status[v] \notin {seen, "ACTIVE"}

\* What an activation leaves marred: the version whose status is not the one it
\* read; its own status and that of the old version are decided anew.
Judged(v, seen) ==
    /\ marred' = (marred \ {v, active}) \cup (IF Outdated(v, seen) THEN {v} ELSE {})
    /\ lateBound' = lateBound \ Tracking

\* Mutant: the version that was active stays ACTIVE.
ActivateOverOld(a) ==
    LET v == a.version
    IN  /\ Resume(a)
        /\ active' = v
        /\ bound' = Moved(v)
        /\ status' = [status EXCEPT ![v] = "ACTIVE"]
        /\ Judged(v, a.seen)
        /\ UNCHANGED <<running, validation, publication, arriving, task, orphans, lateRun>>

\* The label is locked; the version's status is written only if it differs
\* from the one that was read.  The old version retires if nothing uses it.
Activate(a) ==
    LET v == a.version
        old == active
        unused == References(Moved(v), old) = {}
        shown == IF a.seen = "ACTIVE" THEN status[v] ELSE "ACTIVE"
    IN  /\ Resume(a)
        /\ active' = v
        /\ bound' = Moved(v)
        /\ status' = [x \in Versions |->
                        IF x = v THEN shown
                        ELSE IF x = old THEN IF unused THEN "RETIRING" ELSE "READY"
                        ELSE status[x]]
        /\ task' = IF old \in Versions \ {v} /\ unused /\ task[old] = "none"
                   THEN [task EXCEPT ![old] = "check"] ELSE task
        /\ Judged(v, a.seen)
        /\ UNCHANGED <<running, validation, publication, arriving, orphans, lateRun>>

\* A tracking revision is not compatible with the version.
RefuseActivation(a) ==
    /\ a \in activations
    /\ Tracking # {}
    /\ activations' = activations \ {a}
    /\ UNCHANGED <<database, validation, publication, arriving, task, orphans, history>>

-----------------------------------------------------------------------------
(* Retirement *)

MayRetire(v) == active # v /\ References(bound, v) = {} /\ Executions(v) = {}

Schedule(v) == task' = [task EXCEPT ![v] = IF @ = "none" THEN "check" ELSE @]

RetireVersion(v) ==
    /\ status[v] \notin {"none", "RETIRED"}
    /\ MayRetire(v)
    /\ status' = [status EXCEPT ![v] = "RETIRING"]
    /\ Schedule(v)
    /\ marred' = marred \ {v}
    /\ UNCHANGED <<active, bound, running, validation, activations, publication, arriving, orphans,
                   lateBound, lateRun>>

\* reconcile_retirements_forever
Reconcile(v) ==
    /\ status[v] = "RETIRING"
    /\ task[v] = "none"
    /\ Schedule(v)
    /\ UNCHANGED <<database, validation, activations, publication, arriving, orphans, history>>

\* Mutant: a task that ended stays registered.
EndTaskKept(v) == task' = [task EXCEPT ![v] = "ended"]

EndTask(v) == task' = [task EXCEPT ![v] = "none"]

TaskCheck(v) ==
    /\ task[v] = "check"
    /\ IF status[v] = "RETIRING" /\ active # v /\ References(bound, v) = {}
       THEN task' = [task EXCEPT ![v] = "drain"]
       ELSE EndTask(v)
    /\ UNCHANGED <<database, validation, activations, publication, arriving, orphans, history>>

\* The pool is drained and no execution is active; or the time is up.
TaskDrained(v) ==
    /\ task[v] = "drain"
    /\ Executions(v) = {}
    /\ task' = [task EXCEPT ![v] = "finalize"]
    /\ UNCHANGED <<database, validation, activations, publication, arriving, orphans, history>>

TaskTimesOut(v) ==
    /\ task[v] = "drain"
    /\ Executions(v) # {}
    /\ EndTask(v)
    /\ UNCHANGED <<database, validation, activations, publication, arriving, orphans, history>>

Finalize(v) ==
    /\ task[v] = "finalize"
    /\ status' = [status EXCEPT ![v] = IF MayRetire(v) /\ @ = "RETIRING" THEN "RETIRED" ELSE @]
    /\ EndTask(v)
    /\ UNCHANGED <<active, bound, running, validation, activations, publication, arriving, orphans, history>>

-----------------------------------------------------------------------------
(* Publication, deletion and invocation of services *)

\* resolve_revision_profile: the label, or a version of it, that is ACTIVE.
ResolveProfile(s, tracking) ==
    /\ bound[s] = Unbound
    /\ publication[s] = NoPublication
    /\ \E v \in Versions :
          /\ status[v] = "ACTIVE"
          /\ tracking => v = active
          /\ publication' = [publication EXCEPT ![s] = [version |-> v, tracking |-> tracking]]
    /\ UNCHANGED <<database, validation, activations, arriving, task, orphans, history>>

\* The version is not looked at again, however long the build took.
CreateRevision(s) ==
    LET v == publication[s].version
    IN  /\ publication[s] # NoPublication
        /\ bound' = [bound EXCEPT ![s] = publication[s]]
        /\ publication' = [publication EXCEPT ![s] = NoPublication]
        /\ lateBound' = IF \/ status[v] \in {"RETIRING", "RETIRED"}
                           \/ publication[s].tracking /\ v # active
                        THEN lateBound \cup {s} ELSE lateBound \ {s}
        /\ UNCHANGED <<active, status, running, validation, activations, arriving, task, orphans,
                       marred, lateRun>>

\* An invocation that resolved the service then fails on its foreign key.
DeleteService(s) ==
    /\ bound[s] # Unbound
    /\ running[s] = NoVersion
    /\ bound' = [bound EXCEPT ![s] = Unbound]
    /\ arriving' = [arriving EXCEPT ![s] = NoVersion]
    /\ lateBound' = lateBound \ {s}
    /\ UNCHANGED <<active, status, running, validation, activations, publication, task, orphans,
                   marred, lateRun>>

ResolveEndpoint(s) ==
    /\ s \in Invoked
    /\ bound[s] # Unbound
    /\ arriving[s] = NoVersion
    /\ running[s] = NoVersion
    /\ arriving' = [arriving EXCEPT ![s] = bound[s].version]
    /\ UNCHANGED <<database, validation, activations, publication, task, orphans, history>>

BeginInvocation(s) ==
    /\ arriving[s] # NoVersion
    /\ running' = [running EXCEPT ![s] = arriving[s]]
    /\ arriving' = [arriving EXCEPT ![s] = NoVersion]
    /\ lateRun' = IF status[arriving[s]] = "RETIRED" THEN lateRun \cup {s} ELSE lateRun
    /\ UNCHANGED <<active, status, bound, validation, activations, publication, task, orphans,
                   marred, lateBound>>

FinishInvocation(s) ==
    /\ running[s] # NoVersion
    /\ s \notin orphans
    /\ running' = [running EXCEPT ![s] = NoVersion]
    /\ lateRun' = lateRun \ {s}
    /\ UNCHANGED <<active, status, bound, memory, orphans, marred, lateBound>>

\* The manager restarts: the database stays, its requests and tasks are gone.
\* Nothing ever finishes the invocations it was running.
Restart ==
    /\ orphans' = {s \in Services : running[s] # NoVersion}
    /\ validation' = [v \in Versions |-> NoValidation]
    /\ activations' = {}
    /\ publication' = [s \in Services |-> NoPublication]
    /\ arriving' = [s \in Services |-> NoVersion]
    /\ task' = [v \in Versions |-> "none"]
    /\ UNCHANGED <<database, marred, lateBound, lateRun>>

-----------------------------------------------------------------------------
Validate(v) ==
    CreateVersion(v) \/ ValidationSucceeds(v) \/ ValidationFails(v) \/ ValidationAborts(v)
Retirement(v) == TaskCheck(v) \/ TaskDrained(v) \/ TaskTimesOut(v) \/ Finalize(v)
Service(s) ==
    \/ \E tracking \in BOOLEAN : ResolveProfile(s, tracking)
    \/ CreateRevision(s) \/ DeleteService(s)
    \/ ResolveEndpoint(s) \/ BeginInvocation(s) \/ FinishInvocation(s)

Next ==
    \/ \E v \in Versions :
          Validate(v) \/ ReadForActivation(v) \/ RetireVersion(v) \/ Reconcile(v) \/ Retirement(v)
    \/ \E a \in activations : Activate(a) \/ RefuseActivation(a)
    \/ \E s \in Services : Service(s)
    \/ Restart

Spec == Init /\ [][Next]_vars

\* Tasks run, the reconciliation loop runs, invocations end; the manager does
\* not restart for ever.
Fairness ==
    /\ \A v \in Versions : WF_vars(Reconcile(v)) /\ WF_vars(Retirement(v))
    /\ \A s \in Services : WF_vars(FinishInvocation(s)) /\ WF_vars(BeginInvocation(s))
    /\ <>[][~Restart]_vars

FairSpec == Spec /\ Fairness

-----------------------------------------------------------------------------
(* Properties *)

Statuses == {"none", "VALIDATING", "READY", "ACTIVE", "FAILED", "RETIRING", "RETIRED"}
Bindings == [version : Versions \cup {NoVersion}, tracking : BOOLEAN]

\* Every variable keeps its type (models.py 62-69).
TypeOK ==
    /\ active \in Versions \cup {NoVersion}
    /\ status \in [Versions -> Statuses]
    /\ bound \in [Services -> Bindings]
    /\ publication \in [Services -> Bindings]
    /\ validation \in [Versions -> [pc : {"none", "running"}, seen : Versions \cup {NoVersion}]]
    /\ activations \subseteq [version : Versions, seen : Statuses]
    /\ running \in [Services -> Versions \cup {NoVersion}]
    /\ arriving \in [Services -> Versions \cup {NoVersion}]
    /\ task \in [Versions -> {"none", "check", "drain", "finalize"}]
    /\ orphans \subseteq Services
    /\ marred \subseteq Versions
    /\ {lateBound, lateRun} \subseteq SUBSET Services

\* A tracking revision is bound to the active version, and exactly that
\* version is ACTIVE: after an activation "new requests switch to the new
\* environment" (README.md 266-270); "The first valid version is activated
\* automatically. Later versions remain READY until explicitly activated."
\* (README.md 261-262.)  Excepted are the version that a write decided on an
\* outdated row put in place or out of it, and the revision that a publication
\* bound to a version that was replaced while it was built; the next activation
\* or retirement that concerns them puts them right.
TrackersFollow ==
    /\ \A v \in Versions \ marred : status[v] = "ACTIVE" <=> v = active
    /\ \A s \in Tracking \ lateBound : bound[s].version = active

Validated == {"READY", "ACTIVE", "RETIRING", "RETIRED"}

\* Only a version that was validated is ever bound to a service, run or
\* activated, whatever a restart left VALIDATING and whoever overtook whom.
\* Only late publications and outdated activations bind a retiring one, and
\* what runs still has its environment unless it began after the retirement:
\* "A retiring environment waits for both Actor leases and Compute Task
\* invocation snapshots to finish." (README.md 492-493.)
UsedIsValid ==
    /\ active \in Versions => status[active] \in Validated
    /\ \A s \in Services :
        /\ bound[s].version \in Versions =>
              /\ status[bound[s].version] \in Validated
              /\ status[bound[s].version] \in {"RETIRING", "RETIRED"} =>
                    s \in lateBound \/ bound[s].version \in marred
        /\ running[s] \in Versions =>
              /\ status[running[s]] \in Validated
              /\ status[running[s]] = "RETIRED" => s \in lateRun

\* A retired version that nobody has in hand: no service is bound to it or runs
\* it, and none of the requests that read it before is under way.
Gone(v) ==
    /\ status[v] = "RETIRED"
    /\ active # v
    /\ validation[v] = NoValidation
    /\ \A a \in activations : a.version # v
    /\ \A s \in Services : v \notin {bound[s].version, publication[s].version, arriving[s], running[s]}

\* Such a version never comes back: once the requests that overlapped with its
\* retirement are through, its environment may be removed.  (A validation
\* completes and an activation goes on with the status read before,
\* repository.py 610-611 and 641-650; nobody takes up a version that is RETIRED
\* by now.)
RetiredStaysGone == [][\A v \in Versions : Gone(v) => Gone(v)']_vars

\* A retirement that started ends, although attempts time out and a restart
\* interrupts them (api.py 727-740), unless the version is used again and
\* again: by the label, a revision, or an invocation the restart orphaned.
RetirementCompletes ==
    \A v \in Versions :
        []<>(\/ status[v] # "RETIRING"
             \/ active = v \/ References(bound, v) # {}
             \/ \E s \in orphans : running[s] = v)
=============================================================================
