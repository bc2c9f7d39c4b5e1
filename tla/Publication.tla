----------------------------- MODULE Publication -----------------------------
(***************************************************************************)
(* The revisions of one service: publications (Git synchronisations and    *)
(* imports of an artifact), activation, stop, start and deletion; and the  *)
(* pushes to its branch that webhooks tell of.                             *)
(*                                                                         *)
(* An administrative request locks the row of the service and is one step. *)
(* A publication reads the service, builds for minutes, and stores its     *)
(* revision in a second transaction of the same session: the session never *)
(* expires its objects and SELECT ... FOR UPDATE does not refresh them, so *)
(* that transaction locks the row of today and decides on the row it read  *)
(* first.  Only attributes that differ from that row are written.          *)
(*                                                                         *)
(* A synchronisation is asked for by a webhook or an administrator, waits  *)
(* for the lock of the service, and only then looks at the branch.         *)
(***************************************************************************)
EXTENDS Naturals, FiniteSets

CONSTANTS
    Publications,  \* publications, each named like the revision it makes
    Syncs,         \* those of commits of the branch, numbered in its order
    FirstCommit,   \* the commit the branch begins with
    Requests,      \* webhook deliveries and requests to synchronise
    NoRevision

ASSUME PublicationAssumption ==
    /\ NoRevision \notin Publications
    /\ Syncs \subseteq Publications /\ Syncs \subseteq Nat
    /\ FirstCommit \in Syncs

NoTask == "none"

VARIABLES
    service,   \* Service.status and Service.active_revision_id
    revision,  \* Revision.status
    pub,       \* a publication: the service as it read it, or NotPublishing
    head,      \* Git: the last commit of the branch
    task,      \* the webhook or the synchronisation of a request
    overtaken, \* history: revisions activated while another was built, and routed past
    stop       \* history: what the service was stopped with, or was chosen since, and
               \* the publications under way when it was stopped

vars == <<service, revision, pub, head, task, overtaken, stop>>

NotStopped == [routed |-> NoRevision, crossing |-> {}]
NotPublishing == [status |-> "none", active |-> NoRevision]

Init ==
    /\ service = [status |-> "REGISTERED", active |-> NoRevision]
    /\ revision = [p \in Publications |-> "none"]
    /\ pub = [p \in Publications |-> NotPublishing]
    /\ head = FirstCommit
    /\ task = [t \in Requests |-> [stage |-> NoTask, commit |-> NoRevision]]
    /\ overtaken = {}
    /\ stop = NotStopped

Publishing == {p \in Publications : pub[p] # NotPublishing}
Building == {t \in Requests : task[t].stage = "building"}
Exists == service.status # "DELETED"

-----------------------------------------------------------------------------
(* Pushes, webhooks and synchronisations *)

Push ==
    /\ head' \in {c \in Syncs : head < c}
    /\ UNCHANGED <<service, revision, pub, task, overtaken, stop>>

Goto(t, stage) ==
    /\ task' = [task EXCEPT ![t].stage = stage]
    /\ UNCHANGED <<service, revision, pub, head, overtaken, stop>>

\* A delivery, of any push or repeated: the row of the service is read (mode
\* and token) before the body arrives.
ReceiveWebhook(t) == task[t].stage = NoTask /\ Exists /\ Goto(t, "received")

\* The body tells of a push to the branch: a background task is made, whatever
\* has become of the service.
AcceptWebhook(t) == task[t].stage = "received" /\ Goto(t, "waiting")

\* It tells of something else, is too long, or is not valid.
IgnoreWebhook(t) == task[t].stage = "received" /\ Goto(t, "ended")

\* sync_git_revision: an administrator asks.
RequestSync(t) == task[t].stage = NoTask /\ Goto(t, "waiting")

\* The manager stops while the task waits; it is not made again.
LoseTask(t) == task[t].stage \in {"received", "waiting"} /\ Goto(t, "failed")

\* Mutant: a synchronisation leaves the work to the one under way.
BeginSyncCoalesced(t) ==
    /\ task[t].stage = "waiting"
    /\ IF ~Exists \/ Building # {} \/ revision[head] # "none"
       THEN Goto(t, IF Exists THEN "ended" ELSE "failed")
       ELSE /\ task' = [task EXCEPT ![t] = [stage |-> "building", commit |-> head]]
            /\ pub' = [pub EXCEPT ![head] = service]
            /\ UNCHANGED <<service, revision, head, overtaken, stop>>

\* Mutant: without service_sync_locks.
BeginSyncUnlocked(t) ==
    /\ task[t].stage = "waiting"
    /\ pub[head] = NotPublishing
    /\ IF ~Exists \/ revision[head] # "none"
       THEN Goto(t, IF Exists THEN "ended" ELSE "failed")
       ELSE /\ task' = [task EXCEPT ![t] = [stage |-> "building", commit |-> head]]
            /\ pub' = [pub EXCEPT ![head] = service]
            /\ UNCHANGED <<service, revision, head, overtaken, stop>>

\* The lock is free: the service is read, then the branch.  A revision that
\* exists already is not published again.
BeginSync(t) ==
    /\ task[t].stage = "waiting"
    /\ Building = {}
    /\ IF ~Exists \/ revision[head] # "none"
       THEN Goto(t, IF Exists THEN "ended" ELSE "failed")
       ELSE /\ task' = [task EXCEPT ![t] = [stage |-> "building", commit |-> head]]
            /\ pub' = [pub EXCEPT ![head] = service]
            /\ UNCHANGED <<service, revision, head, overtaken, stop>>

\* A publication ends, and the synchronisation that made it.
EndPublication(p, stage) ==
    /\ pub' = [pub EXCEPT ![p] = NotPublishing]
    /\ task' = [t \in Requests |->
                  IF task[t].stage = "building" /\ task[t].commit = p
                  THEN [stage |-> stage, commit |-> NoRevision]
                  ELSE task[t]]

-----------------------------------------------------------------------------
(* Publications *)

\* import_revision: a revision that exists already fails in the end.
BeginImport(p) ==
    /\ p \notin Syncs
    /\ Exists
    /\ revision[p] = "none"
    /\ pub[p] = NotPublishing
    /\ pub' = [pub EXCEPT ![p] = service]
    /\ UNCHANGED <<service, revision, head, task, overtaken, stop>>

\* Git, the build, the profile or the store refused, or the manager stopped.
FailPublication(p) ==
    /\ p \in Publishing
    /\ EndPublication(p, "failed")
    /\ stop' = [stop EXCEPT !.crossing = @ \ {p}]
    /\ UNCHANGED <<service, revision, head, overtaken>>

\* The routed revision, if the publication does not know of it.
Passed(p) ==
    IF pub[p].status # "STOPPED" /\ service.active \notin {NoRevision, pub[p].active}
    THEN {service.active} ELSE {}

\* Mutant: a publication activates its revision also when the service is stopped.
PublishActive(p) ==
    /\ p \in Publishing
    /\ Exists
    /\ service' = [status |-> IF pub[p].status = "REGISTERED" THEN "ACTIVE" ELSE service.status,
                   active |-> p]
    /\ revision' = [r \in Publications |->
                      IF r = p THEN "ACTIVE" ELSE IF r = pub[p].active THEN "DRAINING" ELSE revision[r]]
    /\ EndPublication(p, "ended")
    /\ overtaken' = overtaken \cup Passed(p)
    /\ UNCHANGED <<head, stop>>

\* Mutant: a publication leaves the service ACTIVE, whatever it is by now.
PublishStarting(p) ==
    /\ p \in Publishing
    /\ Exists
    /\ service' = IF pub[p].status = "STOPPED" THEN service ELSE [status |-> "ACTIVE", active |-> p]
    /\ revision' = [r \in Publications |->
                      IF r = p THEN IF pub[p].status = "STOPPED" THEN "READY" ELSE "ACTIVE"
                      ELSE IF r = pub[p].active /\ pub[p].status # "STOPPED" THEN "DRAINING"
                      ELSE revision[r]]
    /\ EndPublication(p, "ended")
    /\ overtaken' = overtaken \cup Passed(p)
    /\ UNCHANGED <<head, stop>>

\* Mutant: the old revision is not drained.
PublishOverOld(p) ==
    /\ p \in Publishing
    /\ Exists
    /\ service' = IF pub[p].status = "STOPPED" THEN service
                  ELSE [status |-> IF pub[p].status = "REGISTERED" THEN "ACTIVE" ELSE service.status,
                        active |-> p]
    /\ revision' = [revision EXCEPT ![p] = IF pub[p].status = "STOPPED" THEN "READY" ELSE "ACTIVE"]
    /\ EndPublication(p, "ended")
    /\ overtaken' = overtaken \cup Passed(p)
    /\ UNCHANGED <<head, stop>>

\* create_revision and, unless the service was stopped, activate_revision.
Publish(p) ==
    /\ p \in Publishing
    /\ Exists
    /\ \/ /\ pub[p].status = "STOPPED"
          /\ revision' = [revision EXCEPT ![p] = "READY"]
          /\ UNCHANGED service
       \/ /\ pub[p].status # "STOPPED"
          /\ revision' = [r \in Publications |->
                            IF r = p THEN "ACTIVE"
                            ELSE IF r = pub[p].active THEN "DRAINING"
                            ELSE revision[r]]
          /\ service' = [status |-> IF pub[p].status = "REGISTERED" THEN "ACTIVE" ELSE service.status,
                         active |-> p]
    /\ EndPublication(p, "ended")
    /\ overtaken' = overtaken \cup Passed(p)
    /\ UNCHANGED <<head, stop>>

-----------------------------------------------------------------------------
(* Administration: one transaction each, on the row as it is *)

\* Mutant: whatever the revision's status is.
ActivateAny(p) ==
    /\ Exists
    /\ revision[p] # "none"
    /\ service' = [service EXCEPT !.active = p]
    /\ revision' = [revision EXCEPT ![p] = "READY"]
    /\ UNCHANGED <<pub, head, task, overtaken, stop>>

ActivateRevision(p) ==
    /\ Exists
    /\ revision[p] \in {"READY", "ACTIVE"}
    /\ revision' = [r \in Publications |->
                      IF r = p THEN "ACTIVE"
                      ELSE IF r = service.active THEN "DRAINING"
                      ELSE revision[r]]
    /\ service' = [status |-> IF service.status = "STOPPED" THEN "STOPPED" ELSE "ACTIVE",
                   active |-> p]
    /\ stop' = IF service.status = "STOPPED" THEN [stop EXCEPT !.routed = p] ELSE stop
    /\ UNCHANGED <<pub, head, task, overtaken>>

StopService ==
    /\ service.status = "ACTIVE"
    /\ service' = [service EXCEPT !.status = "STOPPED"]
    /\ stop' = [routed |-> service.active, crossing |-> Publishing]
    /\ UNCHANGED <<revision, pub, head, task, overtaken>>

StartService ==
    /\ service.status = "STOPPED"
    /\ service.active # NoRevision
    /\ revision[service.active] = "ACTIVE"
    /\ service' = [service EXCEPT !.status = "ACTIVE"]
    /\ stop' = NotStopped
    /\ UNCHANGED <<revision, pub, head, task, overtaken>>

\* Publications under way then fail on their foreign key.
DeleteService ==
    /\ Exists
    /\ service.status # "ACTIVE"
    /\ service' = [status |-> "DELETED", active |-> NoRevision]
    /\ revision' = [p \in Publications |-> "none"]
    /\ stop' = NotStopped
    /\ UNCHANGED <<pub, head, task, overtaken>>

Next ==
    \/ Push
    \/ \E t \in Requests :
          ReceiveWebhook(t) \/ AcceptWebhook(t) \/ IgnoreWebhook(t) \/ RequestSync(t) \/ LoseTask(t) \/ BeginSync(t)
    \/ \E p \in Publications :
          BeginImport(p) \/ FailPublication(p) \/ Publish(p) \/ ActivateRevision(p)
    \/ StopService \/ StartService \/ DeleteService

\* The lock serves those who wait for it, and a build ends one way or the other.
Fairness ==
    /\ \A t \in Requests : SF_vars(BeginSync(t))
    /\ \A p \in Syncs : WF_vars(Publish(p) \/ FailPublication(p))

Spec == Init /\ [][Next]_vars /\ Fairness

-----------------------------------------------------------------------------
(* Properties *)

ServiceRows ==
    [status : {"REGISTERED", "ACTIVE", "STOPPED", "DELETED"}, active : Publications \cup {NoRevision}]

\* Every variable keeps its type, and no publication is under way for a
\* revision that is stored already (models.py 155).
TypeOK ==
    /\ service \in ServiceRows
    /\ revision \in [Publications -> {"none", "READY", "ACTIVE", "DRAINING"}]
    /\ pub \in [Publications -> ServiceRows \cup {NotPublishing}]
    /\ head \in Syncs
    /\ task \in [Requests -> [stage : {NoTask, "received", "waiting", "building", "ended", "failed"},
                              commit : Syncs \cup {NoRevision}]]
    /\ \A p \in Publishing : revision[p] = "none"
    /\ stop \in [routed : Publications \cup {NoRevision}, crossing : SUBSET Publications]

\* The revision that requests are routed to is ACTIVE: resolve_endpoint
\* (repository.py 1293-1323) finds it whatever overlapped.
RoutedRevisionIsActive ==
    service.active # NoRevision => revision[service.active] = "ACTIVE"

\* "Atomically activate a revision in PostgreSQL and drain the old revision"
\* (README.md 15): no other revision than the routed one is ACTIVE, but for
\* those that were activated while a later one was being built.
OneActiveRevision ==
    \A p \in Publications : revision[p] = "ACTIVE" => p = service.active \/ p \in overtaken

\* A stopped service has a revision that it can be started with: the one it was
\* stopped with ("starting it again ... restores that same Revision", README.md
\* 207-211), the one that was activated since, or one that was being published
\* when it was stopped.  And it stays stopped until it is started: "Publishing
\* while stopped creates a READY Revision but does not implicitly start the
\* service."  Also a publication that saw the service ACTIVE does not start it,
\* only one that saw it before its first revision.
StopIsKept ==
    [][service.status = "STOPPED" =>
         /\ service.active \in Publications \cap (stop.crossing \cup {stop.routed})
         /\ service'.status = "ACTIVE" =>
              \/ pub' = pub /\ service'.active = service.active
              \/ \E p \in stop.crossing : pub[p].status = "REGISTERED" /\ pub'[p] = NotPublishing]_vars

\* Synchronisations store the commits of a branch in the order of the branch,
\* in whatever order webhooks arrive and although a build takes minutes: none
\* stores an older commit after a later one (synchronize_git_revision).
PublishedInOrder ==
    [][\A p, q \in Syncs :
         p < q /\ revision[p] = "none" /\ revision[q] # "none" => revision'[p] = "none"]_vars

\* A push whose webhook was accepted is published, or a later one is, unless
\* the synchronisation fails: it is not absorbed by one that began before.
AcceptedPushIsPublished ==
    \A t \in Requests, c \in Syncs :
        (task[t].stage = "waiting" /\ head = c)
            ~> (task[t].stage = "failed" \/ \E d \in Syncs : c <= d /\ revision[d] # "none")
=============================================================================
