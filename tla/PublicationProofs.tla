-------------------------- MODULE PublicationProofs --------------------------
(***************************************************************************)
(* The routed revision of a service is ACTIVE, and no other but those a    *)
(* later publication passed over, for any set of publications and however  *)
(* they overlap.  A publication takes the status of the revision it once   *)
(* saw routed; the invariant says why that is never the one routed today   *)
(* nor one still to be stored: what a publication stores is new, and what  *)
(* it saw exists as long as the service does.                              *)
(*                                                                         *)
(* Synchronisations store the commits of a branch in their order: the one  *)
(* that builds began with the last commit there was, and it is alone.      *)
(***************************************************************************)
EXTENDS Publication, TLAPS

\* What a publication saw routed is stored, until the service is deleted.
SeenRevisionExists ==
    Exists => \A p \in Publications :
                 pub[p].active # NoRevision => revision[pub[p].active] # "none"

\* A commit that is built has the task that holds the lock.
BuildHasTask ==
    \A c \in Syncs : c \in Publishing =>
        \E t \in Requests : task[t].stage = "building" /\ task[t].commit = c

OneBuilds == \A t, u \in Requests : t \in Building /\ u \in Building => t = u

\* Nothing is stored or built that the branch does not have.
BehindHead ==
    \A c \in Syncs : revision[c] # "none" \/ c \in Publishing => c <= head

\* What is built is later than all that is stored.
BuildIsNewest ==
    \A c, d \in Syncs : c \in Publishing /\ revision[d] # "none" => d < c

\* While the service is stopped, what is routed is what it was stopped with or
\* chosen since, or was published by a publication under way then; the others
\* under way now saw it stopped.
StopBooks ==
    /\ service.status = "ACTIVE" => service.active \in Publications
    /\ service.status = "STOPPED" =>
         /\ service.active \in Publications \cap (stop.crossing \cup {stop.routed})
         /\ \A p \in Publishing \ stop.crossing : pub[p].status = "STOPPED"

Core == TypeOK /\ RoutedRevisionIsActive /\ SeenRevisionExists /\ OneActiveRevision
InOrder == BuildHasTask /\ OneBuilds /\ BehindHead /\ BuildIsNewest

\* A registered service has no revision and no publication.
LEMMA InitCore == Init => Core /\ InOrder
<1> SUFFICES ASSUME Init PROVE Core /\ InOrder
  OBVIOUS
<1> USE PublicationAssumption DEF Init
<1>1. Core
  BY DEF Core, TypeOK, RoutedRevisionIsActive, SeenRevisionExists, OneActiveRevision,
         ServiceRows, Publishing, NotPublishing, NoTask, NotStopped
<1>2. Publishing = {} /\ Building = {}
  BY DEF Publishing, Building, NoTask
<1>3. InOrder
  BY <1>2 DEF InOrder, BuildHasTask, OneBuilds, BehindHead, BuildIsNewest
<1> QED
  BY <1>1, <1>3

\* What the end of a publication leaves of the publications and the tasks.
LEMMA EndOf ==
  ASSUME TypeOK, NEW p \in Publications, NEW stage \in {"ended", "failed"}, EndPublication(p, stage)
  PROVE  /\ pub' \in [Publications -> ServiceRows \cup {NotPublishing}]
         /\ pub'[p] = NotPublishing
         /\ \A q \in Publications : q # p => pub'[q] = pub[q]
         /\ task' \in [Requests -> [stage : {NoTask, "received", "waiting", "building", "ended", "failed"},
                                    commit : Syncs \cup {NoRevision}]]
         /\ \A t \in Requests : task'[t].stage = "building" => task'[t] = task[t] /\ task[t].commit # p
         /\ \A t \in Requests : task[t].stage = "building" /\ task[t].commit # p => task'[t] = task[t]
<1>1. pub' = [pub EXCEPT ![p] = NotPublishing]
      /\ task' = [t \in Requests |->
                    IF task[t].stage = "building" /\ task[t].commit = p
                    THEN [stage |-> stage, commit |-> NoRevision]
                    ELSE task[t]]
  BY DEF EndPublication
<1>2. pub \in [Publications -> ServiceRows \cup {NotPublishing}]
      /\ task \in [Requests -> [stage : {NoTask, "received", "waiting", "building", "ended", "failed"},
                                commit : Syncs \cup {NoRevision}]]
  BY DEF TypeOK
<1>3. ASSUME NEW t \in Requests
      PROVE  /\ task'[t] \in [stage : {NoTask, "received", "waiting", "building", "ended", "failed"},
                              commit : Syncs \cup {NoRevision}]
             /\ task'[t].stage = "building" => task'[t] = task[t] /\ task[t].commit # p
             /\ task[t].stage = "building" /\ task[t].commit # p => task'[t] = task[t]
  BY <1>1, <1>2 DEF NoTask
<1> QED
  BY <1>1, <1>2, <1>3

\* Storing the revision of a publication (create_revision, activate_revision)
\* keeps the invariant, whatever happened since it read the service.
LEMMA PublishKeepsCore ==
  ASSUME Core, NEW p \in Publications, Publish(p)
  PROVE  Core'
<1> USE PublicationAssumption
<1> USE DEF Core, TypeOK, RoutedRevisionIsActive, SeenRevisionExists, OneActiveRevision, ServiceRows,
            Publishing, NotPublishing, Exists
<1>1. /\ pub[p] \in ServiceRows /\ pub[p] # NotPublishing
      /\ service.status # "DELETED" /\ revision[p] = "none"
      /\ EndPublication(p, "ended")
      /\ overtaken' = overtaken \cup Passed(p)
      /\ head' = head /\ stop' = stop
  BY DEF Publish
<1>2. /\ pub' \in [Publications -> ServiceRows \cup {NotPublishing}]
      /\ pub'[p] = NotPublishing
      /\ \A q \in Publications : q # p => pub'[q] = pub[q]
      /\ task' \in [Requests -> [stage : {NoTask, "received", "waiting", "building", "ended", "failed"},
                                 commit : Syncs \cup {NoRevision}]]
  BY <1>1, EndOf
<1>3. CASE pub[p].status = "STOPPED"
  <2>1. revision' = [revision EXCEPT ![p] = "READY"] /\ service' = service
    BY <1>3 DEF Publish
  <2>2. TypeOK'
    BY <1>1, <1>2, <2>1
  <2>3. RoutedRevisionIsActive' /\ SeenRevisionExists'
    BY <1>1, <1>2, <2>1
  <2>4. OneActiveRevision'
    BY <1>1, <2>1
  <2> QED
    BY <2>2, <2>3, <2>4
<1>4. CASE pub[p].status # "STOPPED"
  <2>1. /\ service' = [status |-> IF pub[p].status = "REGISTERED" THEN "ACTIVE" ELSE service.status,
                       active |-> p]
        /\ revision' = [r \in Publications |->
                          IF r = p THEN "ACTIVE"
                          ELSE IF r = pub[p].active THEN "DRAINING"
                          ELSE revision[r]]
    BY <1>4 DEF Publish
  <2>2. service' \in ServiceRows /\ service'.active = p
    BY <2>1, <1>1
  <2>3. revision' \in [Publications -> {"none", "READY", "ACTIVE", "DRAINING"}]
    BY <2>1
  <2>4. \A r \in Publications : revision[r] # "none" => revision'[r] # "none"
    BY <2>1
  <2>5. ASSUME NEW q \in Publications, pub'[q] # NotPublishing PROVE revision'[q] = "none"
    <3>1. q # p /\ pub[q] # NotPublishing /\ revision[q] = "none"
      BY <2>5, <1>2
    <3>2. q # pub[p].active
      BY <3>1, <1>1
    <3> QED
      BY <3>1, <3>2, <2>1
  <2>6. ASSUME NEW q \in Publications, pub'[q].active # NoRevision
        PROVE  revision'[pub'[q].active] # "none"
    <3>1. pub'[q] = pub[q] /\ pub[q] \in ServiceRows
      BY <2>6, <1>2
    <3>2. pub[q].active \in Publications /\ revision[pub[q].active] # "none"
      BY <3>1, <2>6, <1>1
    <3> QED
      BY <3>1, <3>2, <2>4
  <2>7. revision'[service'.active] = "ACTIVE"
    BY <2>1, <2>2
  <2>8. ASSUME NEW r \in Publications, revision'[r] = "ACTIVE", r # p
        PROVE  r \in overtaken'
    <3>1. r # pub[p].active /\ revision[r] = "ACTIVE"
      BY <2>8, <2>1
    <3>2. CASE r = service.active
      <4>1. service.active \notin {NoRevision, pub[p].active}
        BY <3>1, <3>2
      <4> QED
        BY <4>1, <3>2, <1>4, <1>1 DEF Passed
    <3>3. CASE r # service.active
      BY <3>1, <3>3, <1>1
    <3> QED
      BY <3>2, <3>3
  <2>9. TypeOK'
    BY <1>1, <1>2, <2>2, <2>3, <2>5
  <2> QED
    BY <2>2, <2>6, <2>7, <2>8, <2>9
<1> QED
  BY <1>3, <1>4

\* So does activating a revision by hand (activate_revision).
LEMMA ActivateKeepsCore ==
  ASSUME Core, NEW p \in Publications, ActivateRevision(p)
  PROVE  Core'
<1> USE PublicationAssumption
<1> USE DEF Core, TypeOK, RoutedRevisionIsActive, SeenRevisionExists, OneActiveRevision, ServiceRows,
            Publishing, NotPublishing, Exists
<1>1. /\ service.status # "DELETED" /\ revision[p] # "none" /\ UNCHANGED <<pub, head, task, overtaken>>
      /\ stop' \in {stop, [stop EXCEPT !.routed = p]}
      /\ service' = [status |-> IF service.status = "STOPPED" THEN "STOPPED" ELSE "ACTIVE",
                     active |-> p]
      /\ revision' = [r \in Publications |->
                        IF r = p THEN "ACTIVE"
                        ELSE IF r = service.active THEN "DRAINING"
                        ELSE revision[r]]
  BY DEF ActivateRevision
<1>2. \A r \in Publications : (revision'[r] = "none") <=> (revision[r] = "none")
  BY <1>1
<1>3. revision'[p] = "ACTIVE" /\ service'.active = p
  BY <1>1
<1>4. TypeOK'
  BY <1>1, <1>2
<1>5. SeenRevisionExists'
  BY <1>1, <1>2
<1>6. OneActiveRevision'
  BY <1>1, <1>3
<1> QED
  BY <1>3, <1>4, <1>5, <1>6

\* Taking the lock and looking at the branch (synchronize_git_revision).
LEMMA BeginSyncKeeps ==
  ASSUME Core, InOrder, NEW t \in Requests, BeginSync(t)
  PROVE  Core' /\ InOrder'
<1> USE PublicationAssumption
<1>1. CASE ~Exists \/ revision[head] # "none"
  <2>1. task' = [task EXCEPT ![t].stage = IF Exists THEN "ended" ELSE "failed"]
        /\ UNCHANGED <<service, revision, pub, head, overtaken, stop>>
    BY <1>1 DEF BeginSync, Goto
  <2>2. task' \in [Requests -> [stage : {NoTask, "received", "waiting", "building", "ended", "failed"},
                                commit : Syncs \cup {NoRevision}]]
    BY <2>1 DEF Core, TypeOK
  <2>3. Core'
    BY <2>1, <2>2 DEF Core, TypeOK, RoutedRevisionIsActive, SeenRevisionExists, OneActiveRevision, Publishing, Exists
  <2>4. Building = {} /\ Building' = {}
    BY <2>1 DEF BeginSync, Building, Core, TypeOK
  <2>5. \A c \in Syncs : c \notin Publishing
    BY <2>4 DEF InOrder, BuildHasTask, Building
  <2>6. Publishing' = Publishing
    BY <2>1 DEF Publishing
  <2>7. InOrder'
    BY <2>1, <2>4, <2>5, <2>6 DEF InOrder, BuildHasTask, OneBuilds, BehindHead, BuildIsNewest
  <2> QED
    BY <2>3, <2>7
<1>2. CASE Exists /\ revision[head] = "none"
  <2>1. /\ task' = [task EXCEPT ![t] = [stage |-> "building", commit |-> head]]
        /\ pub' = [pub EXCEPT ![head] = service]
        /\ UNCHANGED <<service, revision, head, overtaken, stop>>
        /\ Building = {}
        /\ head \in Syncs /\ head \in Publications
    BY <1>2 DEF BeginSync, Core, TypeOK
  <2>2. service # NotPublishing /\ service \in ServiceRows
    BY <1>2 DEF Core, TypeOK, ServiceRows, NotPublishing, Exists
  <2>3. TypeOK'
    <3>1. task' \in [Requests -> [stage : {NoTask, "received", "waiting", "building", "ended", "failed"},
                                  commit : Syncs \cup {NoRevision}]]
      BY <2>1 DEF Core, TypeOK
    <3>2. pub' \in [Publications -> ServiceRows \cup {NotPublishing}]
      BY <2>1, <2>2 DEF Core, TypeOK
    <3>3. \A p \in Publications : pub'[p] # NotPublishing => revision'[p] = "none"
      BY <1>2, <2>1 DEF Core, TypeOK, Publishing
    <3> QED
      BY <2>1, <3>1, <3>2, <3>3 DEF Core, TypeOK, Publishing
  <2>4. SeenRevisionExists'
    BY <1>2, <2>1, <2>2 DEF Core, TypeOK, SeenRevisionExists, RoutedRevisionIsActive, ServiceRows, Exists
  <2>5. RoutedRevisionIsActive' /\ OneActiveRevision'
    BY <2>1 DEF Core, RoutedRevisionIsActive, OneActiveRevision
  <2>6. \A c \in Syncs : c \notin Publishing
    BY <2>1 DEF InOrder, BuildHasTask, Building
  <2>7. \A c \in Syncs : c \in Publishing' => c = head
    BY <2>1, <2>6 DEF Publishing, Core, TypeOK
  <2>8. /\ task'[t].stage = "building" /\ task'[t].commit = head
        /\ \A u \in Requests : u # t => task'[u].stage # "building"
    BY <2>1 DEF Core, TypeOK, Building
  <2>9. BuildHasTask'
    BY <2>1, <2>7, <2>8 DEF BuildHasTask
  <2>10. OneBuilds'
    BY <2>8 DEF OneBuilds, Building
  <2>11. BehindHead'
    <3>1. head <= head
      BY <2>1
    <3> QED
      BY <2>1, <2>7, <3>1 DEF InOrder, BehindHead
  <2>12. BuildIsNewest'
    <3>1. ASSUME NEW d \in Syncs, revision[d] # "none" PROVE d < head
      <4>1. d <= head /\ d # head
        BY <1>2, <3>1 DEF InOrder, BehindHead
      <4> QED
        BY <4>1, <2>1
    <3> QED
      BY <2>1, <2>7, <3>1 DEF BuildIsNewest
  <2> QED
    BY <2>3, <2>4, <2>5, <2>9, <2>10, <2>11, <2>12 DEF Core, InOrder
<1> QED
  BY <1>1, <1>2

\* A publication that ends leaves the order of the others, also if its
\* revision is stored: the lock says that no other commit is being built.
LEMMA EndKeepsOrder ==
  ASSUME Core, InOrder, NEW p \in Publications, NEW stage \in {"ended", "failed"}, EndPublication(p, stage),
         p \in Publishing, head' = head,
         \A r \in Publications : r # p => ((revision'[r] = "none") <=> (revision[r] = "none"))
  PROVE  InOrder'
<1> USE PublicationAssumption
<1>1. /\ pub'[p] = NotPublishing
      /\ \A q \in Publications : q # p => pub'[q] = pub[q]
      /\ \A t \in Requests : task'[t].stage = "building" => task'[t] = task[t] /\ task[t].commit # p
      /\ \A t \in Requests : task[t].stage = "building" /\ task[t].commit # p => task'[t] = task[t]
  BY EndOf DEF Core
<1>2. \A c \in Syncs : c \in Publishing' => c \in Publishing /\ c # p
  BY <1>1 DEF Publishing
<1>3. BuildHasTask'
  <2> SUFFICES ASSUME NEW c \in Syncs, c \in Publishing'
               PROVE  \E t \in Requests : task'[t].stage = "building" /\ task'[t].commit = c
    BY DEF BuildHasTask
  <2>1. PICK t \in Requests : task[t].stage = "building" /\ task[t].commit = c
    BY <1>2 DEF InOrder, BuildHasTask
  <2>2. task'[t] = task[t]
    BY <2>1, <1>1, <1>2
  <2> QED
    BY <2>1, <2>2
<1>4. OneBuilds'
  BY <1>1 DEF InOrder, OneBuilds, Building
<1>5. BehindHead'
  BY <1>2 DEF InOrder, BehindHead
<1>6. BuildIsNewest'
  <2> SUFFICES ASSUME NEW c \in Syncs, NEW d \in Syncs, c \in Publishing', revision'[d] # "none"
               PROVE  d < c
    BY DEF BuildIsNewest
  <2>1. c \in Publishing /\ c # p
    BY <1>2
  <2>2. CASE d # p
    BY <2>1, <2>2 DEF InOrder, BuildIsNewest
  <2>3. CASE d = p
    <3>1. PICK t \in Requests : task[t].stage = "building" /\ task[t].commit = c
      BY <2>1 DEF InOrder, BuildHasTask
    <3>2. PICK u \in Requests : task[u].stage = "building" /\ task[u].commit = d
      BY <2>3 DEF InOrder, BuildHasTask
    <3>3. t = u
      BY <3>1, <3>2 DEF InOrder, OneBuilds, Building
    <3> QED
      BY <3>1, <3>2, <3>3, <2>1, <2>3
  <2> QED
    BY <2>2, <2>3
<1> QED
  BY <1>3, <1>4, <1>5, <1>6 DEF InOrder

\* A request that goes on before or instead of building.
LEMMA GotoKeeps ==
  ASSUME Core, InOrder, NEW t \in Requests, NEW stage \in {"received", "waiting", "ended", "failed"},
         task[t].stage # "building", Goto(t, stage)
  PROVE  Core' /\ InOrder'
<1>1. task' = [task EXCEPT ![t].stage = stage]
      /\ UNCHANGED <<service, revision, pub, head, overtaken, stop>>
  BY DEF Goto
<1>2. task' \in [Requests -> [stage : {NoTask, "received", "waiting", "building", "ended", "failed"},
                              commit : Syncs \cup {NoRevision}]]
  BY <1>1 DEF Core, TypeOK
<1>3. Core'
  BY <1>1, <1>2 DEF Core, TypeOK, RoutedRevisionIsActive, SeenRevisionExists, OneActiveRevision, Publishing, Exists
<1>4. \A u \in Requests : (task'[u].stage = "building" <=> task[u].stage = "building") /\ (u # t => task'[u] = task[u])
  BY <1>1 DEF Core, TypeOK
<1>5. Publishing' = Publishing
  BY <1>1 DEF Publishing
<1>6. BuildHasTask'
  BY <1>4, <1>5 DEF InOrder, BuildHasTask
<1>7. OneBuilds'
  BY <1>4 DEF InOrder, OneBuilds, Building
<1>8. BehindHead' /\ BuildIsNewest'
  BY <1>1, <1>5 DEF InOrder, BehindHead, BuildIsNewest
<1> QED
  BY <1>3, <1>6, <1>7, <1>8 DEF InOrder

\* Every step keeps the invariant.
LEMMA NextKeeps == Core /\ InOrder /\ [Next]_vars => Core' /\ InOrder'
<1> SUFFICES ASSUME Core, InOrder, [Next]_vars PROVE Core' /\ InOrder'
  OBVIOUS
<1> USE PublicationAssumption
<1>1. CASE UNCHANGED vars
  BY <1>1 DEF vars, Core, InOrder, TypeOK, RoutedRevisionIsActive, SeenRevisionExists, OneActiveRevision,
              Publishing, Exists, BuildHasTask, OneBuilds, BehindHead, BuildIsNewest, Building
<1>2. CASE Push
  <2>1. head' \in Syncs /\ head < head' /\ UNCHANGED <<service, revision, pub, task, overtaken, stop>> /\ head \in Syncs
    BY <1>2 DEF Push, Core, TypeOK
  <2>2. Core'
    BY <2>1 DEF Core, TypeOK, RoutedRevisionIsActive, SeenRevisionExists, OneActiveRevision, Publishing, Exists
  <2>3. Publishing' = Publishing /\ Building' = Building
    BY <2>1 DEF Publishing, Building
  <2>4. BehindHead'
    BY <2>1, <2>3 DEF InOrder, BehindHead
  <2> QED
    BY <2>1, <2>2, <2>3, <2>4 DEF InOrder, BuildHasTask, OneBuilds, BuildIsNewest
<1>3. ASSUME NEW t \in Requests,
             ReceiveWebhook(t) \/ AcceptWebhook(t) \/ IgnoreWebhook(t) \/ RequestSync(t) \/ LoseTask(t)
      PROVE  Core' /\ InOrder'
  <2>1. /\ task[t].stage # "building"
        /\ \E stage \in {"received", "waiting", "ended", "failed"} : Goto(t, stage)
    BY <1>3 DEF ReceiveWebhook, AcceptWebhook, IgnoreWebhook, RequestSync, LoseTask, NoTask
  <2>2. PICK stage \in {"received", "waiting", "ended", "failed"} : Goto(t, stage)
    BY <2>1
  <2> QED
    BY <2>1, <2>2, GotoKeeps
<1>4. ASSUME NEW t \in Requests, BeginSync(t) PROVE Core' /\ InOrder'
  BY <1>4, BeginSyncKeeps
<1>5. ASSUME NEW p \in Publications, BeginImport(p) PROVE Core' /\ InOrder'
  <2>1. /\ p \notin Syncs /\ Exists /\ revision[p] = "none"
        /\ pub' = [pub EXCEPT ![p] = service]
        /\ UNCHANGED <<service, revision, head, task, overtaken, stop>>
    BY <1>5 DEF BeginImport
  <2>2. Core'
    BY <2>1 DEF Core, TypeOK, RoutedRevisionIsActive, SeenRevisionExists, OneActiveRevision,
                Publishing, Exists, ServiceRows, NotPublishing
  <2>3. \A c \in Syncs : c \in Publishing' <=> c \in Publishing
    BY <2>1 DEF Publishing, Core, TypeOK
  <2> QED
    BY <2>1, <2>2, <2>3 DEF InOrder, BuildHasTask, OneBuilds, BehindHead, BuildIsNewest, Building
<1>6. ASSUME NEW p \in Publications, FailPublication(p) PROVE Core' /\ InOrder'
  <2>1. p \in Publishing /\ EndPublication(p, "failed") /\ UNCHANGED <<service, revision, head, overtaken>>
        /\ stop' = [stop EXCEPT !.crossing = @ \ {p}]
    BY <1>6 DEF FailPublication
  <2>2. /\ pub' \in [Publications -> ServiceRows \cup {NotPublishing}]
        /\ pub'[p] = NotPublishing
        /\ \A q \in Publications : q # p => pub'[q] = pub[q]
        /\ task' \in [Requests -> [stage : {NoTask, "received", "waiting", "building", "ended", "failed"},
                                   commit : Syncs \cup {NoRevision}]]
    BY <2>1, EndOf DEF Core
  <2>3. TypeOK'
    <3>1. stop' \in [routed : Publications \cup {NoRevision}, crossing : SUBSET Publications]
      BY <2>1 DEF Core, TypeOK
    <3>2. \A q \in Publications : pub'[q] # NotPublishing => revision'[q] = "none"
      BY <2>1, <2>2 DEF Core, TypeOK, Publishing
    <3> QED
      BY <2>1, <2>2, <3>1, <3>2 DEF Core, TypeOK, Publishing
  <2>4. Core'
    BY <2>1, <2>2, <2>3 DEF Core, RoutedRevisionIsActive, SeenRevisionExists, OneActiveRevision, Exists, NotPublishing
  <2> QED
    BY <2>1, <2>4, EndKeepsOrder
<1>7. ASSUME NEW p \in Publications, Publish(p) PROVE Core' /\ InOrder'
  <2>1. Core'
    BY <1>7, PublishKeepsCore
  <2>2. p \in Publishing /\ EndPublication(p, "ended") /\ head' = head
    BY <1>7 DEF Publish
  <2>3. pub[p].active # NoRevision => pub[p].active \in Publications /\ revision[pub[p].active] # "none"
    BY <1>7 DEF Publish, Core, TypeOK, SeenRevisionExists, Publishing, ServiceRows, NotPublishing
  <2>4. \A r \in Publications : r # p => ((revision'[r] = "none") <=> (revision[r] = "none"))
    BY <1>7, <2>3 DEF Publish, Core, TypeOK
  <2> QED
    BY <2>1, <2>2, <2>4, EndKeepsOrder
<1>8. ASSUME NEW p \in Publications, ActivateRevision(p) PROVE Core' /\ InOrder'
  <2>1. UNCHANGED <<pub, head, task, overtaken>>
        /\ \A r \in Publications : (revision'[r] = "none") <=> (revision[r] = "none")
    BY <1>8 DEF ActivateRevision, Core, TypeOK, RoutedRevisionIsActive
  <2>2. Publishing' = Publishing /\ Building' = Building
    BY <2>1 DEF Publishing, Building
  <2> QED
    BY <1>8, <2>1, <2>2, ActivateKeepsCore DEF InOrder, BuildHasTask, OneBuilds, BehindHead, BuildIsNewest
<1>9. ASSUME StopService \/ StartService \/ DeleteService PROVE Core' /\ InOrder'
  <2>1. Core'
    BY <1>9 DEF StopService, StartService, DeleteService, Core, TypeOK, RoutedRevisionIsActive, SeenRevisionExists,
                OneActiveRevision, Publishing, Exists, ServiceRows, NotPublishing, NotStopped
  <2>2. UNCHANGED <<pub, head, task>> /\ \A r \in Publications : revision'[r] # "none" => revision[r] # "none"
    BY <1>9 DEF StopService, StartService, DeleteService
  <2>3. Publishing' = Publishing /\ Building' = Building
    BY <2>2 DEF Publishing, Building
  <2> QED
    BY <2>1, <2>2, <2>3 DEF InOrder, BuildHasTask, OneBuilds, BehindHead, BuildIsNewest
<1> QED
  BY <1>1, <1>2, <1>3, <1>4, <1>5, <1>6, <1>7, <1>8, <1>9 DEF Next

\* The invariant holds in every state of every behaviour.
THEOREM Invariance == Spec => [](Core /\ InOrder)
  BY InitCore, NextKeeps, PTL DEF Spec

\* Every variable keeps its type and no publication is under way for a
\* revision that is stored already (the unique content of a revision).
THEOREM TypeCorrect == Spec => []TypeOK
  BY Invariance, PTL DEF Core

\* resolve_endpoint always finds the routed revision ACTIVE, however
\* publications, activations, stops and deletions overlap.
THEOREM RoutedRevision == Spec => []RoutedRevisionIsActive
  BY Invariance, PTL DEF Core

\* Only a revision that was activated while a later one was built stays ACTIVE
\* beside the routed one (activate_revision drains the one it knows of).
THEOREM OneActive == Spec => []OneActiveRevision
  BY Invariance, PTL DEF Core

\* One step stores a commit only before all later ones.
LEMMA StoredInOrder ==
  Core /\ InOrder /\ [Next]_vars =>
    \A p, q \in Syncs : p < q /\ revision[p] = "none" /\ revision[q] # "none" => revision'[p] = "none"
<1> SUFFICES ASSUME Core, InOrder, [Next]_vars, NEW p \in Syncs, NEW q \in Syncs,
                    p < q, revision[p] = "none", revision[q] # "none", revision'[p] # "none"
             PROVE  FALSE
  OBVIOUS
<1> USE PublicationAssumption
<1>1. PICK r \in Publications : Publish(r)
  <2>1. revision' # revision
    OBVIOUS
  <2>2. ASSUME NEW r \in Publications, ActivateRevision(r) PROVE FALSE
    BY <2>2 DEF ActivateRevision, Core, TypeOK, RoutedRevisionIsActive
  <2>3. ASSUME DeleteService PROVE FALSE
    BY <2>3 DEF DeleteService
  <2> QED
    BY <2>1, <2>2, <2>3 DEF Next, vars, Push, ReceiveWebhook, AcceptWebhook, IgnoreWebhook, RequestSync, LoseTask,
                            BeginSync, Goto, BeginImport, FailPublication, StopService, StartService
<1>2. r = p
  <2>1. pub[r].active # NoRevision => pub[r].active \in Publications /\ revision[pub[r].active] # "none"
    BY <1>1 DEF Publish, Core, TypeOK, SeenRevisionExists, Publishing, ServiceRows, NotPublishing
  <2> QED
    BY <1>1, <2>1 DEF Publish, Core, TypeOK
<1>3. p \in Publishing
  BY <1>1, <1>2 DEF Publish
<1>4. q < p
  BY <1>3 DEF InOrder, BuildIsNewest
<1> QED
  BY <1>4

\* Synchronisations store commits in the order of the branch, for any number
\* of commits, webhooks and requests.
THEOREM CommitsInOrder == Spec => PublishedInOrder
<1>1. Core /\ InOrder /\ [Next]_vars =>
        [\A p, q \in Syncs : p < q /\ revision[p] = "none" /\ revision[q] # "none" => revision'[p] = "none"]_vars
  BY StoredInOrder
<1> QED
  BY <1>1, Invariance, PTL DEF Spec, PublishedInOrder

\* What a stop leaves: each step keeps the books of the last stop.
LEMMA NextKeepsStop == Core /\ StopBooks /\ [Next]_vars => StopBooks'
<1> SUFFICES ASSUME Core, StopBooks, [Next]_vars PROVE StopBooks'
  OBVIOUS
<1> USE PublicationAssumption DEF StopBooks
<1>1. CASE UNCHANGED <<service, pub, stop>>
  BY <1>1 DEF Publishing
<1>2. ASSUME NEW p \in Publications, pub' = [pub EXCEPT ![p] = service], UNCHANGED <<service, stop>>
      PROVE  StopBooks'
  BY <1>2 DEF Publishing, Core, TypeOK
<1>3. ASSUME NEW p \in Publications, FailPublication(p) PROVE StopBooks'
  <2>1. /\ pub'[p] = NotPublishing /\ \A q \in Publications : q # p => pub'[q] = pub[q]
        /\ stop' = [stop EXCEPT !.crossing = @ \ {p}] /\ service' = service
        /\ p \in Publishing
    BY <1>3 DEF FailPublication, EndPublication, Core, TypeOK
  <2>2. stop'.routed = stop.routed /\ stop'.crossing = stop.crossing \ {p}
    BY <2>1 DEF Core, TypeOK
  <2>3. service.active # p
    BY <2>1 DEF Core, TypeOK, RoutedRevisionIsActive
  <2> QED BY <2>1, <2>2, <2>3 DEF Publishing
<1>4. ASSUME NEW p \in Publications, Publish(p) PROVE StopBooks'
  <2>1. /\ pub'[p] = NotPublishing /\ \A q \in Publications : q # p => pub'[q] = pub[q]
        /\ stop' = stop /\ p \in Publishing /\ service.status # "DELETED"
    BY <1>4 DEF Publish, EndPublication, Core, TypeOK, Exists
  <2>2. CASE service' = service
    BY <2>1, <2>2 DEF Publishing
  <2>3. CASE service' # service
    <3>1. /\ pub[p].status # "STOPPED"
          /\ service'.active = p
          /\ service'.status \in {"ACTIVE", service.status}
      BY <1>4, <2>3 DEF Publish
    <3>2. service.status = "STOPPED" => p \in stop.crossing
      BY <2>1, <3>1
    <3>3. service'.status = "STOPPED" => service.status = "STOPPED"
      BY <3>1
    <3> QED BY <2>1, <3>1, <3>2, <3>3 DEF Publishing
  <2> QED BY <2>2, <2>3
<1>5. ASSUME NEW p \in Publications, ActivateRevision(p) PROVE StopBooks'
  <2>1. /\ service' = [status |-> IF service.status = "STOPPED" THEN "STOPPED" ELSE "ACTIVE", active |-> p]
        /\ stop' = IF service.status = "STOPPED" THEN [stop EXCEPT !.routed = p] ELSE stop
        /\ pub' = pub
    BY <1>5 DEF ActivateRevision
  <2>2. service.status = "STOPPED" => stop'.routed = p /\ stop'.crossing = stop.crossing
    BY <2>1 DEF Core, TypeOK
  <2> QED BY <2>1, <2>2 DEF Publishing
<1>6. CASE StopService
  <2>1. /\ service.status = "ACTIVE" /\ service'.active = service.active /\ pub' = pub
        /\ service'.status = "STOPPED"
        /\ stop' = [routed |-> service.active, crossing |-> Publishing]
    BY <1>6 DEF StopService, Core, TypeOK, ServiceRows
  <2> QED BY <2>1 DEF Publishing
<1>7. CASE StartService
  BY <1>7 DEF StartService, Core, TypeOK, ServiceRows
<1>8. CASE DeleteService
  BY <1>8 DEF DeleteService
<1>9. ASSUME NEW t \in Requests,
             ReceiveWebhook(t) \/ AcceptWebhook(t) \/ IgnoreWebhook(t) \/ RequestSync(t) \/ LoseTask(t)
      PROVE  StopBooks'
  BY <1>1, <1>9 DEF ReceiveWebhook, AcceptWebhook, IgnoreWebhook, RequestSync, LoseTask, Goto
<1>10. ASSUME NEW t \in Requests, BeginSync(t) PROVE StopBooks'
  <2>1. UNCHANGED <<service, stop>> /\ head \in Publications
        /\ (pub' = pub \/ pub' = [pub EXCEPT ![head] = service])
    BY <1>10 DEF BeginSync, Goto, Core, TypeOK
  <2> QED BY <1>1, <1>2, <2>1
<1>11. ASSUME NEW p \in Publications, BeginImport(p) PROVE StopBooks'
  BY <1>2, <1>11 DEF BeginImport
<1>12. CASE Push \/ UNCHANGED vars
  BY <1>1, <1>12 DEF Push, vars
<1> QED
  BY <1>3, <1>4, <1>5, <1>6, <1>7, <1>8, <1>9, <1>10, <1>11, <1>12 DEF Next

\* One step that starts a stopped service is a request to start it, or ends a
\* publication that saw the service before its first revision.
LEMMA StartedInStep ==
  ASSUME Core, StopBooks, Next, service.status = "STOPPED", service'.status = "ACTIVE"
  PROVE  \/ pub' = pub /\ service'.active = service.active
         \/ \E p \in stop.crossing : pub[p].status = "REGISTERED" /\ pub'[p] = NotPublishing
<1>1. CASE StartService
  BY <1>1 DEF StartService, Core, TypeOK, ServiceRows
<1>2. CASE ~StartService
  <2>1. PICK p \in Publications : Publish(p)
    BY <1>2 DEF Next, Push, ReceiveWebhook, AcceptWebhook, IgnoreWebhook, RequestSync, LoseTask, BeginSync, Goto,
                BeginImport, FailPublication, ActivateRevision, StopService, DeleteService
  <2>2. p \in Publishing /\ pub[p].status = "REGISTERED"
    BY <2>1 DEF Publish
  <2>3. pub'[p] = NotPublishing
    BY <2>1 DEF Publish, EndPublication, Core, TypeOK
  <2>4. p \in stop.crossing
    BY <2>2 DEF StopBooks
  <2> QED BY <2>2, <2>3, <2>4
<1> QED BY <1>1, <1>2

\* A service that was stopped can be started with the revision it was stopped
\* with, was given since, or was being published then; and no publication
\* starts it that saw it with a revision, whenever it began.
THEOREM StoppedStaysStopped == Spec => StopIsKept
<1> DEFINE Kept ==
        service.status = "STOPPED" =>
          /\ service.active \in Publications \cap (stop.crossing \cup {stop.routed})
          /\ service'.status = "ACTIVE" =>
               \/ pub' = pub /\ service'.active = service.active
               \/ \E p \in stop.crossing : pub[p].status = "REGISTERED" /\ pub'[p] = NotPublishing
<1>1. Init => StopBooks
  BY DEF Init, StopBooks
<1>2. Core /\ StopBooks /\ [Next]_vars => [Kept]_vars
  BY StartedInStep DEF StopBooks
<1> QED BY <1>1, <1>2, NextKeepsStop, Invariance, PTL DEF Spec, StopIsKept
=============================================================================
