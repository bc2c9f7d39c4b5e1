------------------------ MODULE RuntimeProfilesProofs ------------------------
(***************************************************************************)
(* The life cycle of a label for any number of versions, services and      *)
(* calls, in every interleaving of requests with the background tasks and  *)
(* restarts of the manager, also after writes that were decided on         *)
(* outdated rows: what such a write touched is named until it is repaired, *)
(* and everything else is right.                                           *)
(***************************************************************************)
EXTENDS RuntimeProfiles, TLAPS

NoneOrVersion == Versions \cup {NoVersion}
Validations == [pc : {"none", "running"}, seen : Versions \cup {NoVersion}]
Calls == [version : Versions, seen : Statuses]
TaskStates == {"none", "check", "drain", "finalize"}

\* The label, a service, or a request under way has the version.
InHand(v) ==
    \/ active = v
    \/ \E a \in activations : a.version = v
    \/ \E s \in Services : v \in {bound[s].version, publication[s].version, arriving[s], running[s]}

\* A version that is in hand was validated, and its validation is over; one
\* whose validation is under way may have been retired, no more.
Judgement ==
    \A v \in Versions :
        /\ InHand(v) => status[v] \in Validated /\ validation[v].pc = "none"
        /\ validation[v].pc = "running" => status[v] \in {"VALIDATING", "RETIRING", "RETIRED"}

ActiveIsOne == \A v \in Versions \ marred : status[v] = "ACTIVE" <=> v = active

TrackersAreBound == \A s \in Tracking \ lateBound : bound[s].version = active

BoundIsUsable ==
    \A s \in Services :
        bound[s].version \in Versions /\ status[bound[s].version] \in {"RETIRING", "RETIRED"} =>
            s \in lateBound \/ bound[s].version \in marred

RunningIsThere ==
    \A s \in Services : running[s] \in Versions /\ status[running[s]] = "RETIRED" => s \in lateRun

Life == ActiveIsOne /\ TrackersAreBound /\ BoundIsUsable /\ RunningIsThere

IInv == TypeOK /\ Judgement /\ Life

-----------------------------------------------------------------------------
(* Types *)

LEMMA MovedType ==
    ASSUME TypeOK, NEW v \in Versions
    PROVE  /\ Moved(v) \in [Services -> Bindings]
           /\ \A s \in Services :
                /\ Moved(v)[s].tracking = bound[s].tracking
                /\ Moved(v)[s].tracking => Moved(v)[s].version = v
                /\ ~Moved(v)[s].tracking => Moved(v)[s] = bound[s]
BY DEF TypeOK, Moved, Bindings

LEMMA UnboundType == Unbound \in Bindings /\ Unbound.version \notin Versions /\ ~Unbound.tracking
BY ProfilesAssumption DEF Unbound, Bindings

LEMMA InitType == Init => TypeOK
<1> SUFFICES ASSUME Init PROVE TypeOK
  OBVIOUS
<1>1. /\ bound \in [Services -> Bindings]
      /\ publication \in [Services -> Bindings]
  BY UnboundType DEF Init, NoPublication
<1>2. /\ validation \in [Versions -> Validations]
      /\ activations \subseteq Calls
  BY DEF Init, NoValidation, Validations
<1>3. /\ status \in [Versions -> Statuses]
      /\ task \in [Versions -> TaskStates]
  BY DEF Init, Statuses, TaskStates
<1> QED BY <1>1, <1>2, <1>3 DEF Init, TypeOK, Validations, Calls, TaskStates

LEMMA ValidateType ==
    ASSUME TypeOK, NEW v \in Versions, Validate(v)
    PROVE  TypeOK'
<1> USE DEF TypeOK, Statuses, history, database
<1>1. CASE CreateVersion(v)
  BY <1>1 DEF CreateVersion
<1>2. CASE ValidationSucceeds(v)
  <2>1. active' \in NoneOrVersion /\ bound' \in [Services -> Bindings]
    BY <1>2, MovedType DEF ValidationSucceeds, NoneOrVersion
  <2>2. status' \in [Versions -> Statuses]
    BY <1>2 DEF ValidationSucceeds
  <2>3. validation' \in [Versions -> Validations]
    BY <1>2 DEF ValidationSucceeds, NoValidation, Validations
  <2>4. marred' \subseteq Versions /\ lateBound' \subseteq Services
    BY <1>2 DEF ValidationSucceeds
  <2>5. UNCHANGED <<running, activations, publication, arriving, task, orphans, lateRun>>
    BY <1>2 DEF ValidationSucceeds
  <2> QED BY <2>1, <2>2, <2>3, <2>4, <2>5 DEF NoneOrVersion, Validations
<1>3. CASE ValidationFails(v)
  BY <1>3 DEF ValidationFails, NoValidation
<1>4. CASE ValidationAborts(v)
  BY <1>4 DEF ValidationAborts, NoValidation
<1> QED BY <1>1, <1>2, <1>3, <1>4 DEF Validate

LEMMA ReadType ==
    ASSUME TypeOK, NEW v \in Versions, ReadForActivation(v)
    PROVE  TypeOK'
<1>1. activations' \subseteq [version : Versions, seen : Statuses]
  BY DEF ReadForActivation, TypeOK
<1> QED BY <1>1 DEF ReadForActivation, TypeOK, database, history

\* What an activation writes.
LEMMA ActivateWrites ==
    ASSUME TypeOK, NEW a \in activations, Activate(a)
    PROVE  /\ a.version \in Versions /\ a.seen \in Statuses
           /\ active' = a.version /\ bound' = Moved(a.version)
           /\ status' \in [Versions -> Statuses]
           /\ status'[a.version] = IF a.seen = "ACTIVE" THEN status[a.version] ELSE "ACTIVE"
           /\ \A x \in Versions \ {a.version, active} : status'[x] = status[x]
           /\ active \in Versions \ {a.version} =>
                IF References(Moved(a.version), active) = {}
                THEN status'[active] = "RETIRING" ELSE status'[active] = "READY"
<1> DEFINE v == a.version
           old == active
           unused == References(Moved(v), old) = {}
           shown == IF a.seen = "ACTIVE" THEN status[v] ELSE "ACTIVE"
<1>1. v \in Versions /\ a.seen \in Statuses
  BY DEF TypeOK
<1>2. shown \in Statuses
  BY <1>1 DEF TypeOK, Statuses
<1>3. status' = [x \in Versions |->
                    IF x = v THEN shown
                    ELSE IF x = old THEN IF unused THEN "RETIRING" ELSE "READY"
                    ELSE status[x]]
  BY DEF Activate
<1>4. active' = v /\ bound' = Moved(v)
  BY DEF Activate
<1>5. /\ status' \in [Versions -> Statuses]
      /\ status'[v] = shown
      /\ \A x \in Versions \ {v, old} : status'[x] = status[x]
      /\ old \in Versions \ {v} => status'[old] = IF unused THEN "RETIRING" ELSE "READY"
  <2> HIDE DEF shown, unused, old, v
  <2> QED BY <1>1, <1>2, <1>3 DEF TypeOK, Statuses
<1> QED BY <1>1, <1>4, <1>5

LEMMA ActivationType ==
    ASSUME TypeOK, NEW a \in activations, Activate(a) \/ RefuseActivation(a)
    PROVE  TypeOK'
<1> USE DEF TypeOK
<1>1. CASE Activate(a)
  <2>1. /\ active' \in NoneOrVersion /\ bound' \in [Services -> Bindings]
        /\ status' \in [Versions -> Statuses]
    BY <1>1, ActivateWrites, MovedType DEF NoneOrVersion
  <2>2. activations' \subseteq Calls
    BY <1>1 DEF Activate, Resume, Calls
  <2>3. task' \in [Versions -> TaskStates]
    BY <1>1 DEF Activate, TaskStates
  <2>4. marred' \subseteq Versions /\ lateBound' \subseteq Services
    <3>1. a.version \in Versions
      BY <1>1, ActivateWrites
    <3> QED BY <1>1, <3>1 DEF Activate, Judged
  <2>5. UNCHANGED <<running, validation, publication, arriving, orphans, lateRun>>
    BY <1>1 DEF Activate
  <2> QED BY <2>1, <2>2, <2>3, <2>4, <2>5 DEF NoneOrVersion, Calls, TaskStates
<1>2. CASE RefuseActivation(a)
  BY <1>2 DEF RefuseActivation, database, history
<1> QED BY <1>1, <1>2

LEMMA RetirementType ==
    ASSUME TypeOK, NEW v \in Versions, RetireVersion(v) \/ Reconcile(v) \/ Retirement(v)
    PROVE  TypeOK'
BY DEF TypeOK, Statuses, RetireVersion, Reconcile, Retirement, TaskCheck, TaskDrained,
       TaskTimesOut, Finalize, Schedule, EndTask, history, database

LEMMA ServiceType ==
    ASSUME TypeOK, NEW s \in Services, Service(s)
    PROVE  TypeOK'
<1> USE DEF TypeOK, history, database, memory, NoPublication
<1>1. ASSUME NEW tracking \in BOOLEAN, ResolveProfile(s, tracking) PROVE TypeOK'
  <2>1. PICK v \in Versions :
            publication' = [publication EXCEPT ![s] = [version |-> v, tracking |-> tracking]]
    BY <1>1 DEF ResolveProfile
  <2>2. [version |-> v, tracking |-> tracking] \in Bindings
    BY DEF Bindings
  <2> QED BY <1>1, <2>1, <2>2 DEF ResolveProfile
<1>2. CASE CreateRevision(s)
  BY <1>2, UnboundType DEF CreateRevision
<1>3. CASE DeleteService(s)
  BY <1>3, UnboundType DEF DeleteService
<1>4. CASE ResolveEndpoint(s)
  BY <1>4 DEF ResolveEndpoint, Bindings
<1>5. CASE BeginInvocation(s)
  BY <1>5 DEF BeginInvocation
<1>6. CASE FinishInvocation(s)
  BY <1>6 DEF FinishInvocation
<1> QED BY <1>1, <1>2, <1>3, <1>4, <1>5, <1>6 DEF Service

LEMMA RestartType == TypeOK /\ Restart => TypeOK'
BY UnboundType DEF TypeOK, Restart, NoValidation, NoPublication, database

LEMMA StepType == TypeOK /\ Next => TypeOK'
BY ValidateType, ReadType, ActivationType, RetirementType, ServiceType, RestartType DEF Next

-----------------------------------------------------------------------------
(* What is in hand was validated *)

LEMMA InitJudgement == Init => Judgement
BY ProfilesAssumption DEF Init, Judgement, InHand, Unbound, NoPublication, NoValidation

\* It is enough that no version comes into hand unless it was validated, and
\* that those in hand stay so.
LEMMA JudgementKept ==
    ASSUME Judgement, NEW v \in Versions,
           \A x \in Versions \ {v} : InHand(x)' => InHand(x),
           \A x \in Versions \ {v} : validation'[x] = validation[x],
           \A x \in Versions \ {v} :
               \/ status'[x] = status[x]
               \/ InHand(x) /\ status'[x] \in Validated,
           InHand(v)' => status'[v] \in Validated /\ validation'[v].pc = "none",
           validation'[v].pc = "running" => status'[v] \in {"VALIDATING", "RETIRING", "RETIRED"}
    PROVE  Judgement'
<1>1. ASSUME NEW x \in Versions \ {v}
      PROVE  /\ InHand(x)' => status'[x] \in Validated /\ validation'[x].pc = "none"
             /\ validation'[x].pc = "running" => status'[x] \in {"VALIDATING", "RETIRING", "RETIRED"}
  BY DEF Judgement
<1> QED BY <1>1 DEF Judgement

\* A step that takes up nothing new and leaves what was judged.
LEMMA JudgementUntouched ==
    ASSUME Judgement, UNCHANGED status,
           \A x \in Versions : InHand(x)' => InHand(x),
           \A x \in Versions : validation'[x] \in {validation[x], NoValidation}
    PROVE  Judgement'
BY DEF Judgement, NoValidation

LEMMA ValidateJudgement ==
    ASSUME TypeOK, Judgement, NEW v \in Versions, Validate(v)
    PROVE  Judgement'
<1>1. \A x \in Versions \ {v} : validation'[x] = validation[x]
  BY DEF TypeOK, Validate, CreateVersion, ValidationSucceeds, ValidationFails, ValidationAborts
<1>2. \A x \in Versions \ {v} : status'[x] = status[x]
  BY DEF TypeOK, Validate, CreateVersion, ValidationSucceeds, ValidationFails, ValidationAborts, database
<1>3. ~InHand(v)
  BY DEF Validate, CreateVersion, ValidationSucceeds, ValidationFails, ValidationAborts, Judgement, Validated
<1>4. CASE CreateVersion(v)
  <2>1. /\ \A x \in Versions : InHand(x)' => InHand(x)
        /\ status'[v] = "VALIDATING"
    BY <1>4 DEF CreateVersion, InHand, TypeOK
  <2> QED BY <1>1, <1>2, <1>3, <2>1, JudgementKept
<1>5. CASE ValidationSucceeds(v)
  <2>1. status'[v] \in Validated /\ validation'[v].pc = "none"
    BY <1>5 DEF ValidationSucceeds, NoValidation, Validated, TypeOK
  <2>2. \A x \in Versions \ {v} : InHand(x)' => InHand(x)
    <3> SUFFICES ASSUME NEW x \in Versions \ {v}, InHand(x)' PROVE InHand(x)
      OBVIOUS
    <3>1. active' \in {active, v} /\ UNCHANGED <<activations, publication, arriving, running>>
      BY <1>5 DEF ValidationSucceeds
    <3>2. \A s \in Services : bound'[s].version \in {bound[s].version, v}
      BY <1>5, MovedType DEF ValidationSucceeds
    <3> QED BY <3>1, <3>2 DEF InHand
  <2> QED BY <1>1, <1>2, <2>1, <2>2, JudgementKept
<1>6. CASE ValidationFails(v)
  <2>1. /\ \A x \in Versions : InHand(x)' => InHand(x)
        /\ validation'[v].pc = "none"
    BY <1>6 DEF ValidationFails, InHand, TypeOK, NoValidation
  <2> QED BY <1>1, <1>2, <1>3, <2>1, JudgementKept
<1>7. CASE ValidationAborts(v)
  <2>1. /\ \A x \in Versions : InHand(x)' => InHand(x)
        /\ \A x \in Versions : validation'[x] \in {validation[x], NoValidation}
        /\ UNCHANGED status
    BY <1>7 DEF ValidationAborts, InHand, TypeOK, database
  <2> QED BY <2>1, JudgementUntouched
<1> QED BY <1>4, <1>5, <1>6, <1>7 DEF Validate

LEMMA ActivationJudgement ==
    ASSUME TypeOK, Judgement, NEW a \in activations, Activate(a) \/ RefuseActivation(a)
    PROVE  Judgement'
<1>1. CASE Activate(a)
  <2> DEFINE v == a.version
  <2>1. v \in Versions /\ InHand(v)
    BY <1>1, ActivateWrites DEF InHand
  <2>2. status'[v] \in Validated /\ validation'[v].pc = "none"
    <3>1. status[v] \in Validated /\ validation[v].pc = "none" /\ "ACTIVE" \in Validated
      BY <2>1 DEF Judgement, Validated
    <3> QED BY <1>1, <3>1, ActivateWrites DEF Activate
  <2>3. \A x \in Versions \ {v} : InHand(x)' => InHand(x)
    <3> SUFFICES ASSUME NEW x \in Versions \ {v}, InHand(x)' PROVE InHand(x)
      OBVIOUS
    <3>1. active' = v /\ activations' \subseteq activations /\ UNCHANGED <<publication, arriving, running>>
      BY <1>1 DEF Activate, Resume
    <3>2. \A s \in Services : bound'[s].version \in {bound[s].version, v}
      BY <1>1, <2>1, ActivateWrites, MovedType
    <3> QED BY <3>1, <3>2 DEF InHand
  <2>4. \A x \in Versions \ {v} : validation'[x] = validation[x]
    BY <1>1 DEF Activate
  <2>5. ASSUME NEW x \in Versions \ {v}
        PROVE  status'[x] = status[x] \/ (InHand(x) /\ status'[x] \in Validated)
    <3>1. CASE x = active
      BY <1>1, <3>1, ActivateWrites DEF InHand, Validated
    <3>2. CASE x # active
      BY <1>1, <3>2, ActivateWrites
    <3> QED BY <3>1, <3>2
  <2> HIDE DEF v
  <2> QED BY <2>1, <2>2, <2>3, <2>4, <2>5, JudgementKept
<1>2. CASE RefuseActivation(a)
  <2>1. /\ \A x \in Versions : InHand(x)' => InHand(x)
        /\ UNCHANGED <<status, validation>>
    BY <1>2 DEF RefuseActivation, InHand, database
  <2> QED BY <2>1, JudgementUntouched
<1> QED BY <1>1, <1>2

LEMMA ReadJudgement ==
    ASSUME TypeOK, Judgement, NEW v \in Versions, ReadForActivation(v)
    PROVE  Judgement'
<1>1. /\ UNCHANGED <<status, validation>>
      /\ status[v] \in Validated /\ validation[v].pc = "none"
  BY DEF ReadForActivation, database, Judgement, Validated, TypeOK
<1>2. \A x \in Versions \ {v} : InHand(x)' => InHand(x)
  BY DEF ReadForActivation, InHand, database
<1> QED BY <1>1, <1>2, JudgementKept

LEMMA RetirementJudgement ==
    ASSUME TypeOK, Judgement, NEW v \in Versions, RetireVersion(v) \/ Reconcile(v) \/ Retirement(v)
    PROVE  Judgement'
<1>1. UNCHANGED <<active, bound, running, validation, activations, publication, arriving>>
  BY DEF RetireVersion, Reconcile, Retirement, TaskCheck, TaskDrained, TaskTimesOut, Finalize, database
<1>2. \A x \in Versions : InHand(x)' <=> InHand(x)
  BY <1>1 DEF InHand
<1>3. \A x \in Versions \ {v} : status'[x] = status[x]
  BY DEF TypeOK, RetireVersion, Reconcile, Retirement, TaskCheck, TaskDrained, TaskTimesOut, Finalize, database
<1>4. status'[v] = status[v] \/ status'[v] \in {"RETIRING", "RETIRED"}
  BY DEF TypeOK, RetireVersion, Reconcile, Retirement, TaskCheck, TaskDrained, TaskTimesOut, Finalize, database
<1>5. /\ InHand(v)' => status'[v] \in Validated /\ validation'[v].pc = "none"
      /\ validation'[v].pc = "running" => status'[v] \in {"VALIDATING", "RETIRING", "RETIRED"}
  BY <1>1, <1>2, <1>4 DEF Judgement, Validated
<1> QED BY <1>1, <1>2, <1>3, <1>5, JudgementKept

LEMMA ServiceJudgement ==
    ASSUME TypeOK, Judgement, NEW s \in Services, Service(s)
    PROVE  Judgement'
<1>1. UNCHANGED <<status, validation, active, activations>>
  BY DEF Service, ResolveProfile, CreateRevision, DeleteService, ResolveEndpoint, BeginInvocation,
         FinishInvocation, database, memory
<1>2. ASSUME NEW tracking \in BOOLEAN, ResolveProfile(s, tracking) PROVE Judgement'
  <2>1. PICK v \in Versions :
            /\ status[v] = "ACTIVE"
            /\ publication' = [publication EXCEPT ![s] = [version |-> v, tracking |-> tracking]]
    BY <1>2 DEF ResolveProfile
  <2>2. status'[v] \in Validated /\ validation'[v].pc = "none"
    BY <1>1, <2>1 DEF Judgement, Validated, TypeOK
  <2>3. \A x \in Versions \ {v} : InHand(x)' => InHand(x)
    BY <1>1, <1>2, <2>1 DEF ResolveProfile, InHand, database, TypeOK
  <2> QED BY <1>1, <2>2, <2>3, JudgementKept
<1>3. CASE ~\E tracking \in BOOLEAN : ResolveProfile(s, tracking)
  <2>1. Unbound.version \notin Versions /\ NoVersion \notin Versions
    BY UnboundType, ProfilesAssumption
  <2>2. /\ \A x \in Services : bound'[x] \in {bound[x], publication[x], Unbound}
        /\ \A x \in Services : publication'[x] \in {publication[x], Unbound}
        /\ \A x \in Services : arriving'[x] \in {arriving[x], bound[x].version, NoVersion}
        /\ \A x \in Services : running'[x] \in {running[x], arriving[x], NoVersion}
    BY <1>3 DEF Service, CreateRevision, DeleteService, ResolveEndpoint, BeginInvocation,
                FinishInvocation, database, memory, NoPublication, TypeOK
  <2>3. \A x \in Versions : InHand(x)' => InHand(x)
    BY <1>1, <2>1, <2>2 DEF InHand
  <2> QED BY <1>1, <2>3, JudgementUntouched
<1> QED BY <1>2, <1>3

LEMMA RestartJudgement == TypeOK /\ Judgement /\ Restart => Judgement'
<1> SUFFICES ASSUME TypeOK, Judgement, Restart PROVE Judgement'
  OBVIOUS
<1>1. UNCHANGED status /\ \A x \in Versions : validation'[x] = NoValidation
  BY DEF Restart, database
<1>2. \A x \in Versions : InHand(x)' => InHand(x)
  BY UnboundType, ProfilesAssumption DEF Restart, InHand, database, NoPublication
<1> QED BY <1>1, <1>2, JudgementUntouched

LEMMA StepJudgement == TypeOK /\ Judgement /\ Next => Judgement'
BY ValidateJudgement, ReadJudgement, ActivationJudgement, RetirementJudgement, ServiceJudgement,
   RestartJudgement DEF Next

-----------------------------------------------------------------------------
(* Trackers, bindings and executions *)

LEMMA InitLife == Init => Life
BY ProfilesAssumption DEF Init, Life, ActiveIsOne, TrackersAreBound, BoundIsUsable, RunningIsThere,
   Unbound, Tracking

\* A step that moves no binding, no execution and not the label, and no version
\* to a status that only a decision gives.
LEMMA StatusLife ==
    ASSUME Life,
           UNCHANGED <<active, bound, running, lateBound, lateRun, marred>>,
           \A x \in Versions :
               \/ status'[x] = status[x]
               \/ status'[x] \notin {"ACTIVE", "RETIRING", "RETIRED"} /\ x # active
    PROVE  Life'
<1>1. ActiveIsOne'
  BY DEF Life, ActiveIsOne
<1>2. TrackersAreBound'
  BY DEF Life, TrackersAreBound, Tracking
<1>3. BoundIsUsable'
  BY DEF Life, BoundIsUsable
<1>4. RunningIsThere'
  BY DEF Life, RunningIsThere
<1> QED BY <1>1, <1>2, <1>3, <1>4 DEF Life

LEMMA ValidateLife ==
    ASSUME TypeOK, Judgement, Life, NEW v \in Versions, Validate(v)
    PROVE  Life'
<1>1. v # active
  BY DEF Validate, CreateVersion, ValidationSucceeds, ValidationFails, ValidationAborts, Judgement, InHand, Validated
<1>2. CASE ValidationSucceeds(v) /\ validation[v].seen = NoVersion
  <2>1. /\ active' = v /\ bound' = Moved(v) /\ running' = running /\ lateRun' = lateRun
        /\ marred' = (marred \ {v}) \cup (Versions \cap {active})
        /\ lateBound' = lateBound \ Tracking
    BY <1>2, <1>1, ProfilesAssumption DEF ValidationSucceeds
  <2>2. status'[v] = "ACTIVE" /\ \A x \in Versions \ {v} : status'[x] = status[x]
    BY <1>2, <1>1, ProfilesAssumption DEF ValidationSucceeds, TypeOK
  <2>3. ActiveIsOne'
    BY <2>1, <2>2 DEF Life, ActiveIsOne
  <2>4. TrackersAreBound'
    BY <2>1, MovedType DEF TrackersAreBound, Tracking
  <2>5. BoundIsUsable'
    <3> SUFFICES ASSUME NEW s \in Services, bound'[s].version \in Versions,
                        status'[bound'[s].version] \in {"RETIRING", "RETIRED"}
                 PROVE  s \in lateBound' \/ bound'[s].version \in marred'
      BY DEF BoundIsUsable
    <3>1. bound'[s].version # v
      BY <2>2
    <3>2. ~bound[s].tracking /\ bound'[s] = bound[s]
      BY <2>1, <3>1, MovedType
    <3>3. s \in lateBound \/ bound[s].version \in marred
      BY <2>2, <3>1, <3>2 DEF Life, BoundIsUsable
    <3> QED BY <2>1, <3>1, <3>2, <3>3 DEF Tracking
  <2>6. RunningIsThere'
    BY <2>1, <2>2 DEF Life, RunningIsThere
  <2> QED BY <2>3, <2>4, <2>5, <2>6 DEF Life
<1>3. CASE ~(ValidationSucceeds(v) /\ validation[v].seen = NoVersion)
  <2>1. UNCHANGED <<active, bound, running, lateBound, lateRun, marred>>
    BY <1>3 DEF Validate, CreateVersion, ValidationSucceeds, ValidationFails, ValidationAborts, database, history
  <2>2. /\ \A x \in Versions \ {v} : status'[x] = status[x]
        /\ status'[v] = status[v] \/ status'[v] \in {"VALIDATING", "READY", "FAILED"}
    BY <1>3 DEF Validate, CreateVersion, ValidationSucceeds, ValidationFails, ValidationAborts, database, TypeOK
  <2> QED BY <1>1, <2>1, <2>2, StatusLife
<1> QED BY <1>2, <1>3

LEMMA ActivateLife ==
    ASSUME TypeOK, Life, NEW a \in activations, Activate(a)
    PROVE  Life'
<1> DEFINE v == a.version
<1>1. /\ v \in Versions /\ active' = v /\ bound' = Moved(v)
      /\ \A x \in Versions \ {v, active} : status'[x] = status[x]
  BY ActivateWrites
<1>2. /\ marred' = (marred \ {v, active}) \cup (IF Outdated(v, a.seen) THEN {v} ELSE {})
      /\ lateBound' = lateBound \ Tracking
      /\ UNCHANGED <<running, lateRun>>
  BY DEF Activate, Judged
<1>3. status'[v] = "ACTIVE" \/ (status'[v] = status[v] /\ v \in marred')
  <2>1. status'[v] = "ACTIVE" \/ (status'[v] = status[v] /\ a.seen = "ACTIVE")
    BY ActivateWrites
  <2> QED BY <2>1, <1>2 DEF Outdated
<1>4. active \in Versions \ {v} =>
          IF References(Moved(v), active) = {} THEN status'[active] = "RETIRING" ELSE status'[active] = "READY"
  BY ActivateWrites
<1>5. \A s \in Services :
          /\ Moved(v)[s].tracking = bound[s].tracking
          /\ Moved(v)[s].tracking => Moved(v)[s].version = v
          /\ ~Moved(v)[s].tracking => Moved(v)[s] = bound[s]
  BY <1>1, MovedType
<1> HIDE DEF v
<1>6. ActiveIsOne'
  <2> SUFFICES ASSUME NEW x \in Versions \ marred' PROVE status'[x] = "ACTIVE" <=> x = v
    BY <1>1 DEF ActiveIsOne
  <2>1. CASE x = v
    BY <2>1, <1>3
  <2>2. CASE x = active /\ x # v
    BY <2>2, <1>4
  <2>3. CASE x # active /\ x # v
    <3>1. x \in Versions \ marred /\ status'[x] = status[x]
      BY <2>3, <1>1, <1>2
    <3> QED BY <2>3, <3>1 DEF Life, ActiveIsOne
  <2> QED BY <2>1, <2>2, <2>3
<1>7. TrackersAreBound'
  BY <1>1, <1>5 DEF TrackersAreBound, Tracking
<1>8. BoundIsUsable'
  <2> SUFFICES ASSUME NEW s \in Services, bound'[s].version \in Versions,
                      status'[bound'[s].version] \in {"RETIRING", "RETIRED"}
               PROVE  s \in lateBound' \/ bound'[s].version \in marred'
    BY DEF BoundIsUsable
  <2>1. CASE bound'[s].version = v
    BY <2>1, <1>3
  <2>2. CASE bound'[s].version # v
    <3>1. ~bound[s].tracking /\ bound'[s] = bound[s] /\ Moved(v)[s] = bound[s]
      BY <2>2, <1>1, <1>5
    <3>2. bound[s].version # active
      <4>1. ASSUME bound[s].version = active PROVE References(Moved(v), active) # {}
        BY <3>1, <4>1 DEF References
      <4> QED BY <2>2, <3>1, <4>1, <1>4
    <3>3. status'[bound[s].version] = status[bound[s].version]
      BY <2>2, <3>1, <3>2, <1>1
    <3>4. s \in lateBound \/ bound[s].version \in marred
      BY <3>1, <3>3 DEF Life, BoundIsUsable
    <3> QED BY <2>2, <3>1, <3>2, <3>4, <1>2 DEF Tracking
  <2> QED BY <2>1, <2>2
<1>9. RunningIsThere'
  <2> SUFFICES ASSUME NEW s \in Services, running[s] \in Versions, status'[running[s]] = "RETIRED"
               PROVE  s \in lateRun
    BY <1>2 DEF RunningIsThere
  <2>1. status[running[s]] = "RETIRED"
    BY <1>1, <1>3, <1>4
  <2> QED BY <2>1 DEF Life, RunningIsThere
<1> QED BY <1>6, <1>7, <1>8, <1>9 DEF Life

LEMMA RetirementLife ==
    ASSUME TypeOK, Life, NEW v \in Versions, RetireVersion(v) \/ Reconcile(v) \/ Retirement(v)
    PROVE  Life'
<1>1. UNCHANGED <<active, bound, running, lateBound, lateRun>>
  BY DEF RetireVersion, Reconcile, Retirement, TaskCheck, TaskDrained, TaskTimesOut, Finalize, database, history
<1>2. \A x \in Versions \ {v} : status'[x] = status[x]
  BY DEF TypeOK, RetireVersion, Reconcile, Retirement, TaskCheck, TaskDrained, TaskTimesOut, Finalize, database
<1>3. CASE status' = status /\ marred' = marred
  BY <1>1, <1>3, StatusLife
<1>4. CASE ~(status' = status /\ marred' = marred)
  <2>1. /\ MayRetire(v) /\ status'[v] \in {"RETIRING", "RETIRED"}
        /\ marred' \in {marred, marred \ {v}}
    BY <1>4 DEF RetireVersion, Reconcile, Retirement, TaskCheck, TaskDrained, TaskTimesOut, Finalize,
                database, history, TypeOK
  <2>2. active # v /\ \A s \in Services : bound[s].version # v /\ running[s] # v
    BY <2>1 DEF MayRetire, References, Executions
  <2>3. ActiveIsOne'
    BY <1>1, <1>2, <2>1, <2>2 DEF Life, ActiveIsOne
  <2>4. TrackersAreBound'
    BY <1>1 DEF Life, TrackersAreBound, Tracking
  <2>5. BoundIsUsable'
    BY <1>1, <1>2, <2>1, <2>2 DEF Life, BoundIsUsable
  <2>6. RunningIsThere'
    BY <1>1, <1>2, <2>2 DEF Life, RunningIsThere
  <2> QED BY <2>3, <2>4, <2>5, <2>6 DEF Life
<1> QED BY <1>3, <1>4

LEMMA ServiceLife ==
    ASSUME TypeOK, Life, NEW s \in Services, Service(s)
    PROVE  Life'
<1>1. UNCHANGED <<active, status, marred>>
  BY DEF Service, ResolveProfile, CreateRevision, DeleteService, ResolveEndpoint, BeginInvocation,
         FinishInvocation, database, memory, history
<1>2. ActiveIsOne'
  BY <1>1 DEF Life, ActiveIsOne
<1>3. \A x \in Services \ {s} :
          /\ bound'[x] = bound[x] /\ running'[x] = running[x]
          /\ x \in lateBound' <=> x \in lateBound
          /\ x \in lateRun' <=> x \in lateRun
  BY DEF TypeOK, Service, ResolveProfile, CreateRevision, DeleteService, ResolveEndpoint, BeginInvocation,
         FinishInvocation, database, memory, history
<1>4. /\ bound'[s].tracking /\ s \notin lateBound' => bound'[s].version = active
      /\ bound'[s].version \in Versions /\ status[bound'[s].version] \in {"RETIRING", "RETIRED"} =>
            s \in lateBound' \/ bound'[s].version \in marred
  <2>1. CASE CreateRevision(s)
    BY <2>1 DEF CreateRevision, TypeOK
  <2>2. CASE DeleteService(s)
    BY <2>2, UnboundType DEF DeleteService, TypeOK
  <2>3. CASE ~(CreateRevision(s) \/ DeleteService(s))
    <3>1. UNCHANGED <<bound, lateBound>>
      BY <2>3 DEF Service, ResolveProfile, ResolveEndpoint, BeginInvocation, FinishInvocation, database, history
    <3> QED BY <3>1 DEF Life, TrackersAreBound, BoundIsUsable, Tracking
  <2> QED BY <2>1, <2>2, <2>3
<1>5. running'[s] \in Versions /\ status[running'[s]] = "RETIRED" => s \in lateRun'
  <2>1. CASE BeginInvocation(s)
    BY <2>1 DEF BeginInvocation, TypeOK
  <2>2. CASE FinishInvocation(s)
    BY <2>2, ProfilesAssumption DEF FinishInvocation, TypeOK
  <2>3. CASE ~(BeginInvocation(s) \/ FinishInvocation(s))
    <3>1. UNCHANGED <<running, lateRun>>
      BY <2>3 DEF Service, ResolveProfile, CreateRevision, DeleteService, ResolveEndpoint, database, history
    <3> QED BY <3>1 DEF Life, RunningIsThere
  <2> QED BY <2>1, <2>2, <2>3
<1>6. TrackersAreBound'
  BY <1>1, <1>3, <1>4 DEF Life, TrackersAreBound, Tracking
<1>7. BoundIsUsable'
  BY <1>1, <1>3, <1>4 DEF Life, BoundIsUsable
<1>8. RunningIsThere'
  BY <1>1, <1>3, <1>5 DEF Life, RunningIsThere
<1> QED BY <1>2, <1>6, <1>7, <1>8 DEF Life

LEMMA ReadLife ==
    ASSUME Life, (\E v \in Versions : ReadForActivation(v)) \/ (\E a \in activations : RefuseActivation(a)) \/ Restart
    PROVE  Life'
BY StatusLife DEF ReadForActivation, RefuseActivation, Restart, database, history

LEMMA StepLife == TypeOK /\ Judgement /\ Life /\ Next => Life'
BY ValidateLife, ActivateLife, ReadLife, RetirementLife, ServiceLife DEF Next

-----------------------------------------------------------------------------
(* Theorems *)

LEMMA StutterKeeps == IInv /\ UNCHANGED vars => IInv'
BY DEF vars, database, memory, history, IInv, TypeOK, Judgement, InHand, Life, ActiveIsOne, TrackersAreBound,
       BoundIsUsable, RunningIsThere, Tracking

THEOREM Invariance == Spec => []IInv
<1>1. Init => IInv
  BY InitType, InitJudgement, InitLife DEF IInv
<1>2. IInv /\ [Next]_vars => IInv'
  BY StepType, StepJudgement, StepLife, StutterKeeps DEF IInv
<1> QED BY <1>1, <1>2, PTL DEF Spec

\* Every variable keeps its type.
THEOREM TypeCorrect == Spec => []TypeOK
  BY Invariance, PTL DEF IInv

\* Trackers are bound to the active version, which alone is ACTIVE, whatever
\* was written on outdated rows before: only what such a write touched, and
\* nothing has repaired yet, is excepted.
THEOREM TrackersAlwaysFollow == Spec => []TrackersFollow
<1>1. IInv => TrackersFollow
  BY DEF IInv, Life, ActiveIsOne, TrackersAreBound, TrackersFollow
<1> QED BY <1>1, Invariance, PTL

\* What is activated, bound or run was validated, after any number of overlapping
\* requests and restarts; retiring versions are bound by late writes only.
THEOREM UsedVersionsAreValid == Spec => []UsedIsValid
<1>1. IInv => UsedIsValid
  <2> SUFFICES ASSUME IInv PROVE UsedIsValid
    OBVIOUS
  <2>1. \A v \in Versions : InHand(v) => status[v] \in Validated
    BY DEF IInv, Judgement
  <2>2. active \in Versions => InHand(active)
    BY DEF InHand
  <2>3. \A s \in Services : InHand(bound[s].version) /\ InHand(running[s])
    BY DEF InHand
  <2> QED BY <2>1, <2>2, <2>3 DEF IInv, Life, BoundIsUsable, RunningIsThere, UsedIsValid
<1> QED BY <1>1, Invariance, PTL

\* Nothing takes up a version that is retired and out of every hand.
LEMMA StepKeepsGone ==
    ASSUME TypeOK, Next, NEW v \in Versions, Gone(v)
    PROVE  Gone(v)'
<1>1. /\ status[v] = "RETIRED" /\ active # v /\ validation[v] = NoValidation
      /\ \A a \in activations : a.version # v
      /\ \A s \in Services : /\ bound[s].version # v /\ publication[s].version # v
                             /\ arriving[s] # v /\ running[s] # v
  BY DEF Gone
<1>2. NoVersion # v /\ Unbound.version # v
  BY UnboundType, ProfilesAssumption
<1>3. ASSUME NEW w \in Versions, Validate(w) PROVE Gone(v)'
  <2>1. w # v
    BY <1>1, <1>3 DEF Validate, CreateVersion, ValidationSucceeds, ValidationFails, ValidationAborts, NoValidation
  <2>2. /\ status'[v] = "RETIRED" /\ validation'[v] = NoValidation
        /\ UNCHANGED <<activations, publication, arriving, running>>
    BY <1>1, <1>3, <2>1 DEF TypeOK, Validate, CreateVersion, ValidationSucceeds, ValidationFails,
                            ValidationAborts, database
  <2>3. active' # v /\ \A s \in Services : bound'[s].version # v
    <3>1. active' \in {active, w} /\ (bound' = bound \/ bound' = Moved(w))
      BY <1>3 DEF Validate, CreateVersion, ValidationSucceeds, ValidationFails, ValidationAborts, database
    <3> QED BY <1>1, <2>1, <3>1, MovedType
  <2> QED BY <1>1, <2>2, <2>3 DEF Gone
<1>4. ASSUME NEW w \in Versions, ReadForActivation(w) PROVE Gone(v)'
  <2>1. w # v /\ activations' = activations \cup {[version |-> w, seen |-> status[w]]}
    BY <1>1, <1>4 DEF ReadForActivation
  <2>2. UNCHANGED <<active, status, bound, running, validation, publication, arriving>>
    BY <1>4 DEF ReadForActivation, database
  <2> QED BY <1>1, <2>1, <2>2 DEF Gone
<1>5. ASSUME NEW w \in Versions, RetireVersion(w) \/ Reconcile(w) \/ Retirement(w) PROVE Gone(v)'
  <2>1. UNCHANGED <<active, bound, running, validation, activations, publication, arriving>>
    BY <1>5 DEF RetireVersion, Reconcile, Retirement, TaskCheck, TaskDrained, TaskTimesOut, Finalize, database
  <2>2. status'[v] = "RETIRED"
    BY <1>1, <1>5 DEF TypeOK, RetireVersion, Reconcile, Retirement, TaskCheck, TaskDrained, TaskTimesOut,
                      Finalize, database
  <2> QED BY <1>1, <2>1, <2>2 DEF Gone
<1>6. ASSUME NEW a \in activations, Activate(a) PROVE Gone(v)'
  <2>1. a.version \in Versions \ {v}
    BY <1>1, <1>6, ActivateWrites
  <2>2. active' = a.version /\ bound' = Moved(a.version) /\ status'[v] = "RETIRED"
    BY <1>1, <1>6, <2>1, ActivateWrites
  <2>3. activations' \subseteq activations /\ UNCHANGED <<running, validation, publication, arriving>>
    BY <1>6 DEF Activate, Resume
  <2>4. \A s \in Services : bound'[s].version # v
    BY <1>1, <2>1, <2>2, MovedType
  <2> QED BY <1>1, <2>1, <2>2, <2>3, <2>4 DEF Gone
<1>7. ASSUME NEW a \in activations, RefuseActivation(a) PROVE Gone(v)'
  BY <1>1, <1>7 DEF RefuseActivation, Gone, database
<1>8. ASSUME NEW s \in Services, Service(s) PROVE Gone(v)'
  <2>1. UNCHANGED <<active, status, validation, activations>>
    BY <1>8 DEF Service, ResolveProfile, CreateRevision, DeleteService, ResolveEndpoint, BeginInvocation,
                FinishInvocation, database, memory
  <2>2. \A x \in Services : bound'[x] \in {bound[x], publication[x], Unbound}
    BY <1>8 DEF Service, ResolveProfile, CreateRevision, DeleteService, ResolveEndpoint, BeginInvocation,
                FinishInvocation, database, memory, TypeOK
  <2>3. \A x \in Services : publication'[x].version # v
    BY <1>1, <1>2, <1>8 DEF Service, ResolveProfile, CreateRevision, DeleteService, ResolveEndpoint,
                BeginInvocation, FinishInvocation, database, memory, NoPublication, TypeOK
  <2>4. /\ \A x \in Services : arriving'[x] \in {arriving[x], bound[x].version, NoVersion}
        /\ \A x \in Services : running'[x] \in {running[x], arriving[x], NoVersion}
    BY <1>8 DEF Service, ResolveProfile, CreateRevision, DeleteService, ResolveEndpoint, BeginInvocation,
                FinishInvocation, database, memory, TypeOK
  <2> QED BY <1>1, <1>2, <2>1, <2>2, <2>3, <2>4 DEF Gone
<1>9. CASE Restart
  BY <1>1, <1>2, <1>9 DEF Restart, Gone, database, NoPublication
<1> QED BY <1>3, <1>4, <1>5, <1>6, <1>7, <1>8, <1>9 DEF Next

\* A retired version that no service, no row and no request under way has stays
\* so for ever: it is safe to remove its environment.
THEOREM RetiredStaysOutOfUse == Spec => RetiredStaysGone
<1> DEFINE Kept == \A v \in Versions : Gone(v) => Gone(v)'
<1>1. IInv /\ [Next]_vars => [Kept]_vars
  BY StepKeepsGone DEF IInv
<1> QED BY <1>1, Invariance, PTL DEF Spec, RetiredStaysGone

=============================================================================
