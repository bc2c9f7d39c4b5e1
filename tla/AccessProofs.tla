---------------------------- MODULE AccessProofs ----------------------------
(***************************************************************************)
(* Who may call, and where a call goes.  Credentials, for any number of    *)
(* requests, sessions, tokens and changes: a credential that is over lets  *)
(* nobody in, one that is valid does, and a password is replaced only by   *)
(* who knew it.  GrpcRoutes: no two services ever publish the same gRPC    *)
(* method.                                                                 *)
(***************************************************************************)
EXTENDS Credentials, GrpcRoutes, TLAPS

Sessions == [version : Nat, exp : Nat, changes : Nat]
Credential == [password : Passwords, version : Nat]
Stages == {"idle", "started", "admitted", "locked", "checked", "accepted", "refused", "untracked"}

Forms ==
    [kind : {"none"}, stage : {"idle"}]
    \cup [kind : {"login"}, stage : Stages, cred : Passwords, late : BOOLEAN]
    \cup [kind : {"admin", "change"}, stage : Stages, cred : Sessions, late : BOOLEAN]
    \cup [kind : {"invoke"}, stage : Stages, cred : Tokens, late : BOOLEAN]
    \cup [kind : {"hook"}, stage : Stages, cred : Nat, late : BOOLEAN]
    \cup [kind : {"change"}, stage : Stages, cred : Sessions, late : BOOLEAN,
          given : Passwords, new : Passwords, seen : Credential]

TypeOK ==
    /\ now \in Nat /\ changes \in Nat
    /\ credential \in Credential
    /\ sessions \subseteq Sessions
    /\ tokens \in [Tokens -> {"none", "active", "revoked"}]
    /\ hook \in [current : Nat, issued : Nat, tracked : BOOLEAN]
    /\ req \in [Requests -> Forms]

\* The version of the credential and of a session counts the changes before it.
Counts(s) == s.version = s.changes + 1 /\ s.changes <= changes

Versions == credential.version = changes + 1 /\ \A s \in sessions : Counts(s)

\* What a request carries, and what its stage says of its credential.
Sound(r) ==
    /\ req[r].stage # "idle" => req[r].kind # "none"
    /\ req[r].kind \in {"admin", "change"} => Counts(req[r].cred)
    /\ req[r].kind = "hook" => req[r].cred \in 1..hook.issued
    /\ req[r].kind = "invoke" => tokens[req[r].cred] # "none"
    /\ req[r].kind \notin {"none", "login"} =>
        /\ req[r].stage = "started" /\ req[r].late => Over(req[r].kind, req[r].cred)
        /\ req[r].stage = "refused" => Over(req[r].kind, req[r].cred)
        /\ req[r].stage \in {"admitted", "locked", "checked", "accepted"} => ~req[r].late

\* A change of the password that read the row has it locked.
Locked(r) ==
    req[r].stage = "locked" =>
        req[r].kind = "change" /\ rowLock = r /\ "seen" \in DOMAIN req[r] /\ req[r].seen = credential

IInv == TypeOK /\ Versions /\ \A r \in Requests : Sound(r) /\ Locked(r)

-----------------------------------------------------------------------------
(* How a request goes on *)

LEMMA FormFields ==
    ASSUME NEW f \in Forms
    PROVE  /\ f.stage \in Stages
           /\ f.kind \in {"none", "login", "admin", "change", "invoke", "hook"}
           /\ f.kind = "none" => f.stage = "idle"
           /\ f.kind # "none" => f.late \in BOOLEAN
           /\ f.kind \in {"admin", "change"} => f.cred \in Sessions
           /\ f.kind = "invoke" => f.cred \in Tokens
           /\ f.kind = "hook" => f.cred \in Nat
           /\ f.kind = "login" => f.cred \in Passwords
BY DEF Forms, Stages

LEMMA FormGoes ==
    ASSUME NEW f \in Forms, f.kind # "none", NEW stage \in Stages
    PROVE  /\ [f EXCEPT !.stage = stage] \in Forms
           /\ [f EXCEPT !.stage = stage].stage = stage
           /\ [f EXCEPT !.stage = stage].kind = f.kind
           /\ [f EXCEPT !.stage = stage].cred = f.cred
           /\ [f EXCEPT !.stage = stage].late = f.late
BY DEF Forms

LEMMA RequestGoes ==
    ASSUME TypeOK, NEW r \in Requests, req[r].kind # "none", NEW stage \in Stages, Goto(r, stage)
    PROVE  /\ req' \in [Requests -> Forms]
           /\ req'[r].stage = stage /\ req'[r].kind = req[r].kind
           /\ req'[r].cred = req[r].cred /\ req'[r].late = req[r].late
           /\ \A q \in Requests \ {r} : req'[q] = req[q]
<1>1. req[r] \in Forms
  BY DEF TypeOK
<1>2. req' = [req EXCEPT ![r] = [req[r] EXCEPT !.stage = stage]]
  BY DEF Goto
<1> HIDE DEF Forms
<1>3. req'[r] = [req[r] EXCEPT !.stage = stage]
  BY <1>2 DEF TypeOK
<1>4. /\ req'[r] \in Forms
      /\ req'[r].stage = stage /\ req'[r].kind = req[r].kind
      /\ req'[r].cred = req[r].cred /\ req'[r].late = req[r].late
  BY <1>1, <1>3, FormGoes
<1>5. req' \in [Requests -> Forms] /\ \A q \in Requests \ {r} : req'[q] = req[q]
  BY <1>2, <1>3, <1>4 DEF TypeOK
<1> QED BY <1>4, <1>5

-----------------------------------------------------------------------------
(* What is over stays over *)

Later ==
    /\ now' \in Nat /\ now' >= now
    /\ changes' \in Nat /\ changes' >= changes
    /\ \A t \in Tokens : tokens[t] # "none" => tokens'[t] # "none"
    /\ \A t \in Tokens : tokens[t] = "revoked" => tokens'[t] = "revoked"
    /\ hook'.issued >= hook.issued /\ hook' \in [current : Nat, issued : Nat, tracked : BOOLEAN]
    /\ hook'.current \in {hook.current, NoHook, hook.issued + 1}

LEMMA OverStays ==
    ASSUME TypeOK, Later,
           NEW kind \in {"admin", "change", "invoke", "hook"}, NEW cred,
           kind \in {"admin", "change"} => cred \in Sessions,
           kind = "invoke" => cred \in Tokens,
           kind = "hook" => cred \in 1..hook.issued,
           Over(kind, cred)
    PROVE  Over(kind, cred)'
<1>1. CASE kind \in {"admin", "change"}
  BY <1>1 DEF Over, SessionOver, Later, TypeOK, Sessions
<1>2. CASE kind = "invoke"
  BY <1>2 DEF Over, Later
<1>3. CASE kind = "hook"
  BY <1>3 DEF Over, Later, TypeOK, NoHook
<1> QED BY <1>1, <1>2, <1>3

-----------------------------------------------------------------------------
(* Requests that wait, and the one that acts *)

LEMMA OthersKeep ==
    ASSUME IInv, Later, NEW q \in Requests, req'[q] = req[q],
           req[q].stage = "locked" => rowLock' = rowLock /\ credential' = credential
    PROVE  Sound(q)' /\ Locked(q)'
<1>1. PICK kind, cred : kind = req[q].kind /\ cred = req[q].cred
  OBVIOUS
<1>2. req[q] \in Forms
  BY DEF IInv, TypeOK
<1>3. Sound(q) /\ Locked(q) /\ TypeOK
  BY DEF IInv
<1>4. /\ kind \in {"admin", "change"} => cred \in Sessions
      /\ kind = "invoke" => cred \in Tokens
      /\ kind \in {"none", "login", "admin", "change", "invoke", "hook"}
  BY <1>1, <1>2, FormFields
<1>5. kind = "hook" => cred \in 1..hook.issued
  BY <1>1, <1>3 DEF Sound
<1>6. kind \notin {"none", "login"} /\ Over(kind, cred) => Over(kind, cred)'
  BY <1>3, <1>4, <1>5, OverStays
<1>7. Over(kind, cred) = Over(req[q].kind, req[q].cred) /\ Over(kind, cred)' = Over(req[q].kind, req[q].cred)'
  BY <1>1 DEF Over, SessionOver
<1>8. kind \in {"admin", "change"} => Counts(req[q].cred)'
  <2> SUFFICES ASSUME kind \in {"admin", "change"} PROVE Counts(req[q].cred)'
    OBVIOUS
  <2>1. Counts(cred) /\ cred \in Sessions
    BY <1>1, <1>3, <1>4 DEF Sound
  <2> QED BY <2>1, <1>1, <1>3 DEF Counts, Later, Sessions, TypeOK
<1>9. kind = "hook" => (req[q].cred \in 1..hook.issued)'
  BY <1>1, <1>5, <1>3 DEF Later, TypeOK
<1>10. kind = "invoke" => (tokens[req[q].cred] # "none")'
  BY <1>1, <1>3, <1>4 DEF Later, Sound
<1>11. Sound(q)'
  BY <1>1, <1>3, <1>6, <1>7, <1>8, <1>9, <1>10 DEF Sound
<1>12. Locked(q)'
  BY <1>3 DEF Locked
<1> QED BY <1>11, <1>12

\* A request that goes on keeps what it carries.
LEMMA ActorGoes ==
    ASSUME IInv, Later, NEW r \in Requests, req[r].kind # "none",
           req'[r].kind = req[r].kind, req'[r].cred = req[r].cred, req'[r].late = req[r].late,
           req'[r].stage # "started",
           req'[r].stage = "refused" => req[r].kind = "login" \/ Over(req[r].kind, req[r].cred),
           req'[r].stage \in {"admitted", "locked", "checked", "accepted"} => req[r].kind = "login" \/ ~req[r].late
    PROVE  Sound(r)'
<1>1. PICK kind, cred : kind = req[r].kind /\ cred = req[r].cred
  OBVIOUS
<1>2. req[r] \in Forms
  BY DEF IInv, TypeOK
<1>3. Sound(r) /\ TypeOK
  BY DEF IInv
<1>4. /\ kind \in {"admin", "change"} => cred \in Sessions
      /\ kind = "invoke" => cred \in Tokens
      /\ kind \in {"none", "login", "admin", "change", "invoke", "hook"}
  BY <1>1, <1>2, FormFields
<1>5. kind = "hook" => cred \in 1..hook.issued
  BY <1>1, <1>3 DEF Sound
<1>6. kind # "login" /\ Over(kind, cred) => Over(kind, cred)'
  BY <1>1, <1>3, <1>4, <1>5, OverStays
<1>7. Over(kind, cred) = Over(req[r].kind, req[r].cred) /\ Over(kind, cred)' = Over(req[r].kind, req[r].cred)'
  BY <1>1 DEF Over, SessionOver
<1>8. kind \in {"admin", "change"} => Counts(req[r].cred)'
  <2> SUFFICES ASSUME kind \in {"admin", "change"} PROVE Counts(req[r].cred)'
    OBVIOUS
  <2>1. Counts(cred) /\ cred \in Sessions
    BY <1>1, <1>3, <1>4 DEF Sound
  <2> QED BY <2>1, <1>1, <1>3 DEF Counts, Later, Sessions, TypeOK
<1>9. kind = "hook" => (req[r].cred \in 1..hook.issued)'
  BY <1>1, <1>5, <1>3 DEF Later, TypeOK
<1>10. kind = "invoke" => (tokens[req[r].cred] # "none")'
  BY <1>1, <1>3, <1>4 DEF Later, Sound
<1> QED BY <1>1, <1>6, <1>7, <1>8, <1>9, <1>10 DEF Sound

LEMMA Compose ==
    ASSUME IInv, Later, TypeOK', Versions', NEW r \in Requests,
           \A q \in Requests \ {r} : req'[q] = req[q],
           \A q \in Requests \ {r} : req[q].stage = "locked" => rowLock' = rowLock /\ credential' = credential,
           Sound(r)', Locked(r)'
    PROVE  IInv'
<1>1. ASSUME NEW q \in Requests PROVE Sound(q)' /\ Locked(q)'
  <2>1. CASE q = r
    BY <2>1
  <2>2. CASE q # r
    BY <2>2, OthersKeep
  <2> QED BY <2>1, <2>2
<1> QED BY <1>1 DEF IInv

\* What the database and the clock hold has its type.
World ==
    /\ now \in Nat /\ changes \in Nat
    /\ credential \in Credential
    /\ sessions \subseteq Sessions
    /\ tokens \in [Tokens -> {"none", "active", "revoked"}]
    /\ hook \in [current : Nat, issued : Nat, tracked : BOOLEAN]

LEMMA TypeParts == (TypeOK <=> World /\ req \in [Requests -> Forms]) /\ (TypeOK' <=> World' /\ (req \in [Requests -> Forms])')
BY DEF TypeOK, World

LEMMA SameWorld ==
    ASSUME IInv, UNCHANGED <<now, credential, sessions, tokens, hook, changes>>
    PROVE  World' /\ Later /\ Versions'
BY DEF IInv, TypeOK, World, Later, Versions, Counts

LEMMA Goes ==
    ASSUME IInv, World', Later, Versions',
           NEW r \in Requests, NEW stage \in Stages \ {"started", "locked"},
           req[r].kind # "none", Goto(r, stage),
           \A q \in Requests \ {r} : req[q].stage = "locked" => rowLock' = rowLock /\ credential' = credential,
           stage = "refused" => req[r].kind = "login" \/ Over(req[r].kind, req[r].cred),
           stage \in {"admitted", "locked", "checked", "accepted"} => req[r].kind = "login" \/ ~req[r].late
    PROVE  IInv'
<1>1. /\ req' \in [Requests -> Forms]
      /\ req'[r].stage = stage /\ req'[r].kind = req[r].kind
      /\ req'[r].cred = req[r].cred /\ req'[r].late = req[r].late
      /\ \A q \in Requests \ {r} : req'[q] = req[q]
  BY RequestGoes DEF IInv
<1>2. TypeOK'
  BY <1>1, TypeParts
<1>3. Sound(r)'
  BY <1>1, ActorGoes
<1>4. Locked(r)'
  BY <1>1 DEF Locked
<1> QED BY <1>1, <1>2, <1>3, <1>4, Compose

-----------------------------------------------------------------------------
(* The actions *)

LEMMA StartKeeps ==
    ASSUME IInv, NEW r \in Requests, NEW kind, NEW cred, Start(r, kind, cred),
           \/ kind = "login" /\ cred \in Passwords
           \/ kind \in {"admin", "change"} /\ cred \in sessions
           \/ kind = "invoke" /\ cred \in Tokens /\ tokens[cred] # "none"
           \/ kind = "hook" /\ cred \in 1..hook.issued
    PROVE  IInv'
<1> DEFINE form == [kind |-> kind, stage |-> "started", cred |-> cred, late |-> Over(kind, cred)]
<1>1. req' = [req EXCEPT ![r] = form]
  BY DEF Start
<1>2. UNCHANGED <<now, credential, rowLock, sessions, tokens, hook, changes>>
  BY DEF Start, Unchanged
<1>3. World' /\ Later /\ Versions'
  BY <1>2, SameWorld
<1>4. Over(kind, cred) \in BOOLEAN
  BY DEF Over, SessionOver
<1>5. kind \in {"admin", "change"} => cred \in Sessions /\ Counts(cred)
  BY DEF IInv, TypeOK, Versions
<1>6. form \in Forms
  <2> DEFINE late == Over(kind, cred)
  <2> HIDE DEF late
  <2>1. late \in BOOLEAN
    BY <1>4 DEF late
  <2>2. form = [kind |-> kind, stage |-> "started", cred |-> cred, late |-> late]
    BY DEF late
  <2>3. kind = "hook" => cred \in Nat
    OBVIOUS
  <2> HIDE DEF form
  <2> QED BY <2>1, <2>2, <2>3, <1>5 DEF Forms, Stages
<1>7. req'[r] = form /\ \A q \in Requests \ {r} : req'[q] = req[q]
  BY <1>1 DEF IInv, TypeOK
<1>8. (req \in [Requests -> Forms])'
  <2> HIDE DEF form
  <2> QED BY <1>1, <1>6 DEF IInv, TypeOK
<1>9. Over(kind, cred)' = Over(kind, cred)
  BY <1>2 DEF Over, SessionOver
<1>10. Sound(r)'
  <2> HIDE DEF form
  <2>1. (req[r].kind)' = kind /\ (req[r].stage)' = "started" /\ (req[r].cred)' = cred
        /\ (req[r].late)' = Over(kind, cred)
    BY <1>7 DEF form
  <2>2. Over(req[r].kind, req[r].cred)' = Over(kind, cred)
    BY <2>1, <1>9 DEF Over, SessionOver
  <2>3. kind \in {"admin", "change"} => Counts(req[r].cred)'
    BY <2>1, <1>2, <1>5 DEF Counts
  <2> QED BY <2>1, <2>2, <2>3, <1>2 DEF Sound
<1>11. Locked(r)'
  BY <1>7 DEF Locked
<1> QED BY <1>2, <1>3, <1>7, <1>8, <1>10, <1>11, TypeParts, Compose

LEMMA LoginKeeps ==
    ASSUME IInv, NEW r \in Requests, Login(r)
    PROVE  IInv'
<1> DEFINE s == [version |-> credential.version, exp |-> now + Ttl, changes |-> changes]
<1>1. s \in Sessions /\ Counts(s)
  BY CredentialsAssumption DEF IInv, TypeOK, Versions, Credential, Sessions, Counts
<1>2. req[r].kind = "login" /\ UNCHANGED <<now, credential, rowLock, tokens, hook, changes>>
  BY DEF Login, At
<1>3. PICK stage \in {"accepted", "refused"} : Goto(r, stage)
  BY DEF Login
<1>4. sessions' \subseteq sessions \cup {s}
  BY DEF Login
<1> HIDE DEF s
<1>5. World' /\ Later
  BY <1>1, <1>2, <1>4 DEF IInv, TypeOK, World, Later
<1>6. Versions'
  BY <1>1, <1>2, <1>4 DEF IInv, Versions, Counts
<1> QED BY <1>2, <1>3, <1>5, <1>6, Goes DEF Stages

\* A session that is verified is not over.
LEMMA VerifiedIsNotOver ==
    ASSUME IInv, NEW s \in Sessions, Counts(s)
    PROVE  Verified(s) <=> ~SessionOver(s)
BY DEF IInv, TypeOK, Versions, Credential, Sessions, Counts, Verified, SessionOver

LEMMA AdmitKeeps ==
    ASSUME IInv, NEW r \in Requests, Admit(r)
    PROVE  IInv'
<1>1. req[r].kind \in {"admin", "change"} /\ req[r].stage = "started"
  BY DEF Admit
<1>2. req[r].cred \in Sessions /\ Counts(req[r].cred)
  BY <1>1, FormFields DEF IInv, TypeOK, Sound
<1>3. Verified(req[r].cred) <=> ~Over(req[r].kind, req[r].cred)
  BY <1>1, <1>2, VerifiedIsNotOver DEF Over
<1>4. req[r].late => Over(req[r].kind, req[r].cred)
  BY <1>1 DEF IInv, Sound
<1>5. PICK stage \in {"admitted", "refused"} :
          Goto(r, stage) /\ (stage = "admitted" <=> Verified(req[r].cred))
  BY DEF Admit
<1>6. UNCHANGED <<now, credential, rowLock, sessions, tokens, hook, changes>>
  BY DEF Admit, Unchanged
<1>7. World' /\ Later /\ Versions'
  BY <1>6, SameWorld
<1>8. /\ stage = "refused" => Over(req[r].kind, req[r].cred)
      /\ stage = "admitted" => ~req[r].late
  BY <1>3, <1>4, <1>5
<1> QED BY <1>1, <1>5, <1>6, <1>7, <1>8, Goes DEF Stages

LEMMA LockKeeps ==
    ASSUME IInv, NEW r \in Requests, LockCredential(r)
    PROVE  IInv'
<1>1. req[r].kind = "change" /\ req[r].stage = "admitted" /\ rowLock' = r
  BY DEF LockCredential, At
<1>2. UNCHANGED <<now, credential, sessions, tokens, hook, changes>>
  BY DEF LockCredential
<1>3. req[r].cred \in Sessions /\ req[r].late \in BOOLEAN /\ ~req[r].late
  BY <1>1, FormFields DEF IInv, TypeOK, Sound
<1>4. World' /\ Later /\ Versions'
  BY <1>2, SameWorld
<1>5. PICK given \in Passwords, new \in Passwords :
         req' = [req EXCEPT ![r] = [kind |-> "change", stage |-> "locked", cred |-> req[r].cred, late |-> req[r].late,
                                    given |-> given, new |-> new, seen |-> credential]]
  BY DEF LockCredential
<1> DEFINE form == [kind |-> "change", stage |-> "locked", cred |-> req[r].cred, late |-> req[r].late,
                    given |-> given, new |-> new, seen |-> credential]
<1>6. form \in Forms
  BY <1>3 DEF Forms, Stages, IInv, TypeOK
<1>7. /\ form.kind = "change" /\ form.stage = "locked" /\ form.cred = req[r].cred /\ form.late = req[r].late
      /\ form.seen = credential /\ "seen" \in DOMAIN form
  BY <1>3
<1>8. req' = [req EXCEPT ![r] = form]
  BY <1>5
<1> HIDE DEF form
<1>9. /\ req'[r] = form /\ (req \in [Requests -> Forms])'
      /\ \A q \in Requests \ {r} : req'[q] = req[q]
  BY <1>6, <1>8 DEF IInv, TypeOK
<1>10. \A q \in Requests \ {r} : req[q].stage # "locked"
  BY CredentialsAssumption DEF LockCredential, IInv, Locked
<1>11. Sound(r)'
  <2>1. Counts(req[r].cred)
    BY <1>1 DEF IInv, Sound
  <2> QED BY <1>1, <1>3, <1>4, <1>7, <1>9, ActorGoes
<1>12. Locked(r)'
  BY <1>1, <1>2, <1>7, <1>9 DEF Locked
<1> QED BY <1>4, <1>9, <1>10, <1>11, <1>12, TypeParts, Compose

\* Only the request that holds the row is locked.
LEMMA OneHolder ==
    ASSUME IInv, NEW r \in Requests, req[r].stage = "locked"
    PROVE  \A q \in Requests \ {r} : req[q].stage # "locked"
BY DEF IInv, Locked

LEMMA WrongKeeps ==
    ASSUME IInv, NEW r \in Requests, WrongPassword(r)
    PROVE  IInv'
<1>1. req[r].kind = "change" /\ req[r].stage = "locked" /\ Goto(r, "idle")
  BY DEF WrongPassword, At
<1>2. World' /\ Later /\ Versions'
  BY SameWorld DEF WrongPassword
<1> QED BY <1>1, <1>2, OneHolder, Goes DEF Stages

LEMMA ChangeKeeps ==
    ASSUME IInv, NEW r \in Requests, ChangePassword(r)
    PROVE  IInv'
<1>1. req[r].kind = "change" /\ req[r].stage = "locked" /\ Goto(r, "accepted")
  BY DEF ChangePassword, At
<1>2. "seen" \in DOMAIN req[r] /\ req[r].seen = credential
  BY <1>1 DEF IInv, Locked
<1>3. req[r].new \in Passwords
  BY <1>2 DEF IInv, TypeOK, Forms
<1>4. /\ credential' = [password |-> req[r].new, version |-> credential.version + 1]
      /\ changes' = changes + 1
      /\ UNCHANGED <<now, sessions, tokens, hook>>
  BY <1>2 DEF ChangePassword
<1>5. World' /\ Later
  BY <1>3, <1>4 DEF IInv, TypeOK, World, Later, Credential
<1>6. Versions'
  BY <1>4 DEF IInv, TypeOK, Versions, Counts, Sessions, Credential
<1>7. ~req[r].late
  BY <1>1 DEF IInv, Sound
<1> QED BY <1>1, <1>5, <1>6, <1>7, OneHolder, Goes DEF Stages

LEMMA AdministerKeeps ==
    ASSUME IInv, NEW r \in Requests,
           CreateToken(r) \/ RevokeToken(r) \/ RotateHook(r) \/ DisableHook(r)
           \/ SetTracking(r) \/ Administer(r)
    PROVE  IInv'
<1>1. /\ req[r].kind = "admin" /\ req[r].stage = "admitted" /\ Goto(r, "accepted")
      /\ UNCHANGED <<now, credential, rowLock, sessions, changes>>
  BY DEF CreateToken, RevokeToken, RotateHook, DisableHook, SetTracking, Administer, At, Unchanged
<1>2. World' /\ Later
  <2> USE <1>1 DEF IInv, TypeOK, World, Later
  <2>1. CASE CreateToken(r)
    BY <2>1 DEF CreateToken
  <2>2. CASE RevokeToken(r)
    BY <2>2 DEF RevokeToken
  <2>3. CASE RotateHook(r)
    BY <2>3 DEF RotateHook
  <2>4. CASE DisableHook(r)
    BY <2>4 DEF DisableHook, NoHook
  <2>5. CASE Administer(r)
    BY <2>5 DEF Administer, Unchanged
  <2>6. CASE SetTracking(r)
    BY <2>6 DEF SetTracking
  <2> QED BY <2>1, <2>2, <2>3, <2>4, <2>5, <2>6
<1>3. Versions'
  BY <1>1 DEF IInv, Versions, Counts
<1>4. ~req[r].late
  BY <1>1 DEF IInv, Sound
<1> QED BY <1>1, <1>2, <1>3, <1>4, Goes DEF Stages

LEMMA CallKeeps ==
    ASSUME IInv, NEW r \in Requests, ValidateToken(r) \/ ReadService(r) \/ Proceed(r)
    PROVE  IInv'
<1>1. UNCHANGED <<now, credential, rowLock, sessions, tokens, hook, changes>>
  BY DEF ValidateToken, ReadService, Proceed, Unchanged
<1>2. World' /\ Later /\ Versions'
  BY <1>1, SameWorld
<1>3. CASE ValidateToken(r) \/ ReadService(r)
  <2>1. req[r].kind \in {"invoke", "hook"} /\ req[r].stage = "started"
    BY <1>3 DEF ValidateToken, ReadService, At
  <2>2. req[r].late => Over(req[r].kind, req[r].cred)
    BY <2>1 DEF IInv, Sound
  <2>3. req[r].kind = "invoke" => req[r].cred \in Tokens /\ tokens[req[r].cred] # "none"
    BY <2>1, FormFields DEF IInv, TypeOK, Sound
  <2>4. PICK stage \in {"checked", "refused", "untracked"} :
            /\ Goto(r, stage)
            /\ stage = "refused" => Over(req[r].kind, req[r].cred)
            /\ stage = "checked" => ~Over(req[r].kind, req[r].cred)
    <3>1. CASE ValidateToken(r)
      <4>1. tokens[req[r].cred] \in {"active", "revoked"}
        BY <3>1, <2>3 DEF ValidateToken, At, IInv, TypeOK
      <4> QED BY <3>1, <4>1 DEF ValidateToken, At, Over
    <3>2. CASE ReadService(r)
      BY <3>2 DEF ReadService, At, Over
    <3> QED BY <1>3, <3>1, <3>2
  <2> QED BY <2>1, <2>2, <2>4, <1>1, <1>2, Goes DEF Stages
<1>4. CASE Proceed(r)
  <2>1. req[r].kind \in {"invoke", "hook"} /\ req[r].stage = "checked" /\ Goto(r, "accepted")
    BY <1>4 DEF Proceed
  <2>2. ~req[r].late
    BY <2>1 DEF IInv, Sound
  <2> QED BY <2>1, <2>2, <1>1, <1>2, Goes DEF Stages
<1> QED BY <1>3, <1>4

LEMMA TickKeeps == IInv /\ Tick => IInv'
<1> SUFFICES ASSUME IInv, Tick PROVE IInv'
  OBVIOUS
<1>1. UNCHANGED <<credential, rowLock, sessions, tokens, hook, changes, req>>
  BY DEF Tick
<1>2. World' /\ Later
  BY <1>1 DEF Tick, IInv, TypeOK, World, Later
<1>3. TypeOK' /\ Versions'
  BY <1>1, <1>2, TypeParts DEF IInv, TypeOK, Versions, Counts
<1>4. \A q \in Requests : Sound(q)' /\ Locked(q)'
  BY <1>1, <1>2, OthersKeep
<1> QED BY <1>3, <1>4 DEF IInv

LEMMA RestartKeeps == IInv /\ Restart => IInv'
<1> SUFFICES ASSUME IInv, Restart PROVE IInv'
  OBVIOUS
<1>1. World' /\ Versions'
  BY SameWorld DEF Restart
<1>2. \A q \in Requests : req'[q] = Idle
  BY DEF Restart
<1>3. Idle \in Forms /\ Idle.kind = "none" /\ Idle.stage = "idle"
  BY DEF Idle, Forms
<1>4. (req \in [Requests -> Forms])'
  BY <1>3 DEF Restart
<1>5. \A q \in Requests : Sound(q)' /\ Locked(q)'
  BY <1>2, <1>3 DEF Sound, Locked
<1> QED BY <1>1, <1>4, <1>5, TypeParts DEF IInv

LEMMA InitKeeps == Init => IInv
<1> SUFFICES ASSUME Init PROVE IInv
  OBVIOUS
<1>1. Idle \in Forms /\ Idle.kind = "none" /\ Idle.stage = "idle"
  BY DEF Idle, Forms
<1>2. TypeOK
  BY <1>1, CredentialsAssumption DEF Init, TypeOK, Credential, NoHook
<1>3. Versions
  BY DEF Init, Versions
<1>4. \A q \in Requests : Sound(q) /\ Locked(q)
  BY <1>1 DEF Init, Sound, Locked
<1> QED BY <1>2, <1>3, <1>4 DEF IInv

LEMMA StartsKeep ==
    ASSUME IInv, NEW r \in Requests,
           StartLogin(r) \/ StartAdmin(r) \/ StartInvoke(r) \/ StartDelivery(r)
    PROVE  IInv'
BY StartKeeps DEF StartLogin, StartAdmin, StartInvoke, StartDelivery

LEMMA StutterKeeps == IInv /\ UNCHANGED vars => IInv'
<1> SUFFICES ASSUME IInv, UNCHANGED vars PROVE IInv'
  OBVIOUS
<1>1. World' /\ Later /\ Versions' /\ UNCHANGED <<req, rowLock, credential>>
  BY SameWorld DEF vars
<1>2. \A q \in Requests : Sound(q)' /\ Locked(q)'
  BY <1>1, OthersKeep
<1> QED BY <1>1, <1>2, TypeParts DEF IInv, TypeOK

-----------------------------------------------------------------------------
(* Theorems *)

THEOREM Invariance == Spec => []IInv
<1>1. IInv /\ [Next]_vars => IInv'
  <2> SUFFICES ASSUME IInv, Next PROVE IInv'
    BY StutterKeeps
  <2> QED BY StartsKeep, LoginKeeps, AdmitKeeps, LockKeeps, WrongKeeps, ChangeKeeps, AdministerKeeps,
             CallKeeps, TickKeeps, RestartKeeps DEF Next
<1> QED BY InitKeeps, <1>1, PTL DEF Spec

\* Every variable keeps its type.
THEOREM TypeCorrect == Spec => []TypeOK
  BY Invariance, PTL DEF IInv

\* A request that comes with a credential that is over is refused.
THEOREM LateRefused == Spec => []LateIsRefused
<1>1. IInv => LateIsRefused
  BY DEF IInv, Sound, LateIsRefused
<1> QED BY <1>1, Invariance, PTL

\* A request that is refused has a credential that is over.
THEOREM ValidAccepted == Spec => []ValidIsAccepted
<1>1. IInv => ValidIsAccepted
  BY DEF IInv, Sound, ValidIsAccepted
<1> QED BY <1>1, Invariance, PTL

\* Only ChangePassword replaces the password, and it holds the row it read.
THEOREM ChangesKnow == Spec => ChangesAreKnowing
<1> DEFINE Knowing == credential'.password # credential.password =>
               \E r \in Requests : At(r, "change", "locked") /\ req[r].given = credential.password
<1>1. IInv /\ [Next]_vars => [Knowing]_vars
  <2> SUFFICES ASSUME IInv, Next, credential'.password # credential.password
               PROVE  \E r \in Requests : At(r, "change", "locked") /\ req[r].given = credential.password
    OBVIOUS
  <2>1. PICK r \in Requests : ChangePassword(r)
    BY DEF Next, Tick, Restart, StartLogin, StartAdmin, StartInvoke, StartDelivery, Start, Login, Admit,
           LockCredential, WrongPassword, CreateToken, RevokeToken, RotateHook, DisableHook, SetTracking, Administer,
           ValidateToken, ReadService, Proceed, Unchanged
  <2>2. At(r, "change", "locked") /\ req[r].seen = credential
    BY <2>1 DEF ChangePassword, At, IInv, Locked
  <2> QED BY <2>1, <2>2 DEF ChangePassword
<1> QED BY <1>1, Invariance, PTL DEF Spec, ChangesAreKnowing
-----------------------------------------------------------------------------
(* The routes, for any number of services, methods, calls and requests.      *)
(* RoutesTypeOK says that the advisory lock excludes; the invariant adds     *)
(* what the lock is for: the transaction that looked and holds the lock can  *)
(* still commit without a conflict, because whoever else starts to publish   *)
(* needs the lock too.                                                       *)

\* What a transaction found when it looked is still so when it commits, and a
\* start commits the methods its service has.
CheckedIsFree ==
    \A s \in Services :
        /\ tx[s].pc = "checked" => ~Conflicts(s, tx[s].methods)
        /\ tx[s].seen = "STOPPED" /\ tx[s].pc # "none" => status[s] = "STOPPED"

RoutesIInv == RoutesTypeOK /\ MethodsAreUnique /\ CheckedIsFree

\* Nothing is published at first.
LEMMA RoutesInitIInv == RoutesInit => RoutesIInv
<1> SUFFICES ASSUME RoutesInit PROVE RoutesIInv
  OBVIOUS
<1> USE RoutesAssumption DEF RoutesInit, Silent, NotRefreshing, NoTx, NoCall
<1>1. RoutesTypeOK
  BY DEF RoutesTypeOK, Tables
<1>2. MethodsAreUnique
  BY DEF MethodsAreUnique, Unambiguous, Published
<1>3. CheckedIsFree
  BY DEF CheckedIsFree
<1> QED
  BY <1>1, <1>2, <1>3 DEF RoutesIInv

\* What is published has the type of a routing table.
LEMMA PublishedType == RoutesTypeOK => Published \in Tables
  BY DEF RoutesTypeOK, Tables, Published

\* A refresh that becomes due has its type.
LEMMA DueType ==
  ASSUME RoutesTypeOK, NEW x \in Refreshers, DueRefresh(x)
  PROVE  refresh' \in [Refreshers -> [pc : {"idle", "due", "read"}, read : Tables]]
  BY DEF RoutesTypeOK, DueRefresh

Transactions ==
    [pc : {"none", "locked", "advisory", "checked"},
     seen : {"none", "REGISTERED", "ACTIVE", "STOPPED", "start"},
     methods : SUBSET Methods]

\* A transaction that goes on keeps its type.
LEMMA Advanced ==
  ASSUME NEW t \in Transactions
  PROVE  [t EXCEPT !.pc = "advisory"] \in Transactions
  BY DEF Transactions

\* The advisory lock is held by the transaction that is past TakeLock.
LockIsHeld == \A s \in Services : tx[s].pc \in {"advisory", "checked"} <=> advisory = s

\* Every step keeps the types, and the lock excludes.
LEMMA RoutesNextTypeOK == RoutesTypeOK /\ [RoutesNext]_routesVars => RoutesTypeOK'
<1> SUFFICES ASSUME RoutesTypeOK, [RoutesNext]_routesVars PROVE RoutesTypeOK'
  OBVIOUS
<1> USE RoutesAssumption DEF RoutesTypeOK, Tables
<1>1. CASE UNCHANGED routesVars
  BY <1>1 DEF routesVars, database
<1>2. ASSUME NEW s \in Services, BeginActivation(s) PROVE RoutesTypeOK'
  BY <1>2 DEF BeginActivation, RowIsFree, SeenStatus, NoTx
<1>3. ASSUME NEW s \in Services, BeginStart(s) PROVE RoutesTypeOK'
  BY <1>3 DEF BeginStart, RowIsFree, NoTx
<1>4. ASSUME NEW s \in Services, TakeLock(s) PROVE RoutesTypeOK'
  <2>1. advisory = Nobody /\ advisory' = s /\ tx' = [tx EXCEPT ![s].pc = "advisory"]
    BY <1>4 DEF TakeLock
  <2>2. LockIsHeld'
    BY <2>1 DEF LockIsHeld
  <2>3. tx' \in [Services -> Transactions]
    <3>1. tx \in [Services -> Transactions]
      BY DEF Transactions
    <3>2. [tx[s] EXCEPT !.pc = "advisory"] \in Transactions
      BY <3>1, Advanced
    <3> HIDE DEF RoutesTypeOK
    <3> QED
      BY <2>1, <3>1, <3>2
  <2>4. advisory' \in Services \cup {Nobody}
    BY <2>1
  <2>5. UNCHANGED <<status, methods, routes, refresh, rpc, requests>>
    BY <1>4 DEF TakeLock
  <2> QED
    BY <2>2, <2>3, <2>4, <2>5 DEF LockIsHeld, Transactions
<1>5. ASSUME NEW s \in Services, CheckRoutes(s) PROVE RoutesTypeOK'
  BY <1>5 DEF CheckRoutes
<1>6. ASSUME NEW s \in Services, RollBack(s) PROVE RoutesTypeOK'
  BY <1>6 DEF RollBack, AdvisoryReleased, NoTx
<1>7. ASSUME NEW s \in Services, Commit(s) PROVE RoutesTypeOK'
  <2>1. methods' \in Tables
    BY <1>7 DEF Commit
  <2>2. status' \in [Services -> {"REGISTERED", "ACTIVE", "STOPPED", "DELETED"}]
    BY <1>7 DEF Commit
  <2>3. advisory' \in Services \cup {Nobody} /\ LockIsHeld'
    BY <1>7 DEF Commit, AdvisoryReleased, NoTx, LockIsHeld
  <2>4. tx' \in [Services -> Transactions]
    BY <1>7 DEF Commit, NoTx, Transactions
  <2>5. refresh' \in [Refreshers -> [pc : {"idle", "due", "read"}, read : Tables]]
    BY <1>7, DueType DEF Commit, Refreshers
  <2>6. UNCHANGED <<routes, rpc, requests>>
    BY <1>7 DEF Commit
  <2> QED
    BY <2>1, <2>2, <2>3, <2>4, <2>5, <2>6 DEF LockIsHeld, Transactions
<1>8. ASSUME NEW s \in Services, StopService(s) PROVE RoutesTypeOK'
  <2>1. requests' \in 0..MaxRequests
    BY <1>8 DEF StopService, RowIsFree
  <2>2. status' \in [Services -> {"REGISTERED", "ACTIVE", "STOPPED", "DELETED"}] /\ methods' \in Tables
    BY <1>8 DEF StopService
  <2>3. refresh' \in [Refreshers -> [pc : {"idle", "due", "read"}, read : Tables]]
    BY <1>8, DueType DEF StopService, Refreshers
  <2> QED
    BY <1>8, <2>1, <2>2, <2>3 DEF StopService
<1>9. ASSUME NEW s \in Services, DeleteService(s) PROVE RoutesTypeOK'
  <2>1. requests' \in 0..MaxRequests
    BY <1>9 DEF DeleteService, RowIsFree
  <2>2. status' \in [Services -> {"REGISTERED", "ACTIVE", "STOPPED", "DELETED"}] /\ methods' \in Tables
    BY <1>9 DEF DeleteService
  <2>3. refresh' \in [Refreshers -> [pc : {"idle", "due", "read"}, read : Tables]]
    BY <1>9, DueType DEF DeleteService, Refreshers
  <2> QED
    BY <1>9, <2>1, <2>2, <2>3 DEF DeleteService
<1>10. CASE LoopWakes
  <2>1. refresh' \in [Refreshers -> [pc : {"idle", "due", "read"}, read : Tables]]
    BY <1>10, DueType DEF LoopWakes, Refreshers
  <2>2. UNCHANGED <<status, methods, tx, advisory, routes, rpc, requests>>
    BY <1>10 DEF LoopWakes, database
  <2> QED
    BY <2>1, <2>2
<1>11. ASSUME NEW x \in Refreshers, ReadRoutes(x) PROVE RoutesTypeOK'
  BY <1>11, PublishedType DEF ReadRoutes, database
<1>12. ASSUME NEW x \in Refreshers, InstallRoutes(x) PROVE RoutesTypeOK'
  BY <1>12 DEF InstallRoutes, NotRefreshing, Silent, database
<1>13. ASSUME NEW c \in Calls, Resolve(c) PROVE RoutesTypeOK'
  BY <1>13 DEF Resolve, database
<1>14. ASSUME NEW c \in Calls, BeginInvocation(c) PROVE RoutesTypeOK'
  BY <1>14 DEF BeginInvocation, NoCall, database
<1>15. ASSUME NEW c \in Calls, FinishInvocation(c) PROVE RoutesTypeOK'
  BY <1>15 DEF FinishInvocation, NoCall, database
<1> QED
  BY <1>1, <1>2, <1>3, <1>4, <1>5, <1>6, <1>7, <1>8, <1>9, <1>10, <1>11, <1>12,
     <1>13, <1>14, <1>15 DEF RoutesNext

\* A step in which no service begins to publish a method keeps the invariant's
\* parts about what is published.
LEMMA PublishingLess ==
  ASSUME RoutesIInv, RoutesTypeOK',
         \A s \in Services : Published'[s] \subseteq Published[s],
         \A x \in Refreshers : refresh'[x].read \in {refresh[x].read, Published, Silent}
  PROVE  MethodsAreUnique'
<1>1. Unambiguous(Published')
  BY DEF RoutesIInv, MethodsAreUnique, Unambiguous
<1>2. ASSUME NEW x \in Refreshers PROVE Unambiguous(refresh'[x].read)
  <2>1. CASE refresh'[x].read = Silent
    BY <2>1 DEF Unambiguous, Silent
  <2> QED
    BY <2>1 DEF RoutesIInv, MethodsAreUnique
<1> QED
  BY <1>1, <1>2 DEF MethodsAreUnique, Unambiguous

\* Neither does it spoil what a transaction found.
LEMMA StillFree ==
  ASSUME RoutesIInv, NEW s \in Services, NEW M, ~Conflicts(s, M),
         \A t \in Services : Published'[t] \subseteq Published[t]
  PROVE  ~Conflicts(s, M)'
  BY DEF Conflicts

\* A step that leaves the rows and the transactions alone.
LEMMA DatabaseUnchanged ==
  ASSUME RoutesIInv, RoutesTypeOK', UNCHANGED <<status, methods, tx>>,
         \A x \in Refreshers : refresh'[x].read \in {refresh[x].read, Published, Silent}
  PROVE  RoutesIInv'
<1>1. Published' = Published
  BY DEF Published
<1>2. MethodsAreUnique'
  BY <1>1, PublishingLess
<1>3. CheckedIsFree'
  BY <1>1 DEF RoutesIInv, CheckedIsFree, Conflicts
<1> QED
  BY <1>2, <1>3 DEF RoutesIInv

\* A step of the transaction of s that publishes nothing: the transactions of
\* the others are where they were, and that of s has not just looked.
LEMMA TransactionStep ==
  ASSUME RoutesIInv, RoutesTypeOK', NEW s \in Services,
         \A t \in Services : Published'[t] \subseteq Published[t],
         \A x \in Refreshers : refresh'[x].read = refresh[x].read,
         \A t \in Services \ {s} : tx'[t] = tx[t] /\ status'[t] = status[t],
         tx'[s].pc = "checked" => ~Conflicts(s, tx'[s].methods),
         tx'[s].seen = "STOPPED" /\ tx'[s].pc # "none" => status'[s] = "STOPPED"
  PROVE  RoutesIInv'
<1>1. MethodsAreUnique'
  BY PublishingLess
<1>2. ASSUME NEW t \in Services PROVE (tx[t].pc = "checked" => ~Conflicts(t, tx[t].methods))'
  <2>1. tx'[t].pc = "checked" => ~Conflicts(t, tx'[t].methods)
    BY DEF RoutesIInv, CheckedIsFree
  <2> QED
    BY <2>1 DEF Conflicts
<1>3. ASSUME NEW t \in Services
      PROVE tx'[t].seen = "STOPPED" /\ tx'[t].pc # "none" => status'[t] = "STOPPED"
  BY DEF RoutesIInv, CheckedIsFree
<1> QED
  BY <1>1, <1>2, <1>3 DEF RoutesIInv, CheckedIsFree

\* The commit, the one step that publishes: either nobody needed to look, and
\* then nothing new is published, or s holds the lock, nobody else has looked,
\* and what s publishes is still free.
LEMMA CommitIInv ==
  ASSUME RoutesIInv, RoutesTypeOK', NEW s \in Services, Commit(s) PROVE RoutesIInv'
<1> USE DEF Tables
<1>1. RoutesTypeOK /\ Published \in Tables /\ Published' \in Tables
  BY PublishedType DEF RoutesIInv, RoutesTypeOK, Published
<1>2. \A t \in Services \ {s} : Published'[t] = Published[t] /\ tx'[t] = tx[t] /\ status'[t] = status[t]
  BY <1>1 DEF Commit, Published, RoutesTypeOK
<1>3. tx'[s] = NoTx
  BY <1>1 DEF Commit, RoutesTypeOK
<1>4. \A x \in Refreshers : refresh'[x].read = refresh[x].read
  BY <1>1 DEF Commit, DueRefresh, RoutesTypeOK, Refreshers
<1>5. CASE NeedsCheck(s)
  <2>1. tx[s].pc = "checked" /\ advisory = s
    BY <1>1, <1>5 DEF Commit, RoutesTypeOK
  <2>2. \A t \in Services \ {s} : Published[t] \cap tx[s].methods = {}
    BY <2>1 DEF RoutesIInv, CheckedIsFree, Conflicts
  <2>3. Published'[s] \subseteq tx[s].methods
    BY <1>1 DEF Commit, Published, RoutesTypeOK
  <2>4. Unambiguous(Published')
    <3> SUFFICES ASSUME NEW t \in Services, NEW u \in Services, t # u
                 PROVE  Published'[t] \cap Published'[u] = {}
      BY DEF Unambiguous
    <3>1. CASE t = s
      BY <3>1, <1>2, <2>2, <2>3
    <3>2. CASE u = s
      BY <3>2, <1>2, <2>2, <2>3
    <3>3. CASE t # s /\ u # s
      BY <3>3, <1>2 DEF RoutesIInv, MethodsAreUnique, Unambiguous
    <3> QED
      BY <3>1, <3>2, <3>3
  <2>5. MethodsAreUnique'
    BY <2>4, <1>4 DEF RoutesIInv, MethodsAreUnique, Unambiguous
  <2>6. \A t \in Services : tx'[t].pc # "checked"
    <3> SUFFICES ASSUME NEW t \in Services PROVE tx'[t].pc # "checked"
      OBVIOUS
    <3>1. CASE t = s
      BY <3>1, <1>3 DEF NoTx
    <3>2. CASE t # s
      <4>1. tx'[t] = tx[t]
        BY <3>2, <1>2
      <4>2. tx[t].pc \in {"advisory", "checked"} => advisory = t
        BY <1>1 DEF RoutesTypeOK
      <4> QED
        BY <4>1, <4>2, <3>2, <2>1
    <3> QED
      BY <3>1, <3>2
  <2>7. CheckedIsFree'
    BY <1>2, <1>3, <2>6 DEF RoutesIInv, CheckedIsFree, NoTx
  <2> QED
    BY <2>5, <2>7 DEF RoutesIInv
<1>6. CASE ~NeedsCheck(s)
  <2>1. tx[s].pc = "locked"
    BY <1>6 DEF Commit
  <2>2. Published'[s] = {}
    <3>1. CASE tx[s].methods = {}
      BY <3>1, <1>1 DEF Commit, Published, RoutesTypeOK
    <3>2. CASE tx[s].seen = "STOPPED"
      BY <3>2, <2>1, <1>1 DEF Commit, Published, RoutesTypeOK, RoutesIInv, CheckedIsFree
    <3> QED
      BY <3>1, <3>2, <1>6 DEF NeedsCheck
  <2>3. \A t \in Services : Published'[t] \subseteq Published[t]
    BY <2>2, <1>2
  <2> QED
    BY <2>3, <1>2, <1>3, <1>4, TransactionStep DEF NoTx
<1> QED
  BY <1>5, <1>6

\* Every step keeps the invariant.
LEMMA RoutesNextIInv == RoutesIInv /\ [RoutesNext]_routesVars => RoutesIInv'
<1> SUFFICES ASSUME RoutesIInv, [RoutesNext]_routesVars PROVE RoutesIInv'
  OBVIOUS
<1>0. RoutesTypeOK /\ RoutesTypeOK'
  BY RoutesNextTypeOK DEF RoutesIInv
<1> USE DEF Tables
<1>1. CASE UNCHANGED routesVars
  BY <1>0, <1>1, DatabaseUnchanged DEF routesVars, database
<1>2. ASSUME NEW s \in Services, BeginActivation(s) PROVE RoutesIInv'
  <2>1. Published' = Published
    BY <1>2 DEF BeginActivation, Published
  <2>2. PICK seen \in SeenStatus(s), M \in SUBSET Methods :
           tx' = [tx EXCEPT ![s] = [pc |-> "locked", seen |-> seen, methods |-> M]]
    BY <1>2 DEF BeginActivation
  <2>3. seen = "STOPPED" => status[s] = "STOPPED"
    BY DEF SeenStatus
  <2> QED
    BY <1>0, <1>2, <2>1, <2>2, <2>3, TransactionStep DEF BeginActivation, RoutesTypeOK
<1>3. ASSUME NEW s \in Services, BeginStart(s) PROVE RoutesIInv'
  <2>1. Published' = Published
    BY <1>3 DEF BeginStart, Published
  <2> QED
    BY <1>0, <1>3, <2>1, TransactionStep DEF BeginStart, RoutesTypeOK
<1>4. ASSUME NEW s \in Services, TakeLock(s) PROVE RoutesIInv'
  <2>1. Published' = Published
    BY <1>4 DEF TakeLock, Published
  <2> QED
    BY <1>0, <1>4, <2>1, TransactionStep DEF TakeLock, RoutesTypeOK, NeedsCheck
<1>5. ASSUME NEW s \in Services, CheckRoutes(s) PROVE RoutesIInv'
  <2>1. Published' = Published
    BY <1>5 DEF CheckRoutes, Published
  <2>2. tx'[s].methods = tx[s].methods /\ tx'[s].seen = tx[s].seen /\ tx[s].pc = "advisory"
    BY <1>0, <1>5 DEF CheckRoutes, RoutesTypeOK
  <2>3. ~Conflicts(s, tx'[s].methods)
    BY <1>5, <2>2 DEF CheckRoutes
  <2>4. tx'[s].seen = "STOPPED" => status'[s] = "STOPPED"
    BY <1>5, <2>2 DEF RoutesIInv, CheckedIsFree, CheckRoutes
  <2>5. \A t \in Services \ {s} : tx'[t] = tx[t] /\ status'[t] = status[t]
    BY <1>0, <1>5 DEF CheckRoutes, RoutesTypeOK
  <2>6. \A x \in Refreshers : refresh'[x].read = refresh[x].read
    BY <1>5 DEF CheckRoutes
  <2> QED
    BY <1>0, <2>1, <2>3, <2>4, <2>5, <2>6, TransactionStep
<1>6. ASSUME NEW s \in Services, RollBack(s) PROVE RoutesIInv'
  <2>1. Published' = Published
    BY <1>6 DEF RollBack, Published
  <2> QED
    BY <1>0, <1>6, <2>1, TransactionStep DEF RollBack, NoTx, RoutesTypeOK
<1>7. ASSUME NEW s \in Services, Commit(s) PROVE RoutesIInv'
  BY <1>0, <1>7, CommitIInv
<1>8. ASSUME NEW s \in Services, StopService(s) PROVE RoutesIInv'
  <2>1. \A t \in Services : Published'[t] \subseteq Published[t]
    BY <1>0, <1>8 DEF StopService, Published, RoutesTypeOK
  <2>2. \A x \in Refreshers : refresh'[x].read = refresh[x].read
    BY <1>0, <1>8 DEF StopService, DueRefresh, RoutesTypeOK, Refreshers
  <2>3. \A t \in Services \ {s} : tx'[t] = tx[t] /\ status'[t] = status[t]
    BY <1>0, <1>8 DEF StopService, RoutesTypeOK
  <2>4. tx'[s] = NoTx
    BY <1>8 DEF StopService, RowIsFree
  <2> QED
    BY <1>0, <2>1, <2>2, <2>3, <2>4, TransactionStep DEF NoTx
<1>9. ASSUME NEW s \in Services, DeleteService(s) PROVE RoutesIInv'
  <2>1. \A t \in Services : Published'[t] \subseteq Published[t]
    BY <1>0, <1>9 DEF DeleteService, Published, RoutesTypeOK
  <2>2. \A x \in Refreshers : refresh'[x].read = refresh[x].read
    BY <1>0, <1>9 DEF DeleteService, DueRefresh, RoutesTypeOK, Refreshers
  <2>3. \A t \in Services \ {s} : tx'[t] = tx[t] /\ status'[t] = status[t]
    BY <1>0, <1>9 DEF DeleteService, RoutesTypeOK
  <2>4. tx'[s] = NoTx
    BY <1>9 DEF DeleteService, RowIsFree
  <2> QED
    BY <1>0, <2>1, <2>2, <2>3, <2>4, TransactionStep DEF NoTx
<1>10. CASE LoopWakes
  <2>1. \A x \in Refreshers : refresh'[x].read = refresh[x].read
    BY <1>0, <1>10 DEF LoopWakes, DueRefresh, RoutesTypeOK, Refreshers
  <2> QED
    BY <1>0, <1>10, <2>1, DatabaseUnchanged DEF LoopWakes, database
<1>11. ASSUME NEW x \in Refreshers, ReadRoutes(x) PROVE RoutesIInv'
  <2>1. \A y \in Refreshers : refresh'[y].read \in {refresh[y].read, Published, Silent}
    BY <1>0, <1>11 DEF ReadRoutes, RoutesTypeOK
  <2> QED
    BY <1>0, <1>11, <2>1, DatabaseUnchanged DEF ReadRoutes, database
<1>12. ASSUME NEW x \in Refreshers, InstallRoutes(x) PROVE RoutesIInv'
  <2>1. \A y \in Refreshers : refresh'[y].read \in {refresh[y].read, Published, Silent}
    BY <1>0, <1>12 DEF InstallRoutes, NotRefreshing, RoutesTypeOK
  <2> QED
    BY <1>0, <1>12, <2>1, DatabaseUnchanged DEF InstallRoutes, database
<1>13. ASSUME NEW c \in Calls, Resolve(c) PROVE RoutesIInv'
  BY <1>0, <1>13, DatabaseUnchanged DEF Resolve, database
<1>14. ASSUME NEW c \in Calls, BeginInvocation(c) PROVE RoutesIInv'
  BY <1>0, <1>14, DatabaseUnchanged DEF BeginInvocation, database
<1>15. ASSUME NEW c \in Calls, FinishInvocation(c) PROVE RoutesIInv'
  BY <1>0, <1>15, DatabaseUnchanged DEF FinishInvocation, database
<1> QED
  BY <1>1, <1>2, <1>3, <1>4, <1>5, <1>6, <1>7, <1>8, <1>9, <1>10, <1>11, <1>12,
     <1>13, <1>14, <1>15 DEF RoutesNext

\* The inductive invariant holds in every behaviour of the routes.
THEOREM RoutesInvariance == RoutesSpec => []RoutesIInv
  BY RoutesInitIInv, RoutesNextIInv, PTL DEF RoutesSpec

\* Every variable keeps its type, and the advisory lock is held exactly by the
\* transaction that is between its check and its end (repository.py 1202-1207).
THEOREM RoutesTyped == RoutesSpec => []RoutesTypeOK
  BY RoutesInvariance, PTL DEF RoutesIInv

\* No two services publish the same method, for any number of services and
\* methods, and no refresh has ever read a table in which two do
\* (_assert_grpc_routes_available, repository.py 1194-1235).
THEOREM UniqueMethods == RoutesSpec => []MethodsAreUnique
  BY RoutesInvariance, PTL DEF RoutesIInv
=============================================================================
