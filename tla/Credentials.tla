----------------------------- MODULE Credentials -----------------------------
(***************************************************************************)
(* What lets a request in: the password of the administrator and the       *)
(* sessions issued for it (auth.py, api.py), API tokens (api.py,           *)
(* grpc_gateway/server.py), and the webhook token of one service (api.py). *)
(*                                                                         *)
(* A request checks its credential on what the database holds at one       *)
(* moment and acts at a later one; a change of the password locks its row. *)
(* Hashes and signatures are external: a password matches its own hash,    *)
(* and nobody makes a session or a token but the manager.                  *)
(***************************************************************************)
EXTENDS Naturals

CONSTANTS
    Requests,
    Passwords,
    Bootstrap,      \* admin_password of the settings
    Tokens,         \* API tokens
    Ttl,            \* admin_session_ttl_seconds
    MaxTime,        \* bound of the clock
    MaxChanges,     \* bound: changes of the password
    MaxHooks        \* bound: webhook tokens issued

NoOne == "no one"
NoHook == 0

ASSUME CredentialsAssumption ==
    /\ NoOne \notin Requests
    /\ Bootstrap \in Passwords
    /\ Ttl \in Nat \ {0} /\ MaxTime \in Nat /\ MaxChanges \in Nat /\ MaxHooks \in Nat

VARIABLES
    now,
    credential,   \* AdminCredential: password and session_version
    rowLock,      \* the transaction that has SELECT ... FOR UPDATE on it
    sessions,     \* sessions issued: version, expiry; history: changes they know of
    tokens,       \* ApiAccessToken.revoked_at
    hook,         \* Service.webhook_token_hash, how many were issued, and whether
                  \* tracking_mode is "webhook"
    changes,      \* history: changes of the password committed
    req           \* the requests under way, or answered

vars == <<now, credential, rowLock, sessions, tokens, hook, changes, req>>

Idle == [kind |-> "none", stage |-> "idle"]

Init ==
    /\ now = 0
    /\ credential = [password |-> Bootstrap, version |-> 1]
    /\ rowLock = NoOne
    /\ sessions = {}
    /\ tokens = [t \in Tokens |-> "none"]
    /\ hook \in [current : {NoHook}, issued : {0}, tracked : BOOLEAN]
    /\ changes = 0
    /\ req = [r \in Requests |-> Idle]

At(r, kind, stage) == req[r].kind = kind /\ req[r].stage = stage
Goto(r, stage) == req' = [req EXCEPT ![r].stage = stage]
Unchanged == UNCHANGED <<now, credential, rowLock, sessions, tokens, hook, changes>>

\* A credential that should let nobody in any more: of an administrator a
\* session that expired or was issued for an earlier password.
SessionOver(s) == s.exp <= now \/ s.changes < changes
Over(kind, cred) ==
    CASE kind \in {"admin", "change"} -> SessionOver(cred)
      [] kind = "invoke" -> tokens[cred] = "revoked"
      [] kind = "hook" -> cred # hook.current
      [] OTHER -> FALSE

\* late: whether the credential was over when the request came.
Start(r, kind, cred) ==
    /\ req[r].stage \in {"idle", "accepted", "refused", "untracked"}
    /\ req' = [req EXCEPT ![r] = [kind |-> kind, stage |-> "started", cred |-> cred, late |-> Over(kind, cred)]]
    /\ Unchanged

-----------------------------------------------------------------------------
(* Sessions *)

StartLogin(r) == \E password \in Passwords : Start(r, "login", password)

\* Mutant: a session is signed for the version a credential is created with.
LoginFirstVersion(r) ==
    /\ At(r, "login", "started")
    /\ IF req[r].cred = credential.password
       THEN /\ sessions' = sessions \cup
                 {[version |-> 1, exp |-> now + Ttl, changes |-> changes]}
            /\ Goto(r, "accepted")
       ELSE Goto(r, "refused") /\ UNCHANGED sessions
    /\ UNCHANGED <<now, credential, rowLock, tokens, hook, changes>>

\* One row gives both the hash to verify and the version to sign; the row is
\* read without a lock.
Login(r) ==
    /\ At(r, "login", "started")
    /\ IF req[r].cred = credential.password
       THEN /\ sessions' = sessions \cup
                 {[version |-> credential.version, exp |-> now + Ttl, changes |-> changes]}
            /\ Goto(r, "accepted")
       ELSE Goto(r, "refused") /\ UNCHANGED sessions
    /\ UNCHANGED <<now, credential, rowLock, tokens, hook, changes>>

\* A request to /admin/ or /auth/session.
StartAdmin(r) == \E kind \in {"admin", "change"}, s \in sessions : Start(r, kind, s)

\* Mutant: the session is checked by its expiry and its user alone.
VerifiedBySignature(s) == s.exp > now

Verified(s) == s.exp > now /\ s.version = credential.version

\* The middleware, in a database session of its own.
Admit(r) ==
    /\ req[r].kind \in {"admin", "change"} /\ req[r].stage = "started"
    /\ Goto(r, IF Verified(req[r].cred) THEN "admitted" ELSE "refused")
    /\ Unchanged

-----------------------------------------------------------------------------
(* The password *)

\* Mutant: the row is read without FOR UPDATE.
LockCredentialNot(r) ==
    /\ At(r, "change", "admitted")
    /\ \E given, new \in Passwords :
         req' = [req EXCEPT ![r] = [kind |-> "change", stage |-> "locked", cred |-> @.cred, late |-> @.late,
                                    given |-> given, new |-> new, seen |-> credential]]
    /\ Unchanged

LockCredential(r) ==
    /\ At(r, "change", "admitted")
    /\ rowLock = NoOne
    /\ rowLock' = r
    /\ \E given, new \in Passwords :
         req' = [req EXCEPT ![r] = [kind |-> "change", stage |-> "locked", cred |-> @.cred, late |-> @.late,
                                    given |-> given, new |-> new, seen |-> credential]]
    /\ UNCHANGED <<now, credential, sessions, tokens, hook, changes>>

Unlocked(r) == IF rowLock = r THEN NoOne ELSE rowLock

WrongPassword(r) ==
    /\ At(r, "change", "locked")
    /\ req[r].given # req[r].seen.password
    /\ rowLock' = Unlocked(r)
    /\ Goto(r, "idle")
    /\ UNCHANGED <<now, credential, sessions, tokens, hook, changes>>

ChangePassword(r) ==
    /\ At(r, "change", "locked")
    /\ changes < MaxChanges
    /\ req[r].given = req[r].seen.password
    /\ credential' = [password |-> req[r].new, version |-> req[r].seen.version + 1]
    /\ changes' = changes + 1
    /\ rowLock' = Unlocked(r)
    /\ Goto(r, "accepted")
    /\ UNCHANGED <<now, sessions, tokens, hook>>

-----------------------------------------------------------------------------
(* API tokens and the webhook token: what an admitted request may do *)

CreateToken(r) ==
    /\ At(r, "admin", "admitted")
    /\ \E t \in Tokens : tokens[t] = "none" /\ tokens' = [tokens EXCEPT ![t] = "active"]
    /\ Goto(r, "accepted")
    /\ UNCHANGED <<now, credential, rowLock, sessions, hook, changes>>

RevokeToken(r) ==
    /\ At(r, "admin", "admitted")
    /\ \E t \in Tokens : tokens[t] # "none" /\ tokens' = [tokens EXCEPT ![t] = "revoked"]
    /\ Goto(r, "accepted")
    /\ UNCHANGED <<now, credential, rowLock, sessions, hook, changes>>

RotateHook(r) ==
    /\ At(r, "admin", "admitted")
    /\ hook.issued < MaxHooks
    /\ hook' = [current |-> hook.issued + 1, issued |-> hook.issued + 1, tracked |-> hook.tracked]
    /\ Goto(r, "accepted")
    /\ UNCHANGED <<now, credential, rowLock, sessions, tokens, changes>>

DisableHook(r) ==
    /\ At(r, "admin", "admitted")
    /\ hook' = [hook EXCEPT !.current = NoHook]
    /\ Goto(r, "accepted")
    /\ UNCHANGED <<now, credential, rowLock, sessions, tokens, changes>>

\* update_service: whether pushes are told by a webhook.
SetTracking(r) ==
    /\ At(r, "admin", "admitted")
    /\ \E tracked \in BOOLEAN : hook' = [hook EXCEPT !.tracked = tracked]
    /\ Goto(r, "accepted")
    /\ UNCHANGED <<now, credential, rowLock, sessions, tokens, changes>>

\* Any other administrative request.
Administer(r) ==
    /\ At(r, "admin", "admitted")
    /\ Goto(r, "accepted")
    /\ Unchanged

-----------------------------------------------------------------------------
(* Calls and deliveries *)

StartInvoke(r) == \E t \in Tokens : tokens[t] # "none" /\ Start(r, "invoke", t)

\* Mutant: a token that exists is valid.
ValidateExisting(r) ==
    /\ At(r, "invoke", "started")
    /\ Goto(r, "checked")
    /\ Unchanged

ValidateToken(r) ==
    /\ At(r, "invoke", "started")
    /\ Goto(r, IF tokens[req[r].cred] = "active" THEN "checked" ELSE "refused")
    /\ Unchanged

StartDelivery(r) == \E h \in 1..hook.issued : Start(r, "hook", h)

\* The row of the service is read before the body of the request arrives; its
\* token opens nothing while it is tracked in another way.
ReadService(r) ==
    /\ At(r, "hook", "started")
    /\ \/ ~hook.tracked /\ Goto(r, "untracked")
       \/ /\ hook.tracked
          /\ Goto(r, IF hook.current = req[r].cred THEN "checked" ELSE "refused")
    /\ Unchanged

\* The invocation is begun, or the synchronisation, without another look.
Proceed(r) ==
    /\ req[r].kind \in {"invoke", "hook"} /\ req[r].stage = "checked"
    /\ Goto(r, "accepted")
    /\ Unchanged

-----------------------------------------------------------------------------

Tick ==
    /\ now < MaxTime
    /\ now' = now + 1
    /\ UNCHANGED <<credential, rowLock, sessions, tokens, hook, changes, req>>

\* Mutant: a start sets the password of the settings.
RestartResetting ==
    /\ req' = [r \in Requests |-> Idle]
    /\ rowLock' = NoOne
    /\ credential' = [credential EXCEPT !.password = Bootstrap]
    /\ UNCHANGED <<now, sessions, tokens, hook, changes>>

\* The manager stops and starts again: open transactions are rolled back, and
\* a credential that exists is left alone.
Restart ==
    /\ req' = [r \in Requests |-> Idle]
    /\ rowLock' = NoOne
    /\ UNCHANGED <<now, credential, sessions, tokens, hook, changes>>

Next ==
    \/ \E r \in Requests :
          \/ StartLogin(r) \/ Login(r) \/ StartAdmin(r) \/ Admit(r)
          \/ LockCredential(r) \/ WrongPassword(r) \/ ChangePassword(r)
          \/ CreateToken(r) \/ RevokeToken(r) \/ RotateHook(r) \/ DisableHook(r) \/ SetTracking(r) \/ Administer(r)
          \/ StartInvoke(r) \/ ValidateToken(r) \/ StartDelivery(r) \/ ReadService(r) \/ Proceed(r)
    \/ Tick
    \/ Restart

Spec == Init /\ [][Next]_vars

-----------------------------------------------------------------------------
(* Properties *)

\* A request that comes after a change of the password, a revocation, a
\* rotation or an expiry never succeeds with what was valid before, whatever
\* changes and logins overlap (require_admin_session, validate_api_token,
\* receive_git_webhook).
LateIsRefused ==
    \A r \in Requests :
        req[r].kind \notin {"none", "login"} /\ req[r].stage = "accepted" => ~req[r].late

\* Nobody is refused whose credential is valid, except a delivery to a service
\* that is not tracked by webhook: a login that reads the row
\* around a change does not get a session that no request accepts.
ValidIsAccepted ==
    \A r \in Requests :
        req[r].kind \notin {"none", "login"} /\ req[r].stage = "refused" => Over(req[r].kind, req[r].cred)

\* The password is only ever replaced by somebody who gave the one he
\* replaces: of two changes that give the same password one is rejected, and a
\* restart changes nothing (change_admin_password).
ChangesAreKnowing ==
    [][credential'.password # credential.password =>
        \E r \in Requests : At(r, "change", "locked") /\ req[r].given = credential.password]_vars

=============================================================================
