# Verification of codelab-auth-service

TLA+ specifications of the authorization server in `src/app`, TLC configurations
that check them on small instances, and proofs checked by TLAPS that hold for
every instance. All line numbers are those of the commit in `src/`.

Contents: [the system](#the-system) · [modules](#modules) ·
[modelling decisions](#modelling-decisions) · [runs](#runs-and-bounds) ·
[fairness](#fairness) · [proofs](#proofs) ·
[disagreements](#where-the-code-and-the-documents-disagree) ·
[not covered](#what-is-not-covered) · [plan](#plan) · [how to run](#how-to-run)

## The system

A FastAPI service, usually several worker processes behind a proxy, issues JWT
access tokens and refresh tokens to client applications. Its state is in
PostgreSQL (users, clients, refresh tokens, reset and confirmation tokens, the
audit log) and in Redis (failure counters, rate-limit windows, the token
blacklist, event streams). A worker keeps nothing between requests but the
signing keys. Every request is a coroutine with a database session of its own
(`models/database.py:66 get_db`), so requests interleave at each `await`, inside
one worker as well as between workers. There is no lock and no
`SELECT ... FOR UPDATE` anywhere: whatever makes a sequence of statements safe
has to come from its order, from a unique or foreign key, or from one atomic
statement.

| Component | State | Operations | Interacts with | Hard behaviour | What makes it correct | Status |
|---|---|---|---|---|---|---|
| Refresh tokens (`services/refresh_token_service.py`, `auth_service.py`, `api/v1/oauth.py`) | table `refresh_tokens`; the JWTs that clients hold | password grant, refresh grant with rotation, reuse detection with revocation of the chain, clean-up | users and clients by foreign key; sessions are columns of the same table | read, then write in a later transaction; crash between revoke and save; rows deleted under a request | a successor exists only beside a spent parent; spent tokens never rotate; nobody's rows but the request's own are revoked | modelled |
| Sessions and log-out (`services/session_service.py`, `api/v1/sessions.py`, `oauth.py` logout) | the same table | revoke one session, log-out (which never gets to a statement), list | same rows as rotations in flight | SELECT, then UPDATE of what was found | an acknowledged revocation reaches every token it is about | modelled, but for the listing and for `revoke_all_sessions`, which nothing reaches |
| Brute-force protection (`services/brute_force_protection.py`) | Redis counters per user name and per address | check, record a failure, reset | password grant, password reset | check before, count after; INCR and EXPIRE apart; fail-open | bounded attempts; no counter that lives for ever; no lock-out for old failures | modelled |
| Password reset (`services/password_reset_service.py`, `api/v1/password_reset.py`) | table `password_reset_tokens`; users' password hashes | request, mail, confirm, clean-up | mail task, brute force, rate limiter, audit log | password and token written in two transactions | answered means written and spent; stale tokens do nothing | modelled |
| Registration, e-mail confirmation (`api/v1/register.py`, `services/email_service.py`) | users, `email_confirmation_tokens` | register, confirm | mail task, event stream, audit log | look-up, then insert; five steps after the commit that can each fail | calls are decided as if at one instant; confirmed means mailed; an undisturbed registration leaves nothing out | modelled |
| Users (`services/user_service.py`) | table `users` | authenticate, register, update, delete | cascades to every token table | deletion under requests in flight | no row without its user | modelled with the components that use it |
| OAuth clients, grants, scopes (`services/oauth_client_service.py`, `token_service.py`) | table `oauth_clients`; access tokens at clients | validate client, grant, scope; sign; `get_current_user` | both grants | rows read one after the other while they change; tokens outlive the rows | issued only to who was entitled; scopes never grow along a chain | modelled; `create_client` has no caller |
| Token blacklist (`services/token_blacklist_service.py`) | Redis keys with a time to live | revoke, revoke all, `is_token_revoked`, clean-up | admin deletion | several keys per token with different lives; four commands per call | a token reported as revoked is found while it is valid | modelled; the application calls `revoke_all_user_tokens` only |
| User deletion by an administrator (`api/v1/admin.py`) | users, blacklist, event stream | delete | three stores | failure between two stores; overlapping deletions | nobody is marked with tokens that are not on the blacklist; repeated deletions are refused | modelled; its router is not mounted in `main.py` |
| Events (`services/event_publisher.py`) | Redis Streams | publish | registration, admin deletion | lost after the commit | - | a step of its callers |
| E-mail (`services/email_*.py`) | none | send with retry | reset, registration | time-outs that leave open whether the mail was taken; the task dies with the worker | a task ends; bounded copies; "sent" means taken | modelled, but for lengths of time and MIME |
| Rate limiting (`middleware/rate_limit.py`, `services/rate_limiter.py`) | Redis windows | one check per request | every endpoint | INCR and EXPIRE apart; fail-open | a window admits no more than its limit; refusals end | modelled |
| Keys and JWKS (`core/security.py`, `services/jwks_service.py`) | two PEM files; each worker's pair | load, generate | signing, verification | workers that start together; a crash between the two files | all workers verify what one signed | modelled; JWKS is formatting |
| Start-up (`main.py`, `core/seed.py`, `models/database.py`) | schema, default users and clients | create tables, insert defaults | keys | workers that start together | a worker comes up, with all defaults | modelled |
| Audit, monitoring, logging, config, validators, crypto | audit rows, counters | - | all | - | - | out of scope; commits and failures of the audit log appear where a handler depends on them |

`PROJECT.json` lists the same components with their sources, and under
"hazards" the places where this code can go wrong in ways a test would hardly
reach, each with the properties that are about it.

## Modules

| Module | What it is |
|---|---|
| `TokenLedger` | Abstract specification: tokens are opened, rotated from a spent parent, revoked, purged; nothing ever goes back. |
| `RefreshTokens` | Grants, rotation, reuse detection, session revocation and log-out, one action per database statement. Implements `TokenLedger`. |
| `MCRefreshTokens`, `MCRotation` | An instance; three families of behaviours in one: several requests at a time, one at a time, several users and clients. |
| `RefreshTokensProofs` | Types, the safety and action properties of `RefreshTokens` and of `MCRotation`, refinement of `TokenLedger`. |
| `LoginThrottle` | The failure counters, one action per Redis command. |
| `MCLoginThrottle`, `LoginThrottleProofs` | Symmetry; proofs of the types and the three safety properties. |
| `MCLiveness` | `RefreshTokens` and `LoginThrottle` side by side, for the liveness of both. |
| `PasswordReset` | Request, mail, confirmation, clean-up. |
| `MCPasswordReset`, `PasswordResetProofs` | Symmetry; proofs of the types and the four safety properties. |
| `AccountDirectory` | Abstract specification: accounts with unique addresses and names; each call is decided at one instant between its arrival and its return. |
| `MailTask` | Abstract specification: a mail task ends, once, and says "sent" only of a mail the server took. |
| `Registration`, `MCRegistration` | Registration and confirmation, composed with `MailTask`. Implements `AccountDirectory`. |
| `RegistrationProofs` | Types, the three safety properties, refinement of `AccountDirectory`. |
| `MailDelivery` | The task, the retry loop and the outcomes of SMTP. Implements `MailTask`. |
| `RevocableTokens` | The constants that `TokenBlacklist` and `UserDeletion` share, and what is assumed of them. |
| `TokenBlacklist`, `MCTokenBlacklist` | The Redis keys and sets of revoked tokens, one action per command, on a bounded clock. |
| `TokenBlacklistProofs` | Types, `BlacklistHolds`. |
| `UserDeletion` | The administrator's deletion over users, blacklist and stream, composed with `TokenBlacklist`. |
| `UserDeletionProofs` | On top of `TokenBlacklistProofs`: types, `DeletedMeansBlacklisted`, `EventsBounded`. |
| `TokenGrants` | What the two grants check and sign, and what `get_current_user` accepts, while the rows change. |
| `MCUserDeletion`, `GrantsProofs` | `UserDeletion`, `TokenBlacklist` with any caller and `TokenGrants` side by side; proofs about the grants, and `BlacklistHolds` and the types of the three. |
| `RateLimiter` | The fixed window, one action per Redis command. |
| `Startup` | Key files, tables and defaults, by workers that start, fail, crash and start again. |
| `MCServices`, `ServicesProofs` | `MailDelivery`, `RateLimiter` and `Startup` side by side; proofs about each, and the types of the three. |

Composition. `Registration` starts the tasks of `MailTask` and a confirmation needs
a mail that was taken; `MailDelivery` is shown to implement `MailTask`, so what holds of
`Registration` holds with the retry loop underneath. `UserDeletion` calls
`TokenBlacklist` as the handler does: it starts a call, waits while its commands
run between those of the other deletions, and goes on with its result. The refresh
tokens, the counters and the reset tokens are stores of their own, and what one
handler sees of another's store is abstracted to a choice (a confirmation may be
"refused" in `PasswordReset` for whatever the counters of `LoginThrottle` say; the rows
of refresh tokens can only refuse a refresh in `TokenGrants`).

Side by side. Where specifications share nothing, one instance may hold several of
them: a variable (`part`) that never changes says which one runs, and the others stay
where they start. Each behaviour is one of a single specification, and the states
add up rather than multiply.

Definitions whose name starts with `Bug` are faulty variants of the definition
that follows them (a dropped filter, a missing step, an off-by-one). They are in
no specification; each property is tested by putting one of them in place of the
original and seeing TLC report the violation ("mutants" in `PROJECT.json`).

### RefreshTokens and the code

| Variable | In the code |
|---|---|
| `row[j]` | the row of `refresh_tokens` with the hash of jti `j`: `revoked` is its status, `session_id`, `parent_jti_hash`, `user_id`, `client_id`. "purged" is a row that was deleted. |
| `jwt[j]` | `sub` and `client_id` of the signed token |
| `age[j]` | live; past `exp`/`expires_at`; past that by the 7 days (`days_to_keep`) of `cleanup_expired_tokens` |
| `delivered` | tokens whose 200 response arrived: only these can be presented |
| `account[u]` | `is_active`, or absent after `UserService.delete_user` |
| `req[r]` | the local variables of a handler and the statement it issues next |
| `known[r]` | history only: the rows a request was about when it arrived |

| Action | Code |
|---|---|
| `Login`, `SaveToken`, `Respond` | password grant: `authenticate_password_grant`, then `save_refresh_token` |
| `BeginRefresh`, `ValidateRefresh` | `_handle_refresh_grant`: decoding, then `validate_refresh_token` |
| `SelectChain`, `CommitRevocation` | `revoke_token_chain` after a reuse, answered 401 |
| `AuthRefresh` | `authenticate_refresh_grant` (client, expiry, client_id of the token, user active) |
| `SelectOld`, `SpendOld` | `revoke_token`: SELECT, then UPDATE and COMMIT |
| `ReadSession` | `oauth.py:463-480`, the session of the old row, read once more |
| `BeginRevokeSession`, `SelectForRevocation`, `CommitRevocation`, `FailRevocation` | `sessions.revoke_session` and `SessionService.revoke_session` |
| `Logout` | `logout_endpoint`: `auth_svc.validate_token` (`oauth.py:555`) does not exist, so a log-out with a bearer token answers 500 before any statement and revokes nothing, with or without `all_sessions` |
| `Abort` | error, cancellation, crash at any `await`: `get_db` rolls back |
| `Expire`, `Cleanup`, `SetActive`, `DeleteUser` | time, the scheduled clean-up, `update_user`, `delete_user` with its cascade |

### LoginThrottle and the code

`count[k]` and `ttl[k]` are a key's integer and whether it has a time to live;
`att[r]` holds the request's position and the two results of INCR that decide
whether it sends EXPIRE. `CheckName`, `CheckIp` are the two GETs of
`is_locked_out`; `IncrName`, `IncrIp`, `ArmName`, `ArmIp` the four commands of
`record_failed_attempt`; `Reset` the single DEL of `reset_failed_attempts`;
`Fail`, `Succeed`, `Leave` the verdict of the caller (password grant, or reset
confirmation, which uses one name for all clients). `RedisError` is the
`except` of each method: the check fails open, the others log and return.
`tried[k]` is a history variable: the attempts judged since the key was missing.

### PasswordReset and the code

`status`, `owner`, `expired` are the table `password_reset_tokens`; `mail` the
task that sends each token; `account` the users; `writes` (history) how many
passwords were committed under each token; `stale` (history) the confirmations
whose token was not valid when they arrived. A request for a token runs
`FindUser`, `CreateToken`, `QueueMail`, then `SendMail` in its own task; a
confirmation runs `CheckLockout`, `VerifyToken`, `GetUser`, `WritePassword`
(the first commit), `RefreshUser`, `SelectToken`, `MarkUsed` (the second),
`Answer` (reset of the counters and audit commit).

### Registration and the code

`user` is the users table, `token` the accounts with a confirmation token that is
valid, `announced` the stream `user_events`, `fate` and `taken` the mail tasks.
`CheckEmail`, `CheckName`, `InsertUser` are `register_user`; `LogEvent` the audit
commit of either handler, `PublishCreated` the XADD, `SaveToken` the INSERT of the
token and the start of its task. `VerifyToken`, `LookupUser`, `ConfirmUser` are
`confirm_email`. `harmed` (history) are the accounts whose registration met a failure.
The unique constraints decide at the INSERT; the text of the error always names the
column email, so a name that was taken in between reads as a taken address
(`user_service.py:343`), which changes the answer's wording only.

### TokenBlacklist, UserDeletion and the code

`black[k]` is when the key of a token lapses, `index` the members of the users' sets,
`lapse[u]` when the set of a user lapses. `SetKey`, `AddToSet`, `ExpireSet`,
`SetMetadata` are the commands of `revoke_token`, `ExecutePipeline` that of
`revoke_all_user_tokens`, `LookUpKey` and `RemoveMember` those of
`cleanup_user_tokens`. `Formatted` is what the f-string of line 342 makes of a member: the
client returns bytes, and the name it looks up is one that no key has. The clock is read when a call begins and moves on between its
commands. In `UserDeletion` `SelectTokens`, `RevokeTokens`, `TokensRevoked`,
`MarkDeleted`, `Publish` are the phases of the handler; `Issue`, `RevokeRow`,
`RemoveUser` what log-ins, rotations and `delete_user` do to the rows meanwhile.

### TokenGrants and the code

`client` and `user` are the rows, `token` the signed tokens that live. `ValidateClient`
is the first part of each grant, `Authenticate` the rest of the password grant,
`Rotate` that of the refresh grant, `UseToken` `get_current_user`. `seen` (history)
collects what was the case at some moment since the request arrived.

### MailDelivery, RateLimiter, Startup and the code

`MailDelivery`: `Offer` is one turn of `send_with_retry` with what the server and the
network make of it, `Wake` the end of a back-off; `MaxRetries` is the configured number of
retries. (`send_with_retry` also replaces a given `max_retries=0` by it,
`email_retry.py:58`, where the docstring at line 43 speaks of `None` only; every caller passes
the configured number.) `RateLimiter`: `Increment`, `SetWindow`,
`Decide` are `check_rate_limit_ip`, `FailOpen` its `except`, after a command that was
carried out or was not; counters beyond the limit are one value, since they are compared with
1 and the limit only. `admitted[k]` (history) counts the answers that let a request through,
those of `Decide` and those of `FailOpen`, since the counter was dropped last; `beyond[k]`
counts those of them that may exceed the limit, and `stuck` has the counters whose EXPIRE was
lost. `Startup`: one action
per file operation of `load_keys` and `save_keys`, per look-up and creation of the
tables, and per statement of `seed_default_data`; an INSERT is sent with the next
statement and waits for a worker that holds the same row uncommitted.

## Modelling decisions

* **Isolation.** PostgreSQL at READ COMMITTED, the default of asyncpg and of the
  compose file: a SELECT sees what is committed when it runs, an UPDATE by primary
  key writes the attributes that changed in the ORM object. A SELECT by a request
  of its own uncommitted writes does not occur in these handlers, except for the
  autoflush in `revoke_token_chain`, which is modelled (it fails when the row is
  gone).
* **Missing rows.** An UPDATE of a row that was deleted since it was read is a
  StaleDataError and rolls the transaction back. For a batch of several rows
  asyncpg reports no row count, so the batch passes over missing rows:
  `CommitRevocation` and `FailRevocation` allow both.
* **`expire_on_commit=False`** (`models/database.py`): objects keep the values they
  were read with, which is why a handler can act on a stale row.
* **SQLite** (the default `db_url`, used in development) returns naive timestamps
  and makes the `is_expired` comparison raise; this is not modelled, the
  specifications are about the PostgreSQL deployment.
* **Identifiers** are model values. A uuid4 or a random token is a value not used
  before; hashes are injective and signatures sound, so only delivered tokens can
  be presented. Access tokens are stateless: in `RefreshTokens` they appear only as
  the permission to revoke a session and to log out (`SignedIn`), in `TokenGrants` with what they say.
* **Refusals** that change no state and that no property tells apart are one
  (wrong password, unknown client, rate limit).
* **Redis.** A command is atomic and is not retried by redis-py 5.0.1; it
  either happened or failed (a command that failed after it had been carried out is
  a crash right after the command). A key vanishes at any time after its EXPIRE.
* **Failures.** `Abort` is enabled at every step of a request. Where failures
  are counted (`MaxFailures`, `MaxFaults`) the bound is a constant of the run.
* **Deadlock.** With every identifier used up, every user deleted, every mail ended or
  every worker up nothing more need happen, so the runs say
  `CHECK_DEADLOCK FALSE`, with the reason; those of `LoginThrottle` alone check it. The one place where something waits is the INSERT of a
  default row behind another worker's transaction; that it ends is part of
  `StartSucceeds`. Requests wait for no lock.

## Runs and bounds

Passing runs:

| Run | Instance | Shows |
|---|---|---|
| `rotation_safety` | crashes at every step, deactivation and deletion of users; 2 requests at a time on 3 tokens of 1 user that do not expire; or 1 at a time on 3 tokens that expire and are cleaned up; or 2 requests on 2 tokens, 2 users and 3 clients of which one is unusable | `TypeOK`, `RotationConsumes`, `SpentTokenNeverRotates`, `RevocationCovers`, `RotationKeepsOwner`, `RevokesOnlyOwn`, the refinement `LedgerSpec`; one at a time also `SerialOneActive` |
| `liveness` | 2 requests on 2 tokens; or 2 attempts on one name from one address, threshold 2, no fault; weak fairness | `RevocationTakesEffect`, `LockoutIsTemporary` |
| `throttle_safety` | 2 requests, 2 names, 1 address, threshold 2, 1 fault | `TypeOK`, `CounterHasTtl`, `AttemptsBounded`, `CountsAreEarned` |
| `reset_safety` | 2 requests, 2 tokens, 2 users, 1 failure | `TypeOK`, `StaleTokenNeverWrites`, `UsedMeansWritten`, `AnsweredMeansSpent`, `WritesBounded` |
| `registration_safety` | 2 requests, 2 accounts, 2 addresses, 2 names; crashes and failures at every step | `TypeOK`, `ConfirmedMeansMailed`, `AnsweredMeansConfirmed`, `RegistrationComplete`, the refinement `DirectorySpec` |
| `deletion_safety` | 2 deletions of one user with 2 rows that expire one after the other; or 2 calls of the blacklist by any caller on 2 such tokens, times up to 3 with the least time to live at 2; or 1 request for tokens, 2 clients of which one is confidential, 2 scopes, 2 tokens alive at once | `MCTypeOK`; `DeletedMeansBlacklisted`, `EventsBounded`; `BlacklistHolds`; `ScopeNeverGrows`, `IssuedWereEntitled` |
| `services` | 2 mails and up to 3 attempts; or 2 workers, 2 crashes, 4 key pairs; or 2 requests, 2 addresses of which one is exempt, limit 2, window 2, 2 failures of Redis | `MCTypeOK`; `CopiesBounded`, the refinement `PromiseSpec`; `WorkersShareKeys`, `UpMeansSeeded`, `StartSucceeds`; `LimitHolds`, `RefusedIsForgiven` |

Why these bounds are enough for what they are about: every race in this code is
between two requests (calls, workers), or a request and the environment, on one row, key
or file, so two slots show it; two
rotations of one token need three tokens. Where there are several users and clients two
tokens do, because a mixed-up owner shows in one rotation (constraint `Within`). Tokens expire and are cleaned up
between the statements of a request when one is served at a time (two tokens that
expire under two requests give the same verdicts); otherwise rows vanish under
a request with their user. A threshold or limit of 2 is the
smallest value at which an unlocked key has a failure on it. Two accounts with two
addresses and two names have every kind of conflict: same address, same name, both,
none. Two tokens of one user, of which one would expire before the least time to live
is over, are what the lives of a user's keys can differ by. Two crashes let each worker
fail once, or one twice. In `TokenGrants` one request at a time is enough, since
what a request meets beside itself are changes of rows, which are actions of their
own. `MaxPairs` only bounds the numbering of key pairs. `MaxFaults` bounds the commands of Redis that fail: one
for each request in flight. Symmetry is used for safety only.

Violation runs, each a promise of the documents that TLC refutes:
`one_time_use`, `logout_revokes`, `cleanup_removes`, `lockout_is_permanent`, `reset_race`
([below](#where-the-code-and-the-documents-disagree)).

## Fairness

Weak fairness of `Advance(r)` (`RefreshTokens`, `LoginThrottle`, `RateLimiter`): the
event loop resumes a coroutine whose statement has returned, and a
statement returns or fails. `LoginThrottle` and `RateLimiter` also assume that Redis
drops a key whose time to live is over. `MailDelivery`: weak fairness of a task's own
steps, since a time-out bounds every attempt (`smtp_timeout`) and every back-off has a cap.
`Startup`: weak fairness of every worker's steps, its start included, as containers
are restarted (`docker-compose.yml`, `restart: unless-stopped`). Nothing is assumed of arrivals, of
crashes, of the clean-up job (the repository has no scheduler for it) or of Redis and
SMTP answering well. Strong fairness is not needed.

`RevocationTakesEffect` excepts requests that fail, and reuse of a token whose row
is deleted before it is validated: the code answers 401 without touching the rest of
the chain. `LockoutIsTemporary` holds for the fault-free system only, and
`lockout_is_permanent` shows that one fault is enough to break it;
`RefusedIsForgiven` excepts the counters whose EXPIRE was lost, for which the same is
true. `StartSucceeds` excepts workers that crash, and key files that two workers wrote
at once or that a crash left unfinished (`raced`): from these no restart recovers.
A task of `MailDelivery` ends: that is the fairness of `MailTask`, which `PromiseSpec`
includes.

## Proofs

Every invariant and every action property that a passing run checks is a theorem, and so
are the refinements `LedgerSpec` and `DirectorySpec`. The theorems hold for every value of
the constants that meets the named assumptions at the head of each module: values that
stand for "none" differ from the others, bounds are naturals, limits are positive. Where a
property counts requests (`AttemptsBounded`, `WritesBounded`, `EventsBounded`,
`SerialOneActive`), or the maximum over the tokens of one user is taken
(`revoke_all_user_tokens`), the set counted is assumed to be finite, as it is at any moment
of a server. The bounds of the models (`MaxTime`, `MaxFailures`, `MaxCrash`, ...) are
constants too, so what is proved does not depend on where a run cuts off.

Every proof has the same outline. Facts about what a helper does to the state
(`GotoEffect`, `WriteEffect`, ...) come first; then one lemma for each action says that it
preserves an inductive invariant; the theorem combines them. Where requests run beside each
other the argument is rely/guarantee: any step only moves the tables forward (`Monotone`,
`Forward`), which keeps what every other request relies on, and the request that moves is
examined on its own. The less obvious of the inductive invariants were checked by TLC on
small instances before they were proved.

| Module | Theorems | Inductive invariant |
|---|---|---|
| `RefreshTokensProofs` | `TypeCorrect`, `RotationConsumesAlways`, `ImplementsLedger` | `IInv` |
| | `SpentTokenNeverRotatesAlways`, `RevocationCoversAlways`, `RotationKeepsOwnerAlways`, `RevokesOnlyOwnAlways` | `IInv /\ OwnInv` |
| | `SerialOneActiveAlways` | with `SessionInv`, `SerialInv` |
| `LoginThrottleProofs` | `ThrottleTypeCorrect`, `CounterHasTtlAlways` | the properties themselves |
| | `AttemptsBoundedAlways`, `CountsAreEarnedAlways` | `CountInv` |
| `PasswordResetProofs` | `ResetTypeCorrect`, `AnsweredMeansSpentAlways`, `UsedMeansWrittenAlways`, `StaleTokenNeverWritesAlways` | `IInv` |
| | `WritesBoundedAlways` | `IInv /\ CountInv` |
| `RegistrationProofs` | `RegistrationTypeCorrect`, `ConfirmedMeansMailedAlways`, `AnsweredMeansConfirmedAlways`, `RegistrationCompleteAlways`, `ImplementsDirectory` | `IInv` |
| `TokenBlacklistProofs` | `BlacklistTypeCorrect`, `BlacklistHoldsAlways` | `IInv` |
| `UserDeletionProofs` | `DeletionTypeCorrect`, `DeletedMeansBlacklistedAlways`, `EventsBoundedAlways`, `UsesBlacklist` | `IInv`, with that of the blacklist |
| `GrantsProofs` | `ScopeNeverGrowsAlways`, `IssuedWereEntitledAlways`; `BlacklistHoldsForEveryCaller`, `DeletionAndGrantsTypeCorrect` | `GrantsInv`; `PartsInv` |
| `ServicesProofs` | `LimitHoldsAlways`; `CopiesBoundedAlways`, `KeepsPromise`; `UpMeansSeededAlways`; `WorkersShareKeysAlways`; `ServicesTypeCorrect` | `LimiterInv`; `MailInv`; `SeedInv`; `KeyInv` |

**Refresh tokens.** Neither `TypeOK` nor `RotationConsumes` is inductive. A saved successor
has a spent parent because a request about to save one has spent its parent already
(`PresentedToken`), the token it saves has not been saved before (`SignedToken`), and no
other request holds the same unsaved token (`FreshDistinct`), since otherwise the row it
writes would not be new; `SavedTokens` ties rows to signed tokens. From this `IInv` follows
that every step of a request maps to `Open`, `Rotate`, `Revoke`, `Purge` or a stutter of
`TokenLedger`. `OwnInv` adds whose the tokens are: a row has the claims of its JWT
(`RowsSigned`), and what a request has read or selected belongs to the user, client or
session it acts for (`RequestOwns`). The same invariant carries `RevocationCovers`: a token
a revocation was asked to end is among the rows it has selected, or was not active any more
when it selected them, and nothing that is not active becomes active again.
`SerialOneActive` needs that a session is named after a token which has entered the table
or is about to (`SessionInv`), so that a log-in cannot join a running session, and that
a refresh that is alone leaves its session without an active token between the two
statements (`AloneInv`). A batch revocation that loses a row is no exception to any of these.

**Failure counters.** Without faults a counter that has no time to live belongs to a request
whose INCR created it and that is still on its way to EXPIRE; a key may be dropped and
created again by a second request while the first is still about to arm it. `CountInv`
accounts for every attempt: what is judged is counted, is about to be counted, or was lost
to a fault; what is counted was judged, or was owed by a request in flight when the counter
was dropped. Both bounds are consequences of comparing the sizes of these sets.

**Password reset.** `CountInv` counts, for each token, the confirmations that are past
`verify_token` and have not written yet and those that have: a new one enters only
while the token is not marked, and to leave without the mark costs a failure.

**Registration.** `ImplementsDirectory` shows that `register_user`, two look-ups and an
INSERT that two constraints guard, behaves as if each call were decided in one
instant: at the look-up that finds a conflict, at the INSERT, or at the error. The hard part
of the mapping is a conflict by a look-up: the account found has to be there at that very
moment, not only when the row was read, so the invariant ties the answer to the step.
The mapping of an account is that of its row, the mapping of a call depends on its label.

**Blacklist and deletion.** `BlacklistHolds` rests on two facts. The clock is read
when a call begins, never after the moment of its commands, so a life computed from it ends
no earlier than the token (`TtlCovers`); and a key is written again only with a life that
ends no earlier than its token, so nothing cuts a life short (`KeysLast`). What a
clean-up takes out of a set is no concern of it: the keys are what `is_token_revoked` reads.
What the deletion needs of a batch
that answered is that the key of each token was written, or the token had expired (`Settled`),
which no later step takes back. `UsesBlacklist` proves that
the handler is a legal caller: every behaviour of `UserDeletion` is one of
`TokenBlacklist`, so that the theorems of the blacklist hold of the tables of the deletion;
`BlacklistHoldsForEveryCaller` puts it together with the blacklist on its own.
`EventsBounded` counts the requests that saw the user unmarked.

**Grants.** `seen` collects what was the case since the request arrived; the invariant says
that it holds what the rows say now (`Current`) and what the request has copied
(`GrantView`), since the rows change between `validate_client` and the signature.

**Services.** What a counter of the limiter has let through, together with the requests it
has counted within the limit and that are not answered yet (`Counting`), is no more than it
shows, but for what `beyond` accounts for: a failure adds one to both sides, and when a counter
is dropped its `Counting` requests move to `beyond`. A mail task has been taken by the server at most once for each attempt in
doubt. For `UpMeansSeeded` each default is either committed with all the others, or
belongs to the one worker whose transaction is open, and what a look-up has found is there
(`SeedView`). For `WorkersShareKeys` the two files change together, but for the worker
that is between them, and there is only one such worker unless `raced` (`KeyState`).
`KeepsPromise` is the safety part of the refinement of `MailTask`. `MCSpec` runs several
specifications side by side; its type invariant follows from those of the parts.

What the proofs changed in the models: two arms of the CASE in `UserDeletion!SelectTokens`
overlapped, which TLC resolves by taking the first and a proof cannot; they are disjoint
now. `TokenBlacklist!written` is a set of tokens, since only whether a key was ever
written matters.

**Only model-checked.** Liveness and fairness are out of the prover's reach, as is ENABLED:
`RevocationTakesEffect`, `LockoutIsTemporary`, `StartSucceeds`, `RefusedIsForgiven`, and that
every mail task ends, which `PromiseSpec` adds to `KeepsPromise`. So are the five runs
that show a violation.

## Where the code and the documents disagree

| Run | The document | The code |
|---|---|---|
| `one_time_use` | a refresh token is single-use (`docs/TECHNICAL_SPECIFICATION.md:373`) | two concurrent refreshes both pass `validate_refresh_token` and both get a successor |
| `logout_revokes` | a log-out with `all_sessions` revokes all refresh tokens of the user and answers 200 (`openspec/specs/token-revocation/spec.md:16`) | `logout_endpoint` calls a method that `AuthService` does not have (`oauth.py:555`), answers 500 and revokes nothing; so does a log-out of one session (`spec.md:12`) |
| `cleanup_removes` | a clean-up removes expired tokens (`services/token_blacklist_service.py:316`) | bytes formatted into the name of the key (line 342, `core/dependencies.py:28`): no key is found and every member is removed |
| `lockout_is_permanent` | a temporary lock-out, not a permanent one (`openspec/specs/security.md:516`) | INCR without its EXPIRE after an error or crash |
| `reset_race` | each reset token is used at most once (`openspec/changes/archive/2026-03-25-add-password-reset-endpoint/specs/password-reset-token/spec.md:79`) | verified without a lock, marked in a later transaction; a failure between the two commits has the same effect |

Others were met while the code was read, and follow from an action of the model
without a run of their own:

| The document | The code |
|---|---|
| "revoke all sessions except current" (`api/v1/oauth.py:533`) | the call behind it makes no exception (`oauth.py:580`), and is never reached: `Logout` |
| 10 failed confirmations per IP (`README.md:290`) | all confirmations are attempts on one name, "password_reset" (`password_reset.py:226`, `:254`): all clients share its counter |
| horizontal scaling, `replicas: 3`, access tokens that need no synchronisation (`README.md:631-642`) | `CheckKeys`, `GenerateKeys`: replicas that start together on fresh key files each sign with a pair of their own |
| the event of a deletion "will be retried or reconciled later" (`api/v1/admin.py:181`) | `Publish`: nothing does; a second call answers 400 |
| "use maximum possible" for the life of a user's set (`services/token_blacklist_service.py:97`) | `ExpireSet`: the life of the token revoked last |

What does hold is weaker and is what the passing runs state: serial requests keep one
active token per session (`SerialOneActive`); a revocation covers the rows that
existed when it arrived (`RevocationCovers`); the attempts exceed the limit by less
than the number in flight (`AttemptsBounded`), where `README.md:557` promises the
limit itself; a reset token serves at most once per request in flight and per failure
(`WritesBounded`); workers share one pair unless two of them generated keys at once
(`WorkersShareKeys`); only deletions that overlap announce a user twice
(`EventsBounded`). What `RevocationCovers` leaves open is the race of `revoke_session`, or of
`revoke_token_chain`, with a rotation in flight, which saves its successor after the SELECT:
the session, or the chain, lives on.

Some consequences of the code that no document denies are visible in the models: a
registration that fails after its INSERT answers 500 and the retry 409
(`Registration!LogEvent`, `Abort`); an account whose token could not be saved can never be
confirmed (`SaveToken`); a confidential client is never usable, because the endpoint
hands no secret to `validate_client` (`TokenGrants!Usable`); narrowed scopes of a client
do not narrow its running chains (`Rotate`); access tokens outlive deactivation and
deletion (`UseToken`); the seeded admin is not confirmed (`core/seed.py:64-70`,
`models/user.py:54`), so with `require_email_confirmation` it cannot log in
(`Authenticate`); nothing reads the blacklist or `is_deleted` outside the deletion itself
(`UserDeletion!Issue`).

## What is not covered

* Hashing, signatures, JSON, MIME, SMTP commands, templates, Prometheus metrics
  (`services/monitoring.py`), log lines, settings and migrations: no state the
  properties are about.
* The listings of sessions and the display of users, tokens and statistics: they read
  and change nothing.
* Code without a caller: `create_client`, `revoke_all_sessions` (its one call is in the part of
  `logout_endpoint` that is never reached), the readers of the streams, the initialisation of
  the blacklist and of the publisher. `revoke_token` and `cleanup_user_tokens` of the blacklist
  have no caller in the application either, but are modelled, as the tests use them.
* `check_rate_limit_username`, which `password_reset.py:60` calls: the same code as the check by
  address, on keys of its own.
* What a handler answers after a roll-back: reading an attribute of the user
  (`password_reset.py:119-121`, `register.py:157`) may raise in turn, so where the models say 200
  or 201 it may be 500 (`Abort`). No property is about which.
* The use of the request's database session by the mail task that `register.py:149` starts:
  in the models the task touches no table. `scripts/init_db.py` is run once by hand.
* The records of the audit log and the welcome mail: only commits and failures matter to
  others.
* The lengths of back-offs and of lifetimes, and roll-over of the clock.
* SQLite (see above).

## Plan

1. Done: `RefreshTokens` with `TokenLedger`, `LoginThrottle`, `PasswordReset`, and proofs
   about each.
2. Done: `Registration` with `AccountDirectory`, `MailDelivery` with `MailTask`,
   `TokenBlacklist` and `UserDeletion`, `TokenGrants`, `RateLimiter`, `Startup`.
3. Done: the inductive invariants and theorems of every safety and action property of the
   passing runs, and the refinements of `TokenLedger` and `AccountDirectory`.
4. Next, properties that no run states yet and that the same invariants would carry: which
   of the steps of `Startup` leave `raced` behind; that a registration's mail and its
   event belong to its own account; a bound on the pairs that a chain of refreshes can have
   alive at once, with the number of requests in flight.

## How to run

```
tlc -workers 2 -config RotationSafety.cfg MCRotation
tlapm RefreshTokensProofs.tla
```

Every run takes less than three minutes on two cores.
