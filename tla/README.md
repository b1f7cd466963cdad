# Verification of voidAccess

voidAccess is a multi-tenant access-control API: an Express application over
PostgreSQL and Redis that authenticates users, resolves their membership of an
organization, enforces role permissions, manages invitations and sends email
through a transactional outbox. Any number of instances run side by side; each
also runs an email worker and a retention worker. There is no lock in the
process: everything that protects the data is a transaction, a row lock, a
guarded `UPDATE`, a unique index, a foreign key or a versioned cache key. These
modules say what that protection amounts to.

## 1. Inventory

| component | state | operations | interacts with | what is hard | what makes it correct |
|---|---|---|---|---|---|
| Permission cache (`permission.service.ts`, `requirePermission.ts`) | Redis entries by role and version | resolve, invalidate | roles tables, every authorized request | four reads in a row; late SET, failed DEL, eviction | a hit is exact; an answer is a committed set |
| Roles (`role.service.ts`) | `roles`, `role_permissions`, `permission_version` | create, update, delete | cache, memberships, invites (RESTRICT) | concurrent replacement of a set; deletion against use | a role has the set it was given; every change bumps the version |
| Sessions (`auth.service.ts`, `tokens.ts`, `authenticate.ts`) | `sessions`: status, token hash and jti, expiry | login, refresh, logout, logout-all, session check | retention | the same token twice; reuse against rotation; lock cycles | single use, reuse ends the session, end is final |
| Registration, verification (`auth.service.ts`, `email-verification.service.ts`) | `users`, `email_verification_tokens` | register, request, verify | outbox | replacement against replacement, use, retention and legal holds | used once and in time; replaced without a gap; a held one stays |
| Email outbox (`email-delivery.service.ts`, `resend-email.service.ts`) | `email_deliveries`: status, lease, attempts, bodies | enqueue, claim, send, mark sent, failed or obsolete | provider, tokens it carries, retention | crashes, overtaken leases, late answers, retries | leases exclude, outcome is final, every message is settled |
| Organizations (`organization.service.ts`, `requireOrgOwner.ts`) | `organizations`: slug, `owner_id` | create, rename, transfer, delete | memberships, cascades | transfer against transfer, removal, deletion | one owner, who has the Owner role |
| Memberships (`membership.service.ts`, `resolveTenant.ts`) | `memberships` | change role, remove, resolve | organizations, roles | checks on unlocked reads | the owner's membership is not touched |
| Invitations (`invite.service.ts`) | `invites` | create, revoke, accept, expire | roles, memberships, outbox, deletion of organizations | accept against revoke, delete, expiry | accepted at most once, one pending per address |
| Retention (`retention.service.ts`) | none of its own | expire sessions, delete old rows | all of the above | concurrent use of what it deletes; legal holds | only terminal, unheld rows disappear |
| Audit log (`audit.service.ts`) | `audit_logs` | insert inside a mutation, query | every mutation | its foreign key waits for the organization | a mutation and its record commit together |
| Rate limiting (`rateLimitStore.ts`) | counters in Redis | increment, decrement, reset | every request | INCR, TTL and EXPIRE are three calls, each may fail or be applied twice | a window admits no more than its limit and always ends |
| Readiness (`health.routes.ts`) | one shared probe | probe | PostgreSQL, Redis | timeouts that cancel nothing and keep clients of the pool | an answer is fresh and comes in time; an outage is not remembered |
| Startup, shutdown (`index.ts`) | worker flags, timers | start, stop | workers, server, pools | requests, batches and queries that never end | what is not forced cuts nothing off; the process exits |
| Slugs, reserved names (`slug.ts`, `role.schemas.ts`) | none | pure functions | organizations, roles | length and fallback at the boundary | a slug fits its column |
| Seed, migrations, schema | tables | run once | all | | |
| HTTP plumbing, configuration, body encryption | none | | all | | |

`PROJECT.json` lists the same parts with what is modelled of each, and under
`hazards` every place where the code can go wrong in a way that a test would
hardly reach, with the properties that would catch it.

## 2. How the modules read the code

PostgreSQL runs at READ COMMITTED. One statement that can wait or read is one
action; what nobody else can see before the commit happens in the action that
commits. A plain `SELECT` reads the committed state. `FOR UPDATE`, `UPDATE` and
`DELETE` wait for the row lock, look at the row again after the wait, and hold
the lock until the transaction ends. A `DELETE` or `UPDATE` of many rows chooses
them on its snapshot. An insertion with a foreign key waits for a `FOR UPDATE`
of the row it refers to. Any transaction may be rolled back at any point (an
error, a lost connection, a deadlock victim).

| module | models | state and actions |
|---|---|---|
| `PermissionCache` | `permission.service.ts`, updates and deletions of `role.service.ts` | one role; a reader has a control point per round trip of `resolveRolePermissions`, a writer one per statement of `updateRole` or `deleteRole`; a row of `role_permissions` carries the version that inserted it, which stands for the tuple's identity; SET, DEL and GET may fail and entries may vanish |
| `PermissionCacheProofs` | | theorems about `PermissionCache` |
| `Sessions` | `auth.service.ts` without registration, `authenticate.ts`, the session part of `retention.service.ts` | the sessions of one user; a refresh token is a session and a generation, because the jti and the hash change together; requests are `refresh`, `logout` and `logoutAll`; the worker's transaction holds its locks over both of its statements |
| `AtomicSessions` | what `Sessions` promises | the rows of the sessions, and per request its question and its answer; an operation reads and writes both in one step |
| `SessionsProofs` | | theorems about `Sessions` |
| `Outbox` | `email-delivery.service.ts`, `resend-email.service.ts` | rows, workers of several instances, the provider; a lease is named by the attempt it was drawn for, so that no two are equal, like the random UUIDs |
| `EmailPromise` | what the outbox promises | queued, accepted, reported, forgotten |
| `OutboxProofs` | | theorems about `Outbox`, the safety half of its refinement included |
| `Tenancy` | `organization.service.ts`, `membership.service.ts`, tenant resolution, the insertion of `acceptInvite` | one organization; requests are `update`, `remove`, `transfer` and `delete`; a membership has an id, so that a write by id can miss |
| `AtomicTenancy` | what `Tenancy` promises | the owner and the memberships; a request asks, looks up what the handler looks up first, and acts once |
| `TenancyProofs` | | theorems about `Tenancy` |
| `Invites` | `invite.service.ts`, `deleteRole`, `deleteOrganization`, the deletion of invitations by `retention.service.ts` | one organization with one custom role; an invitation has a status, an addressee, a role and an age (`fresh` before `expires_at`, `lapsed` after it, `old` once retention may delete it) until it is deleted with its columns; requests create, revoke, accept, delete the role or the organization; the foreign keys of an insertion are checked in one action; the cascade of the deletion and the worker's `DELETE` take the rows one by one, wait for whoever has one, and keep them to the commit |
| `AtomicInvites` | what `Invites` promises | the organization, its role, members and invitations alone, with the rules the schema states about them |
| `InvitesProofs` | | theorems about `Invites` |
| `Verification` | `registerUser`, `email-verification.service.ts`, the deletion of verification tokens by `retention.service.ts` | one address; a token is unknown until it is drawn, then valid, used or gone, may lapse and be held back; requests register, ask for a new token or present one, statement by statement; a row that a `DELETE` visits is locked, or spared, one at a time |
| `AtomicVerification` | what `Verification` promises | the account and its tokens, and per request what it asked for and what it owes to the tokens it found |
| `VerificationProofs` | | theorems about `Verification` |
| `Process` | `index.ts`, `health.routes.ts`, the loops of both workers, the pool of `client.ts` | one process; a handler or batch runs, or holds a client of the pool; the probe has a state per dependency; checks that timed out wait for a client or hold one; the phases of the shutdown |
| `ProcessProofs` | | theorems about `Process` |
| `RateLimit` | `rateLimitStore.ts` and the two limiters that use it | the counter of one client and its time to live; a request has a control point per command; a command may fail, be applied and not answered, or be applied twice, and a process may die between two |
| `RateLimitProofs` | | theorems about `RateLimit` |
| `MC*` | | symmetry sets for the model checker |

The comments at the head of each module say what its variables stand for; `map`
in `PROJECT.json` gives the source lines of each definition. An operator whose
comment says "Mutant of ..." is a plausible bug in the code of the definition it
varies. No specification uses it: with it in that definition's place, the
property that `mutants` lists for it is violated.

The four `Atomic*` modules state linearizability: the component beneath each is a
set of operations that act at one instant, however their statements interleave,
and its property `ActsAtomically` says that it implements them. What the code
leaves open is open there too, and can be read off it: an operation is judged by
the owner, the session or the token of the instant at which the request was asked,
where the handler reads these before it locks anything.

Left out on purpose: branches the code cannot reach (the `!rotated` branch of
`refreshSession`, which would need the locked row to change, and the "body is
missing" branch of `processEmailDeliveries`, which `RowConsistent` shows
unreachable); in `Invites`, requests that are refused before they lock or write
anything, and the statements of a role change or removal (one step there, because
`Tenancy` has them); the provider's idempotency keys (an acceptance is a set, so a
second one changes nothing); rows written before the jti column existed.

## 3. Runs

| run | instance | shows |
|---|---|---|
| `permission_cache` | 1 permission, 2 readers, 2 writers, versions to 2 | `TypeOK`; `CurrentEntryExact`: a failed DEL or a late SET never makes a stale set current (ADR 0003); `AnswerIsCommitted`: a call answers what PostgreSQL granted at its last query |
| `explicit_set` | 2 permissions, 2 writers | violation of `ExplicitSet`: two updates merge their sets |
| `sessions` | 2 sessions, 2 requests | `SingleUse`, `TheftContained`, `RevocationComplete`; `LogoutEndsToken`: a token that was logged out with is dead; `ActsAtomically`; `Answered`: nothing waits for ever |
| `logout` | 1 session, 2 requests | violation of `LogoutEndsSession` |
| `outbox` | 2 rows, 2 workers, batches of 2, 2 attempts, 1 fault | `RowConsistent`, `OneOwner`, `AttemptsPaidFor`; `KeepsPromise`: the outbox implements `EmailPromise`, safety and liveness |
| `tenancy` | 3 users, 2 requests, 2 joins each | `OneOwnerRole`, `OwnerLostOnlyToStaleRead`; `ActsAtomically`: a write by id hits the row that was found or none, and the deletion takes everything; `Answered` |
| `owner_keeps_role` | 3 users, 2 requests | violation of `OwnerKeepsRole` |
| `invites` | 1 user, the custom role, 2 invitations, 2 requests, the worker | `JoinOnlyByInvite`: a token admits its addressee once, while it is pending and timely; `CountsHold`: no acceptance slips between the two counts of `deleteRole` (ADR 0004); `ActsAtomically`: with the foreign keys and the unique index kept at every step; `Answered`, although operations and retention wait for each other's rows |
| `counts_suffice` | 1 user, 2 roles, 2 invitations, 2 requests | violation of `CountsSuffice` |
| `verification` | 3 tokens, 2 requests | `ActsAtomically`: only an unused, timely token verifies, and once, and what a replacement deletes goes as the new token comes; `HoldOverridesDeletion`: an old snapshot does not delete what an operator holds; `NeverStranded`: no failure or interleaving of a replacement leaves its user without the old token and the new; `ReplacementComplete`; `Answered` |
| `process` | 2 connections, 2 workers, 2 clients, 1 waiting check | `GracefulExit`: a shutdown that is not forced cuts nothing off; `ReadyIsFresh`: readiness is reported of answers within the probe; `ReadinessAnswered` and `Recovers`: abandoned checks do not block probes or report an outage that is over; `Exits` |
| `rate_limit` | 2 requests, limit 2, window of 2 ticks | `WindowQuota`: the hits of a key admit no more than the limit and nobody is admitted uncounted; `NoLockout`: a key left without an expiry is repaired |

**Bounds.** `MaxVersion` 2 lets an entry be written under a version twice
overtaken. One permission is enough for the two cache properties, which compare
whole sets; merging needs two. Two requests and the retention worker are what it
takes for a reuse detection to meet a rotation, a logout or another reuse
detection, and make every lock cycle. Two workers on two rows give a batch that is
overtaken after its first row; `MaxFaults` bounds crashes, abandoned batches and
overtaken leases together, and one of them is enough for a row to be claimed by a
second worker and for its attempts to exceed the maximum; a lease goes stale
without limit once its owner is gone. The transfer and the removal that meet need
two requests; the third user is the one two transfers can disagree about.
`MaxJoins` 2 lets a user be removed and come back under another row id. Two
invitations of one address are what the pending index, the expiry by a new
invitation and a second acceptance need, and two requests give every race of a
pair and every lock cycle of `Invites`: of a request and the deletion of the
organization, of the deletion and the worker over two old invitations, and of an
expiry and the worker. Its `invites` run offers the custom role alone, since a role
that cannot be deleted has nothing to wait for or to be refused, and the theorems
have any set of roles; `IdsLeft` lets no more requests create invitations than there
are identities. Three tokens let a replacement find two of
them, one held back once and one new, and leave one to draw, which is enough for a cycle of a replacement and the worker but
not for one of two replacements (two to find and two to draw); a request slot is
used again and again. In `Process` two clients are one for a transaction and one
for a check that will not come back, or two of either; `MaxQueue` bounds the
abandoned checks that wait for a client, which the pool itself does not bound. In
`RateLimit` the count stops at one above the limit, from where every answer is the
same, and two ticks tell an early renewal of the expiry from a late one. Theorems
lift every safety property of the passing runs, the refinements included, to any
instance.

**Deadlock** is not checked because every system here may stop: a request is
handled once, a message is settled, an organization is deleted, tokens run out, a
process exits, versions and faults are bounded. That nobody waits for ever is what
`Answered`, `KeepsPromise`, `ReadinessAnswered` and `Exits` check instead.
`rate_limit` never stops, and is checked for it.

**Fairness.** A request keeps taking steps because the event loop and PostgreSQL
do; strong fairness for the steps that take a row lock stands for PostgreSQL's
lock queue, in which a waiter is not overtaken for ever. Weak fairness of
`BreakDeadlock` is PostgreSQL's deadlock detector, which ends one transaction of
a cycle. The worker's transaction is such a transaction too in `Sessions`,
`Verification` and `Invites`: once begun it goes on, is queued for rows like a
request, and may be the one that a detected cycle costs. In `Invites` a request slot is used again, and PostgreSQL lets `FOR KEY
SHARE` holders pass a waiting `FOR UPDATE`: with three slots two of them could
starve the third for ever, so `Answered` is claimed, and checked, for two; a
registration does not end while another keeps inserting its address, whose steps
are fair too. The outbox's workers poll every five seconds and take the oldest row
first, so a row that is claimable again and again is claimed (strong fairness
for its claim); the clock makes a delayed row due and an abandoned lease stale
(weak fairness). In `Process` only timers are fair: the probe's, which leave the
check behind, the pool's connection timeout and the end of what was abandoned, and
the timer that forces the exit; neither dependencies nor handlers, batches, clients
or the graceful part of the shutdown are assumed to get anywhere. In `RateLimit`
time passes, and a command that is sent again and again is applied sometimes
(strong fairness), which is also what makes `NoLockout` an answer about a Redis that
works now and then. Nothing is assumed of the provider, of crashes, of arrivals, or of
when retention begins.

## 4. Findings

* **`ExplicitSet`** (`role.service.ts:199`). Two overlapping updates of one role
  leave the union of their permission sets; each caller is told it set its own.
  The `DELETE` of the second has a snapshot without the rows the first has
  inserted. Locking the role row first, as `deleteRole` does, would do.
* **`LogoutEndsSession`** (`auth.service.ts:303`). A logout that presents a token
  which a refresh has just rotated away matches no row, is answered "Logged
  out", and the session stays active.
* **`OwnerKeepsRole`** (`membership.service.ts:56`). A role change or a removal
  that read `owner_id` before a transfer of ownership to its target commits
  afterwards: the new owner is demoted or removed. A removed owner is no longer
  resolved as a member, and nobody else passes `requireOrgOwner`.

* **`CountsSuffice`** (`role.service.ts:319`). `deleteRole` counts pending
  invitations, but the RESTRICT foreign key is held by accepted, revoked and
  expired ones as well. After create, revoke, delete the role, both counts are
  zero, the `DELETE` fails with a raw foreign key error and the caller is answered
  500, until retention deletes the invitation. ADR 0004 reserves that error for a race.

Each finding has another half, which is proved: how far the damage goes. Among all
interleavings nothing but the stale read takes the owner's role
(`OwnerLostOnlyToStaleRead`); a logout leaves its own token useless, even where the
session goes on (`LogoutEndsToken`); an update that merges leaves only rows that were
committed after its `DELETE` took its snapshot (`MergesOnlyUnseen`); and nothing but
ended invitations is left to refuse `deleteRole` (`OnlyEndedRefer`).

**Where the documents disagree.** `TODO.md:31-33`, in a phase whose items "reflect
the current codebase state" (`TODO.md:4`), says that replaying a logged-out or
expired session's token revokes all sessions of the user, and that "replaying a
rotated-away token is rejected as invalid". The code revokes for the rotated-away
token as well and answers `TOKEN_REUSE_DETECTED` (`auth.service.ts:196-202`), as
`docs/architecture.md:86` and the repository's `README.md:36` say it does.
`TheftContained`, which the `sessions` run checks and `ReuseEndsSession` proves, is
what the code does; its case of one `rotated` and one `reuse` answer is the case in
which that line of `TODO.md` is out of date.

## 5. Proofs

The proofs are checked by TLAPS, for every value of the constants.

`PermissionCacheProofs` rests on `NoneDistinct` and `VersionBound` alone. The two
properties are not inductive: that an entry is exact says nothing of a SET that is still
under way. `IInv` adds what protects the current version: a reader about to SET
under it carries exactly the committed set, or the set of a later version than
its key; no entry lies above the current version; a writer between its UPDATE
and its commit holds the row lock, so that versions grow one commit at a time;
and only the holder of the lock deletes the role. `Invariance` proves it
inductive with one step per action; `TypeCorrect`, `CacheCoherence` and
`AnswersAreCommitted` follow. About the rows beneath the cache there is a second
invariant, `RowsInv`: rows and snapshots were written under versions of the past
(`WrittenInPast`), and a transaction that replaces the set has deleted what its
snapshot saw and is still there, while nobody else has or inserts what it has
inserted (`ReplaceInv`). From it follow `PermissionsGrantedOnce`, the primary key of
`role_permissions`, which no guard of the module states, and `UpdatesMergeOnlyUnseen`.

`TenancyProofs` rests on `NoneIsNobody` alone. That nobody but the owner has the
Owner role depends on what a transfer's locks protect between its statements, so
`IInv` says it: the organization is locked exactly by the transfer or deletion in
progress (`OrgLockInv`); under that lock the organization is live, the owner read
is the owner, and the target is another member whose row is held from its
selection to the commit (`TransferInv`); from the UPDATE on, the old owner's row is
held or absent (`DemoteInv`); and a role change or removal past its reads spares
the owner it has read and grants no Owner role (`ManageInv`). The one step that
can take the owner's role, the commit of such a request after a transfer, is what
`OwnerLostOnlyToStaleRead` admits. `Invariance` proves `IInv` inductive with one
lemma per action; `TypeCorrect`, `OwnerRoleUnique`, `OwnerLossExplained` and
`DeletionComplete` follow. `RequestsAreAtomic` is the refinement of `AtomicTenancy`:
the control of a request tells what it was asked and what it has looked up
(`QuestionInv`); and, because a row's id is not used again, whoever waits for its
commit holds the row that it has read, or that row is gone for good (`WriteInv`).

`InvitesProofs` rests on `NamesDistinct` and `RolesKnown`. Its `IInv` says what each
request may rely on between its statements: a `createInvite` has an addressee and a
role to offer (`CreatorInv`; its invitation gets an identity at the commit, which is
when anybody else can see it); past its lock a revocation or an acceptance holds the invitation, and the
acceptance carries its addressee and role (`SubjectInv`); a locked invitation is
pending, and its holder is about to end it, or goes with its organization, or is old
and the worker has it (`RowInv`); an invitation in the table has an addressee and a
role (`MadeInv`); the role and the organization are locked
exactly by the deletion in progress (`DeleterInv`); and what an uncommitted row
refers to is there and locked by nobody (`ShareInv`). With that the counts of
`deleteRole` stay true (`CountInv`, `CountsHold`), because an acceptance that
would disturb them needs a key share of the role. `Invariance` proves `IInv`
inductive with one lemma per action; the action properties `MembersWereInvited` and
`EndsOnce` follow from it and the step, the invariants `CountsStayTrue`,
`DeletionComplete` and `OnlyEndedRefer` from `IInv` alone. For `OperationsAreAtomic`,
the refinement of `AtomicInvites`, the unique index needs an invariant of its own
(`IndexInv`): a `createInvite` holds lapsed invitations of its own address only, from
its INSERT on all that are pending, and nobody else is inserting that address or that
membership. The abstract state then keeps the rules of the schema: `OnePendingPerAddress` and
`NothingDangles`.

`SessionsProofs` rests on `HoldersDistinct` alone. `IInv` says what a request
knows between its statements: its session was made (`RequestInv`); from its SELECT
FOR UPDATE to its end a refresh holds the session, which is active and has the token
presented when it is about to be rotated (`HolderInv`); a session that was rotated
has left the token behind, and one whose token was presented twice is not active
(`ReplyInv`); what a revocation is to end is still to be visited or locked by it
(`RevokeInv`); and the retention worker holds what it expires and deletes what has
ended (`WorkerInv`). `TokensRotateOnce` and `RevokesEverySession` are conjuncts of
it, `LogoutKillsToken` too, `ReuseEndsSession` follows from two of them, and
`EndedStaysEnded` from `IInv` and the steps that write a session. `RequestsAreAtomic`
is the refinement of `AtomicSessions`: the arrival of a request is its question, its
last statement its operation, and everything between changes nothing that anybody
can see. For that `HolderInv` says of a detected reuse that the row is held and is
still not the one the token was for, and `WorkerInv` that what the worker expires has
lapsed.

`OutboxProofs` rests on `LimitsArePositive` and `NoneIsNoDelivery`. A worker that
lost its lease is harmless because leases never come back: `LeaseInv` names a lease
by the latest attempt and every older claim by an older number; `WorkInv` ties a
mark of success to an acceptance; `BudgetInv` says that what may be claimed has an
attempt left or a fault to pay for it; `QueuedInv` that the provider knows only
what was enqueued. `LeasesExclude`, `AttemptsArePaidFor` and `RowsStayConsistent`
follow, and `ImplementsPromise` is the safety half of the refinement: the initial
state and every step map to `EmailPromise` or to a stutter of it.

`VerificationProofs` rests on `HoldersDistinct`. The step that verifies holds the
token's row from its guarded `UPDATE` to the commit, so the token is still unused
(`UserInv`); a locked row is its verifier's, or about to be deleted and not held
back (`LockInv`); what a replacement found working is, until it commits, still to
be visited, locked by it, used or gone (`BeforeInv`); what retention visits has
lapsed (`DoomedInv`); a token that is drawn is new (`DrawnInv`); and one request at
a time inserts the address (`AccountInv`). Four action properties follow from `IInv` and the
four kinds of commits (`QuietStep`): `VerifiedByValidToken`, `HoldsOverrideDeletion`,
`AlwaysAWayIn`, `ReplacesAll`. `RequestsAreAtomic` is the refinement of
`AtomicVerification`. What a request asked for is a function of its control (`Asked`),
and it owes nothing before it arrives (`QuestionInv`); `BeforeInv` is what makes a
replacement end all it has to, `LockInv` what keeps it from more.

`ProcessProofs` rests on `PoolNotEmpty` and `JobsDistinct`. `PoolInv` bounds the
clients in use by the pool, abandoned checks included, which is half of
`TypeCorrect`; `DrainInv` says what is over in each phase of the shutdown: no
connection once the server is closed, no client in use once the pool has ended,
nothing at all after the exit. `GracefulExitDrains` follows. `ReadinessIsFresh` has an
invariant of its own, `FreshInv`: there is a probe exactly while somebody waits for
it, and it has seen whatever it calls up.

`RateLimitProofs` rests on `LimitsArePositive` and `RequestsFinite`. `QuotaInv`
counts admissions together with the answers that will still admit (`Pending`): their
number is at most the count of the key and at most the limit, which each INCR that
answers within the limit uses up one of.

`EndedStaysEnded`, `EndsOnce`, `DeletionComplete` and `VerifiedByValidToken` are
implied by the refinements of their modules, which the runs check in their place;
they are stated because a reader asks for them.

Only model-checked: all liveness (`Answered`, `Recovers`, `Exits`,
`ReadinessAnswered`, `NoLockout`, the liveness half of `KeepsPromise`), because TLAPS
does not prove properties under fairness.

## 6. Not modelled, and why

* Of `role.service.ts`, `createRole` and the names of roles: a new role has no
  cache entry and no reader, and a name that is taken is one refusal of the unique
  index. Of `organization.service.ts`, the retries for a slug that is taken, which
  end in one creation or none, and the rename, which changes nothing else reads.
* The deletion of audit logs by `retention.service.ts`, which nothing reads back,
  and its batches of 1000: what is left over is deleted by the next run. Old audit
  records are locked by two alone, as the last rows of each: the worker, and the
  deletion of their organization, whose key sets them to null after the cascades to
  invitations, memberships and roles. So the two can also wait for each other there,
  a cycle like theirs over invitations, and nobody else is in it.
* That one transaction of the worker goes through all tables: each module has its
  part of it. Nobody else locks existing rows of two of them, the deletion of an
  organization apart (invitations and audit records, see above), so that no cycle
  goes through two modules. In `Invites` the worker therefore goes from its last
  invitation to its commit; it keeps them locked meanwhile, however long that takes.
* A second retention worker. Every instance runs one, so that two cleanups may overlap;
  `Sessions`, `Invites` and `Verification` have one, whose runs follow each other. A
  row that two of them want is deleted by the one and found gone by the other, which
  the models have as a row that is gone when it is visited; that the two can close a
  cycle of their own, which costs one of them its run, is not checked.
* Legal holds on invitations and sessions: `RetentionScan` and its like choose any of
  the rows that are due, which is what a held row and a full batch look like. What a
  hold does to a deletion under way is checked for verification tokens, whose
  statement has the same form.
* That the answer and the audit record of a role change say it was made when the
  membership was gone (`membership.service.ts:112`), which no document rules out, and
  exhaustion of the pool: `Recovers` is about a pool that has a client to spare,
  `ReadinessAnswered` about any.
* A composition of tenant resolution with the permission cache. A request's role and
  its permissions are read at two instants; no document promises that one instant
  granted both, so there would be nothing to check but the two halves, which
  `Tenancy` and `PermissionCache` check.
* Slugs, reserved names and retry delays: pure functions that unit tests cover.
* HTTP plumbing, configuration, logging, pagination and encryption, which keep no
  state or are not the program's own; seeding and migrations, which run alone.

What is left to do within these bounds: `Verification` and `Outbox` share the tokens
that an email carries, and `Process` and `Outbox` the batch that a forced exit cuts
off; each pair meets in an assumption of one about the other (a token may die at any
time, a worker may crash at any time) that the other satisfies.
