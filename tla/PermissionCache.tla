--------------------------- MODULE PermissionCache ---------------------------
(***************************************************************************)
(* The read-through permission cache of one role                           *)
(* (services/permission.service.ts) together with the transactions that    *)
(* change the role under it (services/role.service.ts).                    *)
(*                                                                         *)
(* A request resolves a role's permission names in up to five round trips  *)
(* to PostgreSQL and Redis.  An administrator's update is a READ COMMITTED *)
(* transaction of several statements followed by a best-effort             *)
(* invalidation of the cache.  Every round trip is an action, so calls and *)
(* updates interleave as they do over the connection pool.                 *)
(*                                                                         *)
(* A row of role_permissions is a pair <<permission, version>>: the second *)
(* part is the role version whose transaction inserted it and stands for   *)
(* the identity of the PostgreSQL tuple.                                   *)
(***************************************************************************)
EXTENDS Naturals, FiniteSets

CONSTANTS
    Permissions,    \* permission names
    Readers,        \* concurrent calls of resolveRolePermissions
    Writers,        \* concurrent calls of updateRole and deleteRole
    MaxVersion,     \* bound on roles.permission_version
    None,           \* no lock holder, no cache entry
    Unchanged       \* an update whose body has no "permissions"

ASSUME VersionBound == MaxVersion \in Nat
ASSUME NoneDistinct ==
    /\ None \notin Writers
    /\ \A P \in SUBSET Permissions : P # None /\ P # Unchanged

VARIABLES
    exists,     \* the roles row is there
    version,    \* its committed permission_version
    rows,       \* committed role_permissions tuples of the role
    lock,       \* the writer holding the roles row for update
    cache,      \* Redis: rbac:role:<id>:v<version>:permissions
    rpc, key, names,            \* per reader: control, version key, answer
    wpc, change, snap, dels,    \* per writer, see TypeOK
    last        \* history: the committed set at a reader's latest query

dbVars == <<exists, version, rows, lock>>
readerVars == <<rpc, key, names>>
writerVars == <<wpc, change, snap, dels>>
vars == <<dbVars, cache, readerVars, writerVars, last>>

Versions == 0 .. MaxVersion
Tuples == Permissions \X Versions
Granted(tuples) == {t[1] : t \in tuples}

TypeOK ==
    /\ exists \in BOOLEAN
    /\ version \in Versions
    /\ rows \in SUBSET Tuples
    /\ lock \in Writers \cup {None}
    /\ cache \in [Versions -> {None} \cup SUBSET Permissions]
    /\ rpc \in [Readers -> {"idle", "get", "recheck", "rows", "set", "done"}]
    /\ key \in [Readers -> Versions]
    /\ names \in [Readers -> SUBSET Permissions]
    /\ wpc \in [Writers -> {"idle", "delete", "deleting", "insert", "bump",
                            "commit", "drop", "invalidate"}]
    /\ change \in [Writers -> {Unchanged} \cup SUBSET Permissions]
    /\ snap \in [Writers -> SUBSET Tuples]   \* what the DELETE's snapshot saw
    /\ dels \in [Writers -> SUBSET Tuples]   \* tuples deleted, not committed
    /\ last \in [Readers -> SUBSET Permissions]

Init ==
    /\ exists = TRUE
    /\ version = 0
    /\ rows \in {P \X {0} : P \in SUBSET Permissions}
    /\ lock = None
    /\ cache = [v \in Versions |-> None]
    /\ rpc = [r \in Readers |-> "idle"]
    /\ key = [r \in Readers |-> 0]
    /\ names = [r \in Readers |-> {}]
    /\ wpc = [w \in Writers |-> "idle"]
    /\ change = [w \in Writers |-> Unchanged]
    /\ snap = [w \in Writers |-> {}]
    /\ dels = [w \in Writers |-> {}]
    /\ last = [r \in Readers |-> {}]

-----------------------------------------------------------------------------
(* resolveRolePermissions *)

\* Mutant of ReadVersion: the key is that of the version to come.
ReadNextVersion(r) ==
    /\ rpc[r] = "idle"
    /\ last' = [last EXCEPT ![r] = Granted(rows)]
    /\ \/ /\ ~exists
          /\ rpc' = [rpc EXCEPT ![r] = "done"]
          /\ names' = [names EXCEPT ![r] = {}]
          /\ UNCHANGED key
       \/ /\ exists
          /\ rpc' = [rpc EXCEPT ![r] = "get"]
          /\ key' = [key EXCEPT ![r] = version + 1]
          /\ UNCHANGED names
    /\ UNCHANGED <<dbVars, cache, writerVars>>

\* The version read that fixes the cache key; a role that is gone grants nothing.
ReadVersion(r) ==
    /\ rpc[r] = "idle"
    /\ last' = [last EXCEPT ![r] = Granted(rows)]
    /\ \/ /\ ~exists
          /\ rpc' = [rpc EXCEPT ![r] = "done"]
          /\ names' = [names EXCEPT ![r] = {}]
          /\ UNCHANGED key
       \/ /\ exists
          /\ rpc' = [rpc EXCEPT ![r] = "get"]
          /\ key' = [key EXCEPT ![r] = version]
          /\ UNCHANGED names
    /\ UNCHANGED <<dbVars, cache, writerVars>>

\* redis.get: a hit is checked against the database, a miss or a failure is not.
CacheGet(r) ==
    /\ rpc[r] = "get"
    /\ \/ /\ cache[key[r]] # None
          /\ names' = [names EXCEPT ![r] = cache[key[r]]]
          /\ rpc' = [rpc EXCEPT ![r] = "recheck"]
       \/ /\ rpc' = [rpc EXCEPT ![r] = "rows"]
          /\ UNCHANGED names
    /\ UNCHANGED <<dbVars, cache, key, writerVars, last>>

\* Mutant of RecheckVersion: a hit is served without the second version read.
RecheckNothing(r) ==
    /\ rpc[r] = "recheck"
    /\ rpc' = [rpc EXCEPT ![r] = "done"]
    /\ last' = [last EXCEPT ![r] = Granted(rows)]
    /\ UNCHANGED <<dbVars, cache, key, names, writerVars>>

\* The second version read.  An error of this query is caught like one of
\* Redis, so the database answer may be used whatever the version is.
RecheckVersion(r) ==
    /\ rpc[r] = "recheck"
    /\ \/ /\ exists /\ version = key[r]
          /\ rpc' = [rpc EXCEPT ![r] = "done"]
       \/ rpc' = [rpc EXCEPT ![r] = "rows"]
    /\ last' = [last EXCEPT ![r] = Granted(rows)]
    /\ UNCHANGED <<dbVars, cache, key, names, writerVars>>

ReadRows(r) ==
    /\ rpc[r] = "rows"
    /\ names' = [names EXCEPT ![r] = Granted(rows)]
    /\ last' = [last EXCEPT ![r] = Granted(rows)]
    /\ rpc' = [rpc EXCEPT ![r] = "set"]
    /\ UNCHANGED <<dbVars, cache, key, writerVars>>

\* redis.set under the key read first; a failure is logged and forgotten.
CacheSet(r) ==
    /\ rpc[r] = "set"
    /\ cache' \in {cache, [cache EXCEPT ![key[r]] = names[r]]}
    /\ rpc' = [rpc EXCEPT ![r] = "done"]
    /\ UNCHANGED <<dbVars, key, names, writerVars, last>>

\* The call returns, or a database error outside the try block ends it.
Leave(r) ==
    /\ rpc[r] \in {"rows", "done"}
    /\ rpc' = [rpc EXCEPT ![r] = "idle"]
    /\ key' = [key EXCEPT ![r] = 0]
    /\ names' = [names EXCEPT ![r] = {}]
    /\ last' = [last EXCEPT ![r] = {}]
    /\ UNCHANGED <<dbVars, cache, writerVars>>

\* The 300 s TTL, or an eviction.
CacheExpire(v) ==
    /\ cache[v] # None
    /\ cache' = [cache EXCEPT ![v] = None]
    /\ UNCHANGED <<dbVars, readerVars, writerVars, last>>

-----------------------------------------------------------------------------
(* updateRole and deleteRole *)

\* A transaction that inserted mappings holds FOR KEY SHARE on the roles row
\* through the foreign key check.
KeyShare(w) == wpc[w] \in {"bump", "commit"} /\ change[w] \notin {Unchanged, {}}

Inserted(w) == IF KeyShare(w) THEN change[w] ELSE {}

\* The plain SELECT of the role, without a lock, and resolvePermissionIds.
UpdateRole(w, c) ==
    /\ wpc[w] = "idle"
    /\ exists
    /\ change' = [change EXCEPT ![w] = c]
    /\ wpc' = [wpc EXCEPT ![w] = IF c = Unchanged THEN "bump" ELSE "delete"]
    /\ UNCHANGED <<dbVars, cache, readerVars, snap, dels, last>>

\* DELETE FROM role_permissions: its snapshot is fixed when the statement starts.
DeleteScan(w) ==
    /\ wpc[w] = "delete"
    /\ snap' = [snap EXCEPT ![w] = rows]
    /\ wpc' = [wpc EXCEPT ![w] = "deleting"]
    /\ UNCHANGED <<dbVars, cache, readerVars, change, dels, last>>

\* It waits for the transactions that deleted a tuple of the snapshot, skips
\* what they removed and never sees what they inserted.
DeleteApply(w) ==
    /\ wpc[w] = "deleting"
    /\ \A x \in Writers \ {w} : dels[x] \cap snap[w] = {}
    /\ dels' = [dels EXCEPT ![w] = snap[w] \cap rows]
    /\ wpc' = [wpc EXCEPT ![w] = "insert"]
    /\ UNCHANGED <<dbVars, cache, readerVars, change, snap, last>>

\* INSERT INTO role_permissions waits for a transaction in progress that
\* inserted or deleted the same primary key, and for a deleteRole that holds
\* the roles row.
InsertWaits(w) ==
    /\ change[w] # {}
    /\ \/ \E x \in Writers \ {w} :
             change[w] \cap (Inserted(x) \cup Granted(dels[x])) # {}
       \/ \E x \in Writers : lock = x /\ wpc[x] = "drop"

InsertCollides(w) == change[w] \cap Granted(rows \ dels[w]) # {}

InsertMappings(w) ==
    /\ wpc[w] = "insert"
    /\ ~InsertWaits(w)
    /\ ~InsertCollides(w)
    /\ exists \/ change[w] = {}
    /\ wpc' = [wpc EXCEPT ![w] = "bump"]
    /\ UNCHANGED <<dbVars, cache, readerVars, change, snap, dels, last>>

\* UPDATE roles: takes the row and computes permission_version + 1 from its
\* latest committed value.
UpdateRow(w) ==
    /\ wpc[w] = "bump"
    /\ exists
    /\ lock = None
    /\ version < MaxVersion
    /\ lock' = w
    /\ wpc' = [wpc EXCEPT ![w] = "commit"]
    /\ UNCHANGED <<exists, version, rows, cache, readerVars, change, snap, dels,
                   last>>

\* Mutant of CommitUpdate: the permission set changes under an unchanged version.
CommitKeepingVersion(w) ==
    /\ wpc[w] = "commit"
    /\ rows' = IF change[w] = Unchanged THEN rows
               ELSE (rows \ dels[w]) \cup (change[w] \X {version + 1})
    /\ lock' = None
    /\ dels' = [dels EXCEPT ![w] = {}]
    /\ change' = [change EXCEPT ![w] = Unchanged]
    /\ snap' = [snap EXCEPT ![w] = {}]
    /\ wpc' = [wpc EXCEPT ![w] = "invalidate"]
    /\ UNCHANGED <<exists, version, cache, readerVars, last>>

CommitUpdate(w) ==
    /\ wpc[w] = "commit"
    /\ IF change[w] = Unchanged
       THEN UNCHANGED <<rows, version>>
       ELSE /\ rows' = (rows \ dels[w]) \cup (change[w] \X {version + 1})
            /\ version' = version + 1
    /\ lock' = None
    /\ dels' = [dels EXCEPT ![w] = {}]
    /\ change' = [change EXCEPT ![w] = Unchanged]
    /\ snap' = [snap EXCEPT ![w] = {}]
    /\ wpc' = [wpc EXCEPT ![w] = "invalidate"]
    /\ UNCHANGED <<exists, cache, readerVars, last>>

\* SELECT ... FOR UPDATE of a role no membership or pending invite refers to.
DeleteRole(w) ==
    /\ wpc[w] = "idle"
    /\ exists
    /\ lock = None
    /\ \A x \in Writers : ~KeyShare(x)
    /\ lock' = w
    /\ wpc' = [wpc EXCEPT ![w] = "drop"]
    /\ UNCHANGED <<exists, version, rows, cache, readerVars, change, snap, dels,
                   last>>

\* DELETE FROM roles; the cascade waits for deleted mappings of others.
CommitDelete(w) ==
    /\ wpc[w] = "drop"
    /\ \A x \in Writers : dels[x] \cap rows = {}
    /\ exists' = FALSE
    /\ rows' = {}
    /\ lock' = None
    /\ wpc' = [wpc EXCEPT ![w] = "invalidate"]
    /\ UNCHANGED <<version, cache, readerVars, change, snap, dels, last>>

\* Rollback: a unique or foreign key violation, no row updated, a deadlock
\* victim, or a lost connection.
Rollback(w) ==
    /\ wpc[w] \in {"delete", "deleting", "insert", "bump", "commit", "drop"}
    /\ lock' = IF lock = w THEN None ELSE lock
    /\ dels' = [dels EXCEPT ![w] = {}]
    /\ change' = [change EXCEPT ![w] = Unchanged]
    /\ snap' = [snap EXCEPT ![w] = {}]
    /\ wpc' = [wpc EXCEPT ![w] = "idle"]
    /\ UNCHANGED <<exists, version, rows, cache, readerVars, last>>

\* invalidateRolePermissionsCache, after the commit: SCAN and DEL, batch by
\* batch.  SCAN takes no snapshot and a failure stops it anywhere, so what is
\* removed is some of the keys; the call never fails.
Invalidate(w) ==
    /\ wpc[w] = "invalidate"
    /\ \E K \in SUBSET Versions :
          cache' = [v \in Versions |-> IF v \in K THEN None ELSE cache[v]]
    /\ wpc' = [wpc EXCEPT ![w] = "idle"]
    /\ UNCHANGED <<dbVars, readerVars, change, snap, dels, last>>

-----------------------------------------------------------------------------
Reader(r) ==
    \/ ReadVersion(r) \/ CacheGet(r) \/ RecheckVersion(r)
    \/ ReadRows(r) \/ CacheSet(r) \/ Leave(r)

Writer(w) ==
    \/ \E c \in {Unchanged} \cup SUBSET Permissions : UpdateRole(w, c)
    \/ DeleteScan(w) \/ DeleteApply(w) \/ InsertMappings(w) \/ UpdateRow(w)
    \/ CommitUpdate(w) \/ DeleteRole(w) \/ CommitDelete(w) \/ Rollback(w)
    \/ Invalidate(w)

Next ==
    \/ \E r \in Readers : Reader(r)
    \/ \E w \in Writers : Writer(w)
    \/ \E v \in Versions : CacheExpire(v)

Spec == Init /\ [][Next]_vars

-----------------------------------------------------------------------------
\* The entry under the role's current version, whoever wrote it and however
\* late, is exactly the committed permission set: a failed DEL or a slow SET of
\* an older call can never make a stale set current (ADR 0003).
CurrentEntryExact ==
    exists /\ cache[version] # None => cache[version] = Granted(rows)

\* What resolveRolePermissions returns is what PostgreSQL granted at the instant
\* of the call's last query, whether Redis or the database supplied it: Redis
\* never grants access that PostgreSQL does not authorize.
AnswerIsCommitted == \A r \in Readers : rpc[r] = "done" => names[r] = last[r]

\* A role has a permission once, as the primary key of role_permissions says:
\* the statements that wait for each other leave no way around it.
GrantedOnce == \A s, t \in rows : s[1] = t[1] => s = t

\* What an update that replaces the set leaves: what it asks for, and of the old
\* rows only those that its DELETE, whose snapshot is older, could not see.
ReplacesSeen ==
    \A w \in Writers :
        wpc[w] = "commit" /\ wpc'[w] = "invalidate" /\ change[w] # Unchanged =>
            rows' = (rows \ snap[w]) \cup (change[w] \X {version'})

MergesOnlyUnseen == [][ReplacesSeen]_vars

\* A role has the explicit set its latest permission update asked for: every
\* mapping row was written by the update that produced the current version.
ExplicitSet == \A t \in rows : t[2] = version

=============================================================================
