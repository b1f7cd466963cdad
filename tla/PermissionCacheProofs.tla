------------------------ MODULE PermissionCacheProofs ------------------------
(***************************************************************************)
(* For every set of permissions, readers and writers: the cache entry of   *)
(* the current version is exact, and every answer is the committed set of  *)
(* the call's last query.                                                  *)
(***************************************************************************)
EXTENDS PermissionCache, TLAPS

\* The roles row is locked exactly by the writer about to commit, and a locked
\* row exists: no commit follows a deletion, and no two commits interleave.
LockInv ==
    /\ \A w \in Writers : wpc[w] \in {"commit", "drop"} <=> lock = w
    /\ lock # None => exists
    /\ \A w \in Writers : wpc[w] = "commit" => version < MaxVersion

\* A key was the version once, and nothing is cached for a version to come.
KeysInPast ==
    /\ \A r \in Readers : key[r] <= version
    /\ \A v \in Versions : v > version => cache[v] = None

\* A set a reader carries for the version it read first is the committed one
\* for as long as that version is current.
CarriedExact ==
    \A r \in Readers :
        rpc[r] \in {"recheck", "set"} /\ exists /\ version = key[r]
            => names[r] = Granted(rows)

\* Between the query and the return the answer is what the query saw.
AnswerInv ==
    \A r \in Readers : rpc[r] \in {"set", "done"} => names[r] = last[r]

\* A deleted role has no mappings left, and none come back.
GoneGrantsNothing == ~exists => rows = {}

IInv ==
    /\ TypeOK
    /\ GoneGrantsNothing
    /\ LockInv
    /\ KeysInPast
    /\ CurrentEntryExact
    /\ CarriedExact
    /\ AnswerInv

-----------------------------------------------------------------------------
(* The steps, in the groups that touch the same state. *)

\* What rows grant are permissions.
LEMMA GrantedType == ASSUME NEW T \in SUBSET Tuples PROVE Granted(T) \in SUBSET Permissions
BY DEF Granted, Tuples

\* No key is cached and nobody reads or writes.
LEMMA InitInv == Init => IInv
<1> SUFFICES ASSUME Init PROVE IInv
  OBVIOUS
<1> USE VersionBound, NoneDistinct
<1>1. 0 \in Versions
  BY DEF Versions
<1>2. rows \in SUBSET Tuples
  BY <1>1 DEF Init, Tuples
<1>3. TypeOK
  BY <1>1, <1>2 DEF Init, TypeOK
<1>4. LockInv /\ GoneGrantsNothing
  BY DEF Init, LockInv, GoneGrantsNothing
<1>5. KeysInPast /\ CurrentEntryExact /\ CarriedExact /\ AnswerInv
  BY <1>1 DEF Init, KeysInPast, CurrentEntryExact, CarriedExact,
     AnswerInv
<1> QED
  BY <1>3, <1>4, <1>5 DEF IInv

\* The steps of a call that reads permissions.
LEMMA ReaderStep ==
    ASSUME IInv, NEW r \in Readers, Reader(r)
    PROVE  IInv'
<1> USE VersionBound, NoneDistinct DEF dbVars, writerVars
<1>t. Granted(rows) \in SUBSET Permissions
  BY GrantedType DEF IInv, TypeOK
<1>0. TypeOK /\ GoneGrantsNothing /\ LockInv /\ KeysInPast /\ CurrentEntryExact /\ CarriedExact
        /\ AnswerInv
  BY DEF IInv
<1>1. CASE ReadVersion(r)
  <2>1. TypeOK'
    BY <1>0, <1>1, <1>t DEF ReadVersion, TypeOK
  <2>2. LockInv' /\ GoneGrantsNothing' /\ CurrentEntryExact'
    BY <1>0, <1>1 DEF ReadVersion, LockInv, GoneGrantsNothing, CurrentEntryExact
  <2>3. KeysInPast'
    <3>1. version' = version /\ version \in Nat /\ cache' = cache
      BY <1>0, <1>1 DEF ReadVersion, TypeOK, Versions
    <3>2. \A x \in Readers : key'[x] = key[x] \/ key'[x] = version
      BY <1>0, <1>1 DEF ReadVersion, TypeOK
    <3>3. \A x \in Readers : key'[x] <= version'
      BY <1>0, <3>1, <3>2 DEF KeysInPast
    <3> QED
      BY <1>0, <3>1, <3>3 DEF KeysInPast
  <2>4. ~exists => Granted(rows) = {}
    BY <1>0 DEF GoneGrantsNothing, Granted
  <2>5. CarriedExact' /\ AnswerInv'
    <3>1. CASE ~exists
      BY <1>0, <1>1, <2>4, <3>1 DEF ReadVersion, CarriedExact, AnswerInv, TypeOK
    <3>2. CASE exists
      BY <1>0, <1>1, <3>2 DEF ReadVersion, CarriedExact, AnswerInv, TypeOK
    <3> QED
      BY <3>1, <3>2
  <2> QED
    BY <2>1, <2>2, <2>3, <2>5 DEF IInv
<1>2. CASE CacheGet(r)
  <2>1. key[r] \in Versions /\ key[r] <= version
    BY <1>0 DEF TypeOK, KeysInPast
  <2>2. TypeOK'
    BY <1>0, <1>2, <2>1 DEF CacheGet, TypeOK
  <2>3. LockInv' /\ GoneGrantsNothing' /\ KeysInPast' /\ CurrentEntryExact'
    BY <1>0, <1>2 DEF CacheGet, LockInv, GoneGrantsNothing, KeysInPast, CurrentEntryExact
  <2>4. CarriedExact' /\ AnswerInv'
    BY <1>0, <1>2 DEF CacheGet, CarriedExact, AnswerInv, TypeOK,
       CurrentEntryExact
  <2> QED
    BY <2>2, <2>3, <2>4 DEF IInv
<1>3. CASE RecheckVersion(r)
  <2>1. TypeOK'
    BY <1>0, <1>3, <1>t DEF RecheckVersion, TypeOK
  <2>2. LockInv' /\ GoneGrantsNothing' /\ KeysInPast' /\ CurrentEntryExact'
    BY <1>0, <1>3 DEF RecheckVersion, LockInv, GoneGrantsNothing, KeysInPast, CurrentEntryExact
  <2>3. CarriedExact' /\ AnswerInv'
    BY <1>0, <1>3 DEF RecheckVersion, CarriedExact, AnswerInv, TypeOK
  <2> QED
    BY <2>1, <2>2, <2>3 DEF IInv
<1>4. CASE ReadRows(r)
  <2>1. TypeOK'
    BY <1>0, <1>4, <1>t DEF ReadRows, TypeOK
  <2>2. LockInv' /\ GoneGrantsNothing' /\ KeysInPast' /\ CurrentEntryExact'
    BY <1>0, <1>4 DEF ReadRows, LockInv, GoneGrantsNothing, KeysInPast, CurrentEntryExact
  <2>3. CarriedExact' /\ AnswerInv'
    BY <1>0, <1>4 DEF ReadRows, CarriedExact, AnswerInv, TypeOK
  <2> QED
    BY <2>1, <2>2, <2>3 DEF IInv
<1>5. CASE CacheSet(r)
  <2>1. key[r] \in Versions /\ key[r] <= version /\ names[r] \in SUBSET Permissions
    BY <1>0 DEF TypeOK, KeysInPast
  <2>2. TypeOK'
    BY <1>0, <1>5, <2>1 DEF CacheSet, TypeOK
  <2>3. LockInv' /\ GoneGrantsNothing'
    BY <1>0, <1>5 DEF CacheSet, LockInv, GoneGrantsNothing
  <2>4. KeysInPast'
    <3>1. version' = version /\ key' = key /\ version \in Nat /\ key[r] \in Nat
      BY <1>0, <1>5, <2>1 DEF CacheSet, TypeOK, Versions
    <3>2. \A v \in Versions : v # key[r] => cache'[v] = cache[v]
      BY <1>0, <1>5, <2>1 DEF CacheSet, TypeOK
    <3>3. \A v \in Versions : v > version => v # key[r]
      BY <2>1, <3>1 DEF Versions
    <3> QED
      BY <1>0, <3>1, <3>2, <3>3 DEF KeysInPast
  <2>5. CurrentEntryExact'
    BY <1>0, <1>5, <2>1 DEF CacheSet, CurrentEntryExact, CarriedExact, TypeOK
  <2>6. CarriedExact'
    BY <1>0, <1>5 DEF CacheSet, CarriedExact, TypeOK
  <2>7. AnswerInv'
    BY <1>0, <1>5 DEF CacheSet, AnswerInv, TypeOK
  <2> QED
    BY <2>2, <2>3, <2>4, <2>5, <2>6, <2>7 DEF IInv
<1>6. CASE Leave(r)
  <2>1. TypeOK'
    BY <1>0, <1>6 DEF Leave, TypeOK, Versions
  <2>2. LockInv' /\ GoneGrantsNothing' /\ CurrentEntryExact'
    BY <1>0, <1>6 DEF Leave, LockInv, GoneGrantsNothing, CurrentEntryExact
  <2>3. KeysInPast'
    <3>1. \A x \in Readers : key'[x] <= version'
      BY <1>0, <1>6 DEF Leave, KeysInPast, TypeOK, Versions
    <3> QED
      BY <1>0, <1>6, <3>1 DEF Leave, KeysInPast
  <2>4. CarriedExact' /\ AnswerInv'
    BY <1>0, <1>6 DEF Leave, CarriedExact, AnswerInv, TypeOK
  <2> QED
    BY <2>1, <2>2, <2>3, <2>4 DEF IInv
<1> QED
  BY <1>1, <1>2, <1>3, <1>4, <1>5, <1>6 DEF Reader

\* A cached entry expires.
LEMMA ExpireStep ==
    ASSUME IInv, NEW u \in Versions, CacheExpire(u)
    PROVE  IInv'
<1> USE VersionBound, NoneDistinct DEF dbVars, readerVars, writerVars
<1>0. TypeOK /\ GoneGrantsNothing /\ LockInv /\ KeysInPast /\ CurrentEntryExact
        /\ CarriedExact /\ AnswerInv
  BY DEF IInv
<1>1. cache' = [cache EXCEPT ![u] = None]
  BY DEF CacheExpire
<1>2. \A v \in Versions : cache'[v] \in {cache[v], None}
  BY <1>0, <1>1 DEF TypeOK
<1>3. TypeOK'
  BY <1>0, <1>1 DEF CacheExpire, TypeOK
<1>4. LockInv' /\ GoneGrantsNothing' /\ CarriedExact' /\ AnswerInv'
  BY <1>0 DEF CacheExpire, LockInv, GoneGrantsNothing, CarriedExact, AnswerInv
<1>5. KeysInPast' /\ CurrentEntryExact'
  BY <1>0, <1>2 DEF CacheExpire, KeysInPast, CurrentEntryExact, TypeOK
<1> QED
  BY <1>3, <1>4, <1>5 DEF IInv

\* The statements of a transaction: nothing committed changes.
LEMMA StatementStep ==
    ASSUME IInv, NEW w \in Writers,
           \/ \E c \in {Unchanged} \cup SUBSET Permissions : UpdateRole(w, c)
           \/ DeleteScan(w) \/ DeleteApply(w) \/ InsertMappings(w)
           \/ UpdateRow(w) \/ DeleteRole(w) \/ Rollback(w)
    PROVE  IInv'
<1> USE VersionBound, NoneDistinct DEF dbVars, readerVars
<1>0. TypeOK /\ GoneGrantsNothing /\ LockInv /\ KeysInPast /\ CurrentEntryExact
        /\ CarriedExact /\ AnswerInv
  BY DEF IInv
<1>1. UNCHANGED <<exists, version, rows, cache, readerVars, last>>
  BY DEF UpdateRole, DeleteScan, DeleteApply, InsertMappings, UpdateRow,
     DeleteRole, Rollback
<1>2. TypeOK'
  <2>1. CASE \E c \in {Unchanged} \cup SUBSET Permissions : UpdateRole(w, c)
    BY <1>0, <2>1 DEF UpdateRole, TypeOK
  <2>2. CASE DeleteScan(w) \/ DeleteApply(w)
    BY <1>0, <2>2 DEF DeleteScan, DeleteApply, TypeOK
  <2>3. CASE InsertMappings(w) \/ UpdateRow(w) \/ DeleteRole(w)
    BY <1>0, <2>3 DEF InsertMappings, UpdateRow, DeleteRole, TypeOK
  <2>4. CASE Rollback(w)
    BY <1>0, <2>4 DEF Rollback, TypeOK
  <2> QED
    BY <2>1, <2>2, <2>3, <2>4
<1>3. LockInv'
  <2>1. CASE \E c \in {Unchanged} \cup SUBSET Permissions : UpdateRole(w, c)
    BY <1>0, <2>1 DEF UpdateRole, LockInv, TypeOK
  <2>2. CASE DeleteScan(w) \/ DeleteApply(w) \/ InsertMappings(w)
    BY <1>0, <2>2 DEF DeleteScan, DeleteApply, InsertMappings, LockInv, TypeOK
  <2>3. CASE UpdateRow(w) \/ DeleteRole(w)
    BY <1>0, <2>3 DEF UpdateRow, DeleteRole, LockInv, TypeOK
  <2>4. CASE Rollback(w)
    BY <1>0, <2>4 DEF Rollback, LockInv, TypeOK
  <2> QED
    BY <2>1, <2>2, <2>3, <2>4,
       (\/ \E c \in {Unchanged} \cup SUBSET Permissions : UpdateRole(w, c)
        \/ DeleteScan(w) \/ DeleteApply(w) \/ InsertMappings(w)
        \/ UpdateRow(w) \/ DeleteRole(w) \/ Rollback(w))
<1>4. GoneGrantsNothing' /\ KeysInPast' /\ CurrentEntryExact' /\ CarriedExact'
        /\ AnswerInv'
  BY <1>0, <1>1 DEF GoneGrantsNothing, KeysInPast, CurrentEntryExact,
     CarriedExact, AnswerInv
<1> QED
  BY <1>2, <1>3, <1>4 DEF IInv

\* The permission set changes together with the version: whatever is cached or
\* carried belongs to a version that is no longer current.
LEMMA CommitUpdateStep ==
    ASSUME IInv, NEW w \in Writers, CommitUpdate(w)
    PROVE  IInv'
<1> USE VersionBound, NoneDistinct DEF readerVars
<1>0. TypeOK /\ GoneGrantsNothing /\ LockInv /\ KeysInPast /\ CurrentEntryExact
        /\ CarriedExact /\ AnswerInv
  BY DEF IInv
<1>1. wpc[w] = "commit" /\ lock = w /\ exists /\ exists' /\ version \in Nat
        /\ version + 1 \in Versions /\ UNCHANGED <<exists, cache, readerVars, last>>
  BY <1>0 DEF CommitUpdate, LockInv, TypeOK, Versions
<1>2. change[w] = Unchanged \/ change[w] \in SUBSET Permissions
  BY <1>0 DEF TypeOK
<1>3. TypeOK'
  <2>1. rows' \in SUBSET Tuples /\ version' \in Versions
    BY <1>0, <1>1, <1>2 DEF CommitUpdate, TypeOK, Tuples
  <2> QED
    BY <1>0, <1>1, <2>1 DEF CommitUpdate, TypeOK
<1>4. LockInv'
  <2>1. lock' = None /\ wpc' = [wpc EXCEPT ![w] = "invalidate"]
    BY DEF CommitUpdate
  <2> QED
    BY <1>0, <1>1, <2>1 DEF LockInv, TypeOK
<1>5. GoneGrantsNothing' /\ AnswerInv'
  BY <1>0, <1>1 DEF GoneGrantsNothing, AnswerInv
<1>6. CASE change[w] = Unchanged
  <2>1. UNCHANGED <<rows, version>>
    BY <1>6 DEF CommitUpdate
  <2> QED
    BY <1>0, <1>1, <1>3, <1>4, <1>5, <2>1 DEF KeysInPast, CurrentEntryExact,
       CarriedExact, IInv
<1>7. CASE change[w] # Unchanged
  <2>1. version' = version + 1
    BY <1>7 DEF CommitUpdate
  <2>2. \A r \in Readers : key[r] \in Nat /\ key[r] <= version
    BY <1>0 DEF TypeOK, KeysInPast, Versions
  <2>3. KeysInPast'
    BY <1>0, <1>1, <2>1, <2>2 DEF KeysInPast, Versions
  <2>4. CurrentEntryExact'
    BY <1>0, <1>1, <2>1 DEF KeysInPast, CurrentEntryExact
  <2>5. CarriedExact'
    BY <1>1, <2>1, <2>2 DEF CarriedExact
  <2> QED
    BY <1>3, <1>4, <1>5, <2>3, <2>4, <2>5 DEF IInv
<1> QED
  BY <1>6, <1>7

\* A role is deleted and its keys are invalidated.
LEMMA DeleteAndInvalidateStep ==
    ASSUME IInv, NEW w \in Writers, CommitDelete(w) \/ Invalidate(w)
    PROVE  IInv'
<1> USE VersionBound, NoneDistinct DEF dbVars, readerVars
<1>0. TypeOK /\ GoneGrantsNothing /\ LockInv /\ KeysInPast /\ CurrentEntryExact
        /\ CarriedExact /\ AnswerInv
  BY DEF IInv
<1>1. CASE CommitDelete(w)
  <2>1. lock = w /\ ~exists' /\ rows' = {} /\ lock' = None
        /\ wpc' = [wpc EXCEPT ![w] = "invalidate"]
        /\ UNCHANGED <<version, cache, readerVars, change, snap, dels, last>>
    BY <1>0, <1>1 DEF CommitDelete, LockInv
  <2>2. TypeOK'
    BY <1>0, <1>1, <2>1 DEF CommitDelete, TypeOK
  <2>3. LockInv'
    BY <1>0, <2>1 DEF LockInv, TypeOK
  <2>4. GoneGrantsNothing' /\ KeysInPast' /\ CurrentEntryExact' /\ CarriedExact'
          /\ AnswerInv'
    BY <1>0, <2>1 DEF GoneGrantsNothing, KeysInPast, CurrentEntryExact,
       CarriedExact, AnswerInv
  <2> QED
    BY <2>2, <2>3, <2>4 DEF IInv
<1>2. CASE Invalidate(w)
  <2>1. \A v \in Versions : cache'[v] \in {cache[v], None}
    BY <1>0, <1>2 DEF Invalidate, TypeOK
  <2>2. TypeOK'
    BY <1>0, <1>2 DEF Invalidate, TypeOK
  <2>3. LockInv'
    BY <1>0, <1>2 DEF Invalidate, LockInv, TypeOK
  <2>4. GoneGrantsNothing' /\ CarriedExact' /\ AnswerInv'
    BY <1>0, <1>2 DEF Invalidate, GoneGrantsNothing, CarriedExact, AnswerInv
  <2>5. KeysInPast' /\ CurrentEntryExact'
    BY <1>0, <1>2, <2>1 DEF Invalidate, KeysInPast, CurrentEntryExact, TypeOK
  <2> QED
    BY <2>2, <2>3, <2>4, <2>5 DEF IInv
<1> QED
  BY <1>1, <1>2

-----------------------------------------------------------------------------
\* The inductive invariant holds in every reachable state.
THEOREM Invariance == Spec => []IInv
<1>1. Init => IInv
  BY InitInv
<1>2. IInv /\ [Next]_vars => IInv'
  <2> SUFFICES ASSUME IInv, [Next]_vars PROVE IInv'
    OBVIOUS
  <2>1. CASE \E r \in Readers : Reader(r)
    BY <2>1, ReaderStep
  <2>2. CASE \E w \in Writers : Writer(w)
    BY <2>2, StatementStep, CommitUpdateStep, DeleteAndInvalidateStep DEF Writer
  <2>3. CASE \E v \in Versions : CacheExpire(v)
    BY <2>3, ExpireStep
  <2>4. CASE UNCHANGED vars
    BY <2>4 DEF vars, dbVars, readerVars, writerVars, IInv, TypeOK, LockInv,
       KeysInPast, CurrentEntryExact, CarriedExact, AnswerInv, GoneGrantsNothing
  <2> QED
    BY <2>1, <2>2, <2>3, <2>4 DEF Next
<1> QED
  BY <1>1, <1>2, PTL DEF Spec

\* Every variable keeps its type, whatever the interleaving.
THEOREM TypeCorrect == Spec => []TypeOK
BY Invariance, PTL DEF IInv

\* The cache entry of the role's current version is the committed permission
\* set (ADR 0003): no failed invalidation and no late write makes a stale set
\* current.
THEOREM CacheCoherence == Spec => []CurrentEntryExact
BY Invariance, PTL DEF IInv

\* resolveRolePermissions answers with the set PostgreSQL grants at the instant
\* of the call's last query.
THEOREM AnswersAreCommitted == Spec => []AnswerIsCommitted
<1>1. IInv => AnswerIsCommitted
  BY DEF IInv, AnswerInv, AnswerIsCommitted
<1> QED
  BY <1>1, Invariance, PTL

-----------------------------------------------------------------------------
(* What the statements of overlapping updates leave of each other's rows. *)

\* Rows, and what a DELETE has seen of them, were written by updates of the past.
WrittenInPast ==
    /\ \A t \in rows : t[2] <= version
    /\ \A w \in Writers : \A t \in snap[w] : t[2] <= version

\* A transaction that replaces the set has deleted what its DELETE saw and is
\* still there; what it has inserted nobody else inserts or has.
ReplaceInv ==
    /\ \A w \in Writers : wpc[w] \in {"delete", "deleting", "insert"} => change[w] # Unchanged
    /\ \A w \in Writers :
          wpc[w] \in {"insert", "bump", "commit"} /\ change[w] # Unchanged =>
              dels[w] \subseteq snap[w] /\ snap[w] \cap rows \subseteq dels[w]
    /\ \A w, x \in Writers : \A p \in Inserted(w) \cap Inserted(x) : w = x
    /\ \A w \in Writers : \A t \in rows \ dels[w] : t[1] \notin Inserted(w)

RowsInv == GrantedOnce /\ WrittenInPast /\ ReplaceInv

\* At first there is one row of each permission, and no transaction.
LEMMA InitRows == Init => RowsInv
<1> SUFFICES ASSUME Init PROVE RowsInv
  OBVIOUS
<1>1. \A t \in rows : t[2] = 0 /\ t = <<t[1], t[2]>>
  BY DEF Init
<1>2. GrantedOnce /\ WrittenInPast
  BY <1>1 DEF Init, GrantedOnce, WrittenInPast
<1>3. \A w \in Writers : Inserted(w) = {}
  BY DEF Init, Inserted, KeyShare
<1>4. ReplaceInv
  BY <1>3 DEF Init, ReplaceInv
<1> QED
  BY <1>2, <1>4 DEF RowsInv

\* Readers, the cache and its invalidation change nothing of the rows.
LEMMA ElsewhereRows ==
    ASSUME RowsInv, UNCHANGED <<version, rows, writerVars>>
    PROVE  RowsInv'
BY DEF RowsInv, GrantedOnce, WrittenInPast, ReplaceInv, Inserted, KeyShare, writerVars

\* The statements of a transaction, before it commits.
LEMMA StatementRows ==
    ASSUME IInv, RowsInv, NEW w \in Writers,
           \/ \E c \in {Unchanged} \cup SUBSET Permissions : UpdateRole(w, c)
           \/ DeleteScan(w) \/ DeleteApply(w) \/ InsertMappings(w)
           \/ UpdateRow(w) \/ DeleteRole(w) \/ Rollback(w) \/ Invalidate(w)
    PROVE  RowsInv'
<1> USE NoneDistinct DEF dbVars, RowsInv
<1>0. TypeOK
  BY DEF IInv
<1>1. UNCHANGED <<version, rows>>
  BY DEF UpdateRole, DeleteScan, DeleteApply, InsertMappings, UpdateRow, DeleteRole,
     Rollback, Invalidate
<1>2. GrantedOnce'
  BY <1>1 DEF GrantedOnce
<1>3. CASE \E c \in {Unchanged} \cup SUBSET Permissions : UpdateRole(w, c)
  <2>1. \A x \in Writers : Inserted(x)' \subseteq Inserted(x)
    BY <1>0, <1>3 DEF UpdateRole, Inserted, KeyShare, TypeOK
  <2>2. WrittenInPast'
    BY <1>0, <1>1, <1>3 DEF UpdateRole, WrittenInPast
  <2>3. ReplaceInv'
    BY <1>0, <1>1, <1>3, <2>1 DEF UpdateRole, ReplaceInv, TypeOK
  <2> QED
    BY <1>2, <2>2, <2>3
<1>4. CASE DeleteScan(w)
  <2>1. \A x \in Writers : Inserted(x)' \subseteq Inserted(x)
    BY <1>0, <1>4 DEF DeleteScan, Inserted, KeyShare, TypeOK
  <2>2. WrittenInPast'
    BY <1>0, <1>1, <1>4 DEF DeleteScan, WrittenInPast, TypeOK
  <2>3. ReplaceInv'
    BY <1>0, <1>1, <1>4, <2>1 DEF DeleteScan, ReplaceInv, TypeOK
  <2> QED
    BY <1>2, <2>2, <2>3
<1>5. CASE DeleteApply(w)
  <2>1. Inserted(w)' = {} /\ \A x \in Writers \ {w} : Inserted(x)' = Inserted(x)
    BY <1>0, <1>5 DEF DeleteApply, Inserted, KeyShare, TypeOK
  <2>2. WrittenInPast'
    BY <1>0, <1>1, <1>5 DEF DeleteApply, WrittenInPast
  <2>3. ReplaceInv'
    BY <1>0, <1>1, <1>5, <2>1 DEF DeleteApply, ReplaceInv, TypeOK
  <2> QED
    BY <1>2, <2>2, <2>3
<1>6. CASE InsertMappings(w)
  <2>1. /\ \A x \in Writers \ {w} : Inserted(x)' = Inserted(x)
        /\ Inserted(w)' = change[w] /\ change[w] # Unchanged
    BY <1>0, <1>6 DEF InsertMappings, Inserted, KeyShare, TypeOK, ReplaceInv
  <2>2. WrittenInPast'
    BY <1>0, <1>1, <1>6 DEF InsertMappings, WrittenInPast
  <2>3. \A x \in Writers \ {w} : Inserted(x) \cap change[w] = {}
    BY <1>6 DEF InsertMappings, InsertWaits
  <2>4. \A t \in rows \ dels[w] : t[1] \notin change[w]
    BY <1>6 DEF InsertMappings, InsertCollides, Granted
  <2>5. ReplaceInv'
    <3>1. wpc' = [wpc EXCEPT ![w] = "bump"] /\ wpc[w] = "insert"
          /\ UNCHANGED <<rows, change, snap, dels>>
      BY <1>6 DEF InsertMappings
    <3>2. \A x, y \in Writers : \A p \in Inserted(x)' \cap Inserted(y)' : x = y
      BY <2>1, <2>3 DEF ReplaceInv
    <3>3. \A x \in Writers : \A t \in rows \ dels[x] : t[1] \notin Inserted(x)'
      BY <2>1, <2>4 DEF ReplaceInv
    <3> QED
      BY <1>0, <2>1, <3>1, <3>2, <3>3 DEF ReplaceInv, TypeOK
  <2> QED
    BY <1>2, <2>2, <2>5
<1>7. CASE UpdateRow(w) \/ DeleteRole(w) \/ Rollback(w) \/ Invalidate(w)
  <2>1. \A x \in Writers : Inserted(x)' \subseteq Inserted(x)
    BY <1>0, <1>7 DEF UpdateRow, DeleteRole, Rollback, Invalidate, Inserted, KeyShare, TypeOK
  <2>2. WrittenInPast'
    BY <1>0, <1>1, <1>7 DEF UpdateRow, DeleteRole, Rollback, Invalidate, WrittenInPast, TypeOK
  <2>3. \A x \in Writers : dels'[x] = dels[x] \/ Inserted(x)' = {}
    BY <1>0, <1>7 DEF UpdateRow, DeleteRole, Rollback, Invalidate, Inserted, KeyShare, TypeOK
  <2>4. \A x, y \in Writers : \A p \in Inserted(x)' \cap Inserted(y)' : x = y
    BY <2>1 DEF ReplaceInv
  <2>5. \A x \in Writers : \A t \in rows' \ dels'[x] : t[1] \notin Inserted(x)'
    BY <1>1, <2>1, <2>3 DEF ReplaceInv
  <2>6. /\ \A x \in Writers : wpc'[x] \in {"delete", "deleting", "insert"} => change'[x] # Unchanged
        /\ \A x \in Writers :
              wpc'[x] \in {"insert", "bump", "commit"} /\ change'[x] # Unchanged =>
                  dels'[x] \subseteq snap'[x] /\ snap'[x] \cap rows' \subseteq dels'[x]
    BY <1>0, <1>1, <1>7 DEF UpdateRow, DeleteRole, Rollback, Invalidate, ReplaceInv, TypeOK
  <2> QED
    BY <1>2, <2>2, <2>4, <2>5, <2>6 DEF ReplaceInv
<1> QED
  BY <1>3, <1>4, <1>5, <1>6, <1>7

\* A commit brings rows that nobody has seen and nobody inserts.
LEMMA CommitRows ==
    ASSUME IInv, RowsInv, NEW w \in Writers, CommitUpdate(w)
    PROVE  RowsInv'
<1> USE NoneDistinct DEF RowsInv
<1>0. TypeOK /\ version \in Nat
  BY DEF IInv, TypeOK, Versions
<1>1. /\ wpc[w] = "commit" /\ wpc' = [wpc EXCEPT ![w] = "invalidate"]
      /\ change' = [change EXCEPT ![w] = Unchanged]
      /\ snap' = [snap EXCEPT ![w] = {}] /\ dels' = [dels EXCEPT ![w] = {}]
  BY DEF CommitUpdate
<1>2. Inserted(w)' = {} /\ \A x \in Writers \ {w} : Inserted(x)' = Inserted(x)
  BY <1>0, <1>1 DEF Inserted, KeyShare, TypeOK
<1>3. CASE change[w] = Unchanged
  <2>1. UNCHANGED <<rows, version>>
    BY <1>3 DEF CommitUpdate
  <2>2. GrantedOnce' /\ WrittenInPast'
    BY <1>0, <1>1, <2>1 DEF GrantedOnce, WrittenInPast, TypeOK
  <2>3. ReplaceInv'
    BY <1>0, <1>1, <1>2, <2>1 DEF ReplaceInv, TypeOK
  <2> QED
    BY <2>2, <2>3
<1>4. CASE change[w] # Unchanged
  <2> DEFINE New == change[w] \X {version + 1}
  <2>1. rows' = (rows \ dels[w]) \cup New /\ version' = version + 1
    BY <1>4 DEF CommitUpdate
  <2>2. \A t \in New : t = <<t[1], version + 1>> /\ t[1] \in change[w] /\ t[2] = version + 1
    OBVIOUS
  <2>3. \A t \in rows : t = <<t[1], t[2]>> /\ t[2] \in Nat /\ t[2] <= version
    BY <1>0 DEF TypeOK, Tuples, Versions, WrittenInPast
  <2>4. Inserted(w) = change[w]
    BY <1>0, <1>1, <1>4 DEF Inserted, KeyShare, TypeOK
  <2> HIDE DEF New
  <2>5. GrantedOnce'
    <3> SUFFICES ASSUME NEW s \in rows', NEW t \in rows', s[1] = t[1] PROVE s = t
      BY DEF GrantedOnce
    <3>1. CASE s \in rows \ dels[w] /\ t \in rows \ dels[w]
      BY <3>1 DEF GrantedOnce
    <3>2. CASE s \in New /\ t \in New
      BY <2>2, <3>2
    <3>3. \A x \in rows \ dels[w], y \in New : x[1] # y[1]
      BY <2>2, <2>4 DEF ReplaceInv
    <3> QED
      BY <2>1, <3>1, <3>2, <3>3
  <2>6. WrittenInPast'
    <3>1. \A x \in Writers : \A t \in snap[x] : t[2] \in Nat /\ t[2] <= version
      BY <1>0 DEF TypeOK, Tuples, Versions, WrittenInPast
    <3>2. \A x \in Writers : snap'[x] \subseteq snap[x]
      BY <1>0, <1>1 DEF TypeOK
    <3>3. \A t \in rows' : t[2] <= version'
      BY <1>0, <2>1, <2>2, <2>3
    <3>4. \A x \in Writers : \A t \in snap'[x] : t[2] <= version'
      BY <1>0, <2>1, <3>1, <3>2
    <3> QED
      BY <3>3, <3>4 DEF WrittenInPast
  <2>7. ReplaceInv'
    <3>1. \A x \in Writers \ {w} :
             wpc'[x] = wpc[x] /\ change'[x] = change[x] /\ snap'[x] = snap[x] /\ dels'[x] = dels[x]
      BY <1>0, <1>1 DEF TypeOK
    <3>2. wpc'[w] = "invalidate"
      BY <1>0, <1>1 DEF TypeOK
    <3>3. \A x \in Writers : snap[x] \cap New = {}
      BY <1>0, <2>2 DEF TypeOK, Tuples, Versions, WrittenInPast
    <3>4. \A x, y \in Writers : \A p \in Inserted(x)' \cap Inserted(y)' : x = y
      BY <1>2 DEF ReplaceInv
    <3>5. \A x \in Writers : \A t \in rows' \ dels'[x] : t[1] \notin Inserted(x)'
      <4> SUFFICES ASSUME NEW x \in Writers \ {w}, NEW t \in rows' \ dels[x]
                   PROVE  t[1] \notin Inserted(x)
        BY <1>2, <3>1
      <4>1. CASE t \in rows
        BY <4>1 DEF ReplaceInv
      <4>2. CASE t \in New
        BY <2>2, <2>4, <4>2 DEF ReplaceInv
      <4> QED
        BY <2>1, <4>1, <4>2
    <3>6. \A x \in Writers : wpc'[x] \in {"delete", "deleting", "insert"} => change'[x] # Unchanged
      BY <3>1, <3>2 DEF ReplaceInv
    <3>7. \A x \in Writers :
             wpc'[x] \in {"insert", "bump", "commit"} /\ change'[x] # Unchanged =>
                 dels'[x] \subseteq snap'[x] /\ snap'[x] \cap rows' \subseteq dels'[x]
      BY <2>1, <3>1, <3>2, <3>3 DEF ReplaceInv
    <3> QED
      BY <3>4, <3>5, <3>6, <3>7 DEF ReplaceInv
  <2> QED
    BY <2>5, <2>6, <2>7
<1> QED
  BY <1>3, <1>4

\* A deleted role has no rows to agree about.
LEMMA DeleteRows ==
    ASSUME IInv, RowsInv, NEW w \in Writers, CommitDelete(w)
    PROVE  RowsInv'
<1>0. TypeOK
  BY DEF IInv
<1>1. /\ rows' = {} /\ UNCHANGED <<version, change, snap, dels>>
      /\ wpc[w] = "drop" /\ wpc' = [wpc EXCEPT ![w] = "invalidate"]
  BY DEF CommitDelete
<1>2. \A x \in Writers : Inserted(x)' = Inserted(x)
  BY <1>0, <1>1 DEF Inserted, KeyShare, TypeOK
<1>3. GrantedOnce' /\ WrittenInPast'
  BY <1>1 DEF GrantedOnce, WrittenInPast, RowsInv
<1>4. ReplaceInv'
  BY <1>0, <1>1, <1>2 DEF ReplaceInv, RowsInv, TypeOK
<1> QED
  BY <1>3, <1>4 DEF RowsInv

\* Overlapping updates keep the order of their statements in the rows.
LEMMA RowsInvariance == Spec => []RowsInv
<1>1. Init => RowsInv
  BY InitRows
<1>2. IInv /\ RowsInv /\ [Next]_vars => RowsInv'
  <2> SUFFICES ASSUME IInv, RowsInv, [Next]_vars PROVE RowsInv'
    OBVIOUS
  <2>1. ASSUME NEW r \in Readers, Reader(r) PROVE RowsInv'
    <3>1. UNCHANGED <<version, rows, writerVars>>
      BY <2>1 DEF Reader, ReadVersion, CacheGet, RecheckVersion, ReadRows, CacheSet, Leave,
         dbVars
    <3> QED
      BY <3>1, ElsewhereRows
  <2>2. ASSUME NEW w \in Writers, Writer(w) PROVE RowsInv'
    BY <2>2, StatementRows, CommitRows, DeleteRows DEF Writer
  <2>3. ASSUME NEW v \in Versions, CacheExpire(v) PROVE RowsInv'
    BY <2>3, ElsewhereRows DEF CacheExpire, dbVars
  <2>4. CASE UNCHANGED vars
    BY <2>4, ElsewhereRows DEF vars, dbVars
  <2> QED
    BY <2>1, <2>2, <2>3, <2>4 DEF Next
<1> QED
  BY <1>1, <1>2, Invariance, PTL DEF Spec

\* Any number of overlapping updates leave each permission in one row: to wait
\* for inserted and deleted keys, and to look at the committed ones, is enough.
THEOREM PermissionsGrantedOnce == Spec => []GrantedOnce
<1>1. RowsInv => GrantedOnce
  BY DEF RowsInv
<1> QED
  BY <1>1, RowsInvariance, PTL

\* Whatever overlaps an update that replaces the set, all it leaves beside what
\* it asks for are rows committed after its DELETE took its snapshot.
THEOREM UpdatesMergeOnlyUnseen == Spec => MergesOnlyUnseen
<1>1. IInv /\ RowsInv /\ [Next]_vars => [ReplacesSeen]_vars
  <2> SUFFICES ASSUME IInv, RowsInv, Next, NEW w \in Writers,
                      wpc[w] = "commit", wpc'[w] = "invalidate", change[w] # Unchanged
               PROVE  rows' = (rows \ snap[w]) \cup (change[w] \X {version'})
    BY DEF ReplacesSeen
  <2>1. CommitUpdate(w)
    <3>1. TypeOK
      BY DEF IInv
    <3>2. PICK x \in Writers : Writer(x)
      BY DEF Next, Reader, ReadVersion, CacheGet, RecheckVersion, ReadRows, CacheSet,
         Leave, CacheExpire, writerVars
    <3>3. x = w
      BY <3>1, <3>2 DEF Writer, UpdateRole, DeleteScan, DeleteApply, InsertMappings, UpdateRow,
         CommitUpdate, DeleteRole, CommitDelete, Rollback, Invalidate, TypeOK
    <3> QED
      BY <3>1, <3>2, <3>3 DEF Writer, UpdateRole, DeleteScan, DeleteApply, InsertMappings,
         UpdateRow, DeleteRole, CommitDelete, Rollback, Invalidate, TypeOK
  <2>2. dels[w] \subseteq snap[w] /\ snap[w] \cap rows \subseteq dels[w]
    BY DEF RowsInv, ReplaceInv
  <2>3. rows' = (rows \ dels[w]) \cup (change[w] \X {version + 1}) /\ version' = version + 1
    BY <2>1 DEF CommitUpdate
  <2>4. rows \ dels[w] = rows \ snap[w]
    BY <2>2
  <2> QED
    BY <2>3, <2>4
<1> QED
  BY <1>1, Invariance, RowsInvariance, PTL DEF Spec, MergesOnlyUnseen
=============================================================================
