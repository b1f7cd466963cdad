------------------------- MODULE VerificationProofs -------------------------
(***************************************************************************)
(* For every set of tokens and requests: an address is verified by an      *)
(* unused, timely token only, what ended stays ended, a new token replaces *)
(* the old ones without a gap, and a held one is not deleted.              *)
(***************************************************************************)
EXTENDS Verification, TLAPS

\* A request that uses a token found it in time, and past its UPDATE holds it,
\* unused.
UserInv ==
    \A r \in Requests :
        /\ pc[r] \in {"use", "user", "verified"} =>
              token[r] \in Tokens /\ timely[r] /\ state[token[r]] # "unknown"
        /\ pc[r] \in {"user", "verified"} =>
              lock[token[r]] = r /\ state[token[r]] = "valid"

\* A locked token is its user's, or about to be deleted and not held back; the
\* worker's has lapsed.
LockInv ==
    \A t \in Tokens : lock[t] # None =>
        /\ t \in Kept
        /\ \/ lock[t] \in Requests /\ pc[lock[t]] \in {"user", "verified"}
              /\ token[lock[t]] = t
           \/ lock[t] \in Requests /\ pc[lock[t]] = "delete" /\ ~held[t]
           \/ lock[t] = Retention /\ ret = "delete" /\ ~held[t] /\ lapsed[t]

\* A token nobody has drawn has neither lapsed nor been held back, and there is
\* none other before there is an account.
DrawnInv ==
    /\ \A t \in Unknown : ~lapsed[t] /\ ~held[t]
    /\ account = "none" => Unknown = Tokens

\* One request at a time inserts the address, while nobody has it.
AccountInv ==
    /\ \A r \in Requests : pc[r] = "inserted" => account = "none"
    /\ \A r, q \in Requests : pc[r] = "inserted" /\ pc[q] = "inserted" => r = q
    /\ \A r \in Requests :
          pc[r] \in {"scan", "delete", "use", "user", "verified"} => account # "none"

\* What a replacement found working is not held back; of that, what is left is
\* still to be visited or is locked.
BeforeInv ==
    \A r \in Requests :
        /\ \A t \in before[r] : state[t] # "unknown" /\ ~held[t]
        /\ pc[r] = "delete" =>
              \A t \in before[r] : state[t] = "valid" => t \in targets[r] \/ lock[t] = r

\* What the worker has still to visit has been drawn and, if it is still there,
\* has lapsed.
DoomedInv == \A t \in doomed : t \notin Unknown /\ (t \in Kept => lapsed[t])

IInv ==
    TypeOK /\ UserInv /\ LockInv /\ DoomedInv /\ DrawnInv /\ AccountInv /\ BeforeInv

-----------------------------------------------------------------------------
\* No account and no token satisfies the inductive invariant.
LEMMA InitInv == Init => IInv
BY HoldersDistinct DEF Init, IInv, TypeOK, UserInv, LockInv, DoomedInv, DrawnInv,
   AccountInv, BeforeInv,   Kept, Unknown

\* The token that is drawn is one nobody knows.
LEMMA DrawnIsUnknown == Unknown # {} => Drawn \in Unknown
BY Zenon DEF Drawn

\* A registration arrives.
LEMMA RegisterStep ==
    ASSUME IInv, NEW r \in Requests, Register(r)
    PROVE  IInv'
<1> USE HoldersDistinct DEF IInv, rows, input, worker, Register, Arrive
<1>1. TypeOK'
  BY DEF TypeOK, UserInv, LockInv, Kept, Unknown
<1>2. UserInv'
  BY DEF TypeOK, UserInv, LockInv, DrawnInv, Kept, Unknown
<1>3. LockInv'
  BY DEF TypeOK, UserInv, LockInv, Kept, Unknown
<1>4. DrawnInv' /\ AccountInv'
  BY DEF TypeOK, DrawnInv, AccountInv, UserInv, LockInv, Kept, Unknown
<1>5. BeforeInv'
  BY DEF TypeOK, BeforeInv, DrawnInv, LockInv, Kept, Unknown
<1>6. DoomedInv'
  BY DEF TypeOK, DoomedInv, DrawnInv, LockInv, Kept, Unknown
<1> QED
  BY <1>1, <1>2, <1>3, <1>4, <1>5, <1>6

\* The address is free for one request at a time.
LEMMA InsertUserStep ==
    ASSUME IInv, NEW r \in Requests, InsertUser(r)
    PROVE  IInv'
<1> USE HoldersDistinct DEF IInv, rows, input, worker, InsertUser
<1>1. CASE Goto(r, "inserted") /\ UNCHANGED lock /\ account = "none"
  <2>1. TypeOK'
    BY <1>1 DEF Goto, TypeOK, Kept
  <2>2. UserInv' /\ LockInv' /\ DoomedInv' /\ DrawnInv' /\ AccountInv' /\ BeforeInv'
    BY <1>1 DEF Goto, TypeOK, UserInv, LockInv, DoomedInv, DrawnInv,
       AccountInv, BeforeInv, Kept, Unknown
  <2> QED
    BY <2>1, <2>2
<1>2. CASE Finish(r)
  <2>1. TypeOK'
    BY <1>2 DEF Finish, Reset, Release, TypeOK, Kept
  <2>2. UserInv' /\ LockInv' /\ DoomedInv' /\ DrawnInv' /\ AccountInv' /\ BeforeInv'
    BY <1>2 DEF Finish, Reset, Release, TypeOK, UserInv, LockInv, DoomedInv, DrawnInv,
       AccountInv, BeforeInv, Kept, Unknown
  <2> QED
    BY <2>1, <2>2
<1> QED
  BY <1>1, <1>2

\* The account is made, with its first token.
LEMMA CommitRegisterStep ==
    ASSUME IInv, NEW r \in Requests, CommitRegister(r)
    PROVE  IInv'
<1> USE HoldersDistinct DEF IInv, rows, input, worker, CommitRegister, Finish, Reset, Release
<1>0. Drawn \in Unknown
  BY DrawnIsUnknown
<1>1. TypeOK'
  BY <1>0 DEF TypeOK, UserInv, LockInv, Kept, Unknown
<1>2. UserInv'
  BY <1>0 DEF TypeOK, UserInv, LockInv, DrawnInv, Kept, Unknown
<1>3. LockInv'
  BY <1>0 DEF TypeOK, UserInv, LockInv, Kept, Unknown
<1>4. DrawnInv' /\ AccountInv'
  BY <1>0 DEF TypeOK, DrawnInv, AccountInv, UserInv, LockInv, Kept, Unknown
<1>5. BeforeInv'
  BY <1>0 DEF TypeOK, BeforeInv, DrawnInv, LockInv, Kept, Unknown
<1>6. DoomedInv'
  BY <1>0 DEF TypeOK, DoomedInv, DrawnInv, LockInv, Kept, Unknown
<1> QED
  BY <1>1, <1>2, <1>3, <1>4, <1>5, <1>6

\* A new token is asked for.
LEMMA RequestStep ==
    ASSUME IInv, NEW r \in Requests, Request(r)
    PROVE  IInv'
<1> USE HoldersDistinct DEF IInv, rows, input, worker, Request, Arrive
<1>1. TypeOK'
  BY DEF TypeOK, UserInv, LockInv, Kept, Unknown
<1>2. UserInv'
  BY DEF TypeOK, UserInv, LockInv, DrawnInv, Kept, Unknown
<1>3. LockInv'
  BY DEF TypeOK, UserInv, LockInv, Kept, Unknown
<1>4. DrawnInv' /\ AccountInv'
  BY DEF TypeOK, DrawnInv, AccountInv, UserInv, LockInv, Kept, Unknown
<1>5. BeforeInv'
  BY DEF TypeOK, BeforeInv, DrawnInv, LockInv, Kept, Unknown
<1>6. DoomedInv'
  BY DEF TypeOK, DoomedInv, DrawnInv, LockInv, Kept, Unknown
<1> QED
  BY <1>1, <1>2, <1>3, <1>4, <1>5, <1>6

\* The DELETE sees every token that is not held back.
LEMMA ScanTokensStep ==
    ASSUME IInv, NEW r \in Requests, ScanTokens(r)
    PROVE  IInv'
<1> USE HoldersDistinct DEF IInv, rows, input, worker, ScanTokens
<1>1. TypeOK'
  BY DEF TypeOK, UserInv, LockInv, Kept, Unknown
<1>2. UserInv'
  BY DEF TypeOK, UserInv, LockInv, DrawnInv, Kept, Unknown
<1>3. LockInv'
  BY DEF TypeOK, UserInv, LockInv, Kept, Unknown
<1>4. DrawnInv' /\ AccountInv'
  BY DEF TypeOK, DrawnInv, AccountInv, UserInv, LockInv, Kept, Unknown
<1>5. BeforeInv'
  BY DEF TypeOK, BeforeInv, DrawnInv, LockInv, Kept, Unknown
<1>6. DoomedInv'
  BY DEF TypeOK, DoomedInv, DrawnInv, LockInv, Kept, Unknown
<1> QED
  BY <1>1, <1>2, <1>3, <1>4, <1>5, <1>6

\* A token visited is locked, or need not be.
LEMMA DeleteTokenStep ==
    ASSUME IInv, NEW r \in Requests, NEW t \in Tokens, DeleteToken(r, t)
    PROVE  IInv'
<1> USE HoldersDistinct DEF IInv, rows, input, worker, DeleteToken
<1>1. TypeOK'
  BY DEF TypeOK, UserInv, LockInv, Kept, Unknown
<1>2. UserInv'
  BY DEF TypeOK, UserInv, LockInv, DrawnInv, Kept, Unknown
<1>3. LockInv'
  BY DEF TypeOK, UserInv, LockInv, Kept, Unknown
<1>4. DrawnInv' /\ AccountInv'
  BY DEF TypeOK, DrawnInv, AccountInv, UserInv, LockInv, Kept, Unknown
<1>5. BeforeInv'
  BY DEF TypeOK, BeforeInv, DrawnInv, LockInv, Kept, Unknown
<1>6. DoomedInv'
  BY DEF TypeOK, DoomedInv, DrawnInv, LockInv, Kept, Unknown
<1> QED
  BY <1>1, <1>2, <1>3, <1>4, <1>5, <1>6

\* The old tokens go, and the new one comes.
LEMMA CommitRequestStep ==
    ASSUME IInv, NEW r \in Requests, CommitRequest(r)
    PROVE  IInv'
<1> USE HoldersDistinct
    DEF IInv, rows, input, worker, CommitRequest, Finish, Reset, Release, Delete
<1>0. Drawn \in Unknown
  BY DrawnIsUnknown
<1>1. TypeOK'
  BY <1>0 DEF TypeOK, UserInv, LockInv, Kept, Unknown
<1>2. UserInv'
  BY <1>0 DEF TypeOK, UserInv, LockInv, DrawnInv, Kept, Unknown
<1>3. LockInv'
  BY <1>0 DEF TypeOK, UserInv, LockInv, Kept, Unknown
<1>4. DrawnInv' /\ AccountInv'
  BY <1>0 DEF TypeOK, DrawnInv, AccountInv, UserInv, LockInv, Kept, Unknown
<1>5. BeforeInv'
  BY <1>0 DEF TypeOK, BeforeInv, DrawnInv, LockInv, Kept, Unknown
<1>6. DoomedInv'
  BY <1>0 DEF TypeOK, DoomedInv, DrawnInv, LockInv, Kept, Unknown
<1> QED
  BY <1>1, <1>2, <1>3, <1>4, <1>5, <1>6

\* A token is presented.
LEMMA VerifyStep ==
    ASSUME IInv, NEW r \in Requests, NEW t \in Tokens, Verify(r, t)
    PROVE  IInv'
<1> USE HoldersDistinct DEF IInv, rows, input, worker, Verify, Arrive
<1>0. timely' = [timely EXCEPT ![r] = TRUE]
  <2>1. (~lapsed[t]) = TRUE
    OBVIOUS
  <2> QED
    BY <2>1, Zenon
<1>1. TypeOK'
  BY DEF TypeOK, Kept
<1>2. UserInv'
  <2>1. \A x \in Requests \ {r} :
           pc'[x] = pc[x] /\ token'[x] = token[x] /\ timely'[x] = timely[x]
    BY <1>0 DEF TypeOK
  <2>2. pc'[r] = "use" /\ token'[r] = t /\ timely'[r]
    BY <1>0 DEF TypeOK
  <2> HIDE DEF Verify
  <2>3. state[t] = "valid" /\ UNCHANGED <<state, lock>>
    BY DEF Verify
  <2> QED
    BY <2>1, <2>2, <2>3 DEF UserInv
<1>3. LockInv'
  BY DEF TypeOK, LockInv, Kept
<1>4. DrawnInv' /\ AccountInv'
  BY DEF TypeOK, DrawnInv, AccountInv, Unknown
<1>5. BeforeInv'
  BY DEF TypeOK, BeforeInv
<1>6. DoomedInv'
  BY DEF TypeOK, DoomedInv, Kept, Unknown
<1> QED
  BY <1>1, <1>2, <1>3, <1>4, <1>5, <1>6

\* The token is locked while it is unused.
LEMMA UseTokenStep ==
    ASSUME IInv, NEW r \in Requests, UseToken(r)
    PROVE  IInv'
<1> USE HoldersDistinct DEF IInv, rows, input, worker, UseToken
<1>0. token[r] \in Tokens
  BY DEF UserInv
<1>1. CASE lock' = [lock EXCEPT ![token[r]] = r] /\ Goto(r, "user") /\ state[token[r]] = "valid"
  <2>1. TypeOK'
    BY <1>0, <1>1 DEF Goto, TypeOK, Kept
  <2>2. UserInv' /\ LockInv'
    BY <1>0, <1>1 DEF Goto, TypeOK, UserInv, LockInv, Kept
  <2>3. DoomedInv' /\ DrawnInv' /\ AccountInv' /\ BeforeInv'
    BY <1>0, <1>1 DEF Goto, TypeOK, DoomedInv, DrawnInv, AccountInv, BeforeInv,
       Kept, Unknown
  <2> QED
    BY <2>1, <2>2, <2>3
<1>2. CASE Finish(r)
  <2>1. TypeOK'
    BY <1>2 DEF Finish, Reset, Release, TypeOK, Kept
  <2>2. UserInv' /\ LockInv' /\ DoomedInv' /\ DrawnInv' /\ AccountInv' /\ BeforeInv'
    BY <1>2 DEF Finish, Reset, Release, TypeOK, UserInv, LockInv, DoomedInv, DrawnInv,
       AccountInv, BeforeInv, Kept, Unknown
  <2> QED
    BY <2>1, <2>2
<1> QED
  BY <1>1, <1>2

\* The user is updated.
LEMMA UpdateUserStep ==
    ASSUME IInv, NEW r \in Requests, UpdateUser(r)
    PROVE  IInv'
<1> USE HoldersDistinct DEF IInv, rows, input, worker, UpdateUser, Goto
<1>1. TypeOK'
  BY DEF TypeOK, UserInv, LockInv, Kept, Unknown
<1>2. UserInv'
  BY DEF TypeOK, UserInv, LockInv, DrawnInv, Kept, Unknown
<1>3. LockInv'
  BY DEF TypeOK, UserInv, LockInv, Kept, Unknown
<1>4. DrawnInv' /\ AccountInv'
  BY DEF TypeOK, DrawnInv, AccountInv, UserInv, LockInv, Kept, Unknown
<1>5. BeforeInv'
  BY DEF TypeOK, BeforeInv, DrawnInv, LockInv, Kept, Unknown
<1>6. DoomedInv'
  BY DEF TypeOK, DoomedInv, DrawnInv, LockInv, Kept, Unknown
<1> QED
  BY <1>1, <1>2, <1>3, <1>4, <1>5, <1>6

\* The token is used up.
LEMMA CommitVerifyStep ==
    ASSUME IInv, NEW r \in Requests, CommitVerify(r)
    PROVE  IInv'
<1> USE HoldersDistinct DEF IInv, rows, input, worker, CommitVerify, Finish, Reset, Release
<1>1. TypeOK'
  BY DEF TypeOK, UserInv, LockInv, Kept, Unknown
<1>2. UserInv'
  BY DEF TypeOK, UserInv, LockInv, DrawnInv, Kept, Unknown
<1>3. LockInv'
  BY DEF TypeOK, UserInv, LockInv, Kept, Unknown
<1>4. DrawnInv' /\ AccountInv'
  BY DEF TypeOK, DrawnInv, AccountInv, UserInv, LockInv, Kept, Unknown
<1>5. BeforeInv'
  BY DEF TypeOK, BeforeInv, DrawnInv, LockInv, Kept, Unknown
<1>6. DoomedInv'
  BY DEF TypeOK, DoomedInv, UserInv, DrawnInv, LockInv, Kept, Unknown
<1> QED
  BY <1>1, <1>2, <1>3, <1>4, <1>5, <1>6

\* Time uses up no token.
LEMMA LapseStep ==
    ASSUME IInv, NEW t \in Tokens, Lapse(t)
    PROVE  IInv'
<1> USE HoldersDistinct DEF IInv, rows, input, worker, Lapse
<1>1. TypeOK'
  BY DEF TypeOK, UserInv, LockInv, Kept, Unknown
<1>2. UserInv'
  BY DEF TypeOK, UserInv, LockInv, DrawnInv, Kept, Unknown
<1>3. LockInv'
  BY DEF TypeOK, UserInv, LockInv, Kept, Unknown
<1>4. DrawnInv' /\ AccountInv'
  BY DEF TypeOK, DrawnInv, AccountInv, UserInv, LockInv, Kept, Unknown
<1>5. BeforeInv'
  BY DEF TypeOK, BeforeInv, DrawnInv, LockInv, Kept, Unknown
<1>6. DoomedInv'
  BY DEF TypeOK, DoomedInv, DrawnInv, LockInv, Kept, Unknown
<1> QED
  BY <1>1, <1>2, <1>3, <1>4, <1>5, <1>6

\* An operator finds the row unlocked.
LEMMA HoldStep ==
    ASSUME IInv, NEW t \in Tokens, Hold(t)
    PROVE  IInv'
<1> USE HoldersDistinct DEF IInv, rows, input, worker, Hold
<1>1. TypeOK'
  BY DEF TypeOK, UserInv, LockInv, Kept, Unknown
<1>2. UserInv'
  BY DEF TypeOK, UserInv, LockInv, DrawnInv, Kept, Unknown
<1>3. LockInv'
  BY DEF TypeOK, UserInv, LockInv, Kept, Unknown
<1>4. DrawnInv' /\ AccountInv'
  BY DEF TypeOK, DrawnInv, AccountInv, UserInv, LockInv, Kept, Unknown
<1>5. BeforeInv'
  BY DEF TypeOK, BeforeInv, DrawnInv, LockInv, Kept, Unknown
<1>6. DoomedInv'
  BY DEF TypeOK, DoomedInv, DrawnInv, LockInv, Kept, Unknown
<1> QED
  BY <1>1, <1>2, <1>3, <1>4, <1>5, <1>6

\* A transaction rolls back.
LEMMA AbortStep ==
    ASSUME IInv, NEW r \in Requests, Abort(r)
    PROVE  IInv'
<1> USE HoldersDistinct DEF IInv, rows, input, worker, Abort, Finish, Reset, Release
<1>1. TypeOK'
  BY DEF TypeOK, UserInv, LockInv, Kept, Unknown
<1>2. UserInv'
  BY DEF TypeOK, UserInv, LockInv, DrawnInv, Kept, Unknown
<1>3. LockInv'
  BY DEF TypeOK, UserInv, LockInv, Kept, Unknown
<1>4. DrawnInv' /\ AccountInv'
  BY DEF TypeOK, DrawnInv, AccountInv, UserInv, LockInv, Kept, Unknown
<1>5. BeforeInv'
  BY DEF TypeOK, BeforeInv, DrawnInv, LockInv, Kept, Unknown
<1>6. DoomedInv'
  BY DEF TypeOK, DoomedInv, DrawnInv, LockInv, Kept, Unknown
<1> QED
  BY <1>1, <1>2, <1>3, <1>4, <1>5, <1>6

\* The worker sees lapsed tokens.
LEMMA RetentionScanStep ==
    ASSUME IInv, RetentionScan
    PROVE  IInv'
<1> USE HoldersDistinct DEF IInv, rows, input, worker, RetentionScan
<1>1. TypeOK'
  BY DEF TypeOK, UserInv, LockInv, Kept, Unknown
<1>2. UserInv'
  BY DEF TypeOK, UserInv, LockInv, DrawnInv, Kept, Unknown
<1>3. LockInv'
  BY DEF TypeOK, UserInv, LockInv, Kept, Unknown
<1>4. DrawnInv' /\ AccountInv'
  BY DEF TypeOK, DrawnInv, AccountInv, UserInv, LockInv, Kept, Unknown
<1>5. BeforeInv'
  BY DEF TypeOK, BeforeInv, DrawnInv, LockInv, Kept, Unknown
<1>6. DoomedInv'
  BY DEF TypeOK, DoomedInv, DrawnInv, LockInv, Kept, Unknown
<1> QED
  BY <1>1, <1>2, <1>3, <1>4, <1>5, <1>6

\* The worker locks what it may delete.
LEMMA RetentionDeleteStep ==
    ASSUME IInv, NEW t \in Tokens, RetentionDelete(t)
    PROVE  IInv'
<1> USE HoldersDistinct DEF IInv, rows, input, worker, RetentionDelete
<1>1. TypeOK'
  BY DEF TypeOK, UserInv, LockInv, Kept, Unknown
<1>2. UserInv'
  BY DEF TypeOK, UserInv, LockInv, DrawnInv, Kept, Unknown
<1>3. LockInv'
  BY DEF TypeOK, UserInv, LockInv, DoomedInv, Kept, Unknown
<1>4. DrawnInv' /\ AccountInv'
  BY DEF TypeOK, DrawnInv, AccountInv, UserInv, LockInv, Kept, Unknown
<1>5. BeforeInv'
  BY DEF TypeOK, BeforeInv, DrawnInv, LockInv, Kept, Unknown
<1>6. DoomedInv'
  BY DEF TypeOK, DoomedInv, DrawnInv, LockInv, Kept, Unknown
<1> QED
  BY <1>1, <1>2, <1>3, <1>4, <1>5, <1>6

\* The worker deletes what it holds.
LEMMA RetentionCommitStep ==
    ASSUME IInv, RetentionCommit
    PROVE  IInv'
<1> USE HoldersDistinct DEF IInv, rows, input, worker, RetentionCommit, Release, Delete
<1>1. TypeOK'
  BY DEF TypeOK, UserInv, LockInv, Kept, Unknown
<1>2. UserInv'
  BY DEF TypeOK, UserInv, LockInv, DrawnInv, Kept, Unknown
<1>3. LockInv'
  BY DEF TypeOK, UserInv, LockInv, Kept, Unknown
<1>4. DrawnInv' /\ AccountInv'
  BY DEF TypeOK, DrawnInv, AccountInv, UserInv, LockInv, Kept, Unknown
<1>5. BeforeInv'
  BY DEF TypeOK, BeforeInv, DrawnInv, LockInv, Kept, Unknown
<1>6. DoomedInv'
  BY DEF TypeOK, DoomedInv, DrawnInv, LockInv, Kept, Unknown
<1> QED
  BY <1>1, <1>2, <1>3, <1>4, <1>5, <1>6

\* The worker rolls back.
LEMMA RetentionAbortStep ==
    ASSUME IInv, RetentionAbort
    PROVE  IInv'
<1> USE HoldersDistinct DEF IInv, rows, input, worker, RetentionAbort, Release
<1>1. TypeOK'
  BY DEF TypeOK, UserInv, LockInv, Kept, Unknown
<1>2. UserInv'
  BY DEF TypeOK, UserInv, LockInv, DrawnInv, Kept, Unknown
<1>3. LockInv'
  BY DEF TypeOK, UserInv, LockInv, Kept, Unknown
<1>4. DrawnInv' /\ AccountInv'
  BY DEF TypeOK, DrawnInv, AccountInv, UserInv, LockInv, Kept, Unknown
<1>5. BeforeInv'
  BY DEF TypeOK, BeforeInv, DrawnInv, LockInv, Kept, Unknown
<1>6. DoomedInv'
  BY DEF TypeOK, DoomedInv, DrawnInv, LockInv, Kept, Unknown
<1> QED
  BY <1>1, <1>2, <1>3, <1>4, <1>5, <1>6

\* Every step keeps the inductive invariant.
LEMMA NextInv == IInv /\ [Next]_vars => IInv'
<1> SUFFICES ASSUME IInv, [Next]_vars PROVE IInv'
  OBVIOUS
<1>1. ASSUME NEW r \in Requests, NEW t \in Tokens, Verify(r, t) PROVE IInv'
  BY <1>1, VerifyStep
<1>2. ASSUME NEW r \in Requests, Register(r) \/ Request(r) \/ Abort(r) PROVE IInv'
  BY <1>2, RegisterStep, RequestStep, AbortStep
<1>3. ASSUME NEW r \in Requests, Step(r) PROVE IInv'
  BY <1>3, InsertUserStep, CommitRegisterStep, ScanTokensStep, DeleteTokenStep,
     CommitRequestStep, UseTokenStep, UpdateUserStep, CommitVerifyStep DEF Step
<1>4. ASSUME NEW t \in Tokens, Lapse(t) \/ Hold(t) PROVE IInv'
  BY <1>4, LapseStep, HoldStep
<1>5. ASSUME RetentionScan \/ RetentionStep \/ RetentionAbort PROVE IInv'
  BY <1>5, RetentionScanStep, RetentionDeleteStep, RetentionCommitStep, RetentionAbortStep
     DEF RetentionStep
<1>6. CASE UNCHANGED vars
  BY <1>6 DEF vars, rows, input, worker, IInv, TypeOK, UserInv, LockInv, DoomedInv,
     DrawnInv,
     AccountInv, BeforeInv, Kept, Unknown
<1> QED
  BY <1>1, <1>2, <1>3, <1>4, <1>5, <1>6 DEF Next

\* The inductive invariant holds in every state.
THEOREM Invariance == Spec => []IInv
<1>1. Init => IInv
  BY InitInv
<1>2. IInv /\ [Next]_vars => IInv'
  BY NextInv
<1> QED
  BY <1>1, <1>2, PTL DEF Spec

\* The account, tokens, locks and controls are of their types in every state.
THEOREM TypeCorrect == Spec => []TypeOK
<1>1. IInv => TypeOK
  BY DEF IInv
<1> QED
  BY <1>1, Invariance, PTL

\* The steps that change the account or a token, its expiry and its hold apart.
LEMMA QuietStep ==
    ASSUME IInv, Next
    PROVE  \/ UNCHANGED <<account, state>>
           \/ \E r \in Requests : CommitRegister(r) \/ CommitRequest(r) \/ CommitVerify(r)
           \/ RetentionCommit
<1>1. ASSUME NEW r \in Requests, Register(r) \/ Request(r) \/ Abort(r)
      PROVE  UNCHANGED <<account, state>>
  BY <1>1 DEF Register, Request, Abort, rows
<1>2. ASSUME NEW r \in Requests, NEW t \in Tokens, Verify(r, t) \/ DeleteToken(r, t)
      PROVE  UNCHANGED <<account, state>>
  BY <1>2 DEF Verify, DeleteToken, rows
<1>3. ASSUME NEW r \in Requests, InsertUser(r) \/ ScanTokens(r) \/ UseToken(r) \/ UpdateUser(r)
      PROVE  UNCHANGED <<account, state>>
  BY <1>3 DEF InsertUser, ScanTokens, UseToken, UpdateUser, rows
<1>4. ASSUME NEW t \in Tokens, Lapse(t) \/ Hold(t) \/ RetentionDelete(t)
      PROVE  UNCHANGED <<account, state>>
  BY <1>4 DEF Lapse, Hold, RetentionDelete, rows
<1>5. ASSUME RetentionScan \/ RetentionAbort PROVE UNCHANGED <<account, state>>
  BY <1>5 DEF RetentionScan, RetentionAbort, rows
<1> QED
  BY <1>1, <1>2, <1>3, <1>4, <1>5 DEF Next, Step, RetentionStep

\* However verifications, replacements and deletions of an address's tokens
\* interleave, only an unused, timely token verifies it, and none comes back.
THEOREM VerifiedByValidToken == Spec => VerifiedByToken
<1>1. IInv /\ [Next]_vars => [VerifiesByToken]_vars
  <2> SUFFICES ASSUME IInv, Next, account' = "verified", account # "verified"
               PROVE  VerifiesByToken
    BY DEF VerifiesByToken
  <2>1. PICK r \in Requests : CommitVerify(r)
    BY QuietStep DEF CommitRegister, CommitRequest, RetentionCommit
  <2>2. pc[r] = "verified" /\ timely[r] /\ state[token[r]] = "valid" /\ token[r] \in Tokens
    BY <2>1 DEF CommitVerify, IInv, UserInv
  <2>3. state'[token[r]] = "used"
    BY <2>1, <2>2 DEF CommitVerify, IInv, TypeOK
  <2> QED
    BY <2>2, <2>3 DEF VerifiesByToken
<1>2. IInv /\ [Next]_vars => [KeepsEnded]_vars
  <2> SUFFICES ASSUME IInv, Next PROVE KeepsEnded
    OBVIOUS
  <2>1. CASE UNCHANGED <<account, state>>
    BY <2>1 DEF KeepsEnded
  <2>2. ASSUME NEW r \in Requests, CommitRegister(r) PROVE KeepsEnded
    <3>1. Drawn \in Unknown
      BY <2>2, DrawnIsUnknown DEF CommitRegister
    <3> QED
      BY <2>2, <3>1 DEF CommitRegister, Unknown, KeepsEnded, IInv, TypeOK, AccountInv
  <2>3. ASSUME NEW r \in Requests, CommitRequest(r) PROVE KeepsEnded
    <3>1. Drawn \in Unknown
      BY <2>3, DrawnIsUnknown DEF CommitRequest
    <3> QED
      BY <2>3, <3>1 DEF CommitRequest, Unknown, KeepsEnded, IInv, TypeOK
  <2>4. ASSUME NEW r \in Requests, CommitVerify(r) PROVE KeepsEnded
    BY <2>4 DEF CommitVerify, KeepsEnded, IInv, TypeOK, UserInv
  <2>5. CASE RetentionCommit
    BY <2>5 DEF RetentionCommit, KeepsEnded, IInv, TypeOK
  <2> QED
    BY <2>1, <2>2, <2>3, <2>4, <2>5, QuietStep
<1> QED
  BY <1>1, <1>2, Invariance, PTL DEF Spec, VerifiedByToken

\* Whatever operators hold back, and whenever, no deletion takes it.
THEOREM HoldsOverrideDeletion == Spec => HoldOverridesDeletion
<1>1. IInv /\ [Next]_vars => [SparesHeld]_vars
  <2> SUFFICES ASSUME IInv, Next, NEW t \in Tokens, held[t],
                      state'[t] = "gone", state[t] # "gone"
               PROVE  FALSE
    BY DEF SparesHeld
  <2>1. ~ UNCHANGED <<account, state>>
    OBVIOUS
  <2>2. lock[t] \notin {h \in Requests : pc[h] \in {"delete"}} /\ lock[t] # Retention
    BY HoldersDistinct DEF IInv, LockInv, UserInv
  <2>3. ASSUME NEW r \in Requests, CommitRegister(r) \/ CommitVerify(r) PROVE FALSE
    BY <2>3 DEF CommitRegister, CommitVerify, IInv, TypeOK
  <2>4. ASSUME NEW r \in Requests, CommitRequest(r) PROVE FALSE
    BY <2>2, <2>4 DEF CommitRequest
  <2>5. CASE RetentionCommit
    BY <2>2, <2>5 DEF RetentionCommit
  <2> QED
    BY <2>1, <2>3, <2>4, <2>5, QuietStep
<1> QED
  BY <1>1, Invariance, PTL DEF Spec, HoldOverridesDeletion

\* Wherever a transaction fails, the last token that works is lost to time, to
\* its use or to its replacement only.
THEOREM AlwaysAWayIn == Spec => NeverStranded
<1>1. IInv /\ [Next]_vars => [KeepsAWayIn]_vars
  <2> SUFFICES ASSUME IInv, Next, Working # {}, Working' = {}, account' # "verified",
                      \A t \in Working : ~lapsed'[t]
               PROVE  FALSE
    BY DEF KeepsAWayIn
  <2>1. PICK t \in Tokens : state[t] = "valid" /\ ~lapsed[t] /\ ~lapsed'[t]
    BY DEF Working
  <2>2. state'[t] # "valid"
    BY <2>1 DEF Working
  <2>3. ASSUME NEW r \in Requests, CommitRegister(r) PROVE FALSE
    BY <2>1, <2>2, <2>3 DEF CommitRegister, IInv, TypeOK
  <2>4. ASSUME NEW r \in Requests, CommitRequest(r) PROVE FALSE
    <3>1. Drawn \in Unknown
      BY <2>4, DrawnIsUnknown DEF CommitRequest
    <3>2. Drawn \in Tokens /\ state'[Drawn] = "valid" /\ ~lapsed'[Drawn]
      BY <2>4, <3>1 DEF CommitRequest, Delete, Unknown, IInv, DrawnInv
    <3> QED
      BY <3>2 DEF Working
  <2>5. CASE RetentionCommit
    BY <2>1, <2>2, <2>5, HoldersDistinct DEF RetentionCommit, IInv, LockInv, UserInv
  <2>6. ASSUME NEW r \in Requests PROVE ~CommitVerify(r)
    BY DEF CommitVerify
  <2>7. ~ UNCHANGED <<account, state>>
    BY <2>1, <2>2
  <2> QED
    BY <2>3, <2>4, <2>5, <2>6, <2>7, QuietStep
<1> QED
  BY <1>1, Invariance, PTL DEF Spec, NeverStranded

\* However many tokens there are, and whoever else uses or deletes them, none
\* that worked when a new one was asked for works once the request commits.
THEOREM ReplacesAll == Spec => ReplacementComplete
<1>1. IInv /\ [Next]_vars => [Replaces]_vars
  <2> SUFFICES ASSUME IInv, Next, NEW r \in Requests, pc[r] = "delete",
                      Kept' \ Kept # {}, pc'[r] = "idle", NEW t \in before[r]
               PROVE  state'[t] # "valid"
    BY DEF Replaces
  <2>1. PICK u \in Tokens : state[u] \notin {"valid", "used"} /\ state'[u] \in {"valid", "used"}
    BY DEF Kept
  <2>2. PICK q \in Requests : CommitRequest(q)
    <3>1. ~ UNCHANGED <<account, state>>
      BY <2>1
    <3>2. ASSUME NEW q \in Requests PROVE ~CommitRegister(q)
      BY HoldersDistinct DEF CommitRegister, Finish, Reset, IInv, TypeOK, AccountInv
    <3>3. ASSUME NEW q \in Requests PROVE ~CommitVerify(q)
      BY <2>1 DEF CommitVerify, IInv, TypeOK, UserInv
    <3>4. ~RetentionCommit
      BY <2>1 DEF RetentionCommit
    <3> QED
      BY <3>1, <3>2, <3>3, <3>4, QuietStep
  <2>3. r = q
    BY <2>2 DEF CommitRequest, Finish, Reset, IInv, TypeOK
  <2>4. Drawn \in Unknown
    BY <2>2, DrawnIsUnknown DEF CommitRequest
  <2>5. t \in Tokens /\ state[t] # "unknown" /\ (state[t] = "valid" => lock[t] = r)
    BY <2>2, <2>3 DEF CommitRequest, IInv, TypeOK, BeforeInv
  <2> QED
    BY <2>2, <2>3, <2>4, <2>5 DEF CommitRequest, Unknown
<1> QED
  BY <1>1, Invariance, PTL DEF Spec, ReplacementComplete

-----------------------------------------------------------------------------
\* A request that has not arrived owes nothing to an earlier one.
QuestionInv == \A r \in Requests : pc[r] = "idle" => before[r] = {}

\* Only the arrival of a replacement gives a request something to owe.
LEMMA QuestionStep ==
    ASSUME IInv, IInv', QuestionInv, [Next]_vars
    PROVE  QuestionInv'
<1> USE DEF IInv, TypeOK, QuestionInv, input, worker
<1>1. ASSUME NEW r \in Requests, NEW t \in Tokens, Verify(r, t) PROVE QuestionInv'
  BY <1>1 DEF Verify, Arrive
<1>2. ASSUME NEW r \in Requests, Register(r) \/ Request(r) PROVE QuestionInv'
  BY <1>2 DEF Register, Request, Arrive
<1>3. ASSUME NEW r \in Requests,
             \/ InsertUser(r) \/ CommitRegister(r) \/ CommitRequest(r) \/ UseToken(r)
             \/ UpdateUser(r) \/ CommitVerify(r) \/ Abort(r)
      PROVE  QuestionInv'
  <2>1. Goto(r, "inserted") \/ Goto(r, "user") \/ Goto(r, "verified") \/ Reset(r)
    BY <1>3 DEF InsertUser, CommitRegister, CommitRequest, UseToken, UpdateUser,
       CommitVerify, Abort, Finish
  <2> QED
    BY <2>1 DEF Goto, Reset
<1>4. ASSUME NEW r \in Requests, ScanTokens(r) \/ \E t \in Tokens : DeleteToken(r, t)
      PROVE  QuestionInv'
  BY <1>4 DEF ScanTokens, DeleteToken
<1>5. ASSUME NEW t \in Tokens, Lapse(t) \/ Hold(t) PROVE QuestionInv'
  BY <1>5 DEF Lapse, Hold
<1>6. ASSUME RetentionScan \/ RetentionStep \/ RetentionAbort PROVE QuestionInv'
  BY <1>6 DEF RetentionScan, RetentionStep, RetentionDelete, RetentionCommit, RetentionAbort
<1>7. CASE UNCHANGED vars
  BY <1>7 DEF vars
<1> QED
  BY <1>1, <1>2, <1>3, <1>4, <1>5, <1>6, <1>7 DEF Next, Step

\* In every state what a request owes is part of its question.
LEMMA Questions == Spec => []QuestionInv
<1>1. Init => QuestionInv
  BY DEF Init, QuestionInv
<1>2. IInv /\ IInv' /\ QuestionInv /\ [Next]_vars => QuestionInv'
  BY QuestionStep
<1> QED
  BY <1>1, <1>2, Invariance, PTL DEF Spec

\* What a request wants at each place of its control.
LEMMA AskedAt ==
    ASSUME TypeOK, NEW r \in Requests
    PROVE  /\ pc[r] \in {"insert", "inserted"} => Asked[r] = "register"
           /\ pc[r] \in {"scan", "delete"} => Asked[r] = "replace"
           /\ pc[r] \in {"use", "user", "verified"} => Asked[r] = "verify"
           /\ pc[r] = "idle" => Asked[r] = "nothing"
BY DEF Asked, TypeOK

\* Only the control of a request says what it wants.
LEMMA AskedFollows ==
    ASSUME TypeOK, TypeOK', NEW r \in Requests, \A x \in Requests \ {r} : pc'[x] = pc[x]
    PROVE  Asked' = [Asked EXCEPT ![r] = Asked'[r]]
BY Zenon DEF Asked, TypeOK

\* The end of a transaction is the end of its question.
LEMMA ResetAnswers ==
    ASSUME IInv, IInv', NEW r \in Requests, Reset(r)
    PROVE  Atomic!Answer(r)
<1>1. pc'[r] = "idle" /\ \A x \in Requests \ {r} : pc'[x] = pc[x]
  BY DEF Reset, IInv, TypeOK
<1>2. Asked'[r] = "nothing"
  BY <1>1 DEF Asked
<1> QED
  BY <1>1, <1>2, AskedFollows DEF Reset, Atomic!Answer, IInv

\* A request that moves on within its transaction wants what it wanted.
LEMMA MoveIsSilent ==
    ASSUME IInv, IInv', NEW r \in Requests,
           \/ InsertUser(r) /\ Goto(r, "inserted")
           \/ UseToken(r) /\ Goto(r, "user")
           \/ UpdateUser(r) \/ ScanTokens(r) \/ \E t \in Tokens : DeleteToken(r, t)
    PROVE  UNCHANGED Atomic!vars
<1>1. Asked' = Asked
  <2>1. \A x \in Requests \ {r} : pc'[x] = pc[x]
    BY DEF Goto, UpdateUser, ScanTokens, DeleteToken, IInv, TypeOK
  <2>2. Asked'[r] = Asked[r]
    BY DEF InsertUser, UseToken, Goto, UpdateUser, ScanTokens, DeleteToken, IInv, TypeOK, Asked
  <2>3. Asked \in [Requests -> {"register", "replace", "verify", "nothing"}]
    BY DEF Asked, IInv, TypeOK
  <2> QED
    BY <2>1, <2>2, <2>3, AskedFollows DEF IInv
<1> QED
  BY <1>1 DEF InsertUser, UseToken, Goto, UpdateUser, ScanTokens, DeleteToken, rows, input,
     Atomic!vars, Atomic!tokens, Atomic!question

\* A request arrives with a question that may be asked.
LEMMA ArrivalIsQuestion ==
    ASSUME IInv, IInv', QuestionInv, NEW r \in Requests
    PROVE  /\ Register(r) => Atomic!AskRegister(r)
           /\ Request(r) => Atomic!AskReplace(r)
           /\ \A t \in Tokens : Verify(r, t) => Atomic!AskVerify(r, t)
<1> USE DEF Arrive, rows, Atomic!Ask, Atomic!tokens, IInv
<1>0. pc[r] = "idle" => Asked[r] = "nothing" /\ before = [before EXCEPT ![r] = {}]
  BY AskedAt DEF QuestionInv, TypeOK
<1>1. ASSUME NEW p, NEW t, Arrive(r, p, t)
      PROVE  /\ \A x \in Requests \ {r} : pc'[x] = pc[x]
             /\ pc'[r] = p /\ Asked' = [Asked EXCEPT ![r] = Asked'[r]]
  BY <1>1, AskedFollows DEF TypeOK
<1>2. ASSUME Register(r) PROVE Atomic!AskRegister(r)
  <2>0. pc'[r] = "insert" /\ Asked' = [Asked EXCEPT ![r] = Asked'[r]]
    BY <1>1, <1>2 DEF Register
  <2>1. Asked' = [Asked EXCEPT ![r] = "register"]
    BY <2>0 DEF Asked
  <2> QED
    BY <1>0, <1>2, <2>1 DEF Register, Atomic!AskRegister
<1>3. ASSUME Request(r) PROVE Atomic!AskReplace(r)
  <2>0. pc'[r] = "scan" /\ Asked' = [Asked EXCEPT ![r] = Asked'[r]]
    BY <1>1, <1>3 DEF Request
  <2>1. Asked' = [Asked EXCEPT ![r] = "replace"]
    BY <2>0 DEF Asked
  <2> QED
    BY <1>0, <1>3, <2>1 DEF Request, Atomic!AskReplace
<1>4. ASSUME NEW t \in Tokens, Verify(r, t) PROVE Atomic!AskVerify(r, t)
  <2>0. pc'[r] = "use" /\ Asked' = [Asked EXCEPT ![r] = Asked'[r]]
    BY <1>1, <1>4 DEF Verify
  <2>1. Asked' = [Asked EXCEPT ![r] = "verify"]
    BY <2>0 DEF Asked
  <2> QED
    BY <1>0, <1>4, <2>1 DEF Verify, Atomic!AskVerify
<1> QED
  BY <1>2, <1>3, <1>4

\* A transaction that commits or rolls back is one operation on what it finds.
LEMMA EndIsOperation ==
    ASSUME IInv, IInv', NEW r \in Requests
    PROVE  /\ CommitRegister(r) => Atomic!Register(r, Drawn)
           /\ CommitRequest(r) =>
                 Atomic!Replace(r, Drawn, {u \in Tokens : lock[u] = r})
           /\ CommitVerify(r) => Atomic!Verify(r)
           /\ Abort(r) => Atomic!Nothing(r)
           /\ (InsertUser(r) \/ UseToken(r)) /\ Finish(r) => Atomic!Nothing(r)
<1> USE DEF IInv, rows, Finish
<1>1. ASSUME CommitRegister(r) PROVE Atomic!Register(r, Drawn)
  <2>1. Drawn \in Unknown
    BY <1>1, DrawnIsUnknown DEF CommitRegister
  <2> QED
    BY <1>1, <2>1, AskedAt, ResetAnswers
       DEF CommitRegister, Atomic!Register, AccountInv, Unknown
<1>2. ASSUME CommitRequest(r) PROVE Atomic!Replace(r, Drawn, {u \in Tokens : lock[u] = r})
  <2> DEFINE D == {u \in Tokens : lock[u] = r}
  <2>1. Drawn \in Unknown
    BY <1>2, DrawnIsUnknown DEF CommitRequest
  <2>2. pc[r] = "delete" /\ Asked[r] = "replace"
    BY <1>2, AskedAt DEF CommitRequest
  <2>3. \A u \in D : u \in Kept /\ ~held[u]
    BY <2>2, HoldersDistinct DEF LockInv
  <2>4. \A u \in before[r] : state[u] = "valid" => u \in D
    BY <1>2, <2>2 DEF CommitRequest, BeforeInv, TypeOK
  <2>5. Atomic!Answer(r)
    BY <1>2, ResetAnswers DEF CommitRequest
  <2>6. /\ state' = [u \in Tokens |-> IF u = Drawn THEN "valid"
                                      ELSE IF u \in D THEN "gone" ELSE state[u]]
        /\ lapsed' = [t \in Tokens |-> lapsed[t] /\ t \notin D]
        /\ held' = [t \in Tokens |-> held[t] /\ t \notin D]
        /\ UNCHANGED account
    BY <1>2, Zenon DEF CommitRequest, Delete
  <2>7. D \subseteq Atomic!Deletable
    BY <2>3 DEF Kept, Atomic!Kept, Atomic!Deletable
  <2> HIDE DEF D
  <2>8. Atomic!Replace(r, Drawn, D)
    BY <2>1, <2>2, <2>4, <2>5, <2>6, <2>7 DEF Atomic!Replace, Atomic!Columns, Unknown
  <2> QED
    BY <2>8 DEF D
<1>3. ASSUME CommitVerify(r) PROVE Atomic!Verify(r)
  BY <1>3, AskedAt, ResetAnswers DEF CommitVerify, Atomic!Verify, UserInv
<1>4. ASSUME Abort(r) \/ ((InsertUser(r) \/ UseToken(r)) /\ Finish(r))
      PROVE  Atomic!Nothing(r)
  <2>1. Atomic!Answer(r) /\ UNCHANGED <<account, state, lapsed, held>>
    BY <1>4, ResetAnswers DEF Abort, InsertUser, UseToken
  <2>2. Asked[r] # "nothing"
    BY <1>4, AskedAt DEF Abort, InsertUser, UseToken, TypeOK
  <2> QED
    BY <2>1, <2>2 DEF Atomic!Nothing, Atomic!tokens
<1> QED
  BY <1>1, <1>2, <1>3, <1>4

\* Time, operators and the worker act at one instant too, or change nothing yet.
LEMMA WorldIsWorld ==
    ASSUME IInv, IInv'
    PROVE  /\ \A t \in Tokens : Lapse(t) => Atomic!Lapse(t)
           /\ \A t \in Tokens : Hold(t) => Atomic!Hold(t)
           /\ RetentionCommit => Atomic!Retire({t \in Tokens : lock[t] = Retention})
           /\ RetentionScan \/ RetentionAbort \/ (\E t \in Tokens : RetentionDelete(t))
              => UNCHANGED Atomic!vars
<1> USE DEF IInv, rows, input, Kept, Atomic!Kept, Atomic!question
<1>0. pc' = pc => Asked' = Asked
  BY DEF Asked
<1>1. ASSUME NEW t \in Tokens, Lapse(t) PROVE Atomic!Lapse(t)
  BY <1>0, <1>1 DEF Lapse, Atomic!Lapse
<1>2. ASSUME NEW t \in Tokens, Hold(t) PROVE Atomic!Hold(t)
  BY <1>0, <1>2 DEF Hold, Atomic!Hold
<1>3. ASSUME RetentionCommit PROVE Atomic!Retire({t \in Tokens : lock[t] = Retention})
  <2> DEFINE D == {t \in Tokens : lock[t] = Retention}
  <2>1. \A t \in D : t \in Kept /\ ~held[t] /\ lapsed[t]
    BY HoldersDistinct DEF LockInv, UserInv
  <2>2. /\ state' = [t \in Tokens |-> IF t \in D THEN "gone" ELSE state[t]]
        /\ lapsed' = [t \in Tokens |-> lapsed[t] /\ t \notin D]
        /\ held' = [t \in Tokens |-> held[t] /\ t \notin D]
    BY <1>3, Zenon DEF RetentionCommit, Delete
  <2>3. UNCHANGED <<account, Atomic!question>>
    BY <1>0, <1>3 DEF RetentionCommit
  <2>4. D \subseteq Atomic!Deletable
    BY <2>1 DEF Atomic!Deletable
  <2> HIDE DEF D
  <2>5. Atomic!Retire(D)
    BY <2>1, <2>2, <2>3, <2>4 DEF Atomic!Retire, Atomic!Columns
  <2> QED
    BY <2>5 DEF D
<1>4. ASSUME RetentionScan \/ RetentionAbort \/ (\E t \in Tokens : RetentionDelete(t))
      PROVE  UNCHANGED Atomic!vars
  BY <1>0, <1>4 DEF RetentionScan, RetentionAbort, RetentionDelete, Atomic!vars,
     Atomic!tokens
<1> QED
  BY <1>1, <1>2, <1>3, <1>4

\* For every set of tokens and requests, each registration, replacement, use and
\* sweep of the retention worker acts at one instant, with what it owes to those
\* that came before it.
THEOREM RequestsAreAtomic == Spec => ActsAtomically
<1>1. Init => Atomic!Init
  BY DEF Init, Asked, Atomic!Init
<1>2. IInv /\ IInv' /\ QuestionInv /\ [Next]_vars => [Atomic!Next]_(Atomic!vars)
  <2> SUFFICES ASSUME IInv, IInv', QuestionInv, [Next]_vars
               PROVE  Atomic!Next \/ UNCHANGED Atomic!vars
    BY DEF Atomic!vars
  <2>1. CASE UNCHANGED vars
    BY <2>1 DEF vars, rows, input, Asked, Atomic!vars, Atomic!tokens, Atomic!question
  <2>2. ASSUME NEW r \in Requests, NEW t \in Tokens, Verify(r, t) PROVE Atomic!Next
    BY <2>2, ArrivalIsQuestion DEF Atomic!Next
  <2>3. ASSUME NEW r \in Requests, Register(r) \/ Request(r) PROVE Atomic!Next
    BY <2>3, ArrivalIsQuestion DEF Atomic!Next
  <2>4. ASSUME NEW r \in Requests, CommitRegister(r) PROVE Atomic!Next
    <3>1. Drawn \in Tokens
      BY <2>4, DrawnIsUnknown DEF CommitRegister, Unknown
    <3> QED
      BY <2>4, <3>1, EndIsOperation DEF Atomic!Next
  <2>5. ASSUME NEW r \in Requests, CommitRequest(r) PROVE Atomic!Next
    <3>1. Drawn \in Tokens
      BY <2>5, DrawnIsUnknown DEF CommitRequest, Unknown
    <3>2. {u \in Tokens : lock[u] = r} \in SUBSET Atomic!Deletable
      BY <2>5, EndIsOperation DEF Atomic!Replace
    <3> QED
      BY <2>5, <3>1, <3>2, EndIsOperation DEF Atomic!Next
  <2>6. ASSUME NEW r \in Requests, CommitVerify(r) \/ Abort(r) PROVE Atomic!Next
    BY <2>6, EndIsOperation DEF Atomic!Next
  <2>7. ASSUME NEW r \in Requests, InsertUser(r) \/ UseToken(r)
        PROVE  Atomic!Next \/ UNCHANGED Atomic!vars
    <3>1. \/ InsertUser(r) /\ Goto(r, "inserted")
          \/ UseToken(r) /\ Goto(r, "user")
          \/ (InsertUser(r) \/ UseToken(r)) /\ Finish(r)
      BY <2>7 DEF InsertUser, UseToken
    <3> QED
      BY <3>1, EndIsOperation, MoveIsSilent DEF Atomic!Next
  <2>8. ASSUME NEW r \in Requests,
               UpdateUser(r) \/ ScanTokens(r) \/ \E t \in Tokens : DeleteToken(r, t)
        PROVE  UNCHANGED Atomic!vars
    BY <2>8, MoveIsSilent
  <2>9. ASSUME NEW t \in Tokens, Lapse(t) \/ Hold(t) PROVE Atomic!Next
    BY <2>9, WorldIsWorld DEF Atomic!Next
  <2>10. ASSUME RetentionScan \/ RetentionAbort \/ RetentionStep
         PROVE  Atomic!Next \/ UNCHANGED Atomic!vars
    <3>1. RetentionCommit => {t \in Tokens : lock[t] = Retention} \in SUBSET Atomic!Deletable
      BY WorldIsWorld DEF Atomic!Retire
    <3> QED
      BY <2>10, <3>1, WorldIsWorld DEF RetentionStep, Atomic!Next
  <2> QED
    BY <2>1, <2>2, <2>3, <2>4, <2>5, <2>6, <2>7, <2>8, <2>9, <2>10 DEF Next, Step
<1> QED
  BY <1>1, <1>2, Invariance, Questions, PTL DEF Spec, ActsAtomically, Atomic!Spec
=============================================================================
