-------------------------- MODULE AtomicVerification --------------------------
(***************************************************************************)
(* What registration and email verification promise one address: every     *)
(* request has its effect at one instant, or none.  What it owes to an     *)
(* earlier one is part of the question: a token was good when it was       *)
(* presented, and a replacement ends the tokens that worked when it was    *)
(* asked for.  An operator's hold keeps a token from deletion.             *)
(***************************************************************************)
CONSTANTS Tokens, Requests, None

VARIABLES
    account,                \* "none", "unverified", "verified"
    state, lapsed, held,    \* per token
    asked, token, before    \* per request: the question

tokens == <<state, lapsed, held>>
question == <<asked, token, before>>
vars == <<account, tokens, question>>

Init ==
    /\ account = "none"
    /\ state = [t \in Tokens |-> "unknown"]
    /\ lapsed = [t \in Tokens |-> FALSE]
    /\ held = [t \in Tokens |-> FALSE]
    /\ asked = [r \in Requests |-> "nothing"]
    /\ token = [r \in Requests |-> None]
    /\ before = [r \in Requests |-> {}]

Kept == {t \in Tokens : state[t] \in {"valid", "used"}}

\* What a request or the worker may delete.
Deletable == {t \in Kept : ~held[t]}

Ask(r, what, t, S) ==
    /\ asked[r] = "nothing"
    /\ asked' = [asked EXCEPT ![r] = what]
    /\ token' = [token EXCEPT ![r] = t]
    /\ before' = [before EXCEPT ![r] = S]
    /\ UNCHANGED <<account, tokens>>

AskRegister(r) == account = "none" /\ Ask(r, "register", None, {})

AskReplace(r) ==
    /\ account = "unverified"
    /\ Ask(r, "replace", None, {t \in Tokens : state[t] = "valid" /\ ~held[t]})

AskVerify(r, t) ==
    /\ state[t] = "valid" /\ ~lapsed[t]
    /\ Ask(r, "verify", t, {})

Answer(r) ==
    /\ asked' = [asked EXCEPT ![r] = "nothing"]
    /\ token' = [token EXCEPT ![r] = None]
    /\ before' = [before EXCEPT ![r] = {}]

\* What is gone has no columns.
Columns(D) ==
    /\ lapsed' = [t \in Tokens |-> lapsed[t] /\ t \notin D]
    /\ held' = [t \in Tokens |-> held[t] /\ t \notin D]

-----------------------------------------------------------------------------
Register(r, t) ==
    /\ asked[r] = "register"
    /\ account = "none" /\ state[t] = "unknown"
    /\ account' = "unverified"
    /\ state' = [state EXCEPT ![t] = "valid"]
    /\ Answer(r)
    /\ UNCHANGED <<lapsed, held>>

\* The new token takes the place of the old ones, in one step: at least of those
\* that worked when it was asked for, and of none that is held back.
Replace(r, t, D) ==
    /\ asked[r] = "replace"
    /\ state[t] = "unknown"
    /\ D \subseteq Deletable
    /\ \A u \in before[r] : state[u] = "valid" => u \in D
    /\ state' = [u \in Tokens |-> IF u = t THEN "valid"
                                  ELSE IF u \in D THEN "gone" ELSE state[u]]
    /\ Columns(D)
    /\ Answer(r)
    /\ UNCHANGED account

\* A token that still works is used up and verifies the address.
Verify(r) ==
    /\ asked[r] = "verify" /\ state[token[r]] = "valid"
    /\ account' = "verified"
    /\ state' = [state EXCEPT ![token[r]] = "used"]
    /\ Answer(r)
    /\ UNCHANGED <<lapsed, held>>

Nothing(r) ==
    /\ asked[r] # "nothing"
    /\ Answer(r)
    /\ UNCHANGED <<account, tokens>>

-----------------------------------------------------------------------------
Lapse(t) ==
    /\ t \in Kept
    /\ lapsed' = [lapsed EXCEPT ![t] = TRUE]
    /\ UNCHANGED <<account, state, held, question>>

\* An operator's hold; no replacement under way owes the token's end any more.
Hold(t) ==
    /\ t \in Kept
    /\ held' = [held EXCEPT ![t] = ~@]
    /\ before' = [r \in Requests |-> before[r] \ {t}]
    /\ UNCHANGED <<account, state, lapsed, asked, token>>

\* Retention deletes tokens that have lapsed and that nobody holds back.
Retire(D) ==
    /\ D \subseteq Deletable
    /\ \A t \in D : lapsed[t]
    /\ state' = [t \in Tokens |-> IF t \in D THEN "gone" ELSE state[t]]
    /\ Columns(D)
    /\ UNCHANGED <<account, question>>

Next ==
    \/ \E r \in Requests :
          \/ AskRegister(r) \/ AskReplace(r) \/ \E t \in Tokens : AskVerify(r, t)
          \/ Verify(r) \/ Nothing(r)
          \/ \E t \in Tokens : Register(r, t) \/ \E D \in SUBSET Deletable : Replace(r, t, D)
    \/ \E t \in Tokens : Lapse(t) \/ Hold(t)
    \/ \E D \in SUBSET Deletable : Retire(D)

Spec == Init /\ [][Next]_vars
=============================================================================
