------------------------------- MODULE Account -------------------------------
(****************************************************************************)
(* Accounts: auth.service.ts over users.service.ts and                      *)
(* refresh-tokens.service.ts.  A handler loads the user, decides on what it *)
(* loaded (bcrypt compares with the loaded hash), then writes with single-  *)
(* document updates that check nothing, but for the reset of a password and *)
(* the verification of an e-mail, which find and update at once.            *)
(****************************************************************************)
EXTENDS Backend, FiniteSets

(* An account is known by its e-mail address.  Passwords are what people    *)
(* type; a social login makes up one nobody knows, Unguessable.  Tokens     *)
(* numbers the refresh tokens and Letters the tokens sent by e-mail: bounds *)
(* of the model, like MaxFailures on the count of wrong passwords.          *)
(* LockAfter is the number of wrong passwords that locks, 5 in the code.    *)
CONSTANTS Emails, Passwords, Unguessable, Tokens, Letters, LockAfter, MaxFailures

ASSUME AccountAssumption ==
  /\ IsFiniteSet(Jobs)
  /\ Tokens \subseteq Nat /\ Letters \subseteq Nat
  /\ LockAfter \in Nat \ {0} /\ MaxFailures \in Nat
  /\ None \notin Passwords \cup {Unguessable}

VARIABLES accounts, tokens, letters

accountVars == <<accounts, tokens, letters, job, clock, faults>>

(* Times are states: locked says that lockedUntil lies ahead, a token is    *)
(* active until it is revoked or expires, as is the link to a new password. *)
AccountDoc ==
  [password : Passwords \cup {Unguessable}, failures : Nat, locked : BOOLEAN,
   reset : Letters \cup {None}, verify : Letters \cup {None}, verified : BOOLEAN]

TokenDoc == [email : Emails, state : {"active", "revoked", "expired"}]

ASSUME NullIsNoAccount == None \notin AccountDoc \cup TokenDoc

Known == {e \in Emails : accounts[e] # None}
Fresh == {t \in Tokens : tokens[t] = None}
Active(t) == tokens[t] # None /\ tokens[t].state = "active"

Write(e, doc) == accounts' = [accounts EXCEPT ![e] = doc]

NewAccount(password) ==
  [password |-> password, failures |-> 0, locked |-> FALSE,
   reset |-> None, verify |-> None, verified |-> FALSE]

---------------------------------------------------------------------------
(* Slips: operators of the code below as a plausible error would have them. *)
LocksLate(doc) == doc.failures > LockAfter

---------------------------------------------------------------------------
(* issueTokens stores a refresh token and hands it out with the answer.     *)
Issuing(e) == [op |-> "issue", email |-> e]

Issue(j) ==
  /\ job[j].op = "issue"
  /\ \E t \in Fresh :
       /\ \A s \in Fresh : t <= s
       /\ tokens' = [tokens EXCEPT ![t] = [email |-> job[j].email, state |-> "active"]]
       /\ Become(j, [op |-> "answer", token |-> t])
  /\ UNCHANGED <<accounts, letters, clock, faults>>

(* The client has its answer, or has gone. *)
Answered(j) ==
  /\ job[j].op = "answer"
  /\ Finish(j)
  /\ UNCHANGED <<accounts, tokens, letters, clock, faults>>

Answers(j, step) == Free(j) /\ Become(j, step) /\ UNCHANGED <<accounts, tokens, letters, clock, faults>>

---------------------------------------------------------------------------
(* register and oauthLogin look for the address, then insert; the unique    *)
(* index on it refuses the second of two.                                   *)
RegisterLoad(j, e, password) ==
  /\ e \notin Known
  /\ Answers(j, [op |-> "register", email |-> e, password |-> password])

InsertAccount(j) ==
  /\ job[j].op = "register"
  /\ LET e == job[j].email
     IN IF e \in Known
        THEN Finish(j) /\ UNCHANGED accounts
        ELSE Write(e, NewAccount(job[j].password)) /\ Become(j, Issuing(e))
  /\ UNCHANGED <<tokens, letters, clock, faults>>

OAuthLoad(j, e) ==
  \/ RegisterLoad(j, e, Unguessable)
  \/ e \in Known /\ Answers(j, [op |-> "login.reset", email |-> e])

(* validateUser: whether this attempt locks the account is decided on the   *)
(* count as it was loaded, before the attempt adds to it.                   *)
Locks(doc) == doc.failures >= LockAfter - 1

LoginLoad(j, e, password) ==
  /\ e \in Known /\ ~accounts[e].locked
  /\ Answers(j, IF password = accounts[e].password
                THEN [op |-> "login.reset", email |-> e]
                ELSE [op |-> "login.count", email |-> e, locks |-> Locks(accounts[e])])

CountFailure(j) ==
  /\ job[j].op = "login.count"
  /\ LET e == job[j].email
     IN /\ accounts[e].failures < MaxFailures
        /\ Write(e, [accounts[e] EXCEPT !.failures = @ + 1])
        /\ IF job[j].locks THEN Become(j, [op |-> "login.lock", email |-> e]) ELSE Finish(j)
  /\ UNCHANGED <<tokens, letters, clock, faults>>

LockUser(j) ==
  /\ job[j].op = "login.lock"
  /\ Write(job[j].email, [accounts[job[j].email] EXCEPT !.locked = TRUE])
  /\ Finish(j)
  /\ UNCHANGED <<tokens, letters, clock, faults>>

ResetFailures(j) ==
  /\ job[j].op = "login.reset"
  /\ LET e == job[j].email
     IN /\ Write(e, [accounts[e] EXCEPT !.failures = 0, !.locked = FALSE])
        /\ Become(j, Issuing(e))
  /\ UNCHANGED <<tokens, letters, clock, faults>>

---------------------------------------------------------------------------
(* changePassword compares with the loaded hash and overwrites whatever     *)
(* hash is there by then.  No refresh token is revoked.                     *)
ChangeLoad(j, e, current, next) ==
  /\ e \in Known /\ accounts[e].password = current
  /\ Answers(j, [op |-> "change", email |-> e, password |-> next])

UpdatePassword(j) ==
  /\ job[j].op = "change"
  /\ Write(job[j].email, [accounts[job[j].email] EXCEPT !.password = job[j].password])
  /\ Finish(j)
  /\ UNCHANGED <<tokens, letters, clock, faults>>

(* Each letter carries a new token; the account knows the last of a kind.   *)
Letter(e, field) ==
  /\ e \in Known /\ letters + 1 \in Letters
  /\ letters' = letters + 1
  /\ Write(e, [accounts[e] EXCEPT ![field] = letters + 1])
  /\ UNCHANGED <<tokens, job, clock, faults>>

ForgotPassword(e) == Letter(e, "reset")
RequestVerification(e) == Letter(e, "verify")

Presents(e, field, letter) ==
  /\ e \in Known /\ accounts[e][field] = letter
  /\ UNCHANGED <<tokens, letters, job, clock, faults>>

ResetPassword(e, letter, next) ==
  /\ Presents(e, "reset", letter)
  /\ Write(e, [accounts[e] EXCEPT !.password = next, !.reset = None])

VerifyEmail(e, letter) ==
  /\ Presents(e, "verify", letter)
  /\ Write(e, [accounts[e] EXCEPT !.verified = TRUE, !.verify = None])

---------------------------------------------------------------------------
(* refresh finds the token active, revokes it in a second call that does    *)
(* not look whether it was still active, and issues the next one.           *)
RefreshLoad(j, t) ==
  /\ Active(t)
  /\ Answers(j, [op |-> "refresh.revoke", token |-> t])

Revoked(t) == IF Active(t) THEN [tokens EXCEPT ![t].state = "revoked"] ELSE tokens

Rotate(j) ==
  /\ job[j].op = "refresh.revoke"
  /\ tokens' = Revoked(job[j].token)
  /\ Become(j, Issuing(tokens[job[j].token].email))
  /\ UNCHANGED <<accounts, letters, clock, faults>>

(* logout revokes the token it is given, or without one all of the user's.  *)
Logout(t) == tokens' = Revoked(t)

LogoutAll(e) ==
  /\ \E t \in Tokens : Active(t) /\ tokens[t].email = e
  /\ tokens' = [t \in Tokens |->
       IF Active(t) /\ tokens[t].email = e THEN [tokens[t] EXCEPT !.state = "revoked"] ELSE tokens[t]]
  /\ UNCHANGED <<accounts, letters, job, clock, faults>>

(* Fifteen minutes, an hour and the life of a refresh token go by, which is *)
(* longer than any handler takes.                                           *)
Expire ==
  /\ \A j \in Jobs : Free(j)
  /\ \/ \E e \in Known : /\ accounts[e].locked \/ accounts[e].reset # None
                         /\ Write(e, [accounts[e] EXCEPT !.locked = FALSE, !.reset = None])
                         /\ UNCHANGED tokens
     \/ \E t \in Tokens : /\ Active(t)
                          /\ tokens' = [tokens EXCEPT ![t].state = "expired"]
                          /\ UNCHANGED accounts
  /\ UNCHANGED <<letters, job, clock, faults>>

---------------------------------------------------------------------------
AccountStep(j) ==
  \/ Issue(j) \/ InsertAccount(j) \/ CountFailure(j) \/ LockUser(j)
  \/ ResetFailures(j) \/ UpdatePassword(j) \/ Rotate(j)

AccountCall(j, e) ==
  \/ \E p \in Passwords : RegisterLoad(j, e, p) \/ LoginLoad(j, e, p)
  \/ \E p, q \in Passwords : ChangeLoad(j, e, p, q)
  \/ OAuthLoad(j, e)
  \/ \E t \in Tokens : RefreshLoad(j, t)

AccountRequest(e) ==
  \/ ForgotPassword(e) \/ RequestVerification(e) \/ LogoutAll(e)
  \/ \E l \in Letters : VerifyEmail(e, l) \/ \E p \in Passwords : ResetPassword(e, l, p)
  \/ \E t \in Tokens : Active(t) /\ Logout(t) /\ UNCHANGED <<accounts, letters, job, clock, faults>>

AccountAbort(j) == job[j] # Idle /\ Abort(j) /\ UNCHANGED <<accounts, tokens, letters>>

AccountInit ==
  /\ BackendInit
  /\ accounts = [e \in Emails |-> None]
  /\ tokens = [t \in Tokens |-> None]
  /\ letters = 0

AccountNext ==
  \/ \E j \in Jobs, e \in Emails : AccountCall(j, e)
  \/ \E e \in Emails : AccountRequest(e)
  \/ \E j \in Jobs : AccountStep(j) \/ Answered(j) \/ AccountAbort(j)
  \/ Expire

AccountSpec == AccountInit /\ [][AccountNext]_accountVars

AccountTypeOK ==
  /\ accounts \in [Emails -> AccountDoc \cup {None}]
  /\ tokens \in [Tokens -> TokenDoc \cup {None}]
  /\ letters \in Nat

---------------------------------------------------------------------------
LockPending(e) ==
  \E j \in Jobs : job[j].op = "login.lock" /\ job[j].email = e

(* However attempts overlap, a wrong password beyond the first LockAfter - 2*)
(* and one per handler in flight finds the account locked or locks it:      *)
(* attempts that all loaded an old count cannot go on for ever              *)
(* (validateUser, auth.service.ts:236-274).                                 *)
GuessesBounded ==
  [][\A e \in Known :
       /\ accounts'[e].failures > accounts[e].failures
       /\ accounts[e].failures + 2 >= LockAfter + Cardinality(Jobs)
       /\ faults' = 0
       => accounts'[e].locked \/ LockPending(e)']_accountVars
==============================================================================
