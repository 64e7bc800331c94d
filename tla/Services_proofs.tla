---------------------------- MODULE Services_proofs ----------------------------
(****************************************************************************)
(* Accounts and the lockout, the tokens of a browser, prices, ratings and   *)
(* applications, for any number of handlers and calls in flight.            *)
(****************************************************************************)
EXTENDS MCServices, Sums_proofs, FiniteSetTheorems, WellFoundedInduction, TLAPS

---------------------------------------------------------------------------
(* Accounts.  A handler knows an account that is there, or is about to make *)
(* one; it holds a token that was stored.                                   *)
AccountJob ==
  [op : {"issue", "login.reset", "login.lock"}, email : Emails]
  \cup [op : {"login.count"}, email : Emails, locks : BOOLEAN]
  \cup [op : {"register", "change"}, email : Emails, password : Passwords \cup {Unguessable}]
  \cup [op : {"answer", "refresh.revoke"}, token : Tokens]

Mailing == {"login.reset", "login.lock", "login.count", "change"}
Holding == {"answer", "refresh.revoke"}

Fits(s) ==
  /\ s.op \in Mailing => s.email \in Known
  /\ s.op \in Holding => tokens[s.token] # None

AccountsFit ==
  /\ accounts \in [Emails -> AccountDoc \cup {None}]
  /\ tokens \in [Tokens -> TokenDoc \cup {None}]
  /\ letters \in Nat
  /\ faults \in Nat

AccountOK ==
  /\ AccountsFit
  /\ job \in [Jobs -> AccountJob \cup {Idle}]
  /\ \A j \in Jobs : Fits(job[j])

LEMMA IdleFits == Idle \notin AccountJob /\ Fits(Idle) /\ Fits(Idle)'
  BY DEF Idle, AccountJob, Fits, Mailing, Holding

(* What handlers know stays as long as no account or token is lost.         *)
LEMMA NothingLost ==
  ASSUME AccountOK, AccountsFit', Known \subseteq Known',
         \A t \in Tokens : tokens[t] # None => tokens'[t] # None,
         NEW j \in Jobs, NEW next \in AccountJob \cup {Idle}, Fits(next)', Become(j, next)
  PROVE  AccountOK'
  <1>1. job' \in [Jobs -> AccountJob \cup {Idle}] /\ job' = [job EXCEPT ![j] = next]
    BY DEF AccountOK, Become
  <1>2. ASSUME NEW i \in Jobs  PROVE Fits(job[i])'
    <2>1. CASE i = j
      <3>1. job'[i] = next
        BY <1>1, <2>1 DEF AccountOK
      <3> QED  BY <3>1 DEF Fits
    <2>2. CASE i # j
      <3>1. PICK s \in AccountJob \cup {Idle} : s = job[i] /\ s = job'[i] /\ Fits(s)
        BY <1>1, <2>2 DEF AccountOK
      <3>2. s.op \in Holding => s.token \in Tokens
        BY <3>1 DEF AccountJob, Idle, Holding
      <3>3. Fits(s)'
        BY <3>1, <3>2 DEF Fits
      <3> QED  BY <3>1, <3>3 DEF Fits
    <2> QED  BY <2>1, <2>2
  <1> QED  BY <1>1, <1>2 DEF AccountOK

(* A document is written.                                                   *)
LEMMA WriteFits ==
  ASSUME AccountsFit, NEW e \in Emails, NEW doc \in AccountDoc, Write(e, doc)
  PROVE  /\ accounts' \in [Emails -> AccountDoc \cup {None}]
         /\ Known' = Known \cup {e}
         /\ accounts'[e] = doc /\ \A f \in Emails \ {e} : accounts'[f] = accounts[f]
  <1>1. accounts' \in [Emails -> AccountDoc \cup {None}] /\ accounts' = [accounts EXCEPT ![e] = doc]
    BY DEF AccountsFit, Write
  <1>2. accounts \in [Emails -> AccountDoc \cup {None}] /\ doc # None
    BY NullIsNoAccount DEF AccountsFit
  <1>3. accounts'[e] = doc /\ \A f \in Emails \ {e} : accounts'[f] = accounts[f]
    BY <1>1, <1>2
  <1> QED  BY <1>1, <1>2, <1>3 DEF Known

LEMMA AccountIs ==
  ASSUME AccountsFit, NEW e \in Known
  PROVE  accounts[e] \in AccountDoc /\ e \in Emails
  BY DEF AccountsFit, Known

(* The calls of a handler only read.                                        *)
LEMMA ReadKeeps ==
  ASSUME AccountOK, NEW j \in Jobs, NEW next \in AccountJob, Fits(next), Answers(j, next)
  PROVE  AccountOK'
  <1>1. UNCHANGED <<accounts, tokens, letters, faults>> /\ Become(j, next)
    BY DEF Answers
  <1>2. AccountsFit' /\ Known' = Known /\ Fits(next)'
    BY <1>1 DEF AccountOK, AccountsFit, Known, Fits
  <1> QED  BY <1>1, <1>2, NothingLost

(* What a handler has at hand.                                              *)
LEMMA HandlerIs ==
  ASSUME AccountOK, NEW j \in Jobs
  PROVE  /\ job[j].op \in {"issue", "register"} \cup Mailing => job[j].email \in Emails
         /\ job[j].op \in Mailing => job[j].email \in Known
         /\ job[j].op \in {"register", "change"} => job[j].password \in Passwords \cup {Unguessable}
         /\ job[j].op = "login.count" => job[j].locks \in BOOLEAN
         /\ job[j].op \in Holding => job[j].token \in Tokens /\ tokens[job[j].token] \in TokenDoc
  <1>1. PICK s \in AccountJob \cup {Idle} : s = job[j] /\ Fits(s)
    BY DEF AccountOK
  <1>2. /\ s.op \in {"issue", "register"} \cup Mailing => s.email \in Emails
        /\ s.op \in {"register", "change"} => s.password \in Passwords \cup {Unguessable}
        /\ s.op = "login.count" => s.locks \in BOOLEAN
        /\ s.op \in Holding => s.token \in Tokens
    BY <1>1 DEF AccountJob, Idle, Mailing, Holding
  <1>3. tokens \in [Tokens -> TokenDoc \cup {None}]
    BY DEF AccountOK, AccountsFit
  <1> QED  BY <1>1, <1>2, <1>3 DEF Fits

LEMMA IssuingIs ==
  ASSUME NEW e \in Emails
  PROVE  /\ Issuing(e) \in AccountJob /\ Fits(Issuing(e))' /\ Issuing(e).op = "issue"
         /\ Issuing(e).email = e
  BY DEF Issuing, AccountJob, Fits, Mailing, Holding

(* A handler writes an account and goes on.                                 *)
LEMMA WriteKeeps ==
  ASSUME AccountOK, NEW e \in Emails, NEW doc \in AccountDoc, Write(e, doc),
         letters' \in Nat, faults' \in Nat, tokens' = tokens,
         \/ job' = job
         \/ \E j \in Jobs : \E next \in AccountJob \cup {Idle} : Fits(next)' /\ Become(j, next)
  PROVE  AccountOK'
  <1>1. AccountsFit' /\ Known \subseteq Known'
    BY WriteFits DEF AccountOK, AccountsFit
  <1>2. CASE job' = job
    <2>1. ASSUME NEW j \in Jobs  PROVE Fits(job[j])'
      BY <1>1, <1>2 DEF AccountOK, Fits
    <2> QED  BY <1>1, <1>2, <2>1 DEF AccountOK
  <1>3. CASE \E j \in Jobs : \E next \in AccountJob \cup {Idle} : Fits(next)' /\ Become(j, next)
    BY <1>1, <1>3, NothingLost
  <1> QED  BY <1>2, <1>3

LEMMA IssueKeeps ==
  ASSUME AccountOK, NEW j \in Jobs, Issue(j)
  PROVE  AccountOK'
  <1>1. job[j].op = "issue" /\ job[j].email \in Emails /\ UNCHANGED <<accounts, letters, faults>>
    BY HandlerIs DEF Issue
  <1>2. PICK t \in Fresh :
          /\ tokens' = [tokens EXCEPT ![t] = [email |-> job[j].email, state |-> "active"]]
          /\ Become(j, [op |-> "answer", token |-> t])
    BY DEF Issue
  <1>3. PICK doc \in TokenDoc : doc = [email |-> job[j].email, state |-> "active"]
    BY <1>1 DEF TokenDoc
  <1>4. t \in Tokens /\ doc # None /\ tokens \in [Tokens -> TokenDoc \cup {None}]
    BY NullIsNoAccount DEF Fresh, AccountOK, AccountsFit
  <1>5. /\ tokens' \in [Tokens -> TokenDoc \cup {None}] /\ tokens'[t] # None
        /\ \A s \in Tokens : tokens[s] # None => tokens'[s] # None
    BY <1>2, <1>3, <1>4
  <1>6. AccountsFit' /\ Known' = Known
    BY <1>1, <1>5 DEF AccountOK, AccountsFit, Known
  <1>7. PICK next : next = [op |-> "answer", token |-> t]
    OBVIOUS
  <1>8. next \in AccountJob /\ Fits(next)'
    BY <1>4, <1>5, <1>7 DEF AccountJob, Fits, Mailing, Holding
  <1> QED  BY <1>2, <1>5, <1>6, <1>7, <1>8, NothingLost

LEMMA AnsweredKeeps ==
  ASSUME AccountOK, NEW j \in Jobs, Answered(j)
  PROVE  AccountOK'
  <1>1. UNCHANGED <<accounts, tokens, letters, faults>> /\ Become(j, Idle)
    BY DEF Answered, Finish
  <1>2. AccountsFit' /\ Known' = Known
    BY <1>1 DEF AccountOK, AccountsFit, Known
  <1> QED  BY <1>1, <1>2, IdleFits, NothingLost

LEMMA InsertAccountKeeps ==
  ASSUME AccountOK, NEW j \in Jobs, InsertAccount(j)
  PROVE  AccountOK'
  <1>1. /\ job[j].op = "register" /\ job[j].email \in Emails
        /\ job[j].password \in Passwords \cup {Unguessable}
        /\ UNCHANGED <<tokens, letters, faults>> /\ letters \in Nat /\ faults \in Nat
    BY HandlerIs DEF InsertAccount, AccountOK, AccountsFit
  <1>2. CASE job[j].email \in Known
    <2>1. UNCHANGED accounts /\ Become(j, Idle)
      BY <1>2 DEF InsertAccount, Finish
    <2>2. AccountsFit' /\ Known' = Known
      BY <1>1, <2>1 DEF AccountOK, AccountsFit, Known
    <2> QED  BY <1>1, <2>1, <2>2, IdleFits, NothingLost
  <1>3. CASE job[j].email \notin Known
    <2>1. Write(job[j].email, NewAccount(job[j].password)) /\ Become(j, Issuing(job[j].email))
      BY <1>3 DEF InsertAccount
    <2>2. NewAccount(job[j].password) \in AccountDoc
      BY <1>1 DEF NewAccount, AccountDoc
    <2> QED  BY <1>1, <2>1, <2>2, IssuingIs, WriteKeeps
  <1> QED  BY <1>2, <1>3

LEMMA CountFailureKeeps ==
  ASSUME AccountOK, NEW j \in Jobs, CountFailure(j)
  PROVE  AccountOK'
  <1>1. PICK e \in Known : e = job[j].email
    BY HandlerIs DEF CountFailure, Mailing
  <1>2. PICK doc \in AccountDoc : doc = [accounts[e] EXCEPT !.failures = @ + 1]
    <2>1. PICK old \in AccountDoc : old = accounts[e]
      BY AccountIs DEF AccountOK
    <2>2. PICK n \in Nat : n = old.failures + 1
      BY <2>1 DEF AccountDoc
    <2>3. [old EXCEPT !.failures = n] \in AccountDoc
      BY <2>1, <2>2 DEF AccountDoc
    <2> QED  BY <2>1, <2>2, <2>3
  <1>3. Write(e, doc) /\ e \in Emails /\ UNCHANGED <<tokens, letters, faults>>
        /\ letters \in Nat /\ faults \in Nat
    BY <1>1, <1>2 DEF CountFailure, AccountOK, AccountsFit, Known
  <1>4. PICK next \in {Idle, [op |-> "login.lock", email |-> e]} : Become(j, next)
    BY <1>1 DEF CountFailure, Finish
  <1>5. e \in Known'
    BY <1>3, WriteFits DEF AccountOK
  <1>6. next \in AccountJob \cup {Idle} /\ Fits(next)'
    BY <1>3, <1>4, <1>5, IdleFits DEF AccountJob, Fits, Mailing, Holding
  <1> QED  BY <1>3, <1>4, <1>6, WriteKeeps

LEMMA LockUserKeeps ==
  ASSUME AccountOK, NEW j \in Jobs, LockUser(j)
  PROVE  AccountOK'
  <1>1. PICK e \in Known : e = job[j].email
    BY HandlerIs DEF LockUser, Mailing
  <1>2. PICK doc \in AccountDoc : doc = [accounts[e] EXCEPT !.locked = TRUE]
    BY AccountIs DEF AccountOK, AccountDoc
  <1>3. Write(e, doc) /\ e \in Emails /\ UNCHANGED <<tokens, letters, faults>> /\ Become(j, Idle)
        /\ letters \in Nat /\ faults \in Nat
    BY <1>1, <1>2 DEF LockUser, Finish, AccountOK, AccountsFit, Known
  <1> QED  BY <1>3, IdleFits, WriteKeeps

LEMMA ResetFailuresKeeps ==
  ASSUME AccountOK, NEW j \in Jobs, ResetFailures(j)
  PROVE  AccountOK'
  <1>1. PICK e \in Known : e = job[j].email
    BY HandlerIs DEF ResetFailures, Mailing
  <1>2. PICK doc \in AccountDoc : doc = [accounts[e] EXCEPT !.failures = 0, !.locked = FALSE]
    BY AccountIs DEF AccountOK, AccountDoc
  <1>3. Write(e, doc) /\ e \in Emails /\ UNCHANGED <<tokens, letters, faults>> /\ Become(j, Issuing(e))
        /\ letters \in Nat /\ faults \in Nat
    BY <1>1, <1>2 DEF ResetFailures, AccountOK, AccountsFit, Known
  <1> QED  BY <1>3, IssuingIs, WriteKeeps

LEMMA UpdatePasswordKeeps ==
  ASSUME AccountOK, NEW j \in Jobs, UpdatePassword(j)
  PROVE  AccountOK'
  <1>1. PICK e \in Known, p \in Passwords \cup {Unguessable} : e = job[j].email /\ p = job[j].password
    BY HandlerIs DEF UpdatePassword, Mailing
  <1>2. PICK doc \in AccountDoc : doc = [accounts[e] EXCEPT !.password = p]
    BY AccountIs DEF AccountOK, AccountDoc
  <1>3. Write(e, doc) /\ e \in Emails /\ UNCHANGED <<tokens, letters, faults>> /\ Become(j, Idle)
        /\ letters \in Nat /\ faults \in Nat
    BY <1>1, <1>2 DEF UpdatePassword, Finish, AccountOK, AccountsFit, Known
  <1> QED  BY <1>3, IdleFits, WriteKeeps

(* A token is revoked or expires: its document stays.                       *)
LEMMA RevokedIs ==
  ASSUME AccountsFit, NEW t \in Tokens
  PROVE  /\ Revoked(t) \in [Tokens -> TokenDoc \cup {None}]
         /\ \A s \in Tokens : tokens[s] # None => Revoked(t)[s] # None
         /\ \A s \in Tokens \ {t} : Revoked(t)[s] = tokens[s]
  <1>1. tokens \in [Tokens -> TokenDoc \cup {None}]
    BY DEF AccountsFit
  <1>2. CASE Active(t)
    <2>1. PICK old \in TokenDoc : old = tokens[t]
      BY <1>1, <1>2 DEF Active
    <2>2. PICK doc \in TokenDoc : doc = [old EXCEPT !.state = "revoked"]
      BY <2>1 DEF TokenDoc
    <2>3. Revoked(t) = [tokens EXCEPT ![t] = doc]
      BY <1>2, <2>1, <2>2 DEF Revoked
    <2>4. doc # None
      BY <2>2, NullIsNoAccount
    <2> QED  BY <1>1, <2>3, <2>4
  <1>3. CASE ~Active(t)
    BY <1>1, <1>3 DEF Revoked
  <1> QED  BY <1>2, <1>3

(* Tokens change, accounts and handlers do not.                             *)
LEMMA TokensKeep ==
  ASSUME AccountOK, tokens' \in [Tokens -> TokenDoc \cup {None}],
         \A t \in Tokens : tokens[t] # None => tokens'[t] # None,
         UNCHANGED <<accounts, letters, job>>, faults' \in Nat
  PROVE  AccountOK'
  <1>1. AccountsFit' /\ Known' = Known
    BY DEF AccountOK, AccountsFit, Known
  <1>2. ASSUME NEW j \in Jobs  PROVE Fits(job[j])'
    <2>1. Fits(job[j]) /\ (job[j].op \in Holding => job[j].token \in Tokens)
      BY HandlerIs DEF AccountOK
    <2> QED  BY <1>1, <2>1 DEF Fits
  <1> QED  BY <1>1, <1>2 DEF AccountOK

LEMMA RotateKeeps ==
  ASSUME AccountOK, NEW j \in Jobs, Rotate(j)
  PROVE  AccountOK'
  <1>1. PICK t \in Tokens : t = job[j].token /\ tokens[t] \in TokenDoc
    BY HandlerIs DEF Rotate, Holding
  <1>2. tokens' = Revoked(t) /\ Become(j, Issuing(tokens[t].email))
        /\ UNCHANGED <<accounts, letters, faults>>
    BY <1>1 DEF Rotate
  <1>3. tokens[t].email \in Emails
    BY <1>1 DEF TokenDoc
  <1>4. /\ tokens' \in [Tokens -> TokenDoc \cup {None}]
        /\ \A s \in Tokens : tokens[s] # None => tokens'[s] # None
    BY <1>2, RevokedIs DEF AccountOK
  <1>5. AccountsFit' /\ Known' = Known
    BY <1>2, <1>4 DEF AccountOK, AccountsFit, Known
  <1> QED  BY <1>2, <1>3, <1>4, <1>5, IssuingIs, NothingLost

LEMMA AccountStepKeeps ==
  ASSUME AccountOK, NEW j \in Jobs, AccountStep(j)
  PROVE  AccountOK'
  BY IssueKeeps, InsertAccountKeeps, CountFailureKeeps, LockUserKeeps, ResetFailuresKeeps,
     UpdatePasswordKeeps, RotateKeeps DEF AccountStep

LEMMA RegisterLoadKeeps ==
  ASSUME AccountOK, NEW j \in Jobs, NEW e \in Emails, NEW p \in Passwords \cup {Unguessable},
         RegisterLoad(j, e, p)
  PROVE  AccountOK'
  <1>1. PICK next : next = [op |-> "register", email |-> e, password |-> p] /\ Answers(j, next)
    BY DEF RegisterLoad
  <1>2. next \in AccountJob /\ Fits(next)
    BY <1>1 DEF AccountJob, Fits, Mailing, Holding
  <1> QED  BY <1>1, <1>2, ReadKeeps

LEMMA LoginLoadKeeps ==
  ASSUME AccountOK, NEW j \in Jobs, NEW e \in Emails, NEW p, LoginLoad(j, e, p)
  PROVE  AccountOK'
  <1>1. e \in Known
    BY DEF LoginLoad
  <1>2. PICK locks \in BOOLEAN : locks = Locks(accounts[e])
    <2>1. PICK doc \in AccountDoc : doc = accounts[e]
      BY <1>1, AccountIs DEF AccountOK
    <2>2. doc.failures \in Nat /\ LockAfter \in Nat
      BY <2>1, AccountAssumption DEF AccountDoc
    <2>3. (doc.failures >= LockAfter - 1) \in BOOLEAN
      BY <2>2
    <2> QED  BY <2>1, <2>3 DEF Locks
  <1>3. PICK next : /\ next = IF p = accounts[e].password
                              THEN [op |-> "login.reset", email |-> e]
                              ELSE [op |-> "login.count", email |-> e, locks |-> locks]
                    /\ Answers(j, next)
    BY <1>2 DEF LoginLoad
  <1>4. next \in AccountJob /\ Fits(next)
    BY <1>1, <1>3 DEF AccountJob, Fits, Mailing, Holding
  <1> QED  BY <1>3, <1>4, ReadKeeps

LEMMA RefreshLoadKeeps ==
  ASSUME AccountOK, NEW j \in Jobs, NEW t \in Tokens, RefreshLoad(j, t)
  PROVE  AccountOK'
  <1>1. PICK next : next = [op |-> "refresh.revoke", token |-> t] /\ Answers(j, next)
    BY DEF RefreshLoad
  <1>2. next \in AccountJob /\ Fits(next)
    BY <1>1 DEF AccountJob, Fits, Mailing, Holding, RefreshLoad, Active
  <1> QED  BY <1>1, <1>2, ReadKeeps

LEMMA AccountCallKeeps ==
  ASSUME AccountOK, NEW j \in Jobs, NEW e \in Emails, AccountCall(j, e)
  PROVE  AccountOK'
  <1>1. ASSUME NEW p, NEW q \in Passwords, ChangeLoad(j, e, p, q)  PROVE AccountOK'
    <2>1. PICK next : next = [op |-> "change", email |-> e, password |-> q] /\ Answers(j, next)
      BY <1>1 DEF ChangeLoad
    <2>2. next \in AccountJob /\ Fits(next)
      BY <1>1, <2>1 DEF AccountJob, Fits, Mailing, Holding, ChangeLoad
    <2> QED  BY <2>1, <2>2, ReadKeeps
  <1>2. ASSUME OAuthLoad(j, e)  PROVE AccountOK'
    <2>1. CASE RegisterLoad(j, e, Unguessable)
      BY <2>1, RegisterLoadKeeps
    <2>2. CASE e \in Known /\ Answers(j, [op |-> "login.reset", email |-> e])
      <3>1. PICK next : next = [op |-> "login.reset", email |-> e] /\ Answers(j, next)
        BY <2>2
      <3>2. next \in AccountJob /\ Fits(next)
        BY <2>2, <3>1 DEF AccountJob, Fits, Mailing, Holding
      <3> QED  BY <3>1, <3>2, ReadKeeps
    <2> QED  BY <1>2, <2>1, <2>2 DEF OAuthLoad
  <1> QED  BY <1>1, <1>2, RegisterLoadKeeps, LoginLoadKeeps, RefreshLoadKeeps DEF AccountCall

(* Requests of one write.                                                   *)
LEMMA LetterKeeps ==
  ASSUME AccountOK, NEW e \in Emails, ForgotPassword(e) \/ RequestVerification(e)
  PROVE  AccountOK'
  <1>1. PICK l \in Letters : l = letters + 1 /\ l \in Nat
    BY AccountAssumption DEF ForgotPassword, RequestVerification, Letter
  <1>2. PICK old \in AccountDoc : old = accounts[e]
    BY AccountIs DEF AccountOK, ForgotPassword, RequestVerification, Letter
  <1>3. [old EXCEPT !.reset = l] \in AccountDoc /\ [old EXCEPT !.verify = l] \in AccountDoc
    BY DEF AccountDoc
  <1>4. Write(e, [old EXCEPT !.reset = l]) \/ Write(e, [old EXCEPT !.verify = l])
    BY <1>1, <1>2 DEF ForgotPassword, RequestVerification, Letter
  <1>5. letters' \in Nat /\ faults' \in Nat /\ tokens' = tokens /\ job' = job
    BY <1>1 DEF ForgotPassword, RequestVerification, Letter, AccountOK, AccountsFit
  <1> QED  BY <1>3, <1>4, <1>5, WriteKeeps

LEMMA PresentsKeeps ==
  ASSUME AccountOK, NEW e \in Emails, NEW l \in Letters,
         VerifyEmail(e, l) \/ \E p \in Passwords : ResetPassword(e, l, p)
  PROVE  AccountOK'
  <1>1. PICK old \in AccountDoc : old = accounts[e]
    BY AccountIs DEF AccountOK, VerifyEmail, ResetPassword, Presents
  <1>2. letters' \in Nat /\ faults' \in Nat /\ tokens' = tokens /\ job' = job
    BY DEF VerifyEmail, ResetPassword, Presents, AccountOK, AccountsFit
  <1>3. CASE VerifyEmail(e, l)
    <2>1. PICK doc \in AccountDoc : doc = [old EXCEPT !.verified = TRUE, !.verify = None]
      BY DEF AccountDoc
    <2> QED  BY <1>1, <1>2, <1>3, <2>1, WriteKeeps DEF VerifyEmail
  <1>4. ASSUME NEW p \in Passwords, ResetPassword(e, l, p)  PROVE AccountOK'
    <2>1. PICK doc \in AccountDoc : doc = [old EXCEPT !.password = p, !.reset = None]
      BY DEF AccountDoc
    <2> QED  BY <1>1, <1>2, <1>4, <2>1, WriteKeeps DEF ResetPassword
  <1> QED  BY <1>3, <1>4

LEMMA LogoutKeeps ==
  ASSUME AccountOK, NEW t \in Tokens, Logout(t), UNCHANGED <<accounts, letters, job, faults>>
  PROVE  AccountOK'
  BY RevokedIs, TokensKeep DEF Logout, AccountOK, AccountsFit

LEMMA LogoutAllKeeps ==
  ASSUME AccountOK, NEW e \in Emails, LogoutAll(e)
  PROVE  AccountOK'
  <1>1. tokens \in [Tokens -> TokenDoc \cup {None}] /\ faults' \in Nat
    BY DEF LogoutAll, AccountOK, AccountsFit
  <1>2. ASSUME NEW t \in Tokens, Active(t)
        PROVE  [tokens[t] EXCEPT !.state = "revoked"] \in TokenDoc
    <2>1. PICK old \in TokenDoc : old = tokens[t]
      BY <1>1, <1>2 DEF Active
    <2> QED  BY <2>1 DEF TokenDoc
  <1>3. None \notin TokenDoc
    BY NullIsNoAccount
  <1>4. \A t \in Tokens : /\ tokens'[t] \in TokenDoc \cup {None}
                          /\ tokens[t] # None => tokens'[t] # None
    BY <1>1, <1>2, <1>3 DEF LogoutAll
  <1>5. tokens' \in [Tokens -> TokenDoc \cup {None}]
    BY <1>4 DEF LogoutAll
  <1> QED  BY <1>1, <1>4, <1>5, TokensKeep DEF LogoutAll

LEMMA ExpireKeeps ==
  ASSUME AccountOK, Expire
  PROVE  AccountOK'
  <1>1. letters' \in Nat /\ faults' \in Nat /\ job' = job /\ letters' = letters
    BY DEF Expire, AccountOK, AccountsFit
  <1>2. ASSUME NEW e \in Known, UNCHANGED tokens,
               Write(e, [accounts[e] EXCEPT !.locked = FALSE, !.reset = None])
        PROVE  AccountOK'
    <2>1. PICK old \in AccountDoc : old = accounts[e] /\ e \in Emails
      BY AccountIs DEF AccountOK
    <2>2. PICK doc \in AccountDoc : doc = [old EXCEPT !.locked = FALSE, !.reset = None]
      BY DEF AccountDoc
    <2> QED  BY <1>1, <1>2, <2>1, <2>2, WriteKeeps
  <1>3. ASSUME NEW t \in Tokens, Active(t), UNCHANGED accounts,
               tokens' = [tokens EXCEPT ![t].state = "expired"]
        PROVE  AccountOK'
    <2>1. tokens \in [Tokens -> TokenDoc \cup {None}]
      BY DEF AccountOK, AccountsFit
    <2>2. PICK old \in TokenDoc : old = tokens[t]
      BY <1>3, <2>1 DEF Active
    <2>3. PICK doc \in TokenDoc : doc = [old EXCEPT !.state = "expired"]
      BY DEF TokenDoc
    <2>4. tokens' = [tokens EXCEPT ![t] = doc] /\ doc # None
      BY <1>3, <2>2, <2>3, NullIsNoAccount
    <2> QED  BY <1>1, <1>3, <2>1, <2>4, TokensKeep
  <1> QED  BY <1>2, <1>3 DEF Expire

LEMMA AccountAbortKeeps ==
  ASSUME AccountOK, NEW j \in Jobs, AccountAbort(j)
  PROVE  AccountOK'
  <1>1. UNCHANGED <<accounts, tokens, letters>> /\ faults' \in Nat /\ Become(j, Idle)
    BY DEF AccountAbort, Abort, Faulty, Finish, AccountOK, AccountsFit
  <1>2. AccountsFit' /\ Known' = Known
    BY <1>1 DEF AccountOK, AccountsFit, Known
  <1> QED  BY <1>1, <1>2, IdleFits, NothingLost

LEMMA AccountKeeps == AccountOK /\ [AccountNext]_accountVars => AccountOK'
  <1> SUFFICES ASSUME AccountOK, [AccountNext]_accountVars  PROVE AccountOK'
    OBVIOUS
  <1>1. CASE UNCHANGED accountVars
    BY <1>1 DEF accountVars, AccountOK, AccountsFit, Fits, Known
  <1>2. ASSUME NEW e \in Emails, AccountRequest(e)  PROVE AccountOK'
    BY <1>2, LetterKeeps, LogoutAllKeeps, PresentsKeeps, LogoutKeeps DEF AccountRequest
  <1> QED
    BY <1>1, <1>2, AccountCallKeeps, AccountStepKeeps, AnsweredKeeps, AccountAbortKeeps, ExpireKeeps
    DEF AccountNext

LEMMA AccountBegins == AccountInit => AccountOK
  <1> SUFFICES ASSUME AccountInit  PROVE AccountOK
    OBVIOUS
  <1>1. /\ accounts = [e \in Emails |-> None] /\ tokens = [t \in Tokens |-> None]
        /\ letters = 0 /\ faults = 0 /\ job = [j \in Jobs |-> Idle]
    BY DEF AccountInit, BackendInit
  <1> QED  BY <1>1, IdleFits DEF AccountOK, AccountsFit

---------------------------------------------------------------------------
(* The lockout.  Attempts under way that loaded a count too low to lock.    *)
Lenient(s, e) == s.op = "login.count" /\ s.email = e /\ s.locks = FALSE
Counting(e) == {j \in Jobs : Lenient(job[j], e)}

(* As long as there are such the count and they stay below the bound, or    *)
(* the account is locked or about to be.                                    *)
Contained(e) ==
  Counting(e) # {} =>
    \/ accounts[e].locked
    \/ LockPending(e)
    \/ accounts[e].failures + Cardinality(Counting(e)) + 2 <= LockAfter + Cardinality(Jobs)

Guarded == faults = 0 => \A e \in Known : Contained(e)

LEMMA CountingIsFinite ==
  ASSUME NEW e
  PROVE  /\ IsFiniteSet(Counting(e)) /\ Cardinality(Counting(e)) \in Nat
         /\ IsFiniteSet(Jobs) /\ Cardinality(Jobs) \in Nat
         /\ Cardinality(Counting(e)) <= Cardinality(Jobs)
         /\ \A j \in Counting(e) : Cardinality(Counting(e) \ {j}) + 1 = Cardinality(Counting(e))
  <1>1. Counting(e) \subseteq Jobs /\ IsFiniteSet(Jobs)
    BY AccountAssumption DEF Counting
  <1>2. IsFiniteSet(Counting(e)) /\ Cardinality(Counting(e)) <= Cardinality(Jobs)
    BY <1>1, FS_Subset
  <1>3. Cardinality(Counting(e)) \in Nat /\ Cardinality(Jobs) \in Nat
    BY <1>1, <1>2, FS_CardinalityType
  <1>4. ASSUME NEW j \in Counting(e)
        PROVE  Cardinality(Counting(e) \ {j}) + 1 = Cardinality(Counting(e))
    <2>1. PICK C : C = Counting(e)
      OBVIOUS
    <2>2. Cardinality(C \ {j}) = Cardinality(C) - 1
      BY <1>2, <1>4, <2>1, FS_RemoveElement
    <2> QED  BY <1>3, <2>1, <2>2
  <1> QED  BY <1>1, <1>2, <1>3, <1>4

(* A handler goes on.                                                       *)
LEMMA HandlerGoesOn ==
  ASSUME AccountOK, NEW j \in Jobs, NEW next, Become(j, next), NEW e
  PROVE  /\ ~Lenient(next, e) => Counting(e)' = Counting(e) \ {j}
         /\ Counting(e)' \subseteq Counting(e) \cup {j}
         /\ next.op = "login.lock" /\ next.email = e => LockPending(e)'
         /\ LockPending(e) /\ ~(job[j].op = "login.lock" /\ job[j].email = e) => LockPending(e)'
  <1>1. job' = [job EXCEPT ![j] = next] /\ DOMAIN job = Jobs
    BY DEF Become, AccountOK
  <1>2. job'[j] = next /\ \A i \in Jobs \ {j} : job'[i] = job[i]
    BY <1>1
  <1>3. Counting(e)' \subseteq Counting(e) \cup {j} /\ (~Lenient(next, e) => Counting(e)' = Counting(e) \ {j})
    BY <1>2 DEF Counting
  <1>4. next.op = "login.lock" /\ next.email = e => LockPending(e)'
    BY <1>2 DEF LockPending
  <1>5. LockPending(e) /\ ~(job[j].op = "login.lock" /\ job[j].email = e) => LockPending(e)'
    BY <1>2 DEF LockPending
  <1> QED  BY <1>3, <1>4, <1>5

LEMMA ContainedStays ==
  ASSUME AccountOK, NEW e \in Known, Contained(e),
         accounts'[e].failures = accounts[e].failures, accounts'[e].locked = accounts[e].locked,
         Counting(e)' \subseteq Counting(e), LockPending(e) => LockPending(e)'
  PROVE  Contained(e)'
  <1>1. PICK C : C = Counting(e)'
    OBVIOUS
  <1>2. IsFiniteSet(C) /\ Cardinality(C) \in Nat /\ Cardinality(C) <= Cardinality(Counting(e))
    BY <1>1, CountingIsFinite, FS_Subset, FS_CardinalityType
  <1>3. accounts[e].failures \in Nat /\ LockAfter \in Nat
    <2>1. PICK doc \in AccountDoc : doc = accounts[e]
      BY AccountIs DEF AccountOK
    <2> QED  BY <2>1, AccountAssumption DEF AccountDoc
  <1>4. Cardinality(Counting(e)) \in Nat /\ Cardinality(Jobs) \in Nat
    BY CountingIsFinite
  <1>5. C # {} => \/ accounts'[e].locked
                  \/ LockPending(e)'
                  \/ accounts'[e].failures + Cardinality(C) + 2 <= LockAfter + Cardinality(Jobs)
    BY <1>1, <1>2, <1>3, <1>4 DEF Contained
  <1> QED  BY <1>1, <1>5 DEF Contained

(* A step that leaves the count, the lock and the attempts of an account    *)
(* alone, or ends one.                                                      *)
LEMMA QuietStays ==
  ASSUME AccountOK, NEW e \in Known, Contained(e),
         accounts'[e].failures = accounts[e].failures, accounts'[e].locked = accounts[e].locked,
         \/ job' = job
         \/ \E j \in Jobs : \E next :
              /\ Become(j, next) /\ ~Lenient(next, e)
              /\ ~(job[j].op = "login.lock" /\ job[j].email = e)
  PROVE  Contained(e)'
  <1>1. CASE job' = job
    <2>1. Counting(e)' \subseteq Counting(e) /\ (LockPending(e) => LockPending(e)')
      BY <1>1 DEF Counting, LockPending
    <2> QED  BY <2>1, ContainedStays
  <1>2. CASE job' # job
    <2>1. PICK j \in Jobs : \E next :
            /\ Become(j, next) /\ ~Lenient(next, e)
            /\ ~(job[j].op = "login.lock" /\ job[j].email = e)
      BY <1>2
    <2>2. Counting(e)' \subseteq Counting(e) /\ (LockPending(e) => LockPending(e)')
      BY <2>1, HandlerGoesOn
    <2> QED  BY <2>2, ContainedStays
  <1> QED  BY <1>1, <1>2

(* A step that does so for all accounts.                                    *)
LEMMA QuietKeeps ==
  ASSUME AccountOK, Guarded, faults' = faults, Known' = Known,
         \A e \in Known : /\ accounts'[e].failures = accounts[e].failures
                          /\ accounts'[e].locked = accounts[e].locked,
         \/ job' = job
         \/ \E j \in Jobs : \E next :
              Become(j, next) /\ next.op # "login.count" /\ job[j].op # "login.lock"
  PROVE  Guarded'
  <1> SUFFICES ASSUME faults = 0, NEW e \in Known  PROVE Contained(e)'
    BY DEF Guarded
  <1>1. \/ job' = job
        \/ \E j \in Jobs : \E next :
             /\ Become(j, next) /\ ~Lenient(next, e)
             /\ ~(job[j].op = "login.lock" /\ job[j].email = e)
    BY DEF Lenient
  <1> QED  BY <1>1, QuietStays DEF Guarded

(* The write of one account that leaves its count and its lock alone.       *)
LEMMA QuietWrite ==
  ASSUME AccountOK, NEW e \in Known, NEW doc \in AccountDoc, Write(e, doc),
         doc.failures = accounts[e].failures, doc.locked = accounts[e].locked
  PROVE  /\ Known' = Known
         /\ \A f \in Known : /\ accounts'[f].failures = accounts[f].failures
                             /\ accounts'[f].locked = accounts[f].locked
  <1>1. e \in Emails /\ Known \subseteq Emails
    BY DEF Known
  <1> QED  BY <1>1, WriteFits DEF AccountOK

LEMMA CountWritten ==
  ASSUME NEW old \in AccountDoc, NEW n \in Nat
  PROVE  LET doc == [old EXCEPT !.failures = n]
         IN doc \in AccountDoc /\ doc.failures = n /\ doc.locked = old.locked
  BY DEF AccountDoc

LEMMA LockWritten ==
  ASSUME NEW old \in AccountDoc
  PROVE  LET doc == [old EXCEPT !.locked = TRUE]
         IN doc \in AccountDoc /\ doc.locked
  BY DEF AccountDoc

LEMMA ResetWritten ==
  ASSUME NEW old \in AccountDoc
  PROVE  LET doc == [old EXCEPT !.failures = 0, !.locked = FALSE]
         IN doc \in AccountDoc /\ doc.failures = 0
  BY DEF AccountDoc

LEMMA CountFailureGuards ==
  ASSUME AccountOK, Guarded, NEW j \in Jobs, CountFailure(j)
  PROVE  Guarded'
  <1>1. PICK e \in Known : e = job[j].email /\ e \in Emails
    BY HandlerIs DEF CountFailure, Mailing, Known
  <1>2. PICK old \in AccountDoc : old = accounts[e]
    BY <1>1, AccountIs DEF AccountOK
  <1>3. PICK n \in Nat : n = old.failures + 1 /\ n - 1 = old.failures /\ old.failures \in Nat
    BY <1>2 DEF AccountDoc
  <1>4. PICK doc \in AccountDoc :
          doc = [old EXCEPT !.failures = n] /\ doc.failures = n /\ doc.locked = old.locked
    BY CountWritten
  <1>5. Write(e, doc)
    BY <1>1, <1>2, <1>3, <1>4 DEF CountFailure
  <1>6. /\ Known' = Known /\ accounts'[e] = doc
        /\ \A f \in Known \ {e} : accounts'[f] = accounts[f]
    BY <1>1, <1>4, <1>5, WriteFits DEF AccountOK, Known
  <1>7. job[j].op = "login.count" /\ faults' = faults /\ job[j].locks \in BOOLEAN
    BY HandlerIs DEF CountFailure
  <1>8. PICK next : /\ next = IF job[j].locks THEN [op |-> "login.lock", email |-> e] ELSE Idle
                    /\ Become(j, next)
    BY <1>1 DEF CountFailure, Finish
  <1>9. next.op # "login.count"
    BY <1>8 DEF Idle
  <1> SUFFICES ASSUME faults = 0, NEW f \in Known  PROVE Contained(f)'
    BY <1>6, <1>7 DEF Guarded
  <1>10. CASE f # e
    <2>1. accounts'[f] = accounts[f] /\ Contained(f)
      BY <1>6, <1>10 DEF Guarded
    <2> QED  BY <1>7, <1>8, <1>9, <2>1, QuietStays DEF Lenient
  <1>11. CASE f = e /\ job[j].locks
    <2>1. LockPending(e)'
      BY <1>8, <1>11, HandlerGoesOn
    <2> QED  BY <1>11, <2>1 DEF Contained
  <1>12. CASE f = e /\ ~job[j].locks
    <2>1. Lenient(job[j], e) /\ j \in Counting(e)
      BY <1>1, <1>7, <1>12 DEF Lenient, Counting
    <2>2. Counting(e)' = Counting(e) \ {j} /\ (LockPending(e) => LockPending(e)')
      BY <1>7, <1>8, <1>9, HandlerGoesOn DEF Lenient
    <2>3. PICK c \in Nat : c = Cardinality(Counting(e)')
      BY <2>1, <2>2, CountingIsFinite, FS_RemoveElement, FS_CardinalityType
    <2>4. c + 1 = Cardinality(Counting(e)) /\ LockAfter \in Nat /\ Cardinality(Jobs) \in Nat
      BY <2>1, <2>2, <2>3, CountingIsFinite, AccountAssumption
    <2>5. \/ accounts'[e].locked
          \/ LockPending(e)'
          \/ n + c + 2 <= LockAfter + Cardinality(Jobs)
      BY <1>2, <1>3, <1>4, <1>6, <1>12, <2>1, <2>2, <2>4 DEF Guarded, Contained
    <2> QED  BY <1>4, <1>6, <1>12, <2>3, <2>5 DEF Contained
  <1> QED  BY <1>7, <1>10, <1>11, <1>12

LEMMA LockUserGuards ==
  ASSUME AccountOK, Guarded, NEW j \in Jobs, LockUser(j)
  PROVE  Guarded'
  <1>1. PICK e \in Known : e = job[j].email /\ e \in Emails
    BY HandlerIs DEF LockUser, Mailing, Known
  <1>2. PICK doc \in AccountDoc : doc = [accounts[e] EXCEPT !.locked = TRUE] /\ doc.locked
    BY <1>1, AccountIs, LockWritten DEF AccountOK
  <1>3. Write(e, doc) /\ faults' = faults /\ Become(j, Idle)
    BY <1>1, <1>2 DEF LockUser, Finish
  <1>4. /\ Known' = Known /\ accounts'[e] = doc
        /\ \A f \in Known \ {e} : accounts'[f] = accounts[f]
    BY <1>1, <1>2, <1>3, WriteFits DEF AccountOK, Known
  <1> SUFFICES ASSUME faults = 0, NEW f \in Known  PROVE Contained(f)'
    BY <1>3, <1>4 DEF Guarded
  <1>5. CASE f = e
    BY <1>2, <1>4, <1>5 DEF Contained
  <1>6. CASE f # e
    <2>1. accounts'[f] = accounts[f] /\ Contained(f)
      BY <1>4, <1>6 DEF Guarded
    <2>2. ~Lenient(Idle, f)
      BY DEF Lenient, Idle
    <2> QED  BY <1>1, <1>3, <1>6, <2>1, <2>2, QuietStays
  <1> QED  BY <1>5, <1>6

LEMMA ResetFailuresGuards ==
  ASSUME AccountOK, Guarded, NEW j \in Jobs, ResetFailures(j)
  PROVE  Guarded'
  <1>1. PICK e \in Known : e = job[j].email /\ e \in Emails
    BY HandlerIs DEF ResetFailures, Mailing, Known
  <1>2. PICK doc \in AccountDoc :
          doc = [accounts[e] EXCEPT !.failures = 0, !.locked = FALSE] /\ doc.failures = 0
    BY <1>1, AccountIs, ResetWritten DEF AccountOK
  <1>3. PICK next : next = Issuing(e) /\ next.op = "issue"
    BY <1>1, IssuingIs
  <1>4. Write(e, doc) /\ faults' = faults /\ Become(j, next) /\ job[j].op = "login.reset"
    BY <1>1, <1>2, <1>3 DEF ResetFailures
  <1>5. /\ Known' = Known /\ accounts'[e] = doc
        /\ \A f \in Known \ {e} : accounts'[f] = accounts[f]
    BY <1>1, <1>2, <1>4, WriteFits DEF AccountOK, Known
  <1>6. \A f : ~Lenient(next, f)
    BY <1>3 DEF Lenient
  <1> SUFFICES ASSUME faults = 0, NEW f \in Known  PROVE Contained(f)'
    BY <1>4, <1>5 DEF Guarded
  <1>7. CASE f = e
    <2>1. PICK C : C = Counting(e)'
      OBVIOUS
    <2>2. C = Counting(e) \ {j} /\ Counting(e) \subseteq Jobs
      <3>1. C = Counting(e) \ {j}
        BY <1>4, <1>6, <2>1, HandlerGoesOn
      <3> QED  BY <3>1 DEF Counting
    <2>3. /\ IsFiniteSet(Jobs \ {j}) /\ Cardinality(Jobs \ {j}) = Cardinality(Jobs) - 1
          /\ Cardinality(Jobs) \in Nat
      BY CountingIsFinite, FS_RemoveElement
    <2>4. Cardinality(C) <= Cardinality(Jobs \ {j}) /\ IsFiniteSet(C)
      <3>1. C \subseteq Jobs \ {j}
        BY <2>2
      <3> QED  BY <2>3, <3>1, FS_Subset
    <2>5. Cardinality(C) \in Nat /\ LockAfter \in Nat \ {0}
      BY <2>4, FS_CardinalityType, AccountAssumption
    <2>6. 0 + Cardinality(C) + 2 <= LockAfter + Cardinality(Jobs)
      BY <2>3, <2>4, <2>5
    <2> QED  BY <1>2, <1>5, <1>7, <2>1, <2>6 DEF Contained
  <1>8. CASE f # e
    <2>1. accounts'[f] = accounts[f] /\ Contained(f)
      BY <1>5, <1>8 DEF Guarded
    <2> QED  BY <1>4, <1>6, <2>1, QuietStays
  <1> QED  BY <1>7, <1>8

LEMMA InsertAccountGuards ==
  ASSUME AccountOK, Guarded, NEW j \in Jobs, InsertAccount(j)
  PROVE  Guarded'
  <1>1. job[j].op = "register" /\ job[j].email \in Emails /\ faults' = faults
        /\ job[j].password \in Passwords \cup {Unguessable}
    BY HandlerIs DEF InsertAccount
  <1>2. CASE job[j].email \in Known
    <2>1. UNCHANGED accounts /\ Become(j, Idle) /\ Idle.op = "idle"
      BY <1>2 DEF InsertAccount, Finish, Idle
    <2> QED  BY <1>1, <2>1, QuietKeeps DEF Known
  <1>3. CASE job[j].email \notin Known
    <2>1. PICK e \in Emails : e = job[j].email
      BY <1>1
    <2>2. PICK doc \in AccountDoc : doc = NewAccount(job[j].password)
      BY <1>1 DEF NewAccount, AccountDoc
    <2>3. PICK next : next = Issuing(e) /\ next.op = "issue"
      BY IssuingIs
    <2>4. Write(e, doc) /\ Become(j, next)
      BY <1>3, <2>1, <2>2, <2>3 DEF InsertAccount
    <2>5. Known' = Known \cup {e} /\ \A f \in Known : accounts'[f] = accounts[f]
      BY <1>3, <2>1, <2>2, <2>4, WriteFits DEF AccountOK, Known
    <2>6. \A f : ~Lenient(next, f)
      BY <2>3 DEF Lenient
    <2>7. Counting(e)' = {}
      <3>1. ASSUME NEW i \in Jobs  PROVE ~Lenient(job[i], e)
        BY <1>3, <2>1, HandlerIs DEF Lenient, Mailing
      <3>2. Counting(e) = {}
        BY <3>1 DEF Counting
      <3> QED  BY <2>4, <2>6, <3>2, HandlerGoesOn
    <2> SUFFICES ASSUME faults = 0, NEW f \in Known'  PROVE Contained(f)'
      BY <1>1 DEF Guarded
    <2>8. CASE f = e
      BY <2>7, <2>8 DEF Contained
    <2>9. CASE f # e
      <3>1. f \in Known /\ accounts'[f] = accounts[f]
        BY <2>5, <2>9
      <3>2. Contained(f)
        BY <3>1 DEF Guarded
      <3> QED  BY <1>1, <2>4, <2>6, <3>1, <3>2, QuietStays
    <2> QED  BY <2>8, <2>9
  <1> QED  BY <1>2, <1>3

(* An attempt that loads a count too low to lock it, and one that locks.    *)
LEMMA LoginLoadGuards ==
  ASSUME AccountOK, Guarded, NEW j \in Jobs, NEW e \in Emails, NEW p, LoginLoad(j, e, p)
  PROVE  Guarded'
  <1>1. e \in Known /\ UNCHANGED <<accounts, faults>> /\ job[j] = Idle
    BY DEF LoginLoad, Answers, Free
  <1>2. PICK old \in AccountDoc : old = accounts[e]
    BY <1>1, AccountIs DEF AccountOK
  <1>3. old.failures \in Nat /\ LockAfter \in Nat
    BY <1>2, AccountAssumption DEF AccountDoc
  <1>4. PICK next : /\ next = IF p = accounts[e].password
                              THEN [op |-> "login.reset", email |-> e]
                              ELSE [op |-> "login.count", email |-> e, locks |-> Locks(accounts[e])]
                    /\ Become(j, next)
    BY DEF LoginLoad, Answers
  <1>5. /\ next.email = e
        /\ next.op = "login.reset" \/ (next.op = "login.count" /\ next.locks = Locks(old))
    BY <1>2, <1>4
  <1>6. Lenient(next, e) => old.failures + 2 <= LockAfter
    <2>1. Lenient(next, e) => Locks(old) = FALSE
      BY <1>5 DEF Lenient
    <2>2. Lenient(next, e) => ~(old.failures >= LockAfter - 1)
      BY <2>1 DEF Locks
    <2> QED  BY <1>3, <2>2
  <1> SUFFICES ASSUME faults = 0, NEW f \in Known  PROVE Contained(f)'
    BY <1>1 DEF Guarded, Known
  <1>7. CASE Lenient(next, f)
    <2>1. f = e /\ old.failures + 2 <= LockAfter
      BY <1>5, <1>6, <1>7 DEF Lenient
    <2>2. PICK C : C = Counting(f)'
      OBVIOUS
    <2>3. C \subseteq Jobs /\ IsFiniteSet(Jobs) /\ Cardinality(Jobs) \in Nat
      BY <2>2, CountingIsFinite DEF Counting
    <2>4. Cardinality(C) <= Cardinality(Jobs) /\ Cardinality(C) \in Nat
      BY <2>3, FS_Subset, FS_CardinalityType
    <2>5. accounts'[f].failures = old.failures
      BY <1>1, <1>2, <2>1
    <2>6. old.failures + Cardinality(C) + 2 <= LockAfter + Cardinality(Jobs)
      BY <1>3, <2>1, <2>3, <2>4
    <2> QED  BY <2>2, <2>5, <2>6 DEF Contained
  <1>8. CASE ~Lenient(next, f)
    <2>1. job[j].op # "login.lock" /\ Contained(f)
      BY <1>1 DEF Guarded, Idle
    <2> QED  BY <1>1, <1>4, <1>8, <2>1, QuietStays
  <1> QED  BY <1>7, <1>8

(* The other calls are no attempts.                                         *)
LEMMA AnswersGuard ==
  ASSUME AccountOK, Guarded, NEW j \in Jobs, NEW next, next.op # "login.count", Answers(j, next)
  PROVE  Guarded'
  <1>1. UNCHANGED <<accounts, faults>> /\ Become(j, next) /\ job[j].op # "login.lock"
    BY DEF Answers, Free, Idle
  <1> QED  BY <1>1, QuietKeeps DEF Known

LEMMA AccountCallGuards ==
  ASSUME AccountOK, Guarded, NEW j \in Jobs, NEW e \in Emails, AccountCall(j, e)
  PROVE  Guarded'
  <1>1. ASSUME NEW p, RegisterLoad(j, e, p)  PROVE Guarded'
    <2>1. PICK next : next = [op |-> "register", email |-> e, password |-> p] /\ Answers(j, next)
      BY <1>1 DEF RegisterLoad
    <2> QED  BY <2>1, AnswersGuard
  <1>2. ASSUME NEW p, NEW q, ChangeLoad(j, e, p, q)  PROVE Guarded'
    <2>1. PICK next : next = [op |-> "change", email |-> e, password |-> q] /\ Answers(j, next)
      BY <1>2 DEF ChangeLoad
    <2> QED  BY <2>1, AnswersGuard
  <1>3. ASSUME Answers(j, [op |-> "login.reset", email |-> e])  PROVE Guarded'
    <2>1. PICK next : next = [op |-> "login.reset", email |-> e] /\ Answers(j, next)
      BY <1>3
    <2> QED  BY <2>1, AnswersGuard
  <1>4. ASSUME NEW t, RefreshLoad(j, t)  PROVE Guarded'
    <2>1. PICK next : next = [op |-> "refresh.revoke", token |-> t] /\ Answers(j, next)
      BY <1>4 DEF RefreshLoad
    <2> QED  BY <2>1, AnswersGuard
  <1> QED  BY <1>1, <1>2, <1>3, <1>4, LoginLoadGuards DEF AccountCall, OAuthLoad

(* So are the steps that write nothing, a password or a token.              *)
LEMMA AccountStepGuards ==
  ASSUME AccountOK, Guarded, NEW j \in Jobs, AccountStep(j) \/ Answered(j)
  PROVE  Guarded'
  <1>1. CASE Issue(j)
    <2>1. PICK t : Become(j, [op |-> "answer", token |-> t])
      BY <1>1 DEF Issue
    <2>2. PICK next : next = [op |-> "answer", token |-> t] /\ Become(j, next)
      BY <2>1
    <2>3. UNCHANGED <<accounts, faults>> /\ job[j].op # "login.lock" /\ next.op # "login.count"
      BY <1>1, <2>2 DEF Issue
    <2> QED  BY <2>2, <2>3, QuietKeeps DEF Known
  <1>2. CASE Rotate(j)
    <2>1. PICK next : next = Issuing(tokens[job[j].token].email) /\ Become(j, next)
      BY <1>2 DEF Rotate
    <2>2. UNCHANGED <<accounts, faults>> /\ job[j].op # "login.lock" /\ next.op # "login.count"
      BY <1>2, <2>1 DEF Rotate, Issuing
    <2> QED  BY <2>1, <2>2, QuietKeeps DEF Known
  <1>3. CASE Answered(j)
    <2>1. UNCHANGED <<accounts, faults>> /\ job[j].op # "login.lock" /\ Become(j, Idle)
          /\ Idle.op # "login.count"
      BY <1>3 DEF Answered, Finish, Idle
    <2> QED  BY <2>1, QuietKeeps DEF Known
  <1>4. CASE UpdatePassword(j)
    <2>1. PICK e \in Known, p \in Passwords \cup {Unguessable} : e = job[j].email /\ p = job[j].password
      BY <1>4, HandlerIs DEF UpdatePassword, Mailing
    <2>2. PICK old \in AccountDoc : old = accounts[e]
      BY <2>1, AccountIs DEF AccountOK
    <2>3. PICK doc : doc = [old EXCEPT !.password = p]
      OBVIOUS
    <2>4. doc \in AccountDoc /\ doc.failures = old.failures /\ doc.locked = old.locked
      BY <2>1, <2>2, <2>3 DEF AccountDoc
    <2>5. Write(e, doc) /\ UNCHANGED faults /\ job[j].op # "login.lock" /\ Become(j, Idle)
          /\ Idle.op # "login.count"
      BY <1>4, <2>1, <2>2, <2>3 DEF UpdatePassword, Finish, Idle
    <2> QED  BY <2>1, <2>2, <2>4, <2>5, QuietWrite, QuietKeeps
  <1> QED
    BY <1>1, <1>2, <1>3, <1>4, InsertAccountGuards, CountFailureGuards, LockUserGuards,
       ResetFailuresGuards DEF AccountStep

(* Of the requests those that write an account write neither count nor lock.*)
LEMMA AccountRequestGuards ==
  ASSUME AccountOK, Guarded, NEW e \in Emails, AccountRequest(e)
  PROVE  Guarded'
  <1>1. UNCHANGED <<job, faults>>
    BY DEF AccountRequest, ForgotPassword, RequestVerification, Letter, LogoutAll, VerifyEmail,
           ResetPassword, Presents
  <1>2. ASSUME NEW old \in AccountDoc, old = accounts[e], e \in Known, NEW doc, Write(e, doc),
               doc \in AccountDoc, doc.failures = old.failures, doc.locked = old.locked
        PROVE  Guarded'
    BY <1>1, <1>2, QuietWrite, QuietKeeps
  <1>3. ASSUME e \in Known
        PROVE  accounts[e] \in AccountDoc
    BY <1>3, AccountIs DEF AccountOK
  <1>4. CASE ForgotPassword(e) \/ RequestVerification(e)
    <2>1. PICK l \in Letters : l = letters + 1
      BY <1>4 DEF ForgotPassword, RequestVerification, Letter
    <2>2. e \in Known
      BY <1>4 DEF ForgotPassword, RequestVerification, Letter
    <2>3. PICK old \in AccountDoc : old = accounts[e]
      BY <1>3, <2>2
    <2>4. PICK a : a = [old EXCEPT !.reset = l]
      OBVIOUS
    <2>5. PICK b : b = [old EXCEPT !.verify = l]
      OBVIOUS
    <2>6. /\ a \in AccountDoc /\ a.failures = old.failures /\ a.locked = old.locked
          /\ b \in AccountDoc /\ b.failures = old.failures /\ b.locked = old.locked
      BY <2>4, <2>5 DEF AccountDoc
    <2>7. Write(e, a) \/ Write(e, b)
      BY <1>4, <2>1, <2>3, <2>4, <2>5 DEF ForgotPassword, RequestVerification, Letter
    <2> QED  BY <1>2, <2>2, <2>3, <2>6, <2>7
  <1>5. ASSUME NEW l, VerifyEmail(e, l)  PROVE Guarded'
    <2>1. e \in Known
      BY <1>5 DEF VerifyEmail, Presents
    <2>2. PICK old \in AccountDoc : old = accounts[e]
      BY <1>3, <2>1
    <2>3. PICK doc : doc = [old EXCEPT !.verified = TRUE, !.verify = None]
      OBVIOUS
    <2>4. doc \in AccountDoc /\ doc.failures = old.failures /\ doc.locked = old.locked
      BY <2>2, <2>3 DEF AccountDoc
    <2> QED  BY <1>2, <1>5, <2>1, <2>2, <2>3, <2>4 DEF VerifyEmail
  <1>6. ASSUME NEW l, NEW p \in Passwords, ResetPassword(e, l, p)  PROVE Guarded'
    <2>1. e \in Known
      BY <1>6 DEF ResetPassword, Presents
    <2>2. PICK old \in AccountDoc : old = accounts[e]
      BY <1>3, <2>1
    <2>3. PICK doc : doc = [old EXCEPT !.password = p, !.reset = None]
      OBVIOUS
    <2>4. doc \in AccountDoc /\ doc.failures = old.failures /\ doc.locked = old.locked
      BY <2>2, <2>3 DEF AccountDoc
    <2> QED  BY <1>2, <1>6, <2>1, <2>2, <2>3, <2>4 DEF ResetPassword
  <1>7. ASSUME UNCHANGED accounts  PROVE Guarded'
    BY <1>1, <1>7, QuietKeeps DEF Known
  <1> QED  BY <1>4, <1>5, <1>6, <1>7 DEF AccountRequest, LogoutAll

LEMMA ExpireGuards ==
  ASSUME AccountOK, Expire
  PROVE  Guarded'
  <1>1. \A j \in Jobs : job'[j] = Idle
    BY DEF Expire, Free
  <1>2. ASSUME NEW e  PROVE Counting(e)' = {}
    BY <1>1 DEF Counting, Lenient, Idle
  <1> QED  BY <1>2 DEF Guarded, Contained

LEMMA GuardsKeep == AccountOK /\ Guarded /\ [AccountNext]_accountVars => Guarded'
  <1> SUFFICES ASSUME AccountOK, Guarded, [AccountNext]_accountVars  PROVE Guarded'
    OBVIOUS
  <1>1. CASE UNCHANGED accountVars
    BY <1>1, QuietKeeps DEF accountVars, Known
  <1>2. ASSUME NEW j \in Jobs, AccountAbort(j)  PROVE Guarded'
    <2>1. faults \in Nat /\ faults' = faults + 1
      BY <1>2 DEF AccountOK, AccountsFit, AccountAbort, Abort, Faulty
    <2>2. faults' # 0
      BY <2>1
    <2> QED  BY <2>2 DEF Guarded
  <1> QED
    BY <1>1, <1>2, AccountCallGuards, AccountRequestGuards, AccountStepGuards, ExpireGuards
    DEF AccountNext

(* Only the write of a wrong attempt adds to a count.                       *)
LEMMA WriteRaises ==
  ASSUME AccountOK, NEW e \in Known, NEW f, NEW doc, Write(f, doc),
         accounts'[e].failures > accounts[e].failures
  PROVE  f = e /\ doc.failures > accounts[e].failures
  <1>1. accounts \in [Emails -> AccountDoc \cup {None}] /\ accounts' = [accounts EXCEPT ![f] = doc]
        /\ e \in Emails
    BY DEF AccountOK, AccountsFit, Write, Known
  <1>2. PICK old \in AccountDoc : old = accounts[e]
    BY AccountIs DEF AccountOK
  <1>3. old.failures \in Nat
    BY <1>2 DEF AccountDoc
  <1>4. f = e
    BY <1>1, <1>2, <1>3
  <1> QED  BY <1>1, <1>4

LEMMA OnlyCountingRaises ==
  ASSUME AccountOK, [AccountNext]_accountVars, NEW e \in Known,
         accounts'[e].failures > accounts[e].failures
  PROVE  \E j \in Jobs : CountFailure(j) /\ job[j].email = e
  <1>1. PICK old \in AccountDoc : old = accounts[e]
    BY AccountIs DEF AccountOK
  <1>2. old.failures \in Nat
    BY <1>1 DEF AccountDoc
  <1>3. ASSUME UNCHANGED accounts  PROVE FALSE
    BY <1>1, <1>2, <1>3
  <1>4. ASSUME NEW f, NEW doc, Write(f, doc)
        PROVE  f = e /\ doc.failures > old.failures
    BY <1>1, <1>4, WriteRaises
  <1>5. ASSUME NEW j \in Jobs, InsertAccount(j)  PROVE FALSE
    <2>1. CASE job[j].email \in Known
      BY <1>3, <1>5, <2>1 DEF InsertAccount
    <2>2. CASE job[j].email \notin Known
      <3>1. Write(job[j].email, NewAccount(job[j].password))
        BY <1>5, <2>2 DEF InsertAccount
      <3> QED  BY <1>4, <2>2, <3>1
    <2> QED  BY <2>1, <2>2
  <1>6. ASSUME NEW j \in Jobs, LockUser(j)  PROVE FALSE
    <2>1. Write(job[j].email, [accounts[job[j].email] EXCEPT !.locked = TRUE])
      BY <1>6 DEF LockUser
    <2>2. job[j].email = e
      BY <1>4, <2>1
    <2>3. PICK doc : doc = [old EXCEPT !.locked = TRUE]
      OBVIOUS
    <2>4. doc.failures = old.failures /\ Write(e, doc)
      BY <1>1, <2>1, <2>2, <2>3 DEF AccountDoc
    <2> QED  BY <1>2, <1>4, <2>4
  <1>7. ASSUME NEW j \in Jobs, ResetFailures(j)  PROVE FALSE
    <2>1. PICK f : f = job[j].email /\ Write(f, [accounts[f] EXCEPT !.failures = 0, !.locked = FALSE])
      BY <1>7 DEF ResetFailures
    <2>2. f = e
      BY <1>4, <2>1
    <2>3. PICK doc : doc = [old EXCEPT !.failures = 0, !.locked = FALSE]
      OBVIOUS
    <2>4. doc.failures = 0 /\ Write(e, doc)
      BY <1>1, <2>1, <2>2, <2>3 DEF AccountDoc
    <2> QED  BY <1>2, <1>4, <2>4
  <1>8. ASSUME NEW j \in Jobs, UpdatePassword(j)  PROVE FALSE
    <2>1. PICK f, p : f = job[j].email /\ p = job[j].password
      OBVIOUS
    <2>2. Write(f, [accounts[f] EXCEPT !.password = p])
      BY <1>8, <2>1 DEF UpdatePassword
    <2>3. f = e
      BY <1>4, <2>2
    <2>4. PICK doc : doc = [old EXCEPT !.password = p]
      OBVIOUS
    <2>5. doc.failures = old.failures /\ Write(e, doc)
      BY <1>1, <2>2, <2>3, <2>4 DEF AccountDoc
    <2> QED  BY <1>2, <1>4, <2>5
  <1>9. ASSUME NEW f, ForgotPassword(f) \/ RequestVerification(f)  PROVE FALSE
    <2>1. PICK l : l = letters + 1
      OBVIOUS
    <2>2. Write(f, [accounts[f] EXCEPT !.reset = l]) \/ Write(f, [accounts[f] EXCEPT !.verify = l])
      BY <1>9, <2>1 DEF ForgotPassword, RequestVerification, Letter
    <2>3. f = e
      BY <1>4, <2>2
    <2>4. PICK a : a = [old EXCEPT !.reset = l]
      OBVIOUS
    <2>5. PICK b : b = [old EXCEPT !.verify = l]
      OBVIOUS
    <2>6. a.failures = old.failures /\ b.failures = old.failures /\ (Write(e, a) \/ Write(e, b))
      BY <1>1, <2>2, <2>3, <2>4, <2>5 DEF AccountDoc
    <2> QED  BY <1>2, <1>4, <2>6
  <1>10. ASSUME NEW f, NEW l, VerifyEmail(f, l) \/ \E p \in Passwords : ResetPassword(f, l, p)
         PROVE  FALSE
    <2>1. PICK p : \/ Write(f, [accounts[f] EXCEPT !.verified = TRUE, !.verify = None])
                   \/ Write(f, [accounts[f] EXCEPT !.password = p, !.reset = None])
      BY <1>10 DEF VerifyEmail, ResetPassword
    <2>2. f = e
      BY <1>4, <2>1
    <2>3. PICK a : a = [old EXCEPT !.verified = TRUE, !.verify = None]
      OBVIOUS
    <2>4. PICK b : b = [old EXCEPT !.password = p, !.reset = None]
      OBVIOUS
    <2>5. a.failures = old.failures /\ b.failures = old.failures /\ (Write(e, a) \/ Write(e, b))
      BY <1>1, <2>1, <2>2, <2>3, <2>4 DEF AccountDoc
    <2> QED  BY <1>2, <1>4, <2>5
  <1>11. ASSUME Expire  PROVE FALSE
    <2>1. PICK f : Write(f, [accounts[f] EXCEPT !.locked = FALSE, !.reset = None])
      BY <1>3, <1>11 DEF Expire
    <2>2. f = e
      BY <1>4, <2>1
    <2>3. PICK a : a = [old EXCEPT !.locked = FALSE, !.reset = None]
      OBVIOUS
    <2>4. a.failures = old.failures /\ Write(e, a)
      BY <1>1, <2>1, <2>2, <2>3 DEF AccountDoc
    <2> QED  BY <1>2, <1>4, <2>4
  <1>12. ASSUME NEW j \in Jobs, CountFailure(j)  PROVE CountFailure(j) /\ job[j].email = e
    <2>1. PICK f, doc : f = job[j].email /\ Write(f, doc)
      BY <1>12 DEF CountFailure
    <2>2. f = e
      BY <1>4, <2>1
    <2> QED  BY <1>12, <2>1, <2>2
  <1>13. ASSUME NEW j \in Jobs, AccountStep(j)  PROVE CountFailure(j)
    <2>1. ASSUME Issue(j) \/ Rotate(j)  PROVE FALSE
      BY <1>3, <2>1 DEF Issue, Rotate
    <2> QED  BY <1>5, <1>6, <1>7, <1>8, <1>13, <2>1 DEF AccountStep
  <1>14. ASSUME NEW j \in Jobs, Answered(j) \/ AccountAbort(j)  PROVE FALSE
    BY <1>3, <1>14 DEF Answered, AccountAbort
  <1>15. ASSUME NEW j \in Jobs, NEW f \in Emails, AccountCall(j, f)  PROVE FALSE
    BY <1>3, <1>15 DEF AccountCall, RegisterLoad, LoginLoad, ChangeLoad, OAuthLoad, RefreshLoad, Answers
  <1>16. ASSUME NEW f \in Emails, AccountRequest(f)  PROVE FALSE
    BY <1>3, <1>9, <1>10, <1>16 DEF AccountRequest, LogoutAll
  <1>17. ~UNCHANGED accountVars
    BY <1>3 DEF accountVars
  <1> QED  BY <1>11, <1>12, <1>13, <1>14, <1>15, <1>16, <1>17 DEF AccountNext

LEMMA GuessStep ==
  ASSUME AccountOK, Guarded, [AccountNext]_accountVars, NEW e \in Known,
         accounts'[e].failures > accounts[e].failures,
         accounts[e].failures + 2 >= LockAfter + Cardinality(Jobs), faults' = 0
  PROVE  accounts'[e].locked \/ LockPending(e)'
  <1>1. PICK j \in Jobs : CountFailure(j) /\ job[j].email = e
    BY OnlyCountingRaises
  <1>2. job[j].op = "login.count" /\ job[j].locks \in BOOLEAN /\ faults = 0 /\ e \in Emails
    BY <1>1, HandlerIs DEF CountFailure, Known
  <1>3. CASE job[j].locks
    <2>1. PICK next : next = [op |-> "login.lock", email |-> e] /\ Become(j, next)
      BY <1>1, <1>3 DEF CountFailure
    <2> QED  BY <2>1, HandlerGoesOn
  <1>4. CASE ~job[j].locks
    <2>1. j \in Counting(e) /\ Contained(e)
      BY <1>1, <1>2, <1>4 DEF Counting, Lenient, Guarded
    <2>2. Cardinality(Counting(e)) \in Nat /\ Cardinality(Counting(e)) # 0
      BY <2>1, CountingIsFinite, FS_EmptySet
    <2>3. PICK old \in AccountDoc : old = accounts[e]
      BY AccountIs DEF AccountOK
    <2>4. old.failures \in Nat /\ LockAfter \in Nat /\ Cardinality(Jobs) \in Nat
      BY <2>3, CountingIsFinite, AccountAssumption DEF AccountDoc
    <2>5. accounts[e].locked \/ LockPending(e)
      BY <2>1, <2>2, <2>3, <2>4 DEF Contained
    <2>6. Become(j, Idle) /\ Write(e, [accounts[e] EXCEPT !.failures = @ + 1])
      BY <1>1, <1>4 DEF CountFailure, Finish
    <2>7. LockPending(e) => LockPending(e)'
      BY <1>2, <2>6, HandlerGoesOn
    <2>8. accounts'[e].locked = accounts[e].locked
      <3>1. accounts' = [accounts EXCEPT ![e] = [old EXCEPT !.failures = old.failures + 1]]
            /\ accounts \in [Emails -> AccountDoc \cup {None}]
        BY <2>3, <2>6 DEF Write, AccountOK, AccountsFit
      <3>2. accounts'[e] = [old EXCEPT !.failures = old.failures + 1]
        BY <1>2, <3>1
      <3>3. [old EXCEPT !.failures = old.failures + 1].locked = old.locked
        BY <2>3 DEF AccountDoc
      <3> QED  BY <2>3, <3>2, <3>3
    <2> QED  BY <2>5, <2>7, <2>8
  <1> QED  BY <1>2, <1>3, <1>4

(* However attempts overlap, those that loaded a count too low to lock the  *)
(* account are as few as there are handlers: a wrong password beyond that   *)
(* finds it locked or locks it (validateUser of auth.service.ts).           *)
THEOREM LockoutHolds == AccountSpec => GuessesBounded
  <1>1. AccountOK /\ Guarded /\ [AccountNext]_accountVars =>
          [\A e \in Known :
             /\ accounts'[e].failures > accounts[e].failures
             /\ accounts[e].failures + 2 >= LockAfter + Cardinality(Jobs)
             /\ faults' = 0
             => accounts'[e].locked \/ LockPending(e)']_accountVars
    BY GuessStep
  <1>2. AccountInit => Guarded
    <2> SUFFICES ASSUME AccountInit  PROVE Guarded
      OBVIOUS
    <2>1. Known = {}
      BY DEF AccountInit, Known
    <2> QED  BY <2>1 DEF Guarded
  <1> QED  BY <1>1, <1>2, AccountBegins, AccountKeeps, GuardsKeep, PTL DEF AccountSpec, GuessesBounded

---------------------------------------------------------------------------
(* The tokens of a browser.                                                 *)
Leave == [kind : {"sign out"}, step : {"leaving", "left"}, token : Tokens \cup {None}]

Ask == [kind : {"profile", "other", "sign in"}, step : {"granted", "refused", "waiting"}]

CallType == {NoCall} \cup Ask \cup Leave

LEMMA CallsAre ==
  /\ CallType = {NoCall} \cup Ask \cup Leave
  /\ NoCall.step = "none"
  /\ \A c \in Ask :
       /\ c.step \in {"granted", "refused", "waiting"}
       /\ \A step \in {"granted", "waiting"} :
            [c EXCEPT !.step = step] \in Ask /\ [c EXCEPT !.step = step].step = step
  /\ \A c \in Leave :
       /\ c.step \in {"leaving", "left"}
       /\ c.token \in Tokens \cup {None}
       /\ [c EXCEPT !.step = "left"] \in Leave /\ [c EXCEPT !.step = "left"].step = "left"
  <1>1. \A c \in Ask :
       /\ c.step \in {"granted", "refused", "waiting"}
       /\ \A step \in {"granted", "waiting"} :
            [c EXCEPT !.step = step] \in Ask /\ [c EXCEPT !.step = step].step = step
    BY DEF Ask
  <1>2. \A c \in Leave :
       /\ c.step \in {"leaving", "left"}
       /\ c.token \in Tokens \cup {None}
       /\ [c EXCEPT !.step = "left"] \in Leave /\ [c EXCEPT !.step = "left"].step = "left"
    BY DEF Leave
  <1> QED  BY <1>1, <1>2 DEF CallType, NoCall

(* What the server works at while a call waits for new tokens.              *)
Tasks == {"login.reset", "refresh.revoke", "issue", "answer"}

(* A token somebody may have revoked.                                       *)
Holds(t) ==
  \/ store.refresh = t
  \/ \E k \in Jobs : job[k].op = "refresh.revoke" /\ job[k].token = t
  \/ \E k \in Jobs : call[k].step = "leaving" /\ call[k].token = t

(* The one in an answer nobody can have revoked yet.                        *)
Brings(j, t) == job[j].op = "answer" /\ job[j].token = t

Unseen ==
  \A j \in Jobs, t \in Tokens : Brings(j, t) =>
    /\ tokens[t].state = "active"
    /\ ~Holds(t)
    /\ \A k \in Jobs \ {j} : ~Brings(k, t)

Stored == \A t \in Tokens : Holds(t) => tokens[t] # None

Awaited ==
  /\ \A j \in Jobs : call[j].step = "waiting" => job[j].op \in Tasks
  /\ faults = 0 => \A j \in Jobs : job[j].op = "refresh.revoke" => call[j].step = "waiting"

(* The stored token was revoked only by a call that will yet replace it.    *)
Replaces(c, s) == c.step = "left" \/ (c.step = "waiting" /\ s.op \in {"issue", "answer"})

Replaced ==
  faults = 0 /\ store.refresh # None /\ tokens[store.refresh].state = "revoked" =>
    \E j \in Jobs : Replaces(call[j], job[j])

BrowserOK == store \in Store /\ call \in [Jobs -> CallType]

SessionOK == AccountOK /\ BrowserOK /\ Unseen /\ Stored /\ Awaited /\ Replaced

(* The step of a call, and perhaps of its handler, that brings no token.    *)
LEMMA CallGoesOn ==
  ASSUME SessionOK, AccountOK', NEW j \in Jobs, NEW c \in CallType, NEW next \in AccountJob \cup {Idle},
         call' = [call EXCEPT ![j] = c], job' = [job EXCEPT ![j] = next],
         store' \in Store, store'.refresh = store.refresh, tokens' = tokens, faults' = faults,
         \/ next = job[j]
         \/ next.op # "answer" /\ (next.op = "refresh.revoke" => next.token = store.refresh),
         c = call[j] \/ (c.step = "leaving" => c.token = store.refresh),
         c.step = "waiting" => next.op \in Tasks,
         next.op = "refresh.revoke" /\ faults = 0 => c.step = "waiting",
         Replaces(call[j], job[j]) => Replaces(c, next)
  PROVE  SessionOK'
  <1>1. /\ call \in [Jobs -> CallType] /\ job \in [Jobs -> AccountJob \cup {Idle}]
        /\ call'[j] = c /\ job'[j] = next
        /\ \A k \in Jobs \ {j} : call'[k] = call[k] /\ job'[k] = job[k]
        /\ call' \in [Jobs -> CallType]
    BY DEF SessionOK, BrowserOK, AccountOK
  <1>2. ASSUME NEW t, Holds(t)'  PROVE Holds(t)
    <2>1. CASE store'.refresh = t
      BY <2>1 DEF Holds
    <2>2. CASE \E k \in Jobs : job'[k].op = "refresh.revoke" /\ job'[k].token = t
      BY <1>1, <2>2 DEF Holds
    <2>3. CASE \E k \in Jobs : call'[k].step = "leaving" /\ call'[k].token = t
      BY <1>1, <2>3 DEF Holds
    <2> QED  BY <1>2, <2>1, <2>2, <2>3 DEF Holds
  <1>3. Unseen'
    <2> SUFFICES ASSUME NEW i \in Jobs, NEW t \in Tokens, Brings(i, t)'
                 PROVE  /\ tokens'[t].state = "active" /\ ~Holds(t)'
                        /\ \A k \in Jobs \ {i} : ~Brings(k, t)'
      BY DEF Unseen
    <2>1. ASSUME NEW k \in Jobs, Brings(k, t)'  PROVE Brings(k, t)
      BY <1>1, <2>1 DEF Brings
    <2>2. /\ tokens[t].state = "active" /\ ~Holds(t)
          /\ \A k \in Jobs \ {i} : ~Brings(k, t)
      BY <2>1 DEF SessionOK, Unseen
    <2> QED  BY <1>2, <2>1, <2>2
  <1>4. Stored'
    BY <1>2 DEF SessionOK, Stored
  <1>5. Awaited'
    BY <1>1 DEF SessionOK, Awaited
  <1>6. Replaced'
    BY <1>1 DEF SessionOK, Replaced
  <1> QED  BY <1>1, <1>3, <1>4, <1>5, <1>6 DEF SessionOK, BrowserOK

(* What is known of a call and its handler.                                 *)
LEMMA CallIs ==
  ASSUME SessionOK, NEW j \in Jobs
  PROVE  /\ call[j] \in CallType /\ job[j] \in AccountJob \cup {Idle}
         /\ call' = [call EXCEPT ![j] = call[j]] <=> call' = call
         /\ job' = [job EXCEPT ![j] = job[j]] <=> job' = job
         /\ job[j] = Idle => call[j].step # "waiting"
         /\ call[j].step = "waiting" => job[j].op \in Tasks
         /\ store \in Store /\ store.refresh \in Tokens \cup {None}
         /\ faults \in Nat
  <1>1. /\ call \in [Jobs -> CallType] /\ job \in [Jobs -> AccountJob \cup {Idle}]
        /\ store \in Store /\ faults \in Nat
    BY DEF SessionOK, BrowserOK, AccountOK, AccountsFit
  <1>2. /\ call' = [call EXCEPT ![j] = call[j]] <=> call' = call
        /\ job' = [job EXCEPT ![j] = job[j]] <=> job' = job
    BY <1>1
  <1>3. call[j].step = "waiting" => job[j].op \in Tasks
    BY DEF SessionOK, Awaited
  <1>4. job[j] = Idle => call[j].step # "waiting"
    BY <1>3 DEF Idle, Tasks
  <1>5. store.refresh \in Tokens \cup {None}
    BY <1>1 DEF Store
  <1> QED  BY <1>1, <1>2, <1>3, <1>4, <1>5

(* The account is registered, and handlers without tokens go on.            *)
LEMMA ServerGoesOn ==
  ASSUME SessionOK, AccountOK', NEW j \in Jobs, NEW next \in AccountJob \cup {Idle}, Become(j, next),
         UNCHANGED <<browser, tokens, faults>>, next.op \notin {"answer", "refresh.revoke"},
         job[j].op \in Tasks => job[j].op = "login.reset" /\ next.op = "issue"
  PROVE  SessionOK'
  <1>1. /\ job' = [job EXCEPT ![j] = next] /\ call' = [call EXCEPT ![j] = call[j]]
        /\ store' = store /\ tokens' = tokens /\ faults' = faults
    BY CallIs DEF Become, browser
  <1>2. PICK c \in CallType : c = call[j]
    BY CallIs
  <1>3. c.step = "waiting" => next.op \in Tasks
    BY <1>2, CallIs DEF Tasks
  <1>4. Replaces(c, job[j]) => Replaces(c, next)
    <2>1. job[j].op \notin {"issue", "answer"}
      BY DEF Tasks
    <2> QED  BY <2>1 DEF Replaces
  <1> QED  BY <1>1, <1>2, <1>3, <1>4, CallIs, CallGoesOn

LEMMA RegisterKeeps ==
  ASSUME SessionOK, NEW j \in Jobs, NEW e \in Emails, NEW p \in Passwords,
         RegisterLoad(j, e, p), UNCHANGED browser
  PROVE  SessionOK'
  <1>1. AccountOK'
    BY RegisterLoadKeeps DEF SessionOK
  <1>2. PICK next : next = [op |-> "register", email |-> e, password |-> p]
    OBVIOUS
  <1>3. Become(j, next) /\ UNCHANGED <<tokens, faults>> /\ job[j] = Idle
    BY <1>2 DEF RegisterLoad, Answers, Free
  <1>4. next \in AccountJob \cup {Idle} /\ next.op = "register" /\ Idle.op \notin Tasks
    BY <1>2 DEF AccountJob, Idle, Tasks
  <1> QED  BY <1>1, <1>3, <1>4, ServerGoesOn

LEMMA PlainStepKeeps ==
  ASSUME SessionOK, NEW j \in Jobs, UNCHANGED browser,
         InsertAccount(j) \/ CountFailure(j) \/ LockUser(j) \/ ResetFailures(j) \/ UpdatePassword(j)
  PROVE  SessionOK'
  <1>1. AccountOK' /\ AccountOK
    BY AccountStepKeeps DEF SessionOK, AccountStep
  <1>2. UNCHANGED <<tokens, faults>>
    BY DEF InsertAccount, CountFailure, LockUser, ResetFailures, UpdatePassword
  <1>3. PICK e : e = job[j].email
    OBVIOUS
  <1>4. job[j].op \in {"register", "login.count", "login.lock", "login.reset", "change"}
    BY DEF InsertAccount, CountFailure, LockUser, ResetFailures, UpdatePassword
  <1>5. e \in Emails
    BY <1>1, <1>3, <1>4, HandlerIs DEF Mailing
  <1>6. PICK lock : lock = [op |-> "login.lock", email |-> e]
    OBVIOUS
  <1>7. /\ Issuing(e) \in AccountJob /\ lock \in AccountJob /\ Issuing(e).op = "issue"
        /\ lock.op = "login.lock" /\ Idle.op = "idle"
    BY <1>5, <1>6, IssuingIs DEF AccountJob, Idle
  <1>8. PICK next \in {Idle, lock, Issuing(e)} :
          /\ Become(j, next)
          /\ job[j].op = "login.reset" => next = Issuing(e)
    BY <1>3, <1>6 DEF InsertAccount, CountFailure, LockUser, ResetFailures, UpdatePassword, Finish
  <1>9. next.op \notin {"answer", "refresh.revoke"} /\ next \in AccountJob \cup {Idle}
    BY <1>7, <1>8
  <1>10. job[j].op \in Tasks => job[j].op = "login.reset" /\ next.op = "issue"
    BY <1>4, <1>7, <1>8 DEF Tasks
  <1> QED  BY <1>1, <1>2, <1>8, <1>9, <1>10, ServerGoesOn

(* A token is issued: nobody has it but the answer.                         *)
LEMMA IssueUnseen ==
  ASSUME SessionOK, NEW j \in Jobs, UNCHANGED browser, Issue(j)
  PROVE  SessionOK'
  <1>1. /\ AccountOK' /\ AccountOK /\ UNCHANGED faults /\ job[j].op = "issue"
        /\ call' = call /\ store' = store /\ BrowserOK
    BY IssueKeeps DEF SessionOK, Issue, browser
  <1>2. PICK t \in Fresh :
          /\ tokens' = [tokens EXCEPT ![t] = [email |-> job[j].email, state |-> "active"]]
          /\ Become(j, [op |-> "answer", token |-> t])
    BY DEF Issue
  <1>3. PICK next : next = [op |-> "answer", token |-> t] /\ Become(j, next)
    BY <1>2
  <1>4. /\ job \in [Jobs -> AccountJob \cup {Idle}] /\ tokens \in [Tokens -> TokenDoc \cup {None}]
        /\ job'[j] = next /\ \A k \in Jobs \ {j} : job'[k] = job[k]
    BY <1>1, <1>3 DEF Become, AccountOK, AccountsFit
  <1>5. /\ t \in Tokens /\ tokens[t] = None /\ tokens'[t].state = "active"
        /\ \A s \in Tokens \ {t} : tokens'[s] = tokens[s]
    BY <1>2, <1>4 DEF Fresh
  <1>6. next.op = "answer" /\ next.token = t
    BY <1>3
  <1>7. ASSUME NEW s, Holds(s)'  PROVE Holds(s)
    BY <1>1, <1>4, <1>6, <1>7 DEF Holds
  <1>8. ~Holds(t)
    BY <1>5 DEF SessionOK, Stored
  <1>9. ASSUME NEW k \in Jobs, Brings(k, t)  PROVE FALSE
    <2>1. tokens[t] \in TokenDoc
      BY <1>1, <1>9, HandlerIs DEF Brings, Holding
    <2> QED  BY <1>5, <2>1, NullIsNoAccount
  <1>10. Unseen'
    <2> SUFFICES ASSUME NEW i \in Jobs, NEW s \in Tokens, Brings(i, s)'
                 PROVE  /\ tokens'[s].state = "active" /\ ~Holds(s)'
                        /\ \A k \in Jobs \ {i} : ~Brings(k, s)'
      BY DEF Unseen
    <2>1. CASE s = t
      <3>1. \A k \in Jobs \ {j} : ~Brings(k, t)'
        BY <1>4, <1>9 DEF Brings
      <3>2. i = j
        BY <2>1, <3>1
      <3> QED  BY <1>5, <1>7, <1>8, <2>1, <3>1, <3>2
    <2>2. CASE s # t
      <3>1. ~Brings(j, s)' /\ \A k \in Jobs : Brings(k, s)' => Brings(k, s)
        BY <1>4, <1>6, <2>2 DEF Brings
      <3> QED  BY <1>5, <1>7, <2>2, <3>1 DEF SessionOK, Unseen
    <2> QED  BY <2>1, <2>2
  <1>11. Stored'
    <2>1. tokens'[t] # None
      <3>1. job[j].email \in Emails
        BY <1>1, HandlerIs
      <3>2. [email |-> job[j].email, state |-> "active"] \in TokenDoc
        BY <3>1 DEF TokenDoc
      <3> QED  BY <1>2, <1>4, <1>5, <3>2, NullIsNoAccount
    <2> QED  BY <1>5, <1>7, <2>1 DEF SessionOK, Stored
  <1>12. Awaited'
    BY <1>1, <1>4, <1>6 DEF SessionOK, Awaited, Tasks
  <1>13. Replaced'
    <2>1. \A k \in Jobs : Replaces(call[k], job[k]) => Replaces(call'[k], job'[k])
      BY <1>1, <1>4, <1>6 DEF Replaces
    <2>2. store.refresh # t
      BY <1>8 DEF Holds
    <2>3. store.refresh # None => store.refresh \in Tokens
      BY <1>1 DEF BrowserOK, Store
    <2> QED  BY <1>1, <1>5, <2>1, <2>2, <2>3 DEF SessionOK, Replaced
  <1> QED  BY <1>1, <1>10, <1>11, <1>12, <1>13 DEF SessionOK, BrowserOK

(* A token somebody holds is revoked by what will yet replace it.           *)
LEMMA TokenRevoked ==
  ASSUME SessionOK, AccountOK', NEW j \in Jobs, NEW c \in CallType, NEW next \in AccountJob \cup {Idle},
         call' = [call EXCEPT ![j] = c], job' = [job EXCEPT ![j] = next],
         NEW t \in Tokens, Holds(t), tokens' = Revoked(t), store' = store, faults' = faults,
         next = job[j] \/ next.op = "issue",
         c = call[j] \/ c.step = "left",
         c.step = "waiting" => next.op \in Tasks,
         next.op = "refresh.revoke" /\ faults = 0 => c.step = "waiting",
         faults = 0 => Replaces(c, next)
  PROVE  SessionOK'
  <1>1. /\ call \in [Jobs -> CallType] /\ job \in [Jobs -> AccountJob \cup {Idle}]
        /\ call'[j] = c /\ job'[j] = next
        /\ \A k \in Jobs \ {j} : call'[k] = call[k] /\ job'[k] = job[k]
        /\ call' \in [Jobs -> CallType] /\ store' \in Store
    BY DEF SessionOK, BrowserOK, AccountOK
  <1>2. ASSUME NEW s, Holds(s)'  PROVE Holds(s)
    <2>1. CASE store.refresh = s
      BY <2>1 DEF Holds
    <2>2. CASE \E k \in Jobs : job'[k].op = "refresh.revoke" /\ job'[k].token = s
      BY <1>1, <2>2 DEF Holds
    <2>3. CASE \E k \in Jobs : call'[k].step = "leaving" /\ call'[k].token = s
      BY <1>1, <2>3 DEF Holds
    <2> QED  BY <1>2, <2>1, <2>2, <2>3 DEF Holds
  <1>3. /\ \A s \in Tokens : tokens[s] # None => tokens'[s] # None
        /\ \A s \in Tokens \ {t} : tokens'[s] = tokens[s]
    BY RevokedIs DEF SessionOK, AccountOK
  <1>4. Unseen'
    <2> SUFFICES ASSUME NEW i \in Jobs, NEW s \in Tokens, Brings(i, s)'
                 PROVE  /\ tokens'[s].state = "active" /\ ~Holds(s)'
                        /\ \A k \in Jobs \ {i} : ~Brings(k, s)'
      BY DEF Unseen
    <2>1. ASSUME NEW k \in Jobs, Brings(k, s)'  PROVE Brings(k, s)
      BY <1>1, <2>1 DEF Brings
    <2>2. /\ tokens[s].state = "active" /\ ~Holds(s)
          /\ \A k \in Jobs \ {i} : ~Brings(k, s)
      BY <2>1 DEF SessionOK, Unseen
    <2>3. s # t
      BY <2>2
    <2> QED  BY <1>2, <1>3, <2>1, <2>2, <2>3
  <1>5. Stored'
    BY <1>2, <1>3 DEF SessionOK, Stored
  <1>6. Awaited'
    BY <1>1 DEF SessionOK, Awaited
  <1>7. Replaced'
    BY <1>1 DEF Replaced
  <1> QED  BY <1>1, <1>4, <1>5, <1>6, <1>7 DEF SessionOK, BrowserOK

LEMMA RotateReplaces ==
  ASSUME SessionOK, NEW j \in Jobs, UNCHANGED browser, Rotate(j)
  PROVE  SessionOK'
  <1>1. AccountOK' /\ AccountOK /\ UNCHANGED faults /\ job[j].op = "refresh.revoke"
    BY RotateKeeps DEF SessionOK, Rotate
  <1>2. PICK t \in Tokens : t = job[j].token /\ tokens[t] \in TokenDoc
    BY <1>1, HandlerIs DEF Holding
  <1>3. PICK next : next = Issuing(tokens[t].email)
    OBVIOUS
  <1>4. next \in AccountJob /\ next.op = "issue"
    <2>1. tokens[t].email \in Emails
      BY <1>2 DEF TokenDoc
    <2> QED  BY <1>3, <2>1, IssuingIs
  <1>5. tokens' = Revoked(t) /\ job' = [job EXCEPT ![j] = next]
    BY <1>2, <1>3 DEF Rotate, Become
  <1>6. Holds(t)
    BY <1>1, <1>2 DEF Holds
  <1>7. PICK c \in CallType : c = call[j]
    BY CallIs
  <1>8. store' = store /\ call' = [call EXCEPT ![j] = c]
    BY <1>7, CallIs DEF browser
  <1>9. faults = 0 => Replaces(c, next)
    BY <1>1, <1>4, <1>7 DEF SessionOK, Awaited, Replaces
  <1> QED  BY <1>1, <1>4, <1>5, <1>6, <1>7, <1>8, <1>9, TokenRevoked DEF Tasks

LEMMA ServeSignOutKeeps ==
  ASSUME SessionOK, NEW j \in Jobs, ServeSignOut(j)
  PROVE  SessionOK'
  <1>1. PICK old \in CallType : old = call[j] /\ old.step = "leaving"
    BY CallIs DEF ServeSignOut, At
  <1>2. old \in Leave
    BY <1>1, CallsAre
  <1>3. PICK c : c = [old EXCEPT !.step = "left"]
    OBVIOUS
  <1>4. c \in CallType /\ c.step = "left"
    BY <1>2, <1>3, CallsAre
  <1>5. PICK s \in AccountJob \cup {Idle} : s = job[j]
    BY CallIs
  <1>6. /\ call' = [call EXCEPT ![j] = c] /\ job' = [job EXCEPT ![j] = s]
        /\ UNCHANGED <<store, accounts, letters, job, faults>>
    BY <1>1, <1>3, <1>5, CallIs DEF ServeSignOut, Proceeds, Goes
  <1>7. s.op = "refresh.revoke" => faults # 0
    BY <1>1, <1>5 DEF SessionOK, Awaited
  <1>8. CASE old.token = None
    <2>1. tokens' = tokens
      BY <1>1, <1>8 DEF ServeSignOut
    <2>2. AccountOK'
      BY <1>6, <2>1, TokensKeep DEF SessionOK, AccountOK, AccountsFit
    <2> QED  BY <1>4, <1>5, <1>6, <1>7, <2>1, <2>2, CallIs, CallGoesOn DEF Replaces
  <1>9. CASE old.token # None
    <2>1. PICK t \in Tokens : t = old.token
      BY <1>2, <1>9, CallsAre
    <2>2. Logout(t) /\ tokens' = Revoked(t)
      BY <1>1, <1>9, <2>1 DEF ServeSignOut, Logout
    <2>3. AccountOK'
      BY <1>6, <2>2, LogoutKeeps DEF SessionOK
    <2>4. Holds(t)
      BY <1>1, <2>1 DEF Holds
    <2> QED  BY <1>4, <1>5, <1>6, <1>7, <2>2, <2>3, <2>4, TokenRevoked DEF Replaces
  <1> QED  BY <1>8, <1>9

(* A call is over, or a sign-out begins.                                    *)
LEMMA StepsAre ==
  /\ NoCall \in CallType /\ NoCall.step = "none"
  /\ \A kind \in {"profile", "other", "sign in"}, step \in {"granted", "refused", "waiting"} :
       [kind |-> kind, step |-> step] \in CallType
  /\ SessionOK => /\ Departure \in CallType
                  /\ Departure.step \in {"leaving", "left"} /\ Departure.token = store.refresh
  <1>1. ASSUME SessionOK
        PROVE  /\ Departure \in Leave
               /\ Departure.step \in {"leaving", "left"} /\ Departure.token = store.refresh
    <2>1. PICK t \in Tokens \cup {None} : t = store.refresh
      BY <1>1 DEF SessionOK, BrowserOK, Store
    <2>2. PICK step \in {"leaving", "left"} : step = IF store.access = "valid" THEN "leaving" ELSE "left"
      OBVIOUS
    <2> QED  BY <2>1, <2>2 DEF Departure, Leave
  <1> QED  BY <1>1 DEF CallType, NoCall, Ask

(* A call goes on and the server does nothing.                              *)
LEMMA BrowserGoesOn ==
  ASSUME SessionOK, NEW j \in Jobs, NEW c \in CallType, Goes(j, c), UNCHANGED accountVars,
         store' \in Store, store'.refresh = store.refresh,
         c.step = "leaving" => c.token = store.refresh,
         c.step # "waiting",
         job[j].op = "refresh.revoke" => faults # 0,
         Replaces(call[j], job[j]) => c.step = "left"
  PROVE  SessionOK'
  <1>1. PICK s \in AccountJob \cup {Idle} : s = job[j]
    BY CallIs
  <1>2. /\ call' = [call EXCEPT ![j] = c] /\ job' = [job EXCEPT ![j] = s]
        /\ tokens' = tokens /\ faults' = faults
    BY <1>1, CallIs DEF Goes, accountVars
  <1>3. AccountOK'
    BY AccountKeeps DEF SessionOK
  <1> QED  BY <1>1, <1>2, <1>3, CallGoesOn DEF Replaces

LEMMA GrantedKeeps ==
  ASSUME SessionOK, NEW j \in Jobs, Granted(j)
  PROVE  SessionOK'
  <1>1. Goes(j, NoCall) /\ UNCHANGED accountVars /\ call[j].step = "granted"
    BY DEF Granted, Ends, At
  <1>2. PICK old \in Store : old = store
    BY CallIs
  <1>3. PICK user \in BOOLEAN : user = (old.user \/ call[j].kind = "profile")
    OBVIOUS
  <1>4. store' = [old EXCEPT !.user = user]
    BY <1>2, <1>3 DEF Granted
  <1>5. store' \in Store /\ store'.refresh = store.refresh
    BY <1>2, <1>4 DEF Store
  <1>6. job[j].op = "refresh.revoke" => faults # 0
    BY <1>1 DEF SessionOK, Awaited
  <1>7. ~Replaces(call[j], job[j])
    BY <1>1 DEF Replaces
  <1> QED  BY <1>1, <1>5, <1>6, <1>7, StepsAre, BrowserGoesOn

LEMMA SignOutKeeps ==
  ASSUME SessionOK, NEW j \in Jobs, SignOut(j)
  PROVE  SessionOK'
  <1>1. Goes(j, Departure) /\ UNCHANGED accountVars /\ call[j] = NoCall /\ job[j] = Idle
    BY DEF SignOut, Free
  <1>2. PICK old \in Store : old = store
    BY CallIs
  <1>3. store' = [old EXCEPT !.user = FALSE]
    BY <1>2 DEF SignOut
  <1>4. store' \in Store /\ store'.refresh = store.refresh
    BY <1>2, <1>3 DEF Store
  <1>5. job[j].op # "refresh.revoke"
    BY <1>1 DEF Idle
  <1>6. ~Replaces(call[j], job[j])
    BY <1>1, StepsAre DEF Replaces
  <1> QED  BY <1>1, <1>4, <1>5, <1>6, StepsAre, BrowserGoesOn

LEMMA SendKeeps ==
  ASSUME SessionOK, NEW j \in Jobs, NEW kind \in Kinds, Send(j, kind)
  PROVE  SessionOK'
  <1>1. PICK step \in {"granted", "refused"} : Goes(j, [kind |-> kind, step |-> step])
    BY DEF Send
  <1>2. PICK c : c = [kind |-> kind, step |-> step]
    OBVIOUS
  <1>3. c \in CallType /\ c.step \in {"granted", "refused"} /\ Goes(j, c)
    BY <1>1, <1>2, StepsAre DEF Send
  <1>4. UNCHANGED <<store, accountVars>> /\ call[j] = NoCall /\ job[j] = Idle
    BY DEF Send, Free
  <1>5. job[j].op # "refresh.revoke"
    BY <1>4 DEF Idle
  <1>6. ~Replaces(call[j], job[j])
    BY <1>4, StepsAre DEF Replaces
  <1> QED  BY <1>3, <1>4, <1>5, <1>6, CallIs, BrowserGoesOn

(* A refused call reads the token and asks for another.                     *)
LEMMA RefusedKeeps ==
  ASSUME SessionOK, NEW j \in Jobs, Refused(j)
  PROVE  SessionOK'
  <1>1. PICK old \in CallType : old = call[j] /\ old.step = "refused"
    BY CallIs DEF Refused, At
  <1>2. old \in Ask
    BY <1>1, CallsAre
  <1>3. ~Replaces(old, job[j]) /\ (job[j].op = "refresh.revoke" => faults # 0)
    BY <1>1 DEF Replaces, SessionOK, Awaited
  <1>4. CASE store.refresh # None /\ Active(store.refresh)
    <2>1. PICK t \in Tokens : t = store.refresh
      BY <1>4, CallIs
    <2>2. RefreshLoad(j, t) /\ Goes(j, [old EXCEPT !.step = "waiting"]) /\ UNCHANGED store
      BY <1>1, <1>4, <2>1 DEF Refused, Proceeds
    <2>3. PICK next : next = [op |-> "refresh.revoke", token |-> t] /\ Answers(j, next)
      BY <2>2 DEF RefreshLoad
    <2>4. next \in AccountJob
      BY <2>3 DEF AccountJob
    <2>5. PICK c : c = [old EXCEPT !.step = "waiting"]
      OBVIOUS
    <2>6. c \in CallType /\ c.step = "waiting"
      BY <1>2, <2>5, CallsAre
    <2>7. AccountOK'
      BY <2>2, RefreshLoadKeeps DEF SessionOK
    <2>8. /\ call' = [call EXCEPT ![j] = c] /\ job' = [job EXCEPT ![j] = next]
          /\ store' = store /\ tokens' = tokens /\ faults' = faults
      BY <2>2, <2>3, <2>5 DEF Goes, Answers, Become
    <2>9. next.op = "refresh.revoke" /\ next.token = store.refresh /\ next.op \in Tasks
      BY <2>1, <2>3 DEF Tasks
    <2> QED  BY <1>1, <1>3, <2>4, <2>6, <2>7, <2>8, <2>9, CallIs, CallGoesOn
  <1>5. CASE ~(store.refresh # None /\ Active(store.refresh))
    <2>1. UNCHANGED accountVars
      BY <1>5 DEF Refused
    <2>2. PICK was \in Store : was = store
      BY CallIs
    <2>3. PICK user \in BOOLEAN : store' = [was EXCEPT !.user = user]
      <3>1. was.user \in BOOLEAN /\ was = [was EXCEPT !.user = was.user]
        BY <2>2 DEF Store
      <3>2. store' = was \/ store' = [was EXCEPT !.user = FALSE]
        BY <1>5, <2>2 DEF Refused
      <3> QED  BY <3>1, <3>2
    <2>4. store' \in Store /\ store'.refresh = store.refresh
      BY <2>2, <2>3 DEF Store
    <2>5. PICK c \in {Departure, NoCall} : Goes(j, c)
      BY <1>5 DEF Refused, Ends
    <2>6. c \in CallType /\ c.step # "waiting" /\ (c.step = "leaving" => c.token = store.refresh)
      BY <2>5, StepsAre
    <2> QED  BY <1>1, <1>3, <2>1, <2>4, <2>5, <2>6, BrowserGoesOn
  <1> QED  BY <1>4, <1>5

(* The server's answer is heard, or nobody is there to hear it.             *)
LEMMA ReceiveKeeps ==
  ASSUME SessionOK, NEW j \in Jobs, Receive(j)
  PROVE  SessionOK'
  <1>1. AccountOK /\ AccountOK' /\ BrowserOK /\ UNCHANGED <<tokens, faults>>
    BY AnsweredKeeps DEF SessionOK, Receive, Answered
  <1>2. PICK t \in Tokens : t = job[j].token /\ Brings(j, t)
    BY <1>1, HandlerIs DEF Receive, Brings, Holding
  <1>3. /\ tokens[t].state = "active" /\ ~Holds(t) /\ \A k \in Jobs \ {j} : ~Brings(k, t)
        /\ tokens[t] # None
    BY <1>1, <1>2, HandlerIs, NullIsNoAccount DEF SessionOK, Unseen, Brings, Holding
  <1>4. job' = [job EXCEPT ![j] = Idle] /\ job \in [Jobs -> AccountJob \cup {Idle}]
    BY <1>1 DEF Receive, Answered, Finish, Become, AccountOK
  <1>5. /\ job'[j] = Idle /\ Idle.op = "idle"
        /\ \A k \in Jobs \ {j} : job'[k] = job[k]
    BY <1>4 DEF Idle
  <1>6. PICK old \in Store : old = store
    BY CallIs
  <1>8. store' \in Store /\ store'.refresh = t
    <2>1. CASE store' = [old EXCEPT !.access = "valid", !.refresh = t]
      BY <2>1 DEF Store
    <2>2. CASE store' = SignedIn(t)
      BY <2>2 DEF SignedIn, Store
    <2> QED  BY <1>2, <1>6, <2>1, <2>2 DEF Receive, Renewed
  <1>9. PICK c \in CallType : call' = [call EXCEPT ![j] = c] /\ c.step \in {"none", "granted"}
    <2>1. PICK d \in CallType : d = call[j] /\ d.step = "waiting"
      BY CallIs DEF Receive, At
    <2>2. d \in Ask
      BY <2>1, CallsAre
    <2>3. PICK e : e = [d EXCEPT !.step = "granted"]
      OBVIOUS
    <2>4. e \in CallType /\ e.step = "granted"
      BY <2>2, <2>3, CallsAre
    <2>5. call' = [call EXCEPT ![j] = NoCall] \/ call' = [call EXCEPT ![j] = e]
      BY <2>1, <2>3 DEF Receive, Ends, Proceeds, Goes
    <2> QED  BY <2>4, <2>5, StepsAre
  <1>10. /\ call' \in [Jobs -> CallType] /\ call'[j] = c
         /\ \A k \in Jobs \ {j} : call'[k] = call[k]
    BY <1>1, <1>9 DEF BrowserOK
  <1>11. ASSUME NEW s, Holds(s)', s # t  PROVE Holds(s)
    <2>1. CASE \E k \in Jobs : job'[k].op = "refresh.revoke" /\ job'[k].token = s
      BY <1>5, <2>1 DEF Holds
    <2>2. CASE \E k \in Jobs : call'[k].step = "leaving" /\ call'[k].token = s
      BY <1>9, <1>10, <2>2 DEF Holds
    <2> QED  BY <1>8, <1>11, <2>1, <2>2 DEF Holds
  <1>12. Unseen'
    <2> SUFFICES ASSUME NEW i \in Jobs, NEW s \in Tokens, Brings(i, s)'
                 PROVE  /\ tokens'[s].state = "active" /\ ~Holds(s)'
                        /\ \A k \in Jobs \ {i} : ~Brings(k, s)'
      BY DEF Unseen
    <2>1. \A k \in Jobs : Brings(k, s)' => k # j /\ Brings(k, s)
      BY <1>5 DEF Brings
    <2>2. s # t
      BY <1>3, <2>1
    <2>3. tokens[s].state = "active" /\ ~Holds(s) /\ \A k \in Jobs \ {i} : ~Brings(k, s)
      BY <2>1 DEF SessionOK, Unseen
    <2> QED  BY <1>1, <1>11, <2>1, <2>2, <2>3
  <1>13. Stored'
    BY <1>1, <1>3, <1>11 DEF SessionOK, Stored
  <1>14. Awaited'
    BY <1>1, <1>5, <1>9, <1>10 DEF SessionOK, Awaited
  <1>15. Replaced'
    BY <1>1, <1>3, <1>8 DEF Replaced
  <1> QED  BY <1>1, <1>8, <1>10, <1>12, <1>13, <1>14, <1>15 DEF SessionOK, BrowserOK

LEMMA UnheardKeeps ==
  ASSUME SessionOK, NEW j \in Jobs, Unheard(j)
  PROVE  SessionOK'
  <1>1. AccountOK' /\ UNCHANGED <<tokens, faults, store, call>> /\ call[j] = NoCall
    BY AnsweredKeeps DEF SessionOK, Unheard, Answered, browser
  <1>2. PICK c \in CallType : c = call[j] /\ c.step = "none"
    BY <1>1, StepsAre
  <1>3. /\ job' = [job EXCEPT ![j] = Idle] /\ call' = [call EXCEPT ![j] = c]
        /\ Idle.op = "idle" /\ Idle \in AccountJob \cup {Idle}
    BY <1>1, <1>2, CallIs DEF Unheard, Answered, Finish, Become, Idle
  <1>4. ~Replaces(c, job[j])
    BY <1>2 DEF Replaces
  <1> QED  BY <1>1, <1>2, <1>3, <1>4, CallIs, CallGoesOn

(* The tokens leave the storage.                                            *)
LEMMA ForgetKeeps ==
  ASSUME SessionOK, NEW j \in Jobs, Forget(j)
  PROVE  SessionOK'
  <1>1. AccountOK' /\ UNCHANGED accountVars /\ UNCHANGED <<tokens, faults, job>> /\ BrowserOK
    BY AccountKeeps DEF SessionOK, Forget, accountVars
  <1>2. PICK old \in Store : old = store
    BY CallIs
  <1>3. store' \in Store /\ store'.refresh = None
    BY <1>2 DEF Forget, Store
  <1>4. call' = [call EXCEPT ![j] = NoCall] /\ call[j].step = "left"
    BY DEF Forget, Ends, Goes, At
  <1>5. /\ call' \in [Jobs -> CallType] /\ call'[j].step = "none"
        /\ \A k \in Jobs \ {j} : call'[k] = call[k]
    BY <1>1, <1>4, StepsAre DEF BrowserOK
  <1>6. ASSUME NEW s \in Tokens, Holds(s)'  PROVE Holds(s)
    <2>1. s # None
      BY AccountAssumption, NoneAssumption
    <2>2. CASE \E k \in Jobs : job'[k].op = "refresh.revoke" /\ job'[k].token = s
      BY <1>1, <2>2 DEF Holds
    <2>3. CASE \E k \in Jobs : call'[k].step = "leaving" /\ call'[k].token = s
      BY <1>5, <2>3 DEF Holds
    <2> QED  BY <1>3, <1>6, <2>1, <2>2, <2>3 DEF Holds
  <1>7. Unseen'
    <2> SUFFICES ASSUME NEW i \in Jobs, NEW s \in Tokens, Brings(i, s)'
                 PROVE  /\ tokens'[s].state = "active" /\ ~Holds(s)'
                        /\ \A k \in Jobs \ {i} : ~Brings(k, s)'
      BY DEF Unseen
    <2>1. \A k \in Jobs : Brings(k, s)' => Brings(k, s)
      BY <1>1 DEF Brings
    <2>2. tokens[s].state = "active" /\ ~Holds(s) /\ \A k \in Jobs \ {i} : ~Brings(k, s)
      BY <2>1 DEF SessionOK, Unseen
    <2> QED  BY <1>1, <1>6, <2>1, <2>2
  <1>8. Stored'
    BY <1>1, <1>6 DEF SessionOK, Stored
  <1>9. Awaited'
    BY <1>1, <1>4, <1>5 DEF SessionOK, Awaited
  <1>10. Replaced'
    BY <1>3 DEF Replaced
  <1> QED  BY <1>1, <1>3, <1>5, <1>7, <1>8, <1>9, <1>10 DEF SessionOK, BrowserOK

LEMMA SignInKeeps ==
  ASSUME SessionOK, NEW j \in Jobs, NEW e \in Emails, SignIn(j, e)
  PROVE  SessionOK'
  <1>1. LoginLoad(j, e, accounts[e].password) /\ store' = store /\ call[j] = NoCall
    BY DEF SignIn
  <1>2. AccountOK'
    <2>1. PICK p : p = accounts[e].password
      OBVIOUS
    <2>2. LoginLoad(j, e, p)
      BY <1>1, <2>1
    <2> QED  BY <2>2, LoginLoadKeeps DEF SessionOK
  <1>3. PICK next : next = [op |-> "login.reset", email |-> e]
    OBVIOUS
  <1>4. job' = [job EXCEPT ![j] = next] /\ UNCHANGED <<tokens, faults>> /\ job[j] = Idle
    BY <1>1, <1>3 DEF LoginLoad, Answers, Become, Free
  <1>5. next \in AccountJob /\ next.op = "login.reset" /\ next.op \in Tasks
    BY <1>3 DEF AccountJob, Tasks
  <1>6. PICK c : c = [kind |-> "sign in", step |-> "waiting"]
    OBVIOUS
  <1>7. c \in CallType /\ c.step = "waiting" /\ call' = [call EXCEPT ![j] = c]
    BY <1>6, StepsAre DEF SignIn, Goes
  <1>8. ~Replaces(call[j], job[j])
    BY <1>1, StepsAre DEF Replaces
  <1> QED  BY <1>1, <1>2, <1>4, <1>5, <1>7, <1>8, CallIs, CallGoesOn

(* Whatever becomes of the page, as long as its calls stay or are a fault.  *)
LEMMA PageKeeps ==
  ASSUME SessionOK, UNCHANGED <<accounts, tokens, letters, job>>, faults' \in Nat, faults' = 0 => faults = 0,
         store' \in Store, store'.refresh = store.refresh,
         \/ call' = call
         \/ call' = [j \in Jobs |-> NoCall] /\ faults' # 0
  PROVE  SessionOK'
  <1>1. AccountOK'
    BY DEF SessionOK, AccountOK, AccountsFit, Fits, Known
  <1>2. CASE call' = call
    BY <1>1, <1>2 DEF SessionOK, BrowserOK, Unseen, Stored, Awaited, Replaced, Brings, Holds
  <1>3. CASE call' = [j \in Jobs |-> NoCall] /\ faults' # 0
    <2>1. call' \in [Jobs -> CallType] /\ \A k \in Jobs : call'[k].step = "none"
      BY <1>3, StepsAre
    <2>2. \A s : Holds(s)' => Holds(s)
      BY <2>1 DEF Holds
    <2>3. Unseen' /\ Stored'
      BY <2>2 DEF SessionOK, Unseen, Stored, Brings
    <2>4. Awaited' /\ Replaced'
      BY <1>3, <2>1 DEF Awaited, Replaced
    <2> QED  BY <1>1, <2>1, <2>3, <2>4 DEF SessionOK, BrowserOK
  <1> QED  BY <1>2, <1>3

LEMMA AccessExpiresKeeps ==
  ASSUME SessionOK, AccessExpires
  PROVE  SessionOK'
  <1>1. PICK old \in Store : old = store
    BY DEF SessionOK, BrowserOK
  <1>2. store' \in Store /\ store'.refresh = store.refresh
    BY <1>1 DEF AccessExpires, Store
  <1>3. UNCHANGED <<accounts, tokens, letters, job, faults, call>> /\ faults \in Nat
    BY DEF AccessExpires, accountVars, SessionOK, AccountOK, AccountsFit
  <1> QED  BY <1>2, <1>3, PageKeeps

LEMMA ReloadKeeps ==
  ASSUME SessionOK, Reload
  PROVE  SessionOK'
  <1>1. PICK old \in Store : old = store
    BY DEF SessionOK, BrowserOK
  <1>2. store' \in Store /\ store'.refresh = store.refresh
    BY <1>1 DEF Reload, Store
  <1>3. faults \in Nat /\ call \in [Jobs -> CallType] /\ UNCHANGED <<accounts, tokens, letters, job>>
    BY DEF Reload, SessionOK, AccountOK, AccountsFit, BrowserOK
  <1>4. CASE \E j \in Jobs : call[j] # NoCall
    <2>1. faults' = faults + 1 /\ call' = [j \in Jobs |-> NoCall]
      BY <1>4 DEF Reload, Faulty
    <2> QED  BY <1>2, <1>3, <2>1, PageKeeps
  <1>5. CASE ~\E j \in Jobs : call[j] # NoCall
    <2>1. faults' = faults /\ call' = call
      BY <1>3, <1>5 DEF Reload
    <2> QED  BY <1>2, <1>3, <2>1, PageKeeps
  <1> QED  BY <1>4, <1>5

LEMMA SessionKeeps == SessionOK /\ [SessionNext]_sessionVars => SessionOK'
  <1> SUFFICES ASSUME SessionOK, [SessionNext]_sessionVars  PROVE SessionOK'
    OBVIOUS
  <1>1. CASE \E j \in Jobs, e \in Emails, p \in Passwords : RegisterLoad(j, e, p) /\ UNCHANGED browser
    BY <1>1, RegisterKeeps
  <1>2. ASSUME NEW j \in Jobs, SessionCall(j)  PROVE SessionOK'
    BY <1>2, SignInKeeps, SendKeeps, SignOutKeeps DEF SessionCall
  <1>3. ASSUME NEW j \in Jobs, SessionStep(j)  PROVE SessionOK'
    BY <1>3, GrantedKeeps, RefusedKeeps, ReceiveKeeps, ServeSignOutKeeps, ForgetKeeps, UnheardKeeps
    DEF SessionStep
  <1>4. ASSUME NEW j \in Jobs, AccountStep(j), UNCHANGED browser  PROVE SessionOK'
    BY <1>4, IssueUnseen, PlainStepKeeps, RotateReplaces DEF AccountStep
  <1>5. CASE UNCHANGED sessionVars
    <2>1. UNCHANGED <<accounts, tokens, letters, job, faults, store, call>>
      BY <1>5 DEF sessionVars, accountVars, browser
    <2>2. store \in Store /\ faults \in Nat
      BY DEF SessionOK, BrowserOK, AccountOK, AccountsFit
    <2> QED  BY <2>1, <2>2, PageKeeps
  <1> QED  BY <1>1, <1>2, <1>3, <1>4, <1>5, AccessExpiresKeeps, ReloadKeeps DEF SessionNext

LEMMA SessionBegins == AccountInit /\ SessionInit => SessionOK
  <1> SUFFICES ASSUME AccountInit, SessionInit  PROVE SessionOK
    OBVIOUS
  <1>1. AccountOK
    BY AccountBegins
  <1>2. /\ job = [j \in Jobs |-> Idle] /\ Idle.op = "idle"
        /\ call = [j \in Jobs |-> NoCall] /\ NoCall.step = "none" /\ NoCall \in CallType
    BY StepsAre DEF AccountInit, BackendInit, SessionInit, Idle
  <1>3. store \in Store /\ store.refresh = None
    BY DEF SessionInit, Store
  <1>4. \A t \in Tokens : t # None
    BY AccountAssumption, NoneAssumption
  <1>5. \A t \in Tokens : ~Holds(t)
    BY <1>2, <1>3, <1>4 DEF Holds
  <1>6. \A j \in Jobs, t \in Tokens : ~Brings(j, t)
    BY <1>2 DEF Brings
  <1> QED  BY <1>1, <1>2, <1>3, <1>5, <1>6 DEF SessionOK, BrowserOK, Unseen, Stored, Awaited, Replaced

(* However calls and sign-outs of a browser overlap, at rest and after no   *)
(* lost answer it never keeps a refresh token somebody revoked: what        *)
(* revoked it is a call that has yet to put another one, or none, in its    *)
(* place (tryRefreshToken and logout of api.ts).                            *)
THEOREM StorageLives == SessionSpec => []StoredTokenLives
  <1>1. SessionOK => StoredTokenLives
    BY StepsAre DEF SessionOK, Replaced, Replaces, StoredTokenLives, Quiet
  <1> QED  BY <1>1, SessionBegins, SessionKeeps, PTL DEF SessionSpec

---------------------------------------------------------------------------
(* Prices.  As long as no two handlers overlap, a change in flight is the   *)
(* one validatePricing saw: the service it will be saved in has the fields  *)
(* it was checked with.                                                     *)
Alone == \A j, k \in Jobs : job[j] # Idle /\ job[k] # Idle => j = k

Pending(s) ==
  s.op = "offer.save" =>
    /\ s.id \in Offers /\ offers[s.id] # None
    /\ s.id \in Offered => Priced(Changed(offers[s.id].pricing, s.sends))

WellPriced ==
  /\ \A o \in Offered : "pricing" \in DOMAIN offers[o] /\ Priced(offers[o].pricing)
  /\ \A j \in Jobs : Pending(job[j])

PricesOK ==
  /\ raced \in BOOLEAN
  /\ part # "catalogue" => Offered = {}
  /\ part = "catalogue" /\ ~raced =>
       /\ DOMAIN job = Jobs /\ DOMAIN offers = Offers
       /\ Alone /\ WellPriced

(* What a save sends gives the service that was checked.                    *)
LEMMA SentGivesChecked ==
  ASSUME NEW doc, NEW changes
  PROVE  Changed(doc, Sent(doc, changes)) = Changed(doc, changes)
  <1>1. PICK sends : sends = Sent(doc, changes)
    OBVIOUS
  <1>2. /\ DOMAIN sends = {g \in DOMAIN changes : changes[g] # doc[g]}
        /\ \A f \in DOMAIN sends : sends[f] = changes[f]
    BY <1>1 DEF Sent
  <1>3. \A f \in DOMAIN doc :
          (IF f \in DOMAIN sends THEN sends[f] ELSE doc[f])
            = (IF f \in DOMAIN changes THEN changes[f] ELSE doc[f])
    BY <1>2
  <1> QED  BY <1>1, <1>3 DEF Changed

LEMMA IdleIs == Idle.op = "idle"
  BY DEF Idle

(* raced stays when it is set, and is set when handlers overlap.            *)
LEMMA NotRaced ==
  ASSUME raced \in BOOLEAN, Race
  PROVE  raced' \in BOOLEAN /\ (~raced' => ~raced /\ Alone')
  <1>1. raced' \in BOOLEAN
    BY DEF Race
  <1>2. ASSUME ~raced'  PROVE ~raced /\ Alone'
    BY <1>2 DEF Race, Alone
  <1> QED  BY <1>1, <1>2

(* One handler of the catalogue starts or ends.                             *)
LEMMA JobIs ==
  ASSUME DOMAIN job = Jobs, NEW j \in Jobs, NEW next, Become(j, next)
  PROVE  /\ DOMAIN job' = Jobs /\ job'[j] = next
         /\ \A k \in Jobs \ {j} : job'[k] = job[k]
  BY DEF Become

(* The others are idle.                                                     *)
LEMMA NobodyElse ==
  ASSUME Alone, NEW j \in Jobs, job[j] # Idle
  PROVE  \A k \in Jobs \ {j} : job[k] = Idle
  BY DEF Alone

LEMMA OfferLoadKeeps ==
  ASSUME WellPriced, DOMAIN job = Jobs, NEW j \in Jobs, NEW next, Become(j, next), offers' = offers,
         Pending(next)
  PROVE  WellPriced' /\ DOMAIN job' = Jobs
  <1>1. Offered' = Offered
    BY DEF Offered
  <1>2. ASSUME NEW k \in Jobs  PROVE Pending(job[k])'
    <2>1. PICK s : s = job'[k] /\ Pending(s)
      BY JobIs DEF WellPriced
    <2> QED  BY <1>1, <2>1 DEF Pending
  <1> QED  BY <1>1, <1>2, JobIs DEF WellPriced

LEMMA CatalogueCallKeeps ==
  ASSUME WellPriced, DOMAIN job = Jobs, NEW j \in Jobs, CatalogueCall(j)
  PROVE  WellPriced' /\ DOMAIN job' = Jobs /\ offers' = offers
  <1>1. ASSUME NEW o \in Offers, NEW p, NEW changes, UpdateOffer(j, o, p, changes)
        PROVE  WellPriced' /\ DOMAIN job' = Jobs /\ offers' = offers
    <2>1. PICK next : next = [op |-> "offer.save", id |-> o, sends |-> Sent(offers[o].pricing, changes)]
      OBVIOUS
    <2>2. OfferLoad(j, o, p, next) /\ Priced(Candidate(offers[o].pricing, changes)) /\ o \in Offered
      BY <1>1, <2>1 DEF UpdateOffer, OfferLoad
    <2>3. Become(j, next) /\ offers' = offers
      BY <2>2 DEF OfferLoad
    <2>4. next.id = o /\ next.sends = Sent(offers[o].pricing, changes)
      BY <2>1
    <2>5. Changed(offers[o].pricing, next.sends) = Candidate(offers[o].pricing, changes)
      BY <2>4, SentGivesChecked DEF Candidate
    <2>6. Pending(next)
      BY <2>2, <2>4, <2>5 DEF Pending, Offered
    <2> QED  BY <2>3, <2>6, OfferLoadKeeps
  <1>2. ASSUME NEW o, NEW p, NEW next, OfferLoad(j, o, p, next), next.op # "offer.save"
        PROVE  WellPriced' /\ DOMAIN job' = Jobs /\ offers' = offers
    <2>1. Become(j, next) /\ offers' = offers
      BY <1>2 DEF OfferLoad
    <2>2. Pending(next)
      BY <1>2 DEF Pending
    <2> QED  BY <2>1, <2>2, OfferLoadKeeps
  <1>3. ASSUME NEW o, NEW p, NEW status, UpdateStatus(j, o, p, status)
        PROVE  WellPriced' /\ DOMAIN job' = Jobs /\ offers' = offers
    <2>1. PICK next : next = [op |-> "offer.status", id |-> o, status |-> status]
      OBVIOUS
    <2>2. OfferLoad(j, o, p, next) /\ next.op # "offer.save"
      BY <1>3, <2>1 DEF UpdateStatus
    <2> QED  BY <1>2, <2>2
  <1>4. ASSUME NEW o, NEW p, DeleteOffer(j, o, p)
        PROVE  WellPriced' /\ DOMAIN job' = Jobs /\ offers' = offers
    <2>1. PICK next : next = [op |-> "offer.delete", id |-> o]
      OBVIOUS
    <2>2. OfferLoad(j, o, p, next) /\ next.op # "offer.save"
      BY <1>4, <2>1 DEF DeleteOffer
    <2> QED  BY <1>2, <2>2
  <1>5. PICK o \in Offers, p \in Providers :
          \/ \E changes : UpdateOffer(j, o, p, changes)
          \/ \E status : UpdateStatus(j, o, p, status)
          \/ DeleteOffer(j, o, p)
    BY DEF CatalogueCall, Offered
  <1> QED  BY <1>1, <1>3, <1>4, <1>5

LEMMA SaveOfferKeeps ==
  ASSUME WellPriced, Alone, DOMAIN job = Jobs, DOMAIN offers = Offers, NEW j \in Jobs, SaveOffer(j)
  PROVE  WellPriced' /\ DOMAIN job' = Jobs /\ DOMAIN offers' = Offers
  <1>1. DOMAIN job' = Jobs /\ \A k \in Jobs : job'[k] = Idle
    BY JobIs, NobodyElse, IdleIs DEF SaveOffer, Finish
  <1>2. \A k \in Jobs : Pending(job[k])'
    BY <1>1, IdleIs DEF Pending
  <1>3. PICK o : o = job[j].id
    OBVIOUS
  <1>4. CASE o \notin Offered
    <2>1. offers' = offers
      BY <1>3, <1>4 DEF SaveOffer
    <2> QED  BY <1>1, <1>2, <2>1 DEF WellPriced, Offered
  <1>5. CASE o \in Offered
    <2>1. PICK doc : doc = offers[o] /\ "pricing" \in DOMAIN doc /\ Priced(doc.pricing)
      BY <1>5 DEF WellPriced
    <2>2. PICK next : offers' = [offers EXCEPT ![o] = next]
                      /\ next = IF job[j].op = "offer.save"
                                THEN [doc EXCEPT !.pricing = Changed(doc.pricing, job[j].sends)]
                                ELSE [doc EXCEPT !.status = job[j].status]
      BY <1>3, <1>5, <2>1 DEF SaveOffer
    <2>3. "pricing" \in DOMAIN next /\ Priced(next.pricing)
      <3>1. CASE job[j].op = "offer.save"
        <4>1. Priced(Changed(doc.pricing, job[j].sends))
          BY <1>3, <1>5, <2>1, <3>1 DEF WellPriced, Pending
        <4>2. "pricing" \in DOMAIN next /\ next.pricing = Changed(doc.pricing, job[j].sends)
          BY <2>1, <2>2, <3>1
        <4> QED  BY <4>1, <4>2
      <3>2. CASE job[j].op # "offer.save"
        <4>1. "pricing" \in DOMAIN next /\ next.pricing = doc.pricing
          BY <2>1, <2>2, <3>2
        <4> QED  BY <2>1, <4>1
      <3> QED  BY <3>1, <3>2
    <2>4. /\ DOMAIN offers' = Offers /\ offers'[o] = next
          /\ \A i \in Offers \ {o} : offers'[i] = offers[i]
      BY <1>5, <2>2 DEF Offered
    <2>5. Offered' \subseteq Offered \cup {o}
      BY <2>4 DEF Offered
    <2>6. ASSUME NEW i \in Offered'
          PROVE  "pricing" \in DOMAIN offers'[i] /\ Priced(offers'[i].pricing)
      <3>1. CASE i = o
        BY <2>3, <2>4, <3>1
      <3>2. CASE i # o
        BY <2>4, <2>5, <3>2 DEF WellPriced, Offered
      <3> QED  BY <3>1, <3>2
    <2> QED  BY <1>1, <1>2, <2>4, <2>6 DEF WellPriced
  <1> QED  BY <1>4, <1>5

LEMMA WithdrawKeeps ==
  ASSUME WellPriced, Alone, DOMAIN job = Jobs, DOMAIN offers = Offers, NEW j \in Jobs, Withdraw(j)
  PROVE  WellPriced' /\ DOMAIN job' = Jobs /\ DOMAIN offers' = Offers
  <1>1. DOMAIN job' = Jobs /\ \A k \in Jobs : job'[k] = Idle
    BY JobIs, NobodyElse, IdleIs DEF Withdraw, Finish
  <1>2. \A k \in Jobs : Pending(job[k])'
    BY <1>1, IdleIs DEF Pending
  <1>3. DOMAIN offers' = Offers /\ \A i \in Offers : offers'[i] \in {offers[i], Withdrawn}
    BY DEF Withdraw
  <1>4. \A i \in Offered' : i \in Offered /\ offers'[i] = offers[i]
    BY <1>3 DEF Offered
  <1> QED  BY <1>1, <1>2, <1>3, <1>4 DEF WellPriced

LEMMA CreateOfferKeeps ==
  ASSUME WellPriced, DOMAIN offers = Offers, NEW o \in Offers, NEW p, NEW pricing, NEW status,
         CreateOffer(o, p, pricing, status)
  PROVE  WellPriced' /\ DOMAIN offers' = Offers /\ job' = job
  <1>1. PICK doc : /\ doc = [provider |-> p, status |-> status, pricing |-> pricing]
                   /\ offers' = [offers EXCEPT ![o] = doc]
    BY DEF CreateOffer
  <1>2. "pricing" \in DOMAIN doc /\ doc.pricing = pricing
    BY <1>1
  <1>3. /\ DOMAIN offers' = Offers /\ offers'[o] = doc
        /\ \A i \in Offers \ {o} : offers'[i] = offers[i]
    BY <1>1
  <1>4. ASSUME NEW i \in Offered'
        PROVE  "pricing" \in DOMAIN offers'[i] /\ Priced(offers'[i].pricing)
    <2>1. CASE i = o
      BY <1>2, <1>3, <2>1 DEF CreateOffer
    <2>2. CASE i # o
      BY <1>3, <2>2 DEF WellPriced, Offered
    <2> QED  BY <2>1, <2>2
  <1>5. job' = job /\ offers[o] = None
    BY DEF CreateOffer
  <1>6. ASSUME NEW j \in Jobs  PROVE Pending(job[j])'
    <2>1. PICK s : s = job[j] /\ Pending(s)
      BY DEF WellPriced
    <2>2. s.op = "offer.save" => s.id # o
      BY <1>5, <2>1 DEF Pending
    <2>3. s.op = "offer.save" => s.id \in Offers /\ offers'[s.id] = offers[s.id]
      BY <1>3, <2>1, <2>2 DEF Pending
    <2> QED  BY <1>5, <2>1, <2>3 DEF Pending, Offered
  <1> QED  BY <1>3, <1>4, <1>5, <1>6 DEF WellPriced

LEMMA PricesKeep == PricesOK /\ [MCNext]_mcVars => PricesOK'
  <1> SUFFICES ASSUME PricesOK, [MCNext]_mcVars  PROVE PricesOK'
    OBVIOUS
  <1>1. ASSUME part' = part, offers' = offers, raced' \in BOOLEAN, part = "catalogue" => FALSE
        PROVE  PricesOK'
    BY <1>1 DEF PricesOK, Offered
  <1>2. ASSUME InAccount \/ InSession  PROVE PricesOK'
    <2>1. part' = part /\ offers' = offers /\ raced' = raced /\ part \in {"account", "session"}
      BY <1>2 DEF InAccount, InSession
    <2> QED  BY <1>1, <2>1 DEF PricesOK
  <1>3. ASSUME InApplications \/ InReputation  PROVE PricesOK'
    <2>1. part' = part /\ offers' = offers /\ Race /\ part \in {"applications", "reputation"}
      BY <1>3 DEF InApplications, InReputation
    <2> QED  BY <1>1, <2>1, NotRaced DEF PricesOK
  <1>4. ASSUME NEW j \in Jobs, job[j] # Idle /\ part \in {"applications", "reputation"},
               UNCHANGED <<offers, part, raced>>
        PROVE  PricesOK'
    BY <1>1, <1>4 DEF PricesOK
  <1>5. ASSUME InCatalogue,
               ~raced' => /\ WellPriced' /\ DOMAIN job' = Jobs /\ DOMAIN offers' = Offers
        PROVE  PricesOK'
    <2>1. part' = "catalogue" /\ Race
      BY <1>5 DEF InCatalogue
    <2>2. raced' \in BOOLEAN /\ (~raced' => Alone')
      BY <2>1, NotRaced DEF PricesOK
    <2> QED  BY <1>5, <2>1, <2>2 DEF PricesOK
  <1>6. ASSUME InCatalogue, ~raced'
        PROVE  WellPriced /\ Alone /\ DOMAIN job = Jobs /\ DOMAIN offers = Offers
    <2>1. part = "catalogue" /\ Race
      BY <1>6 DEF InCatalogue
    <2> QED  BY <1>6, <2>1, NotRaced DEF PricesOK
  <1>7. ASSUME NEW j \in Jobs, CatalogueCall(j), InCatalogue  PROVE PricesOK'
    BY <1>5, <1>6, <1>7, CatalogueCallKeeps
  <1>8. ASSUME NEW j \in Jobs, CatalogueStep(j), InCatalogue  PROVE PricesOK'
    BY <1>5, <1>6, <1>8, SaveOfferKeeps, WithdrawKeeps DEF CatalogueStep
  <1>9. ASSUME NEW o \in Offers, NEW pricing, NEW status, CreateOffer(o, p1, pricing, status), InCatalogue
        PROVE  PricesOK'
    BY <1>5, <1>6, <1>9, CreateOfferKeeps
  <1>10. CASE UNCHANGED mcVars
    BY <1>10 DEF mcVars, account, accountVars, PricesOK, WellPriced, Alone, Pending, Offered
  <1> QED  BY <1>2, <1>3, <1>4, <1>7, <1>8, <1>9, <1>10 DEF MCNext

LEMMA PricesBegin == MCInit => PricesOK
  <1> SUFFICES ASSUME MCInit  PROVE PricesOK
    OBVIOUS
  <1>1. raced = FALSE /\ offers = [o \in Offers |-> None] /\ job = [j \in Jobs |-> Idle]
    BY DEF MCInit, CatalogueInit, AccountInit, BackendInit
  <1>2. Offered = {}
    BY <1>1 DEF Offered
  <1>3. Alone /\ WellPriced
    BY <1>1, <1>2, IdleIs DEF Alone, WellPriced, Pending
  <1> QED  BY <1>1, <1>2, <1>3 DEF PricesOK

(* Though an update validates a price it put together from the service as   *)
(* loaded and then sends only the fields that differ, changes one at a time *)
(* leave every service with a price validatePricing accepts                 *)
(* (provider-services.service.ts).                                          *)
THEOREM PricesStayRight == MCSpec => []PricedRight
  <1>1. PricesOK => PricedRight
    BY DEF PricesOK, PricedRight, WellPriced
  <1> QED  BY <1>1, PricesBegin, PricesKeep, PTL DEF MCSpec

---------------------------------------------------------------------------
(* Ratings.  As long as no two handlers overlap and none fails, a provider  *)
(* whose reviews nobody edited is rated by all of them, or the handler that *)
(* inserted the last is about to write just that rating.                    *)
UpToDate(p) == reputations[p] = Reputed(p)

Rates(s) == s.op \in {"review.aggregate", "review.rate"}

Rerated(p) == \E j \in Jobs : Rates(job[j]) /\ job[j].provider = p

Doing(s) ==
  /\ s.op = "review.aggregate" => Rated(s.provider) # {}
  /\ s.op = "review.rate" => s.rating = Reputed(s.provider)

WellRated ==
  /\ \A p \in Providers \ edited : UpToDate(p) \/ Rerated(p)
  /\ \A j \in Jobs : Doing(job[j])

Unrated == [average |-> 0, total |-> 0]

RatingsOK ==
  /\ raced \in BOOLEAN
  /\ part # "reputation" => Posted = {} /\ \A p \in Providers : reputations[p] = Unrated
  /\ part = "reputation" =>
       /\ faults \in Nat
       /\ ~raced /\ faults = 0 =>
            /\ DOMAIN job = Jobs /\ DOMAIN reviews = Reviews /\ DOMAIN reputations = Providers
            /\ Alone /\ WellRated

LEMMA LeastOf ==
  ASSUME NEW S \in SUBSET Nat, S # {}
  PROVE  \E x \in S : \A y \in S : x <= y
  <1>1. PICK x \in S : \A y \in S : ~(<<y, x>> \in OpToRel(<, Nat))
    BY NatLessThanWellFounded, WFMin
  <1>2. \A y \in S : ~(y < x)
    BY <1>1, Zenon DEF OpToRel
  <1> QED  BY <1>2

(* The rating of a provider depends on the reviews of that provider.        *)
LEMMA SameReviews ==
  ASSUME NEW p, Rated(p)' = Rated(p), \A i \in Rated(p) : reviews'[i] = reviews[i]
  PROVE  Reputed(p)' = Reputed(p)
  <1>1. [i \in Rated(p)' |-> reviews'[i].rating] = [i \in Rated(p) |-> reviews[i].rating]
    OBVIOUS
  <1>2. PICK f : f = [i \in Rated(p)' |-> reviews'[i].rating] /\ f = [i \in Rated(p) |-> reviews[i].rating]
    BY <1>1
  <1>3. Reputed(p)' = [average |-> Mean(f), total |-> Cardinality(Rated(p))]
    BY <1>2 DEF Reputed
  <1> QED  BY <1>2, <1>3 DEF Reputed

LEMMA NoReviews ==
  ASSUME NEW p, Posted = {}
  PROVE  Reputed(p) = Unrated
  <1>1. Rated(p) = {}
    BY DEF Rated
  <1>2. Cardinality({}) = 0
    BY FS_EmptySet
  <1>3. PICK f : f = [i \in Rated(p) |-> reviews[i].rating]
    OBVIOUS
  <1>4. DOMAIN f = {}
    BY <1>1, <1>3
  <1>5. Mean(f) = 0
    BY <1>2, <1>4 DEF Mean
  <1>6. Reputed(p) = [average |-> Mean(f), total |-> Cardinality(Rated(p))]
    BY <1>3 DEF Reputed
  <1> QED  BY <1>1, <1>2, <1>5, <1>6 DEF Unrated

(* A review inserted counts for its provider alone.                         *)
LEMMA InsertCounts ==
  ASSUME DOMAIN reviews = Reviews, NEW j \in Jobs, NEW b \in Bookings, NEW r \in Ratings, Insert(j, b, r)
  PROVE  /\ Rated(BookedProvider[b])' # {}
         /\ \A p : p # BookedProvider[b] => Reputed(p)' = Reputed(p)
  <1>1. NotYet \subseteq Nat /\ NotYet # {}
    BY ReputationAssumption DEF NotYet, Insert
  <1>2. PICK new \in NotYet : new = Min(NotYet)
    BY <1>1, LeastOf DEF Min
  <1>3. PICK doc \in ReviewDoc : doc = [booking |-> b, rating |-> r]
    BY DEF ReviewDoc
  <1>4. reviews' = [reviews EXCEPT ![new] = doc] /\ new \in Reviews /\ reviews[new] = None
    BY <1>2, <1>3 DEF Insert, NotYet
  <1>5. reviews'[new] = doc /\ \A i \in Reviews \ {new} : reviews'[i] = reviews[i]
    BY <1>4
  <1>6. Posted' = Posted \cup {new} /\ new \notin Posted /\ Posted \subseteq Reviews
    BY <1>3, <1>4, <1>5, NullIsNoReview DEF Posted
  <1>7. new \in Rated(BookedProvider[b])'
    BY <1>3, <1>5, <1>6 DEF Rated
  <1>8. ASSUME NEW p, p # BookedProvider[b]  PROVE Reputed(p)' = Reputed(p)
    <2>1. \A i \in Posted : reviews'[i] = reviews[i]
      BY <1>5, <1>6
    <2>2. Rated(p)' = Rated(p)
      BY <1>3, <1>5, <1>6, <1>8, <2>1 DEF Rated
    <2> QED  BY <2>1, <2>2, SameReviews DEF Rated
  <1> QED  BY <1>7, <1>8

(* Before a handler starts that will be alone, there is none.               *)
LEMMA NobodyBefore ==
  ASSUME Alone', DOMAIN job = Jobs, NEW j \in Jobs, Free(j), NEW next, next # Idle, Become(j, next)
  PROVE  \A k \in Jobs : job[k] = Idle /\ (k # j => job'[k] = Idle)
  BY JobIs DEF Alone, Free

LEMMA ReviewCallKeeps ==
  ASSUME WellRated, Alone', DOMAIN job = Jobs, DOMAIN reviews = Reviews, DOMAIN reputations = Providers,
         NEW j \in Jobs, ReputationCall(j), edited' = edited
  PROVE  /\ WellRated' /\ DOMAIN job' = Jobs /\ DOMAIN reviews' = Reviews
         /\ DOMAIN reputations' = Providers
  <1>1. ASSUME NEW b \in Bookings, NEW r \in Ratings, Insert(j, b, r)
        PROVE  /\ WellRated' /\ DOMAIN job' = Jobs /\ DOMAIN reviews' = Reviews
               /\ DOMAIN reputations' = Providers
    <2>1. PICK next : next = [op |-> "review.aggregate", provider |-> BookedProvider[b]]
      OBVIOUS
    <2>2. Become(j, next) /\ Free(j) /\ reputations' = reputations /\ DOMAIN reviews' = Reviews
      BY <1>1, <2>1 DEF Insert
    <2>3. next.op = "review.aggregate" /\ next.provider = BookedProvider[b] /\ next # Idle
      BY <2>1, IdleIs
    <2>4. /\ job'[j] = next /\ DOMAIN job' = Jobs
          /\ \A k \in Jobs : job[k] = Idle /\ (k # j => job'[k] = Idle)
      BY <2>2, <2>3, JobIs, NobodyBefore
    <2>5. \A p \in Providers \ edited : UpToDate(p)
      BY <2>4, IdleIs DEF WellRated, Rerated, Rates
    <2>6. ASSUME NEW p \in Providers \ edited'  PROVE UpToDate(p)' \/ Rerated(p)'
      <3>1. CASE p = BookedProvider[b]
        BY <2>3, <2>4, <3>1 DEF Rerated, Rates
      <3>2. CASE p # BookedProvider[b]
        BY <1>1, <2>2, <2>5, <3>2, InsertCounts DEF UpToDate
      <3> QED  BY <3>1, <3>2
    <2>7. ASSUME NEW k \in Jobs  PROVE Doing(job[k])'
      <3>1. CASE k = j
        BY <1>1, <2>3, <2>4, <3>1, InsertCounts DEF Doing
      <3>2. CASE k # j
        BY <2>4, <3>2, IdleIs DEF Doing
      <3> QED  BY <3>1, <3>2
    <2> QED  BY <2>2, <2>4, <2>6, <2>7 DEF WellRated
  <1>2. ASSUME NEW i, NEW next, ReviewLoad(j, i, next), next.op \in {"review.save", "review.delete"}
        PROVE  /\ WellRated' /\ DOMAIN job' = Jobs /\ DOMAIN reviews' = Reviews
               /\ DOMAIN reputations' = Providers
    <2>1. Become(j, next) /\ Free(j) /\ reputations' = reputations /\ reviews' = reviews
      BY <1>2 DEF ReviewLoad
    <2>2. next # Idle
      BY <1>2, IdleIs
    <2>3. /\ job'[j] = next /\ DOMAIN job' = Jobs
          /\ \A k \in Jobs : job[k] = Idle /\ (k # j => job'[k] = Idle)
      BY <2>1, <2>2, JobIs, NobodyBefore
    <2>4. \A p \in Providers \ edited : UpToDate(p)
      BY <2>3, IdleIs DEF WellRated, Rerated, Rates
    <2>5. \A p \in Providers \ edited' : UpToDate(p)'
      BY <2>1, <2>4 DEF UpToDate, Reputed, Rated, Posted
    <2>6. \A k \in Jobs : Doing(job[k])'
      BY <1>2, <2>3, IdleIs DEF Doing
    <2> QED  BY <2>1, <2>3, <2>5, <2>6 DEF WellRated
  <1>3. ASSUME NEW i, NEW r, UpdateReview(j, i, r)
        PROVE  \E next : ReviewLoad(j, i, next) /\ next.op \in {"review.save", "review.delete"}
    <2>1. PICK next : next = [op |-> "review.save", id |-> i, rating |-> r]
      OBVIOUS
    <2>2. ReviewLoad(j, i, next) /\ next.op = "review.save"
      BY <1>3, <2>1 DEF UpdateReview
    <2> QED  BY <2>2
  <1>4. ASSUME NEW i, DeleteReview(j, i)
        PROVE  \E next : ReviewLoad(j, i, next) /\ next.op \in {"review.save", "review.delete"}
    <2>1. PICK next : next = [op |-> "review.delete", id |-> i]
      OBVIOUS
    <2>2. ReviewLoad(j, i, next) /\ next.op = "review.delete"
      BY <1>4, <2>1 DEF DeleteReview
    <2> QED  BY <2>2
  <1> QED  BY <1>1, <1>2, <1>3, <1>4 DEF ReputationCall

(* What a handler's end owes when it is the only one.                       *)
LEMMA ReviewStepKeeps ==
  ASSUME WellRated, Alone, DOMAIN job = Jobs, DOMAIN reviews = Reviews, DOMAIN reputations = Providers,
         NEW j \in Jobs, ReputationStep(j),
         edited' = IF job[j].op = "review.rate" THEN edited \ {job[j].provider}
                   ELSE edited \cup {p \in Providers : Reputed(p) # Reputed(p)' /\ job[j].op # "review.rate"}
  PROVE  /\ WellRated' /\ DOMAIN job' = Jobs /\ DOMAIN reviews' = Reviews
         /\ DOMAIN reputations' = Providers
  <1>1. job[j].op \in {"review.aggregate", "review.rate", "review.save", "review.delete", "review.comments"}
    BY DEF ReputationStep, Aggregate, Rate, SaveReview, RemoveReview, RemoveComments
  <1>2. \A k \in Jobs \ {j} : job[k] = Idle
    BY <1>1, NobodyElse, IdleIs
  <1>3. \A p \in Providers \ edited : UpToDate(p) \/ (Rates(job[j]) /\ job[j].provider = p)
    BY <1>2, IdleIs DEF WellRated, Rerated, Rates
  <1>4. ASSUME NEW next, Become(j, next), Doing(next)'
        PROVE  DOMAIN job' = Jobs /\ job'[j] = next /\ \A k \in Jobs : Doing(job[k])'
    <2>1. DOMAIN job' = Jobs /\ job'[j] = next /\ \A k \in Jobs \ {j} : job'[k] = Idle
      BY <1>2, <1>4, JobIs
    <2>2. Doing(Idle)'
      BY IdleIs DEF Doing
    <2> QED  BY <1>4, <2>1, <2>2 DEF Doing
  <1>5. Doing(Idle)'
    BY IdleIs DEF Doing
  <1>6. CASE Aggregate(j)
    <2>1. PICK p : p = job[j].provider
      OBVIOUS
    <2>2. Rated(p) # {}
      BY <1>6, <2>1 DEF WellRated, Doing, Aggregate
    <2>3. PICK next : next = [op |-> "review.rate", provider |-> p, rating |-> Reputed(p)]
      OBVIOUS
    <2>4. Become(j, next) /\ UNCHANGED <<reviews, reputations>> /\ job[j].op = "review.aggregate"
      BY <1>6, <2>1, <2>2, <2>3 DEF Aggregate
    <2>5. next.op = "review.rate" /\ next.provider = p /\ next.rating = Reputed(p)
      BY <2>3
    <2>6. \A q : Reputed(q)' = Reputed(q)
      BY <2>4 DEF Reputed, Rated, Posted
    <2>7. Doing(next)'
      BY <2>5, <2>6 DEF Doing
    <2>8. DOMAIN job' = Jobs /\ job'[j] = next /\ \A k \in Jobs : Doing(job[k])'
      BY <1>4, <2>4, <2>7
    <2>9. ASSUME NEW q \in Providers \ edited'  PROVE UpToDate(q)' \/ Rerated(q)'
      <3>1. CASE UpToDate(q)
        BY <2>4, <2>6, <3>1 DEF UpToDate
      <3>2. CASE q = p
        BY <2>5, <2>8, <3>2 DEF Rerated, Rates
      <3>3. q \in Providers \ edited
        BY <2>4
      <3> QED  BY <1>3, <2>1, <3>1, <3>2, <3>3
    <2> QED  BY <2>4, <2>8, <2>9 DEF WellRated
  <1>7. CASE Rate(j)
    <2>1. PICK p : p = job[j].provider
      OBVIOUS
    <2>2. /\ Become(j, Idle) /\ reviews' = reviews /\ job[j].op = "review.rate"
          /\ reputations' = [reputations EXCEPT ![p] = job[j].rating] /\ edited' = edited \ {p}
      BY <1>7, <2>1 DEF Rate, Finish
    <2>3. \A q : Reputed(q)' = Reputed(q)
      BY <2>2 DEF Reputed, Rated, Posted
    <2>4. job[j].rating = Reputed(p)
      BY <2>1, <2>2 DEF WellRated, Doing
    <2>5. DOMAIN job' = Jobs /\ \A k \in Jobs : Doing(job[k])'
      BY <1>4, <1>5, <2>2
    <2>6. ASSUME NEW q \in Providers \ edited'  PROVE UpToDate(q)'
      <3>1. CASE q = p
        BY <2>2, <2>3, <2>4, <3>1 DEF UpToDate
      <3>2. CASE q # p
        BY <1>3, <2>1, <2>2, <2>3, <3>2 DEF UpToDate
      <3> QED  BY <3>1, <3>2
    <2> QED  BY <2>2, <2>5, <2>6 DEF WellRated
  <1>8. CASE SaveReview(j) \/ RemoveReview(j) \/ RemoveComments(j)
    <2>1. job[j].op \in {"review.save", "review.delete", "review.comments"} /\ reputations' = reputations
      BY <1>8 DEF SaveReview, RemoveReview, RemoveComments
    <2>2. DOMAIN reviews' = Reviews
      BY <1>8 DEF SaveReview, RemoveReview, RemoveComments
    <2>3. PICK after : after = [op |-> "review.comments", id |-> job[j].id]
      OBVIOUS
    <2>4. PICK next \in {Idle, after} : Become(j, next)
      BY <1>8, <2>3 DEF SaveReview, RemoveReview, RemoveComments, Finish
    <2>5. Doing(next)'
      <3>1. next.op \in {"idle", "review.comments"}
        BY <2>3, <2>4, IdleIs
      <3> QED  BY <3>1 DEF Doing
    <2>6. DOMAIN job' = Jobs /\ \A k \in Jobs : Doing(job[k])'
      BY <1>4, <2>4, <2>5
    <2>7. ASSUME NEW q \in Providers \ edited'  PROVE UpToDate(q)'
      <3>1. q \notin edited /\ Reputed(q)' = Reputed(q)
        BY <2>1
      <3>2. UpToDate(q)
        BY <1>3, <2>1, <3>1 DEF Rates
      <3> QED  BY <2>1, <3>1, <3>2 DEF UpToDate
    <2> QED  BY <2>1, <2>2, <2>6, <2>7 DEF WellRated
  <1> QED  BY <1>6, <1>7, <1>8 DEF ReputationStep

LEMMA RatingsKeep == RatingsOK /\ [MCNext]_mcVars => RatingsOK'
  <1> SUFFICES ASSUME RatingsOK, [MCNext]_mcVars  PROVE RatingsOK'
    OBVIOUS
  <1>1. ASSUME part' = part, UNCHANGED <<reviews, reputations>>, raced' \in BOOLEAN, part # "reputation"
        PROVE  RatingsOK'
    BY <1>1 DEF RatingsOK, Posted
  <1>2. ASSUME InAccount \/ InSession  PROVE RatingsOK'
    BY <1>1, <1>2 DEF InAccount, InSession, RatingsOK, idleReputation
  <1>3. ASSUME InApplications \/ InCatalogue  PROVE RatingsOK'
    <2>1. /\ part' = part /\ UNCHANGED <<reviews, reputations>> /\ Race
          /\ part \in {"applications", "catalogue"}
      BY <1>3 DEF InApplications, InCatalogue, idleReputation
    <2> QED  BY <1>1, <2>1, NotRaced DEF RatingsOK
  <1>4. ASSUME NEW j \in Jobs, Abort(j), part \in {"applications", "reputation"},
               UNCHANGED <<idleReputation, part, raced>>
        PROVE  RatingsOK'
    <2>1. CASE part = "reputation"
      <3>1. faults' = faults + 1 /\ faults \in Nat
        BY <1>4, <2>1 DEF Abort, Faulty, RatingsOK
      <3>2. faults' \in Nat /\ faults' # 0
        BY <3>1
      <3> QED  BY <1>4, <2>1, <3>2 DEF RatingsOK
    <2>2. CASE part # "reputation"
      BY <1>1, <1>4, <2>2 DEF RatingsOK, idleReputation
    <2> QED  BY <2>1, <2>2
  <1>5. ASSUME InReputation, faults' = faults,
               ~raced' /\ faults = 0 =>
                 /\ WellRated' /\ DOMAIN job' = Jobs /\ DOMAIN reviews' = Reviews
                 /\ DOMAIN reputations' = Providers
        PROVE  RatingsOK'
    <2>1. part = "reputation" /\ part' = "reputation" /\ Race
      BY <1>5 DEF InReputation
    <2>2. raced' \in BOOLEAN /\ (~raced' => Alone')
      BY <2>1, NotRaced DEF RatingsOK
    <2> QED  BY <1>5, <2>1, <2>2 DEF RatingsOK
  <1>6. ASSUME InReputation, ~raced', faults = 0
        PROVE  /\ WellRated /\ Alone /\ Alone' /\ DOMAIN job = Jobs /\ DOMAIN reviews = Reviews
               /\ DOMAIN reputations = Providers
    <2>1. part = "reputation" /\ Race
      BY <1>6 DEF InReputation
    <2> QED  BY <1>6, <2>1, NotRaced DEF RatingsOK
  <1>7. ASSUME NEW j \in Jobs, ReputationCall(j), edited' = edited, InReputation  PROVE RatingsOK'
    <2>1. faults' = faults
      BY <1>7 DEF ReputationCall, Insert, DeleteReview, UpdateReview, ReviewLoad
    <2> QED  BY <1>5, <1>6, <1>7, <2>1, ReviewCallKeeps
  <1>8. ASSUME NEW j \in Jobs, ReputationStep(j), InReputation,
               edited' = IF job[j].op = "review.rate" THEN edited \ {job[j].provider}
                         ELSE edited \cup {p \in Providers : Reputed(p) # Reputed(p)' /\ job[j].op # "review.rate"}
        PROVE  RatingsOK'
    <2>1. faults' = faults
      BY <1>8 DEF ReputationStep, Aggregate, Rate, SaveReview, RemoveReview, RemoveComments
    <2>2. ASSUME ~raced', faults = 0
          PROVE  /\ WellRated' /\ DOMAIN job' = Jobs /\ DOMAIN reviews' = Reviews
                 /\ DOMAIN reputations' = Providers
      BY <1>6, <1>8, <2>2, ReviewStepKeeps
    <2> QED  BY <1>5, <1>8, <2>1, <2>2
  <1>9. ASSUME NEW i, AddComment(i), edited' = edited, InReputation  PROVE RatingsOK'
    <2>1. UNCHANGED <<reviews, reputations, job, faults, edited>>
      BY <1>9 DEF AddComment
    <2>2. WellRated => WellRated'
      BY <2>1 DEF WellRated, UpToDate, Rerated, Doing, Reputed, Rated, Posted
    <2> QED  BY <1>5, <1>6, <1>9, <2>1, <2>2
  <1>10. CASE UNCHANGED mcVars
    <2>1. UNCHANGED <<reviews, reputations, job, faults, edited, raced, part>>
      BY <1>10 DEF mcVars, account, accountVars, idleReputation
    <2>2. (WellRated => WellRated') /\ (Alone => Alone') /\ Posted' = Posted
      BY <2>1 DEF WellRated, UpToDate, Rerated, Doing, Reputed, Rated, Posted, Alone
    <2> QED  BY <2>1, <2>2 DEF RatingsOK
  <1>11. ASSUME NEW o, NEW pricing, NEW status, CreateOffer(o, p1, pricing, status), InCatalogue
         PROVE  RatingsOK'
    BY <1>3, <1>11
  <1>12. ASSUME NEW p \in Providers, NEW rating \in OwnRatings, UpdateMyRating(p, rating),
                edited' = edited \cup {p}, InReputation
         PROVE  RatingsOK'
    <2>1. /\ UNCHANGED <<reviews, job, faults>> /\ edited' = edited \cup {p}
          /\ reputations' = [reputations EXCEPT ![p] = rating]
      BY <1>12 DEF UpdateMyRating
    <2>2. WellRated /\ DOMAIN reputations = Providers => WellRated' /\ DOMAIN reputations' = Providers
      BY <2>1 DEF WellRated, UpToDate, Rerated, Doing, Reputed, Rated, Posted
    <2> QED  BY <1>5, <1>6, <1>12, <2>1, <2>2
  <1> QED  BY <1>2, <1>3, <1>4, <1>7, <1>8, <1>9, <1>10, <1>11, <1>12 DEF MCNext

LEMMA RatingsBegin == MCInit => RatingsOK
  <1> SUFFICES ASSUME MCInit  PROVE RatingsOK
    OBVIOUS
  <1>1. /\ raced = FALSE /\ reviews = [i \in Reviews |-> None] /\ job = [j \in Jobs |-> Idle]
        /\ reputations = [p \in Providers |-> Unrated] /\ faults = 0
    BY DEF MCInit, ReputationInit, AccountInit, BackendInit, Unrated
  <1>2. Posted = {}
    BY <1>1 DEF Posted
  <1>3. Alone /\ \A j \in Jobs : Doing(job[j])
    BY <1>1, IdleIs DEF Alone, Doing
  <1>4. \A p \in Providers : UpToDate(p)
    BY <1>1, <1>2, NoReviews DEF UpToDate
  <1> QED  BY <1>1, <1>2, <1>3, <1>4 DEF RatingsOK, WellRated

(* Handlers one at a time that do not fail leave a provider whose reviews   *)
(* nobody edited, and who did not write over the rating since, with the     *)
(* mean of all of them (updateProviderRating of reviews.service.ts,         *)
(* updateUser of users.service.ts).                                         *)
THEOREM RatingsCount == MCSpec => []RatedByAll
  <1>1. RatingsOK => RatedByAll
    <2> SUFFICES ASSUME RatingsOK, AtRest, ~raced, NEW p \in Providers \ edited
                 PROVE  reputations[p] = Reputed(p)
      BY DEF RatedByAll
    <2>1. CASE part = "reputation"
      BY <2>1, IdleIs DEF AtRest, Free, RatingsOK, WellRated, Rerated, Rates, UpToDate
    <2>2. CASE part # "reputation"
      BY <2>2, NoReviews DEF RatingsOK
    <2> QED  BY <2>1, <2>2
  <1> QED  BY <1>1, RatingsBegin, RatingsKeep, PTL DEF MCSpec

---------------------------------------------------------------------------
(* Applications.  An approved applicant becomes a provider.                 *)
ApplicationDoc == [user : Applicants, status : ApplicationStatus]

(* The jobs the code has: what a handler has read and has left to write.    *)
ApplicationJob ==
  [op : {"apply.check", "apply.insert", "decision.role"}, user : Applicants]
  \cup [op : {"decision.status"}, user : Applicants, status : ApplicationStatus]

ApplicationJobs == ApplicationJob \cup {Idle}

ApplicationsJobsOK ==
  /\ ApplicationsTypeOK
  /\ job \in [Jobs -> ApplicationJobs]
  /\ faults \in Nat

HasApplied(u) == \E a \in Filed : applications[a].user = u
Approved(u) == \E a \in Filed : applications[a] = [user |-> u, status |-> "approved"]

(* A handler that will yet make u a provider.                               *)
Promotes(s, u) ==
  /\ s.op \in {"decision.status", "decision.role"} /\ s.user = u
  /\ s.op = "decision.status" => s.status = "approved"

(* Between the three writes of a decision somebody approved is a provider,  *)
(* or about to become one, and who is decided about has applied; but for    *)
(* what users have changed themselves.                                      *)
Undecided ==
  \A u \in Applicants :
    "providerStatus" \notin own[u] => (HasApplied(u) <=> applicants[u].providerStatus # "none")

Stands(u) == applicants[u].role = "provider" \/ "role" \in own[u]

Decisions == {"decision.status", "decision.role"}

DecidedApplied == \A j \in Jobs : job[j].op \in Decisions => HasApplied(job[j].user)

Promoted ==
  faults = 0 =>
    \A u \in Applicants :
      Approved(u) => Stands(u) \/ \E j \in Jobs : Promotes(job[j], u)

ApplicationsOK == ApplicationsJobsOK /\ Undecided /\ DecidedApplied /\ Promoted

(* What the type invariant says of single documents.                        *)
LEMMA ApplicationDocs ==
  ASSUME ApplicationsJobsOK
  PROVE  /\ applications \in Seq(ApplicationDoc)
         /\ Filed = 1..Len(applications)
         /\ \A a \in Filed : applications[a] \in ApplicationDoc
         /\ applicants \in [Applicants -> ApplicantDoc]
         /\ own \in [Applicants -> SUBSET {"role", "providerStatus"}]
  <1>1. /\ applications \in Seq(ApplicationDoc) /\ applicants \in [Applicants -> ApplicantDoc]
        /\ own \in [Applicants -> SUBSET {"role", "providerStatus"}]
    BY DEF ApplicationsJobsOK, ApplicationsTypeOK, ApplicationDoc
  <1> HIDE DEF ApplicationDoc
  <1> QED  BY <1>1 DEF Filed

(* The invariant is enough: at rest nobody is about to become a provider.   *)
LEMMA ApplicationsSuffice == ApplicationsOK => ApprovedIsProvider
  <1> SUFFICES ASSUME ApplicationsOK, faults = 0, \A j \in Jobs : Free(j), NEW u \in Applicants
               PROVE  LET filed == {a \in Filed : applications[a].user = u}
                      IN /\ (\E a \in filed : applications[a].status = "approved")
                               => applicants[u].role = "provider" \/ "role" \in own[u]
                         /\ "providerStatus" \notin own[u] =>
                              (filed = {} <=> applicants[u].providerStatus = "none")
    BY DEF ApprovedIsProvider
  <1>0. Idle.op = "idle"
    BY DEF Idle
  <1>1. \A j \in Jobs : ~Promotes(job[j], u)
    BY <1>0 DEF Free, Promotes
  <1>2. ASSUME NEW a \in Filed, applications[a].user = u, applications[a].status = "approved"
        PROVE  Approved(u)
    <2>1. applications[a] \in ApplicationDoc
      BY ApplicationDocs DEF ApplicationsOK
    <2> QED  BY <1>2, <2>1 DEF Approved, ApplicationDoc
  <1> QED  BY <1>1, <1>2 DEF ApplicationsOK, Undecided, Promoted, Stands, HasApplied

(* The fields of a job by its kind.                                         *)
LEMMA ApplicationFields ==
  ASSUME NEW s \in ApplicationJobs
  PROVE  /\ s # Idle => s.user \in Applicants
         /\ s.op = "decision.status" => s.status \in ApplicationStatus
         /\ s = Idle <=> s.op = "idle"
  BY DEF ApplicationJobs, ApplicationJob, Idle

(* The state of a job that becomes s.                                       *)
LEMMA ApplicationJobIs ==
  ASSUME ApplicationsJobsOK, NEW j \in Jobs, NEW s \in ApplicationJobs, Become(j, s)
  PROVE  /\ job' \in [Jobs -> ApplicationJobs]
         /\ job'[j] = s
         /\ \A k \in Jobs \ {j} : job'[k] = job[k]
  BY DEF ApplicationsJobsOK, Become

(* What a step must not take back: who the applications are from.           *)
AuthorsStay ==
  /\ Filed \subseteq Filed'
  /\ \A a \in Filed : applications'[a].user = applications[a].user

(* Who is decided about has applied, also after the step of a job.          *)
LEMMA DecidedStays ==
  ASSUME ApplicationsOK, AuthorsStay, NEW j \in Jobs, NEW s \in ApplicationJobs, Become(j, s),
         s.op \in Decisions => HasApplied(s.user)
  PROVE  DecidedApplied'
  <1> SUFFICES ASSUME NEW k \in Jobs, job'[k].op \in Decisions
               PROVE  \E a \in Filed' : applications'[a].user = job'[k].user
    BY DEF DecidedApplied, HasApplied
  <1>1. HasApplied(job'[k].user)
    <2>1. CASE k = j
      BY <2>1, ApplicationJobIs DEF ApplicationsOK
    <2>2. CASE k # j
      BY <2>2, ApplicationJobIs DEF ApplicationsOK, DecidedApplied
    <2> QED  BY <2>1, <2>2
  <1> QED  BY <1>1 DEF HasApplied, AuthorsStay

(* Who is about to become a provider stays so while another handler steps.  *)
LEMMA PromotedStays ==
  ASSUME ApplicationsOK, NEW j \in Jobs, NEW s \in ApplicationJobs, Become(j, s),
         NEW u \in Applicants, NEW k \in Jobs, Promotes(job[k], u)
  PROVE  k = j \/ Promotes(job'[k], u)
  BY ApplicationJobIs DEF ApplicationsOK

---------------------------------------------------------------------------
(* A handler that has only read.                                            *)
LEMMA ApplicationRead ==
  ASSUME ApplicationsOK, UNCHANGED <<applications, applicants, own, faults>>,
         NEW j \in Jobs, NEW s \in ApplicationJobs, Become(j, s),
         s.op \notin Decisions, job[j].op \notin Decisions
  PROVE  ApplicationsOK'
  <1>1. ApplicationsJobsOK'
    BY ApplicationJobIs DEF ApplicationsOK, ApplicationsJobsOK, ApplicationsTypeOK
  <1>2. DecidedApplied'
    <2>1. AuthorsStay
      BY DEF AuthorsStay, Filed
    <2> QED  BY <2>1, DecidedStays
  <1>3. Promoted'
    <2> SUFFICES ASSUME faults = 0, NEW u \in Applicants, Approved(u), ~Stands(u)
                 PROVE  \E k \in Jobs : Promotes(job'[k], u)
      BY DEF Promoted, Approved, Stands, Filed
    <2>1. PICK k \in Jobs : Promotes(job[k], u)
      BY DEF ApplicationsOK, Promoted
    <2>2. k # j
      BY <2>1 DEF Promotes, Decisions
    <2> QED  BY <2>1, <2>2, PromotedStays
  <1> QED  BY <1>1, <1>2, <1>3 DEF ApplicationsOK, Undecided, HasApplied, Filed

(* create, up to its insert.                                                *)
LEMMA ApplyReads ==
  ASSUME ApplicationsOK, NEW j \in Jobs, ApplyCheck(j) \/ \E u \in Applicants : ApplyLoad(j, u)
  PROVE  ApplicationsOK'
  <1>1. ASSUME NEW u \in Applicants, NEW op \in {"apply.check", "apply.insert"}
        PROVE  [op |-> op, user |-> u] \in ApplicationJobs
    BY DEF ApplicationJobs, ApplicationJob
  <1>2. Idle \in ApplicationJobs /\ Idle.op = "idle" /\ job[j] \in ApplicationJobs
    BY DEF ApplicationJobs, Idle, ApplicationsOK, ApplicationsJobsOK
  <1>3. CASE ApplyCheck(j)
    <2>1. job[j].user \in Applicants
      BY <1>2, <1>3, ApplicationFields DEF ApplyCheck
    <2>2. job[j].op \notin Decisions /\ UNCHANGED <<applications, applicants, own, faults>>
      BY <1>3 DEF ApplyCheck, Decisions
    <2>3. Become(j, Idle) \/ Become(j, [op |-> "apply.insert", user |-> job[j].user])
      BY <1>3 DEF ApplyCheck, Finish
    <2> QED  BY <1>1, <1>2, <2>1, <2>2, <2>3, ApplicationRead DEF Decisions
  <1>4. ASSUME NEW u \in Applicants, ApplyLoad(j, u)
        PROVE  ApplicationsOK'
    BY <1>1, <1>2, <1>4, ApplicationRead DEF ApplyLoad, Decisions, Free
  <1> QED  BY <1>3, <1>4

(* The insert: the author has applied, and nothing is approved by it.       *)
LEMMA ApplyInsertStep ==
  ASSUME ApplicationsOK, NEW j \in Jobs, ApplyInsert(j)
  PROVE  ApplicationsOK'
  <1> DEFINE u == job[j].user
             doc == [user |-> u, status |-> "pending"]
  <1>1. u \in Applicants /\ job[j].op \notin Decisions
    BY ApplicationFields DEF ApplicationsOK, ApplicationsJobsOK, ApplyInsert, Idle, Decisions
  <1>2. /\ applications' = Append(applications, doc) /\ doc \in ApplicationDoc
        /\ faults' = faults
        /\ applicants' = [applicants EXCEPT ![u]["providerStatus"] = "pending"]
        /\ own' = [own EXCEPT ![u] = @ \ {"providerStatus"}]
    BY <1>1 DEF ApplyInsert, Sets, ApplicationDoc, ApplicationStatus
  <1>3. Idle \in ApplicationJobs /\ Idle.op = "idle" /\ Become(j, Idle)
    BY DEF ApplicationJobs, Idle, ApplyInsert, Finish
  <1> HIDE DEF u, doc
  <1>4. /\ applications' \in Seq(ApplicationDoc)
        /\ Filed' = Filed \cup {Len(applications) + 1}
        /\ \A a \in Filed : applications'[a] = applications[a]
        /\ applications'[Len(applications) + 1] = doc
    <2> HIDE DEF ApplicationDoc
    <2> QED  BY <1>2, ApplicationDocs DEF ApplicationsOK, Filed
  <1>5. /\ applicants' \in [Applicants -> ApplicantDoc]
        /\ \A v \in Applicants : applicants'[v].role = applicants[v].role
        /\ applicants'[u].providerStatus = "pending"
        /\ \A v \in Applicants \ {u} : applicants'[v] = applicants[v]
        /\ own' \in [Applicants -> SUBSET {"role", "providerStatus"}]
        /\ \A v \in Applicants \ {u} : own'[v] = own[v]
        /\ \A v \in Applicants : "role" \in own[v] => "role" \in own'[v]
    BY <1>1, <1>2, ApplicationDocs DEF ApplicationsOK, ApplicantDoc, ApplicationStatus
  <1>6. ApplicationsJobsOK'
    BY <1>2, <1>3, <1>4, <1>5, ApplicationJobIs
    DEF ApplicationsOK, ApplicationsJobsOK, ApplicationsTypeOK, ApplicationDoc
  <1>7. AuthorsStay
    BY <1>4 DEF AuthorsStay
  <1>8. DecidedApplied'
    BY <1>3, <1>7, DecidedStays DEF Decisions
  <1>9. Undecided'
    <2> SUFFICES ASSUME NEW v \in Applicants, "providerStatus" \notin own'[v]
                 PROVE  (\E a \in Filed' : applications'[a].user = v)
                          <=> applicants'[v].providerStatus # "none"
      BY DEF Undecided, HasApplied
    <2>1. doc.user = u
      BY DEF doc
    <2> QED  BY <1>4, <1>5, <2>1 DEF ApplicationsOK, Undecided, HasApplied
  <1>10. Promoted'
    <2> SUFFICES ASSUME faults = 0, NEW v \in Applicants, ~Stands(v),
                        NEW a \in Filed', applications'[a] = [user |-> v, status |-> "approved"]
                 PROVE  \E k \in Jobs : Promotes(job'[k], v)
      BY <1>2, <1>5 DEF Promoted, Approved, Stands
    <2>1. doc.status = "pending"
      BY DEF doc
    <2>2. Approved(v)
      BY <1>4, <2>1 DEF Approved
    <2>3. PICK k \in Jobs : Promotes(job[k], v)
      BY <2>2 DEF ApplicationsOK, Promoted
    <2>4. k # j
      BY <1>1, <2>3 DEF Promotes, Decisions
    <2> QED  BY <1>3, <2>3, <2>4, PromotedStays
  <1> QED  BY <1>6, <1>8, <1>9, <1>10 DEF ApplicationsOK

(* The first write of a decision: the application, by whom it is from.      *)
LEMMA DecideStep ==
  ASSUME ApplicationsOK, NEW j \in Jobs, NEW a \in Filed, NEW status \in ApplicationStatus,
         Decide(j, a, status)
  PROVE  ApplicationsOK'
  <1> DEFINE u == applications[a].user
             s == [op |-> "decision.status", user |-> u, status |-> status]
  <1>1. /\ u \in Applicants
        /\ applications' = [applications EXCEPT ![a].status = status]
        /\ UNCHANGED <<applicants, own, faults>>
    BY ApplicationDocs DEF ApplicationsOK, ApplicationDoc, Decide
  <1>2. s \in ApplicationJobs /\ Become(j, s)
    BY <1>1 DEF ApplicationJobs, ApplicationJob, Decide
  <1>3. job[j].op = "idle"
    BY DEF Decide, Free, Idle
  <1>4. /\ applications' \in Seq(ApplicationDoc) /\ Filed' = Filed
        /\ \A b \in Filed : applications'[b].user = applications[b].user
        /\ \A b \in Filed \ {a} : applications'[b] = applications[b]
        /\ applications'[a].status = status
    <2>1. [applications[a] EXCEPT !.status = status] \in ApplicationDoc
          /\ [applications[a] EXCEPT !.status = status].user = u
          /\ [applications[a] EXCEPT !.status = status].status = status
      BY ApplicationDocs DEF ApplicationsOK, ApplicationDoc
    <2> DEFINE d == [applications[a] EXCEPT !.status = status]
    <2>2. applications' = [applications EXCEPT ![a] = d] /\ d \in ApplicationDoc
          /\ d.user = u /\ d.status = status
      BY <1>1, <2>1
    <2> HIDE DEF d, ApplicationDoc
    <2> QED  BY <2>2, ApplicationDocs DEF ApplicationsOK, Filed
  <1> HIDE DEF s
  <1>5. ApplicationsJobsOK'
    BY <1>1, <1>2, <1>4, ApplicationJobIs
    DEF ApplicationsOK, ApplicationsJobsOK, ApplicationsTypeOK, ApplicationDoc
  <1>6. DecidedApplied'
    <2>1. AuthorsStay
      BY <1>4 DEF AuthorsStay
    <2>2. HasApplied(s.user)
      BY DEF HasApplied, s
    <2> QED  BY <1>2, <2>1, <2>2, DecidedStays
  <1>7. Undecided'
    BY <1>1, <1>4 DEF ApplicationsOK, Undecided, HasApplied
  <1>8. Promoted'
    <2> SUFFICES ASSUME faults = 0, NEW v \in Applicants, ~Stands(v),
                        NEW b \in Filed, applications'[b] = [user |-> v, status |-> "approved"]
                 PROVE  \E k \in Jobs : Promotes(job'[k], v)
      BY <1>1, <1>4 DEF Promoted, Approved, Stands
    <2>1. CASE b = a
      <3>1. u = v /\ status = "approved"
        BY <1>4, <2>1
      <3>2. Promotes(s, v)
        BY <3>1 DEF Promotes, s
      <3> QED  BY <1>2, <3>2, ApplicationJobIs DEF ApplicationsOK
    <2>2. CASE b # a
      <3>1. Approved(v)
        BY <1>4, <2>2 DEF Approved
      <3>2. PICK k \in Jobs : Promotes(job[k], v)
        BY <3>1 DEF ApplicationsOK, Promoted
      <3>3. k # j
        BY <1>3, <3>2 DEF Promotes
      <3> QED  BY <1>2, <3>2, <3>3, PromotedStays
    <2> QED  BY <2>1, <2>2
  <1> QED  BY <1>5, <1>6, <1>7, <1>8 DEF ApplicationsOK

(* The later writes of a decision: the user, who has applied.               *)
LEMMA UserStep ==
  ASSUME ApplicationsOK, NEW j \in Jobs, SetProviderStatus(j) \/ SetRole(j)
  PROVE  ApplicationsOK'
  <1> DEFINE u == job[j].user
             s == IF job[j].op = "decision.status" /\ job[j].status = "approved"
                  THEN [op |-> "decision.role", user |-> u] ELSE Idle
  <1>1. /\ u \in Applicants /\ HasApplied(u) /\ job[j].op \in Decisions
        /\ job[j].op = "decision.status" => job[j].status \in ApplicationStatus
    BY ApplicationFields
    DEF ApplicationsOK, ApplicationsJobsOK, DecidedApplied, SetProviderStatus, SetRole, Idle, Decisions
  <1>2. UNCHANGED <<applications, faults>>
    BY DEF SetProviderStatus, SetRole
  <1>3. s \in ApplicationJobs /\ Become(j, s)
    BY <1>1 DEF ApplicationJobs, ApplicationJob, SetProviderStatus, SetRole, AfterStatus, Finish
  <1>4. \/ /\ job[j].op = "decision.status"
           /\ applicants' = [applicants EXCEPT ![u]["providerStatus"] = job[j].status]
           /\ own' = [own EXCEPT ![u] = @ \ {"providerStatus"}]
        \/ /\ job[j].op = "decision.role"
           /\ applicants' = [applicants EXCEPT ![u]["role"] = "provider"]
           /\ own' = [own EXCEPT ![u] = @ \ {"role"}]
    BY DEF SetProviderStatus, SetRole, Sets
  <1>5. /\ applicants' \in [Applicants -> ApplicantDoc]
        /\ own' \in [Applicants -> SUBSET {"role", "providerStatus"}]
        /\ \A v \in Applicants : Stands(v) => Stands(v)'
        /\ job[j].op = "decision.role" => applicants'[u].role = "provider"
        /\ \A v \in Applicants \ {u} : applicants'[v] = applicants[v] /\ own'[v] = own[v]
        /\ "providerStatus" \in own'[u] \/ applicants'[u].providerStatus # "none"
    <2>1. /\ applicants \in [Applicants -> ApplicantDoc]
          /\ own \in [Applicants -> SUBSET {"role", "providerStatus"}]
          /\ "providerStatus" \in own[u] \/ applicants[u].providerStatus # "none"
      BY <1>1, ApplicationDocs DEF ApplicationsOK, Undecided
    <2> QED  BY <1>1, <1>4, <2>1 DEF ApplicantDoc, ApplicationStatus, Stands
  <1>6. ApplicationsJobsOK'
    BY <1>2, <1>3, <1>5, ApplicationJobIs DEF ApplicationsOK, ApplicationsJobsOK, ApplicationsTypeOK
  <1>7. DecidedApplied'
    <2>1. AuthorsStay
      BY <1>2 DEF AuthorsStay, Filed
    <2>2. s.op \in Decisions => HasApplied(s.user)
      BY <1>1 DEF s, Idle, Decisions
    <2> HIDE DEF s
    <2> QED  BY <1>3, <2>1, <2>2, DecidedStays
  <1>8. Undecided'
    BY <1>1, <1>2, <1>5 DEF ApplicationsOK, Undecided, HasApplied, Filed
  <1>9. Promoted'
    <2> SUFFICES ASSUME faults = 0, NEW v \in Applicants, Approved(v), ~Stands(v)'
                 PROVE  \E k \in Jobs : Promotes(job'[k], v)
      BY <1>2 DEF Promoted, Approved, Filed
    <2>1. PICK k \in Jobs : Promotes(job[k], v)
      BY <1>2, <1>5 DEF ApplicationsOK, Promoted
    <2>2. CASE k = j
      <3>1. u = v /\ job[j].op = "decision.status" /\ job[j].status = "approved"
        BY <1>5, <2>1, <2>2 DEF Promotes, Decisions, Stands
      <3>2. Promotes(s, v)
        BY <3>1 DEF Promotes, s
      <3> HIDE DEF s
      <3> QED  BY <1>3, <3>2, ApplicationJobIs DEF ApplicationsOK
    <2>3. CASE k # j
      <3> HIDE DEF s
      <3> QED  BY <1>3, <2>1, <2>3, PromotedStays
    <2> QED  BY <2>2, <2>3
  <1> QED  BY <1>6, <1>7, <1>8, <1>9 DEF ApplicationsOK

(* A user writes: what changes is that user's own.                          *)
LEMMA OwnStep ==
  ASSUME ApplicationsOK, NEW u \in Applicants, NEW doc \in ApplicantDoc, UpdateMe(u, doc)
  PROVE  ApplicationsOK'
  <1>1. /\ applicants' = [applicants EXCEPT ![u] = doc] /\ UNCHANGED <<applications, job, faults>>
        /\ own' = [own EXCEPT ![u] = @ \cup {f \in DOMAIN doc : doc[f] # applicants[u][f]}]
    BY DEF UpdateMe
  <1>2. /\ applicants \in [Applicants -> ApplicantDoc]
        /\ own \in [Applicants -> SUBSET {"role", "providerStatus"}]
    BY ApplicationDocs DEF ApplicationsOK
  <1>3. DOMAIN doc = {"role", "providerStatus"}
        /\ doc.role = doc["role"] /\ doc.providerStatus = doc["providerStatus"]
    BY DEF ApplicantDoc
  <1>4. /\ applicants' \in [Applicants -> ApplicantDoc]
        /\ own' \in [Applicants -> SUBSET {"role", "providerStatus"}]
        /\ \A v \in Applicants : Stands(v) => Stands(v)'
        /\ \A v \in Applicants : "providerStatus" \notin own'[v] =>
             "providerStatus" \notin own[v] /\ applicants'[v].providerStatus = applicants[v].providerStatus
    BY <1>1, <1>2, <1>3 DEF Stands
  <1> QED  BY <1>1, <1>4 DEF ApplicationsOK, ApplicationsJobsOK, ApplicationsTypeOK, Undecided,
                             DecidedApplied, Promoted, HasApplied, Approved, Promotes, Filed

(* A failure: a promotion may be lost, and then nothing is promised.        *)
LEMMA ApplicationsFail ==
  ASSUME ApplicationsOK, UNCHANGED <<applications, applicants, own>>,
         Crash \/ \E j \in Jobs : Abort(j)
  PROVE  ApplicationsOK'
  <1>1. Idle \in ApplicationJobs /\ Idle.op \notin Decisions
    BY DEF ApplicationJobs, Idle, Decisions
  <1>2. faults' \in Nat /\ faults' # 0
    BY DEF Crash, Abort, Faulty, ApplicationsOK, ApplicationsJobsOK
  <1>3. /\ job' \in [Jobs -> ApplicationJobs]
        /\ \A k \in Jobs : job'[k] = job[k] \/ job'[k] = Idle
    BY <1>1, ApplicationJobIs DEF Crash, Abort, Finish, ApplicationsOK, ApplicationsJobsOK
  <1>4. DecidedApplied'
    BY <1>1, <1>3 DEF ApplicationsOK, DecidedApplied, HasApplied, Filed
  <1> QED  BY <1>2, <1>3, <1>4 DEF ApplicationsOK, ApplicationsJobsOK, ApplicationsTypeOK,
                                   Undecided, Promoted, HasApplied, Filed

(* Every step keeps the invariant.                                          *)
LEMMA ApplicationsKeep == ApplicationsOK /\ [ApplicationsNext]_applicationVars => ApplicationsOK'
  <1> SUFFICES ASSUME ApplicationsOK, [ApplicationsNext]_applicationVars
               PROVE  ApplicationsOK'
    OBVIOUS
  <1>1. ASSUME NEW j \in Jobs, ApplicationCall(j)
        PROVE  ApplicationsOK'
    BY <1>1, ApplyReads, DecideStep DEF ApplicationCall
  <1>2. ASSUME NEW j \in Jobs, ApplicationStep(j)
        PROVE  ApplicationsOK'
    BY <1>2, ApplyReads, ApplyInsertStep, UserStep DEF ApplicationStep
  <1>3. CASE UNCHANGED applicationVars
    BY <1>3 DEF applicationVars, ApplicationsOK, ApplicationsJobsOK, ApplicationsTypeOK, Undecided,
                DecidedApplied, Promoted, HasApplied, Approved, Promotes, Stands, Filed
  <1> QED  BY <1>1, <1>2, <1>3, OwnStep, ApplicationsFail DEF ApplicationsNext

(* The invariant holds at first.                                            *)
LEMMA ApplicationsBegin == BackendInit /\ ApplicationsInit => ApplicationsOK
  <1> SUFFICES ASSUME BackendInit, ApplicationsInit
               PROVE  ApplicationsOK
    OBVIOUS
  <1>1. ApplicationsJobsOK
    BY DEF BackendInit, ApplicationsInit, ApplicationsJobsOK, ApplicationsTypeOK, ApplicationJobs,
           ApplicantDoc
  <1>2. Filed = {}
    BY DEF ApplicationsInit, Filed
  <1>3. DecidedApplied
    BY DEF BackendInit, Idle, DecidedApplied, Decisions
  <1> QED  BY <1>1, <1>2, <1>3 DEF ApplicationsOK, Undecided, Promoted, HasApplied, Approved, ApplicationsInit

---------------------------------------------------------------------------
(* The inductive invariant: somebody approved is a provider, about to       *)
(* become one or the author of the present role, and who is decided about   *)
(* has applied (provider-applications.service.ts:101-115,                   *)
(* users.service.ts:90-110).                                                *)
THEOREM ApplicationsInvariant == ApplicationsSpec => []ApplicationsOK
  BY ApplicationsBegin, ApplicationsKeep, PTL DEF ApplicationsSpec

(* At rest an approved applicant is a provider, unless a handler failed or  *)
(* the applicant has since changed the role by PATCH /users/me, however     *)
(* applications, decisions and such changes overlap                         *)
(* (create, updateStatus and setUserProviderStatus).                        *)
THEOREM ApprovedBecomesProvider == ApplicationsSpec => []ApprovedIsProvider
  BY ApplicationsInvariant, ApplicationsSuffice, PTL

---------------------------------------------------------------------------
(* Types.  What handlers of the reviews and of the services on offer hold.  *)
Rating == [average : 0..50, total : 0..Cardinality(Reviews)] \cup OwnRatings

ReviewFits(s) ==
  /\ s.op \in {"review.aggregate", "review.rate"} => s.provider \in Providers
  /\ s.op = "review.rate" => s.rating \in Rating
  /\ s.op \in {"review.save", "review.delete", "review.comments"} => s.id \in Reviews
  /\ s.op = "review.save" => s.rating \in Ratings

OfferFits(s) ==
  /\ s.op \in {"offer.save", "offer.status", "offer.delete"} => s.id \in Offers
  /\ s.op = "offer.status" => s.status \in ServiceStatus
  /\ s.op = "offer.save" => \A f \in DOMAIN s.sends :
       s.sends[f] \in IF f = "pricingType" THEN PricingType ELSE Prices

ReviewsOK == ReputationTypeOK /\ DOMAIN job = Jobs /\ \A j \in Jobs : ReviewFits(job[j])
OffersOK == CatalogueTypeOK /\ DOMAIN job = Jobs /\ \A j \in Jobs : OfferFits(job[j])

(* The mean of ratings from 1 to 5, in tenths and rounded, is at most 50.   *)
LEMMA MeanIsBounded ==
  ASSUME NEW S, IsFiniteSet(S), NEW f \in [S -> 0..5]
  PROVE  Mean(f) \in 0..50
  <1>1. PICK n, sum : n = Cardinality(S) /\ sum = SumFunction(f)
    OBVIOUS
  <1>2. n \in Nat /\ sum \in 0..(5 * n)
    BY <1>1, SumIsBounded, FS_CardinalityType
  <1>3. Mean(f) = IF n = 0 THEN 0 ELSE (20 * sum + n) \div (2 * n)
    BY <1>1 DEF Mean
  <1>4. CASE n = 0
    BY <1>3, <1>4
  <1>5. CASE n # 0
    <2>1. PICK a, b : a = 20 * sum + n /\ b = 2 * n
      OBVIOUS
    <2>2. a \in Nat /\ b \in Nat \ {0} /\ a < 51 * b
      BY <1>2, <1>5, <2>1
    <2>3. a \div b \in 0..50
      BY <2>2
    <2> QED  BY <1>3, <1>5, <2>1, <2>3
  <1> QED  BY <1>4, <1>5

LEMMA ReputedIsRating ==
  ASSUME ReputationTypeOK, NEW p
  PROVE  Reputed(p) \in Rating
  <1>1. Rated(p) \subseteq Reviews
    BY DEF Rated, Posted
  <1>2. IsFiniteSet(Rated(p)) /\ Cardinality(Rated(p)) \in 0..Cardinality(Reviews)
    BY <1>1, ReputationAssumption, FS_Subset, FS_CardinalityType
  <1>3. \A i \in Rated(p) : reviews[i].rating \in 0..5
    <2>1. \A i \in Rated(p) : reviews[i] \in ReviewDoc
      BY <1>1 DEF ReputationTypeOK, Rated, Posted
    <2>2. \A x \in Ratings : x \in 0..5
      BY ReputationAssumption
    <2>3. \A d \in ReviewDoc : d.rating \in Ratings
      BY DEF ReviewDoc
    <2> QED  BY <2>1, <2>2, <2>3
  <1>4. PICK f : f = [i \in Rated(p) |-> reviews[i].rating]
    OBVIOUS
  <1>5. f \in [Rated(p) -> 0..5]
    BY <1>3, <1>4
  <1>6. Mean(f) \in 0..50
    BY <1>2, <1>5, MeanIsBounded
  <1>7. Reputed(p) = [average |-> Mean(f), total |-> Cardinality(Rated(p))]
    BY <1>4 DEF Reputed
  <1> QED  BY <1>2, <1>6, <1>7 DEF Rating

(* One handler of the reviews takes a step.                                 *)
LEMMA ReviewerIs ==
  ASSUME ReviewsOK, NEW j \in Jobs, NEW s, Become(j, s), ReviewFits(s), ReputationTypeOK'
  PROVE  ReviewsOK'
  <1>1. \A k \in Jobs : ReviewFits(job'[k])
    BY JobIs DEF ReviewsOK
  <1>2. DOMAIN job' = Jobs
    BY JobIs DEF ReviewsOK
  <1> QED  BY <1>1, <1>2 DEF ReviewsOK, ReviewFits

LEMMA IdleReviewer == ReviewFits(Idle) /\ OfferFits(Idle)
  BY DEF Idle, ReviewFits, OfferFits

LEMMA ReviewCallTypes ==
  ASSUME ReviewsOK, NEW j \in Jobs, ReputationCall(j)
  PROVE  ReviewsOK'
  <1>1. ASSUME NEW b \in Bookings, NEW r \in Ratings, Insert(j, b, r)
        PROVE  ReviewsOK'
    <2>1. PICK s, doc : s = [op |-> "review.aggregate", provider |-> BookedProvider[b]]
                        /\ doc = [booking |-> b, rating |-> r]
      OBVIOUS
    <2>2. PICK i : reviews' = [reviews EXCEPT ![i] = doc]
      BY <1>1, <2>1 DEF Insert
    <2>3. Become(j, s) /\ UNCHANGED <<comments, reputations>>
      BY <1>1, <2>1 DEF Insert
    <2>4. doc \in ReviewDoc
      BY <2>1 DEF ReviewDoc
    <2>5. ReputationTypeOK'
      BY <2>2, <2>3, <2>4 DEF ReviewsOK, ReputationTypeOK
    <2>6. ReviewFits(s)
      BY <2>1, ReputationAssumption DEF ReviewFits
    <2> QED  BY <2>3, <2>5, <2>6, ReviewerIs
  <1>2. ASSUME NEW i \in Reviews, NEW s, ReviewLoad(j, i, s), ReviewFits(s)
        PROVE  ReviewsOK'
    <2>1. Become(j, s) /\ UNCHANGED <<reviews, comments, reputations>>
      BY <1>2 DEF ReviewLoad
    <2>2. ReputationTypeOK'
      BY <2>1 DEF ReviewsOK, ReputationTypeOK
    <2> QED  BY <1>2, <2>1, <2>2, ReviewerIs
  <1>3. ASSUME NEW i \in Reviews, NEW r \in Ratings, UpdateReview(j, i, r)
        PROVE  ReviewsOK'
    <2>1. PICK s : s = [op |-> "review.save", id |-> i, rating |-> r]
      OBVIOUS
    <2>2. ReviewLoad(j, i, s) /\ ReviewFits(s)
      BY <1>3, <2>1 DEF UpdateReview, ReviewFits
    <2> QED  BY <1>2, <2>2
  <1>4. ASSUME NEW i \in Reviews, DeleteReview(j, i)
        PROVE  ReviewsOK'
    <2>1. PICK s : s = [op |-> "review.delete", id |-> i]
      OBVIOUS
    <2>2. ReviewLoad(j, i, s) /\ ReviewFits(s)
      BY <1>4, <2>1 DEF DeleteReview, ReviewFits
    <2> QED  BY <1>2, <2>2
  <1> QED  BY <1>1, <1>3, <1>4 DEF ReputationCall

LEMMA ReviewStepTypes ==
  ASSUME ReviewsOK, NEW j \in Jobs, ReputationStep(j)
  PROVE  ReviewsOK'
  <1>1. PICK t : t = job[j] /\ ReviewFits(t)
    BY DEF ReviewsOK
  <1>2. CASE Aggregate(j)
    <2>1. UNCHANGED <<reviews, comments, reputations>> /\ t.op = "review.aggregate"
      BY <1>1, <1>2 DEF Aggregate
    <2>2. ReputationTypeOK'
      BY <2>1 DEF ReviewsOK, ReputationTypeOK
    <2>3. PICK s : s = [op |-> "review.rate", provider |-> t.provider, rating |-> Reputed(t.provider)]
      OBVIOUS
    <2>4. Become(j, Idle) \/ Become(j, s)
      BY <1>1, <1>2, <2>3 DEF Aggregate, Finish
    <2>5. Reputed(t.provider) \in Rating
      BY ReputedIsRating DEF ReviewsOK
    <2>6. ReviewFits(s)
      <3>1. s.op = "review.rate" /\ s.provider = t.provider /\ s.rating = Reputed(t.provider)
        BY <2>3
      <3> QED  BY <1>1, <2>1, <2>5, <3>1 DEF ReviewFits
    <2> QED  BY <2>2, <2>4, <2>6, IdleReviewer, ReviewerIs
  <1>3. CASE Rate(j)
    <2>1. /\ reputations' = [reputations EXCEPT ![t.provider] = t.rating]
          /\ t.op = "review.rate" /\ Become(j, Idle) /\ UNCHANGED <<reviews, comments>>
      BY <1>1, <1>3 DEF Rate, Finish
    <2>2. t.rating \in Rating
      BY <1>1, <2>1 DEF ReviewFits
    <2>3. ReputationTypeOK'
      BY <2>1, <2>2 DEF ReviewsOK, ReputationTypeOK, Rating
    <2> QED  BY <2>1, <2>3, IdleReviewer, ReviewerIs
  <1>4. CASE SaveReview(j)
    <2>1. t.op = "review.save" /\ Become(j, Idle) /\ UNCHANGED <<comments, reputations>>
      BY <1>1, <1>4 DEF SaveReview, Finish
    <2>2. \/ UNCHANGED reviews
          \/ t.id \in Posted /\ reviews' = [reviews EXCEPT ![t.id].rating = t.rating]
      BY <1>1, <1>4 DEF SaveReview
    <2>3. t.rating \in Ratings /\ reviews \in [Reviews -> ReviewDoc \cup {None, Deleted}]
      BY <1>1, <2>1 DEF ReviewFits, ReviewsOK, ReputationTypeOK
    <2>4. ASSUME t.id \in Posted
          PROVE  [reviews[t.id] EXCEPT !.rating = t.rating] \in ReviewDoc
      <3>1. reviews[t.id] \in ReviewDoc
        BY <2>3, <2>4 DEF Posted
      <3> QED  BY <2>3, <3>1 DEF ReviewDoc
    <2>5. reviews' \in [Reviews -> ReviewDoc \cup {None, Deleted}]
      BY <2>2, <2>3, <2>4
    <2>6. ReputationTypeOK'
      BY <2>1, <2>5 DEF ReviewsOK, ReputationTypeOK
    <2> QED  BY <2>1, <2>6, IdleReviewer, ReviewerIs
  <1>5. CASE RemoveReview(j)
    <2>1. PICK s : s = [op |-> "review.comments", id |-> t.id]
      OBVIOUS
    <2>2. /\ t.op = "review.delete" /\ Become(j, s) /\ UNCHANGED <<comments, reputations>>
          /\ reviews' = [reviews EXCEPT ![t.id] = Deleted]
      BY <1>1, <1>5, <2>1 DEF RemoveReview
    <2>3. ReputationTypeOK'
      BY <2>2 DEF ReviewsOK, ReputationTypeOK
    <2>4. ReviewFits(s)
      BY <1>1, <2>1, <2>2 DEF ReviewFits
    <2> QED  BY <2>2, <2>3, <2>4, ReviewerIs
  <1>6. CASE RemoveComments(j)
    <2>1. Become(j, Idle) /\ UNCHANGED <<reviews, reputations>> /\ comments' \subseteq comments
      BY <1>6 DEF RemoveComments, Finish
    <2>2. ReputationTypeOK'
      BY <2>1 DEF ReviewsOK, ReputationTypeOK
    <2> QED  BY <2>1, <2>2, IdleReviewer, ReviewerIs
  <1> QED  BY <1>2, <1>3, <1>4, <1>5, <1>6 DEF ReputationStep

(* One handler of the services on offer takes a step.                       *)
LEMMA OffererIs ==
  ASSUME OffersOK, NEW j \in Jobs, NEW s, Become(j, s), OfferFits(s), CatalogueTypeOK'
  PROVE  OffersOK'
  <1>1. \A k \in Jobs : OfferFits(job'[k])
    BY JobIs DEF OffersOK
  <1>2. DOMAIN job' = Jobs
    BY JobIs DEF OffersOK
  <1> QED  BY <1>1, <1>2 DEF OffersOK, OfferFits

LEMMA OfferCallTypes ==
  ASSUME OffersOK, NEW j \in Jobs, CatalogueCall(j)
  PROVE  OffersOK'
  <1>1. ASSUME NEW o \in Offers, NEW p, NEW s, OfferLoad(j, o, p, s), OfferFits(s)
        PROVE  OffersOK'
    <2>1. Become(j, s) /\ UNCHANGED offers
      BY <1>1 DEF OfferLoad
    <2>2. CatalogueTypeOK'
      BY <2>1 DEF OffersOK, CatalogueTypeOK
    <2> QED  BY <1>1, <2>1, <2>2, OffererIs
  <1>2. ASSUME NEW o \in Offers, NEW p, NEW changes, UpdateOffer(j, o, p, changes),
               \A f \in DOMAIN changes :
                 changes[f] \in IF f = "pricingType" THEN PricingType ELSE Prices
        PROVE  OffersOK'
    <2>1. PICK sends : sends = Sent(offers[o].pricing, changes)
      OBVIOUS
    <2>2. PICK s : s = [op |-> "offer.save", id |-> o, sends |-> sends]
      OBVIOUS
    <2>3. OfferLoad(j, o, p, s)
      BY <1>2, <2>1, <2>2 DEF UpdateOffer
    <2>4. DOMAIN sends \subseteq DOMAIN changes /\ \A f \in DOMAIN sends : sends[f] = changes[f]
      BY <2>1 DEF Sent
    <2>5. s.op = "offer.save" /\ s.id = o /\ s.sends = sends
      BY <2>2
    <2>6. OfferFits(s)
      BY <1>2, <2>4, <2>5 DEF OfferFits
    <2> QED  BY <1>1, <2>3, <2>6
  <1>3. ASSUME NEW o \in Offers, NEW p, NEW changes \in Changes, UpdateOffer(j, o, p, changes)
        PROVE  OffersOK'
    <2>1. PICK fields \in SUBSET {"pricingType", "basePrice", "minPrice", "maxPrice"},
               type \in PricingType, price \in [{"basePrice", "minPrice", "maxPrice"} -> Prices] :
            changes = [f \in fields |-> IF f = "pricingType" THEN type ELSE price[f]]
      BY DEF Changes
    <2>2. \A f \in DOMAIN changes : changes[f] \in IF f = "pricingType" THEN PricingType ELSE Prices
      BY <2>1
    <2> QED  BY <1>2, <1>3, <2>2
  <1>5. ASSUME NEW o \in Offers, NEW p, NEW status \in ServiceStatus, UpdateStatus(j, o, p, status)
        PROVE  OffersOK'
    <2>1. PICK s : s = [op |-> "offer.status", id |-> o, status |-> status]
      OBVIOUS
    <2>2. OfferLoad(j, o, p, s) /\ OfferFits(s)
      BY <1>5, <2>1 DEF UpdateStatus, OfferFits
    <2> QED  BY <1>1, <2>2
  <1>6. ASSUME NEW o \in Offers, NEW p, DeleteOffer(j, o, p)
        PROVE  OffersOK'
    <2>1. PICK s : s = [op |-> "offer.delete", id |-> o]
      OBVIOUS
    <2>2. OfferLoad(j, o, p, s) /\ OfferFits(s)
      BY <1>6, <2>1 DEF DeleteOffer, OfferFits
    <2> QED  BY <1>1, <2>2
  <1> QED  BY <1>3, <1>5, <1>6 DEF CatalogueCall, Offered

(* The schema of a service on offer.                                        *)
OfferDoc == [provider : Providers, status : ServiceStatus, pricing : Pricing]

(* The sends of a save leave a service its shape.                           *)
LEMMA ChangedIsPricing ==
  ASSUME NEW doc \in Pricing, NEW sends,
         \A f \in DOMAIN sends : sends[f] \in IF f = "pricingType" THEN PricingType ELSE Prices
  PROVE  Changed(doc, sends) \in Pricing
  <1>1. DOMAIN doc = {"pricingType", "basePrice", "minPrice", "maxPrice"}
        /\ doc["pricingType"] \in PricingType
        /\ \A f \in {"basePrice", "minPrice", "maxPrice"} : doc[f] \in Prices \cup {Nothing}
    BY DEF Pricing
  <1>2. PICK r : r = Changed(doc, sends)
    OBVIOUS
  <1>3. r = [f \in DOMAIN doc |-> IF f \in DOMAIN sends THEN sends[f] ELSE doc[f]]
    BY <1>2 DEF Changed
  <1>4. r["pricingType"] \in PricingType
    BY <1>1, <1>3
  <1>5. \A f \in {"basePrice", "minPrice", "maxPrice"} : r[f] \in Prices \cup {Nothing}
    BY <1>1, <1>3
  <1>6. r = [f \in {"pricingType", "basePrice", "minPrice", "maxPrice"} |-> r[f]]
    BY <1>1, <1>3
  <1>7. r \in Pricing
    BY <1>4, <1>5, <1>6 DEF Pricing
  <1> QED  BY <1>2, <1>7

LEMMA OfferStepTypes ==
  ASSUME OffersOK, NEW j \in Jobs, CatalogueStep(j)
  PROVE  OffersOK'
  <1>1. PICK t : t = job[j] /\ OfferFits(t)
    BY DEF OffersOK
  <1>2. offers \in [Offers -> OfferDoc \cup {None, Withdrawn}]
    BY DEF OffersOK, CatalogueTypeOK, OfferDoc
  <1>3. CASE SaveOffer(j)
    <2>1. t.op \in {"offer.save", "offer.status"} /\ Become(j, Idle)
      BY <1>1, <1>3 DEF SaveOffer, Finish
    <2>2. CASE t.id \notin Offered
      <3>1. UNCHANGED offers
        BY <1>1, <1>3, <2>2 DEF SaveOffer
      <3>2. CatalogueTypeOK'
        BY <3>1 DEF OffersOK, CatalogueTypeOK
      <3> QED  BY <2>1, <3>2, IdleReviewer, OffererIs
    <2>3. CASE t.id \in Offered
      <3>1. PICK doc \in OfferDoc : doc = offers[t.id]
        BY <1>2, <2>3 DEF Offered
      <3>2. PICK new : /\ offers' = [offers EXCEPT ![t.id] = new]
                       /\ new = IF t.op = "offer.save"
                                THEN [doc EXCEPT !.pricing = Changed(doc.pricing, t.sends)]
                                ELSE [doc EXCEPT !.status = t.status]
        BY <1>1, <1>3, <2>3, <3>1 DEF SaveOffer
      <3>3. new \in OfferDoc
        <4>1. CASE t.op = "offer.save"
          <5>1. Changed(doc.pricing, t.sends) \in Pricing
            BY <1>1, <3>1, <4>1, ChangedIsPricing DEF OfferDoc, OfferFits
          <5>2. PICK c \in Pricing : c = Changed(doc.pricing, t.sends)
            BY <5>1
          <5>3. new = [doc EXCEPT !.pricing = c]
            BY <3>2, <4>1, <5>2
          <5> HIDE DEF Pricing
          <5> QED  BY <3>1, <5>2, <5>3 DEF OfferDoc
        <4>2. CASE t.op = "offer.status"
          BY <1>1, <3>1, <3>2, <4>2 DEF OfferDoc, OfferFits
        <4> QED  BY <2>1, <4>1, <4>2
      <3>4. offers' \in [Offers -> OfferDoc \cup {None, Withdrawn}]
        BY <1>2, <3>2, <3>3
      <3>5. CatalogueTypeOK'
        BY <3>4 DEF CatalogueTypeOK, OfferDoc
      <3> QED  BY <2>1, <3>5, IdleReviewer, OffererIs
    <2> QED  BY <2>2, <2>3
  <1>4. CASE Withdraw(j)
    <2>1. Become(j, Idle) /\ offers' = [offers EXCEPT ![t.id] = Withdrawn]
      BY <1>1, <1>4 DEF Withdraw, Finish
    <2>2. CatalogueTypeOK'
      BY <1>2, <2>1 DEF CatalogueTypeOK, OfferDoc
    <2> QED  BY <2>1, <2>2, IdleReviewer, OffererIs
  <1> QED  BY <1>3, <1>4 DEF CatalogueStep

LEMMA CreateOfferTypes ==
  ASSUME OffersOK, NEW o \in Offers, NEW pricing \in MCPricings, NEW status \in ServiceStatus,
         CreateOffer(o, p1, pricing, status)
  PROVE  OffersOK'
  <1>1. pricing \in Pricing /\ p1 \in Providers
    BY MCServicesAssumption DEF MCPricings, Pricing, PricingType
  <1>2. PICK doc : doc = [provider |-> p1, status |-> status, pricing |-> pricing]
    OBVIOUS
  <1>3. doc \in OfferDoc
    BY <1>1, <1>2 DEF OfferDoc
  <1>4. offers' = [offers EXCEPT ![o] = doc] /\ job' = job
    BY <1>2 DEF CreateOffer
  <1>5. offers \in [Offers -> OfferDoc \cup {None, Withdrawn}]
    BY DEF OffersOK, CatalogueTypeOK, OfferDoc
  <1>6. offers' \in [Offers -> OfferDoc \cup {None, Withdrawn}]
    BY <1>3, <1>4, <1>5
  <1>7. CatalogueTypeOK'
    BY <1>6 DEF CatalogueTypeOK, OfferDoc
  <1> QED  BY <1>4, <1>7 DEF OffersOK

(* What every service relies on, each while it is the one at work.          *)
ServicesInv ==
  /\ ServicesTypeOK
  /\ part = "account" => AccountOK
  /\ part = "session" => SessionOK
  /\ part = "applications" => ApplicationsOK
  /\ part = "reputation" => ReviewsOK
  /\ part = "catalogue" => OffersOK

(* The shapes of accounts and of what the browser stores.                   *)
LEMMA AccountShapes == AccountOK => AccountTypeOK
  BY DEF AccountOK, AccountsFit, AccountTypeOK

LEMMA CallKinds == \A c \in CallType : c = NoCall \/ c.kind \in Kinds
  BY DEF CallType, Ask, Leave, Kinds

LEMMA StoreShapes == BrowserOK => StoreTypeOK
  BY CallKinds DEF BrowserOK, StoreTypeOK

(* A service at rest keeps its shape.                                       *)
LEMMA AccountRests == AccountTypeOK /\ UNCHANGED idleAccount => AccountTypeOK' /\ StoreTypeOK' = StoreTypeOK
  BY DEF AccountTypeOK, StoreTypeOK, idleAccount, browser

LEMMA BrowserRests == UNCHANGED browser => StoreTypeOK' = StoreTypeOK
  BY DEF StoreTypeOK, browser

LEMMA ApplicationsRest == UNCHANGED idleApplications => ApplicationsTypeOK' = ApplicationsTypeOK
  BY DEF ApplicationsTypeOK, idleApplications

LEMMA ReputationRests == UNCHANGED idleReputation => ReputationTypeOK' = ReputationTypeOK
  BY DEF ReputationTypeOK, idleReputation

LEMMA OffersRest == UNCHANGED offers => CatalogueTypeOK' = CatalogueTypeOK
  BY DEF CatalogueTypeOK

LEMMA ServicesKeep == ServicesInv /\ [MCNext]_mcVars => ServicesInv'
  <1> SUFFICES ASSUME ServicesInv, [MCNext]_mcVars  PROVE ServicesInv'
    OBVIOUS
  <1>1. ASSUME AccountNext, InAccount  PROVE ServicesInv'
    <2>1. part = "account" /\ part' = "account"
          /\ UNCHANGED <<idleApplications, idleReputation, offers, browser>>
      BY <1>1 DEF InAccount
    <2>2. AccountOK'
      BY <1>1, <2>1, AccountKeeps DEF ServicesInv
    <2>3. AccountTypeOK'
      BY <2>2, AccountShapes DEF AccountOK, AccountsFit, AccountTypeOK
    <2> QED  BY <2>1, <2>2, <2>3, BrowserRests, ApplicationsRest, ReputationRests, OffersRest
             DEF ServicesInv, ServicesTypeOK
  <1>2. ASSUME SessionNext, InSession  PROVE ServicesInv'
    <2>1. part = "session" /\ part' = "session"
          /\ UNCHANGED <<idleApplications, idleReputation, offers>>
      BY <1>2 DEF InSession
    <2>2. SessionOK'
      BY <1>2, <2>1, SessionKeeps DEF ServicesInv
    <2>3. AccountTypeOK'
      BY <2>2 DEF SessionOK, AccountOK, AccountsFit, AccountTypeOK
    <2>4. StoreTypeOK'
      BY <2>2, CallKinds DEF SessionOK, BrowserOK, StoreTypeOK
    <2> QED  BY <2>1, <2>2, <2>3, <2>4, ApplicationsRest, ReputationRests, OffersRest
             DEF ServicesInv, ServicesTypeOK
  <1>3. ASSUME part = "applications", part' = part, ApplicationsNext,
               UNCHANGED <<idleAccount, idleReputation, offers>>
        PROVE  ServicesInv'
    <2>1. ApplicationsOK'
      BY <1>3, ApplicationsKeep DEF ServicesInv
    <2>2. ApplicationsTypeOK'
      BY <2>1 DEF ApplicationsOK, ApplicationsJobsOK
    <2> QED  BY <1>3, <2>1, <2>2, AccountRests, ReputationRests, OffersRest
             DEF ServicesInv, ServicesTypeOK
  <1>4. ASSUME part = "reputation", part' = part, ReviewsOK',
               UNCHANGED <<idleAccount, idleApplications, offers>>
        PROVE  ServicesInv'
    <2>1. ReputationTypeOK'
      BY <1>4 DEF ReviewsOK
    <2> QED  BY <1>4, <2>1, AccountRests, ApplicationsRest, OffersRest
             DEF ServicesInv, ServicesTypeOK
  <1>5. ASSUME part = "catalogue", part' = part, OffersOK',
               UNCHANGED <<idleAccount, idleApplications, idleReputation>>
        PROVE  ServicesInv'
    <2>1. CatalogueTypeOK'
      BY <1>5 DEF OffersOK
    <2> QED  BY <1>5, <2>1, AccountRests, ApplicationsRest, ReputationRests
             DEF ServicesInv, ServicesTypeOK
  <1>6. ASSUME NEW j \in Jobs, ApplicationCall(j) \/ ApplicationStep(j), InApplications
        PROVE  ServicesInv'
    BY <1>3, <1>6 DEF InApplications, ApplicationsNext
  <1>7. ASSUME NEW j \in Jobs, ReputationCall(j) \/ ReputationStep(j), InReputation
        PROVE  ServicesInv'
    <2>1. part = "reputation" /\ part' = part
          /\ UNCHANGED <<idleAccount, idleApplications, offers>>
      BY <1>7 DEF InReputation
    <2>2. ReviewsOK'
      BY <1>7, <2>1, ReviewCallTypes, ReviewStepTypes DEF ServicesInv
    <2> QED  BY <1>4, <2>1, <2>2
  <1>8. ASSUME NEW i \in Reviews, AddComment(i), InReputation  PROVE ServicesInv'
    <2>1. part = "reputation" /\ part' = part
          /\ UNCHANGED <<idleAccount, idleApplications, offers>>
      BY <1>8 DEF InReputation
    <2>2. UNCHANGED <<reviews, reputations, job>> /\ comments' = comments \cup {i}
      BY <1>8 DEF AddComment
    <2>3. ReviewsOK
      BY <2>1 DEF ServicesInv
    <2>4. ReviewsOK'
      BY <2>2, <2>3 DEF ReviewsOK, ReputationTypeOK, ReviewFits
    <2> QED  BY <1>4, <2>1, <2>4
  <1>9. ASSUME NEW j \in Jobs, CatalogueCall(j) \/ CatalogueStep(j), InCatalogue
        PROVE  ServicesInv'
    <2>1. part = "catalogue" /\ part' = part
          /\ UNCHANGED <<idleAccount, idleApplications, idleReputation>>
      BY <1>9 DEF InCatalogue
    <2>2. OffersOK'
      BY <1>9, <2>1, OfferCallTypes, OfferStepTypes DEF ServicesInv
    <2> QED  BY <1>5, <2>1, <2>2
  <1>10. ASSUME NEW o \in Offers, NEW pricing \in MCPricings, NEW status \in ServiceStatus,
                CreateOffer(o, p1, pricing, status), InCatalogue
         PROVE  ServicesInv'
    <2>1. part = "catalogue" /\ part' = part
          /\ UNCHANGED <<idleAccount, idleApplications, idleReputation>>
      BY <1>10 DEF InCatalogue
    <2>2. OffersOK'
      BY <1>10, <2>1, CreateOfferTypes DEF ServicesInv
    <2> QED  BY <1>5, <2>1, <2>2
  <1>11. ASSUME NEW j \in Jobs, job[j] # Idle, part \in {"applications", "reputation"}, Abort(j),
                UNCHANGED <<idleAccount, idleApplications, idleReputation, offers, part>>
         PROVE  ServicesInv'
    <2>1. CASE part = "applications"
      BY <1>3, <1>11, <2>1 DEF ApplicationsNext, Free, idleApplications
    <2>2. CASE part = "reputation"
      <3>1. ReviewsOK /\ Become(j, Idle)
        BY <1>11, <2>2 DEF ServicesInv, Abort, Finish
      <3>2. ReputationTypeOK'
        BY <1>11, <3>1, ReputationRests DEF ReviewsOK
      <3>3. ReviewsOK'
        BY <3>1, <3>2, IdleReviewer, ReviewerIs
      <3> QED  BY <1>4, <1>11, <2>2, <3>3
    <2> QED  BY <1>11, <2>1, <2>2
  <1>12. CASE UNCHANGED mcVars
    <2>1. UNCHANGED <<accountVars, browser, idleAccount, idleApplications, idleReputation, offers, part>>
      BY <1>12 DEF mcVars, account, idleAccount, accountVars
    <2>2. UNCHANGED <<job, sessionVars, applicationVars>>
      BY <2>1 DEF accountVars, sessionVars, applicationVars, idleApplications
    <2>3. ServicesTypeOK'
      BY <2>1, AccountRests, ApplicationsRest, ReputationRests, OffersRest
      DEF ServicesInv, ServicesTypeOK
    <2>4. (AccountOK => AccountOK') /\ (SessionOK => SessionOK') /\ (ApplicationsOK => ApplicationsOK')
      BY <2>1, <2>2, AccountKeeps, SessionKeeps, ApplicationsKeep
    <2>5. ReviewsOK => ReviewsOK'
      BY <2>1, <2>2, ReputationRests DEF ReviewsOK, ReviewFits
    <2>6. OffersOK => OffersOK'
      BY <2>1, <2>2, OffersRest DEF OffersOK, OfferFits
    <2> QED  BY <2>1, <2>3, <2>4, <2>5, <2>6 DEF ServicesInv
  <1>13. ASSUME NEW u \in Applicants, NEW doc \in ApplicantDoc, UpdateMe(u, doc), InApplications
         PROVE  ServicesInv'
    BY <1>3, <1>13 DEF InApplications, ApplicationsNext
  <1>14. ASSUME NEW p \in Providers, NEW rating \in OwnRatings, UpdateMyRating(p, rating), InReputation
         PROVE  ServicesInv'
    <2>1. part = "reputation" /\ part' = part
          /\ UNCHANGED <<idleAccount, idleApplications, offers>>
      BY <1>14 DEF InReputation
    <2>2. UNCHANGED <<reviews, comments, job>> /\ reputations' = [reputations EXCEPT ![p] = rating]
      BY <1>14 DEF UpdateMyRating
    <2>3. ReviewsOK
      BY <2>1 DEF ServicesInv
    <2>4. ReviewsOK'
      BY <1>14, <2>2, <2>3 DEF ReviewsOK, ReputationTypeOK, ReviewFits
    <2> QED  BY <1>4, <2>1, <2>4
  <1> QED  BY <1>1, <1>2, <1>6, <1>7, <1>8, <1>9, <1>10, <1>11, <1>12, <1>13, <1>14 DEF MCNext

LEMMA ServicesBegin == MCInit => ServicesInv
  <1> SUFFICES ASSUME MCInit  PROVE ServicesInv
    OBVIOUS
  <1>1. /\ AccountInit /\ SessionInit /\ ApplicationsInit /\ ReputationInit /\ CatalogueInit
        /\ BackendInit /\ job = [j \in Jobs |-> Idle]
    BY DEF MCInit, AccountInit, BackendInit
  <1>2. SessionOK
    BY <1>1, SessionBegins
  <1>3. AccountOK /\ BrowserOK
    BY <1>2 DEF SessionOK
  <1>4. ApplicationsOK /\ ApplicationsTypeOK
    BY <1>1, ApplicationsBegin DEF ApplicationsOK, ApplicationsJobsOK
  <1>5. ReputationTypeOK
    <2>1. Cardinality(Reviews) \in Nat
      BY ReputationAssumption, FS_CardinalityType
    <2> QED  BY <1>1, <2>1 DEF ReputationInit, ReputationTypeOK
  <1>6. CatalogueTypeOK
    BY <1>1 DEF CatalogueInit, CatalogueTypeOK
  <1>7. ReviewsOK /\ OffersOK
    BY <1>1, <1>5, <1>6, IdleReviewer DEF ReviewsOK, OffersOK
  <1> QED  BY <1>2, <1>3, <1>4, <1>5, <1>6, <1>7, AccountShapes, StoreShapes
           DEF ServicesInv, ServicesTypeOK

(* What the services store fits their schemas whatever handlers overlap: a  *)
(* stored rating is a mean of ratings and counts no more reviews than there *)
(* are, a save leaves a service on offer its shape, and what the browser    *)
(* holds is a session (reviews.service.ts, provider-services.service.ts,    *)
(* provider-applications.service.ts, auth.service.ts).                      *)
THEOREM ServicesTypeCorrect == MCSpec => []ServicesTypeOK
  <1>1. ServicesInv => ServicesTypeOK
    BY DEF ServicesInv
  <1> QED  BY <1>1, ServicesBegin, ServicesKeep, PTL DEF MCSpec
================================================================================
