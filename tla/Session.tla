------------------------------- MODULE Session -------------------------------
(****************************************************************************)
(* A browser signed in with a password: api.ts, auth-store.ts and           *)
(* auth-provider.tsx over Account.  Both tokens lie in localStorage; every  *)
(* call that is refused with 401 reads the refresh token, asks for new ones *)
(* and is sent once more.  Calls overlap, and share the storage.  Each call *)
(* has one handler of the server, the job with its name.                    *)
(****************************************************************************)
EXTENDS Account

(* store is the storage and what the page shows: the access token (valid,   *)
(* expired or none), the refresh token, whether a user is shown.            *)
VARIABLES store, call

browser == <<store, call>>
sessionVars == <<accountVars, browser>>

NoCall == [kind |-> "none", step |-> "none"]
Kinds == {"profile", "other", "sign in", "sign out"}

Quiet == \A j \in Jobs : Free(j) /\ call[j] = NoCall

At(j, step) == call[j].step = step
Goes(j, next) == call' = [call EXCEPT ![j] = next]
Ends(j) == Goes(j, NoCall)
Proceeds(j, step) == Goes(j, [call[j] EXCEPT !.step = step])

---------------------------------------------------------------------------
(* Slips: operators of the code below as a plausible error would have them. *)
KeepsOldRefresh(t) == [store EXCEPT !.access = "valid"]

---------------------------------------------------------------------------
(* setToken and setRefreshToken: of an answer to login, which shows the     *)
(* user, and of one to tryRefreshToken.                                     *)
SignedIn(t) == [access |-> "valid", refresh |-> t, user |-> TRUE]
Renewed(t) == [store EXCEPT !.access = "valid", !.refresh = t]

(* login: the form is offered to nobody signed in. *)
SignIn(j, e) ==
  /\ ~store.user /\ call[j] = NoCall
  /\ e \in Known
  /\ LoginLoad(j, e, accounts[e].password)
  /\ Goes(j, [kind |-> "sign in", step |-> "waiting"])
  /\ UNCHANGED store

(* A call takes the access token along.  checkAuth, on every page load, and *)
(* refreshProfile ask for the profile; the rest are the pages' own calls.   *)
Send(j, kind) ==
  /\ Free(j) /\ call[j] = NoCall
  /\ kind \in {"profile", "other"} /\ store.access # "none"
  /\ kind = "other" => store.user
  /\ Goes(j, [kind |-> kind, step |-> IF store.access = "valid" THEN "granted" ELSE "refused"])
  /\ UNCHANGED <<store, accountVars>>

(* The profile shows the user, whatever was clicked meanwhile. *)
Granted(j) ==
  /\ At(j, "granted")
  /\ Ends(j)
  /\ store' = [store EXCEPT !.user = @ \/ call[j].kind = "profile"]
  /\ UNCHANGED accountVars

(* apiClient.logout: the server hears of it if the access token is valid;   *)
(* the tokens leave the storage when it has answered.                       *)
Departure ==
  [kind |-> "sign out", step |-> IF store.access = "valid" THEN "leaving" ELSE "left",
   token |-> store.refresh]

(* The refresh token is read and looked up; without an active one the call  *)
(* fails, and a failed profile signs out.                                   *)
Refused(j) ==
  /\ At(j, "refused")
  /\ IF store.refresh # None /\ Active(store.refresh)
     THEN RefreshLoad(j, store.refresh) /\ Proceeds(j, "waiting") /\ UNCHANGED store
     ELSE /\ UNCHANGED accountVars
          /\ IF call[j].kind = "profile"
             THEN Goes(j, Departure) /\ store' = [store EXCEPT !.user = FALSE]
             ELSE Ends(j) /\ UNCHANGED store

(* After a refresh the call is sent once more. *)
Receive(j) ==
  /\ At(j, "waiting") /\ job[j].op = "answer"
  /\ Answered(j)
  /\ IF call[j].kind = "sign in"
     THEN Ends(j) /\ store' = SignedIn(job[j].token)
     ELSE Proceeds(j, "granted") /\ store' = Renewed(job[j].token)

SignOut(j) ==
  /\ Free(j) /\ call[j] = NoCall
  /\ store.user
  /\ Goes(j, Departure)
  /\ store' = [store EXCEPT !.user = FALSE]
  /\ UNCHANGED accountVars

ServeSignOut(j) ==
  /\ At(j, "leaving")
  /\ IF call[j].token = None THEN UNCHANGED tokens ELSE Logout(call[j].token)
  /\ Proceeds(j, "left")
  /\ UNCHANGED <<store, accounts, letters, job, clock, faults>>

Forget(j) ==
  /\ At(j, "left")
  /\ Ends(j)
  /\ store' = [store EXCEPT !.access = "none", !.refresh = None]
  /\ UNCHANGED accountVars

AccessExpires ==
  /\ store.access = "valid"
  /\ store' = [store EXCEPT !.access = "expired"]
  /\ UNCHANGED <<call, accountVars>>

(* A page load shows no user until checkAuth has its answer; NextAuth loads *)
(* one after every sign-out, whether or not that has been heard.  Calls in  *)
(* flight are given up, a fault, while the server finishes what it began:   *)
(* given up, a sign-out leaves its tokens in the storage.                   *)
Reload ==
  /\ store.user \/ \E j \in Jobs : call[j] # NoCall
  /\ store' = [store EXCEPT !.user = FALSE]
  /\ call' = [j \in Jobs |-> NoCall]
  /\ IF \E j \in Jobs : call[j] # NoCall THEN Faulty ELSE UNCHANGED faults
  /\ UNCHANGED <<accounts, tokens, letters, job, clock>>

(* The answer to a call that was given up. *)
Unheard(j) ==
  /\ call[j] = NoCall /\ Answered(j) /\ UNCHANGED browser

---------------------------------------------------------------------------
SessionStep(j) ==
  \/ Granted(j) \/ Refused(j) \/ Receive(j) \/ ServeSignOut(j) \/ Forget(j) \/ Unheard(j)

SessionCall(j) ==
  \/ \E e \in Emails : SignIn(j, e)
  \/ \E kind \in Kinds : Send(j, kind)
  \/ SignOut(j)

Store ==
  [access : {"none", "valid", "expired"}, refresh : Tokens \cup {None}, user : BOOLEAN]

SessionInit ==
  /\ store = [access |-> "none", refresh |-> None, user |-> FALSE]
  /\ call = [j \in Jobs |-> NoCall]

(* The account is registered from elsewhere.                                *)
SessionNext ==
  \/ \E j \in Jobs, e \in Emails, p \in Passwords : RegisterLoad(j, e, p) /\ UNCHANGED browser
  \/ \E j \in Jobs : SessionCall(j) \/ SessionStep(j) \/ (AccountStep(j) /\ UNCHANGED browser)
  \/ AccessExpires \/ Reload

SessionSpec == AccountInit /\ SessionInit /\ [][SessionNext]_sessionVars

StoreTypeOK ==
  /\ store \in Store
  /\ \A j \in Jobs : call[j] = NoCall \/ call[j].kind \in Kinds

---------------------------------------------------------------------------
(* However calls overlap with each other and with a sign-out, a browser at  *)
(* rest never holds a refresh token that was revoked, unless an answer was  *)
(* lost or a page load gave a call up, as the one after a sign-out may:     *)
(* with such a token the next refresh would sign the user out               *)
(* (api.ts:88-109 and 138-156 over auth.service.ts:406-431).                *)
StoredTokenLives ==
  Quiet /\ faults = 0 /\ store.refresh # None => tokens[store.refresh].state # "revoked"
==============================================================================
