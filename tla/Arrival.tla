-------------------------------- MODULE Arrival --------------------------------
(****************************************************************************)
(* How a page of the browser finds out who is signed in: AuthProvider with  *)
(* its two effects and the store behind it, the tokens in localStorage, the *)
(* NextAuth session, and the guard of the provider dashboard.               *)
(*                                                                          *)
(* A token is good when the server takes it.  Session.tla has what refresh  *)
(* tokens are on the server; here a page load is followed from its first    *)
(* effect to rest, every await a step.  A job is an async function in       *)
(* flight.                                                                  *)
(****************************************************************************)
EXTENDS Backend

(* session is the NextAuth cookie: with a backend token, good or bad, or    *)
(* bare when linking failed.  view is what useSession returns: the session  *)
(* of lib/auth.ts, plain, until NextAuth has fetched that of its route.     *)
(* access and refresh are the stored tokens, user the store's, check and    *)
(* sync the effects, place the page, mounted the guard's timer.             *)
(*                                                                          *)
(* past remembers what a property needs: clean while no token was bad for   *)
(* good and no refresh token was used twice, and owed when the browser was  *)
(* left with, or given, a working token.                                    *)
VARIABLES app, past

arrivalVars == <<app, past, job, clock, faults>>

Sessions == {"none", "bare", "good", "bad"}
Held == {"none", "good", "bad"}

AppState ==
  [session : Sessions, view : Sessions \cup {"plain"}, access : Held, refresh : Held,
   user : BOOLEAN, loading : BOOLEAN, check : {"due", "running", "done"}, sync : BOOLEAN,
   place : {"dashboard", "auth", "other", "leaving"}, mounted : BOOLEAN]

Profile(who, access) == [op |-> "profile", who |-> who, access |-> access]
Link(who) == [op |-> "link", who |-> who]
Linked(session) == session \in {"good", "bad"}

---------------------------------------------------------------------------
(* Slips: operators of the code below as a plausible error would have them. *)
SyncedUnasked(a) ==
  CASE Linked(a.view) -> [a EXCEPT !.access = a.view, !.user = TRUE]
    [] a.view \in {"plain", "bare"} -> a
    [] OTHER -> [a EXCEPT !.user = FALSE, !.access = "none", !.refresh = "none",
                          !.loading = FALSE]

---------------------------------------------------------------------------
(* The page as the server sends it: the session of lib/auth.ts carries no   *)
(* backend token, so nothing is seeded.                                     *)
Fresh(session, access, refresh, place) ==
  [session |-> session, view |-> IF session = "none" THEN "none" ELSE "plain",
   access |-> access, refresh |-> refresh, user |-> FALSE, loading |-> TRUE,
   check |-> "due", sync |-> FALSE, place |-> place, mounted |-> FALSE]

(* syncFromSession up to its first await.  With a session it sets the token *)
(* and the user the session carries and goes on with SyncCall; without one  *)
(* it ends the loading if a token is stored, whatever checkAuth is doing,   *)
(* and clears the user if none is, once checkAuth is done.                  *)
Synced(a) ==
  IF Linked(a.view) THEN [a EXCEPT !.access = a.view, !.user = TRUE]
  ELSE IF a.view \in {"plain", "bare"} THEN a
  ELSE IF a.access # "none" THEN [a EXCEPT !.loading = FALSE]
  ELSE IF a.check = "done" THEN [a EXCEPT !.user = FALSE, !.refresh = "none", !.loading = FALSE]
  ELSE a

(* A bare session is linked unless that was tried half a minute ago; then   *)
(* the profile is fetched if there is a token.                              *)
SyncCalls(a) ==
  IF a.view = "none" THEN {Idle}
  ELSE IF Linked(a.view) THEN {Profile("sync", a.view)}
  ELSE {IF a.access = "none" THEN Idle ELSE Profile("sync", a.access)}
       \cup {c \in {Link("sync")} : a.view = "bare"}

SyncedUpTo(a, call) ==
  IF a.view # "none" /\ call = Idle THEN [Synced(a) EXCEPT !.loading = FALSE] ELSE Synced(a)

(* The effects of the first render: checkAuth starts, then the sync runs.   *)
Mount(j, k) ==
  /\ app.check = "due" /\ Free(j) /\ Free(k) /\ j # k
  /\ \E call \in SyncCalls(app) :
       /\ app' = SyncedUpTo([app EXCEPT !.check = "running", !.loading = TRUE], call)
       /\ job' = [job EXCEPT ![j] = [op |-> "session"], ![k] = call]
  /\ UNCHANGED <<past, clock, faults>>

(* The sync effect again: the session or hasInitialCheckRun has changed.    *)
SyncRun(k) ==
  /\ app.sync /\ Free(k)
  /\ \E call \in SyncCalls(app) :
       /\ app' = SyncedUpTo([app EXCEPT !.sync = FALSE], call)
       /\ Become(k, call)
  /\ UNCHANGED <<past, clock, faults>>

---------------------------------------------------------------------------
Checked(a) == [a EXCEPT !.loading = FALSE, !.check = "done", !.sync = TRUE]

(* What is left once the linking is over, of either function.               *)
AskProfile(j, who, a) ==
  /\ Become(j, IF a.access = "none" THEN Idle ELSE Profile(who, a.access))
  /\ app' = IF a.access # "none" THEN a
            ELSE IF who = "check" THEN Checked([a EXCEPT !.user = FALSE])
            ELSE [a EXCEPT !.loading = FALSE]

(* getSession has answered, or failed.                                      *)
CheckSession(j) ==
  /\ job[j].op = "session"
  /\ \/ app.session = "bare" /\ Become(j, Link("check")) /\ UNCHANGED <<app, faults>>
     \/ /\ app.session # "bare"
        /\ AskProfile(j, "check",
             IF Linked(app.session)
             THEN [app EXCEPT !.access = app.session, !.user = TRUE] ELSE app)
        /\ UNCHANGED faults
     \/ AskProfile(j, "check", app) /\ Faulty
  /\ UNCHANGED <<past, clock>>

LinkAnswer(j) ==
  /\ job[j].op = "link"
  /\ \/ AskProfile(j, job[j].who, [app EXCEPT !.access = "good"]) /\ UNCHANGED faults
     \/ AskProfile(j, job[j].who, app) /\ Faulty
  /\ UNCHANGED <<past, clock>>

(* apiClient.logout tells the server first and forgets the tokens when it   *)
(* has answered; without a token it forgets at once.  Nobody waits for it.  *)
LogsOut(j, a) ==
  /\ Become(j, IF a.access = "none" THEN Idle ELSE [op |-> "logout"])
  /\ app' = IF a.access = "none" THEN [a EXCEPT !.refresh = "none"] ELSE a

LogoutAnswer(j) ==
  /\ job[j].op = "logout"
  /\ Finish(j)
  /\ app' = [app EXCEPT !.access = "none", !.refresh = "none"]
  /\ UNCHANGED <<past, clock, faults>>

(* Without the profile checkAuth clears the user, the sync only the tokens. *)
ProfileFails(j) ==
  LogsOut(j, IF job[j].who = "check" THEN Checked([app EXCEPT !.user = FALSE])
             ELSE [app EXCEPT !.loading = FALSE])

ProfileAnswer(j) ==
  /\ job[j].op = "profile"
  /\ \/ /\ job[j].access = "good"
        /\ app' = IF job[j].who = "check" THEN Checked([app EXCEPT !.user = TRUE])
                  ELSE [app EXCEPT !.user = TRUE, !.loading = FALSE]
        /\ Finish(j) /\ UNCHANGED faults
     \/ /\ job[j].access = "bad" /\ app.refresh # "none"
        /\ Become(j, [op |-> "renew", who |-> job[j].who, token |-> app.refresh])
        /\ UNCHANGED <<app, faults>>
     \/ job[j].access = "bad" /\ app.refresh = "none" /\ ProfileFails(j) /\ UNCHANGED faults
     \/ ProfileFails(j) /\ Faulty
  /\ UNCHANGED <<past, clock>>

(* A refresh token is good once: whether a second use that is on its way    *)
(* still finds it active depends on who comes first (Session.tla).          *)
RenewAnswer(j) ==
  /\ job[j].op = "renew"
  /\ \/ /\ job[j].token # "bad"
        /\ past' = [past EXCEPT !.clean = @ /\ job[j].token = "good"]
        /\ app' = [app EXCEPT !.access = "good", !.refresh = "good"]
        /\ job' = [k \in Jobs |->
                     IF k = j THEN Profile(job[j].who, "good")
                     ELSE IF job[k].op = "renew" /\ job[k].token = "good"
                          THEN [job[k] EXCEPT !.token = "used"] ELSE job[k]]
        /\ UNCHANGED faults
     \/ /\ job[j].token # "good"
        /\ past' = [past EXCEPT !.clean = FALSE]
        /\ ProfileFails(j) /\ UNCHANGED faults
     \/ ProfileFails(j) /\ Faulty /\ UNCHANGED past
  /\ UNCHANGED clock

---------------------------------------------------------------------------
(* login and register; their form is disabled while isLoading.              *)
Login(j) ==
  /\ app.place = "auth" /\ app.check # "due" /\ ~app.loading /\ Free(j)
  /\ app' = [app EXCEPT !.loading = TRUE]
  /\ Become(j, [op |-> "login"])
  /\ UNCHANGED <<past, clock, faults>>

LoginAnswer(j) ==
  /\ job[j].op = "login"
  /\ \/ /\ app' = [app EXCEPT !.access = "good", !.refresh = "good", !.user = TRUE,
                              !.loading = FALSE,
                              !.place = IF @ = "leaving" THEN @ ELSE "other"]
        /\ past' = [past EXCEPT !.owed = @ \/ app.place # "leaving"]
     \/ app' = [app EXCEPT !.loading = FALSE] /\ UNCHANGED past
  /\ Finish(j)
  /\ UNCHANGED <<clock, faults>>

(* The popup of the auth form leaves a NextAuth session behind; the tab     *)
(* fetches it when it has the focus again.                                  *)
PopupSignIn ==
  /\ app.place = "auth" /\ app.check # "due" /\ app.session = "none"
  /\ \E session \in {"good", "bare"} :
       /\ app' = [app EXCEPT !.session = session, !.place = "other"]
       /\ past' = [past EXCEPT !.owed = @ \/ session = "good"]
  /\ UNCHANGED <<job, clock, faults>>

Refocus ==
  /\ app.check # "due" /\ app.view # app.session
  /\ app' = [app EXCEPT !.view = app.session, !.sync = TRUE]
  /\ UNCHANGED <<past, job, clock, faults>>

(* logout: the user is gone at once, the tokens with the server's answer,   *)
(* and NextAuth's signOut then loads the auth page anew; a page that loads  *)
(* before the answer gives the call up, a fault.                            *)
Logout(j) ==
  /\ app.user /\ app.place # "leaving" /\ Free(j)
  /\ LogsOut(j, [app EXCEPT !.user = FALSE, !.place = "leaving"])
  /\ past' = [past EXCEPT !.owed = FALSE]
  /\ UNCHANGED <<clock, faults>>

Leave ==
  /\ app.place = "leaving"
  /\ app' = Fresh("none", app.access, app.refresh, "auth")
  /\ IF \E j \in Jobs : job[j].op = "logout" THEN Faulty ELSE UNCHANGED faults
  /\ job' = [j \in Jobs |-> Idle]
  /\ UNCHANGED <<past, clock>>

---------------------------------------------------------------------------
(* The guard of app/dashboard/provider looks at the user 300 ms after it    *)
(* was mounted, once nothing is loading.                                    *)
GuardMounts ==
  /\ app.place = "dashboard" /\ app.check # "due" /\ ~app.mounted
  /\ app' = [app EXCEPT !.mounted = TRUE]
  /\ UNCHANGED <<past, job, clock, faults>>

GuardPushes ==
  /\ app.place = "dashboard" /\ app.mounted /\ ~app.loading /\ ~app.user
  /\ app' = [app EXCEPT !.place = "auth"]
  /\ UNCHANGED <<past, job, clock, faults>>

---------------------------------------------------------------------------
(* The page was loaded with whatever the browser had kept: only somebody    *)
(* without a session is let onto the auth page.                             *)
ArrivalInit ==
  /\ BackendInit
  /\ \E session \in Sessions, access \in Held, refresh \in Held, place \in {"dashboard", "auth"} :
       /\ access = "none" => refresh = "none"
       /\ place = "auth" => session = "none"
       /\ app = Fresh(session, access, refresh, place)
       /\ past = [clean |-> session # "bad" /\ refresh # "bad" /\ (access = "bad" => refresh = "good"),
                  owed  |-> session = "good" \/ access = "good" \/ refresh = "good"]

ArrivalStep(j) ==
  \/ CheckSession(j) \/ LinkAnswer(j) \/ ProfileAnswer(j) \/ RenewAnswer(j)
  \/ LoginAnswer(j) \/ LogoutAnswer(j)

ArrivalNext ==
  \/ \E j, k \in Jobs : Mount(j, k)
  \/ \E j \in Jobs : SyncRun(j) \/ ArrivalStep(j) \/ Login(j) \/ Logout(j)
  \/ PopupSignIn \/ Refocus \/ Leave
  \/ GuardMounts \/ GuardPushes

ArrivalSpec == ArrivalInit /\ [][ArrivalNext]_arrivalVars

---------------------------------------------------------------------------
(* Nothing is under way and the page knows the session.                     *)
Arrived ==
  /\ \A j \in Jobs : Free(j)
  /\ app.check = "done" /\ ~app.sync /\ app.place # "leaving"
  /\ app.view = app.session \/ app.view = "plain"

(* However the two effects, a sign-in, a popup and a sign-out interleave,   *)
(* once all is answered a browser that held or was given working tokens     *)
(* shows the user, the user it shows has a token, and nothing is loading    *)
(* (auth-provider.tsx:52-146, auth-store.ts:80-149).                        *)
SignedInIsShown ==
  Arrived /\ faults = 0 /\ past.clean
    => /\ past.owed => app.user
       /\ app.user <=> app.access # "none"
       /\ ~app.loading

(* provider-guard.tsx:21, mounting is tracked to prevent premature          *)
(* redirects: nobody with a working token is sent to sign in.               *)
NoPrematureRedirect == [][GuardPushes => app.access # "good"]_arrivalVars
================================================================================
