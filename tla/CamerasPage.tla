---------------------------- MODULE CamerasPage ----------------------------
(***************************************************************************)
(* The web app, one browser tab: logging in and out (AuthContext.tsx,      *)
(* LoginPage.tsx, ProtectedRoute.tsx) and the camera kit page              *)
(* (CamerasPage.tsx), against the camera store of CameraCalibration.       *)
(*                                                                         *)
(* A fetch is sent, served and applied in three steps, and may fail at any *)
(* of them; nothing orders two fetches.  What a handler does after its     *)
(* await uses the auth of the render that started it.  Leaving the page    *)
(* unmounts it: state set by a handler that is still running is lost, and  *)
(* the next mount starts afresh.  The login form's own error is left out.  *)
(***************************************************************************)
EXTENDS CameraCalibration

CONSTANTS Fetches,     \* list requests under way at once (bound)
          Logins,      \* login requests under way at once (bound)
          MaxMounts    \* bound: mounts of the page

Mounts == 1..MaxMounts
Auths  == [org : Orgs, speaksFor : Orgs]   \* organizationId, and whose user the token is
Kits   == SUBSET [org : Orgs, id : CameraIds]

\* What login, fetch and post hold of a call.
LoginCalls    == [org : Orgs, here : BOOLEAN]
ListCalls     == [mount : Mounts, auth : Auths, awaited : BOOLEAN, answer : {None} \cup Kits]
RegisterCalls == [auth : Auths, phase : {"sent", "created"}, camera : Kits]

\* No session, no call and no error are not one of these.
ASSUME PageConstants ==
  /\ MaxMounts \in Nat
  /\ None \notin Auths \cup Fetches \cup ListCalls \cup {"load", "register"}

VARIABLES
  path,        \* the route shown
  auth,        \* AuthContext, and local storage with it: None or whom
  login,       \* login[l]: None or a login sent: its organization, and whether the
               \* LoginPage that sent it is still there
  mount,                \* how often CamerasPage has been mounted
  shown, error, loading, submitting,   \* its state
  fetch,       \* fetch[f]: None or a listCameras call: its mount, auth, answer
  post,        \* post[m]: None or mount m's registerCamera call: its auth, phase, camera
  \* history, read by the properties only
  mine,        \* cameras this mount was told it has registered
  newest,      \* the last refresh that this mount has sent, until it is answered
  disordered   \* of this mount an earlier refresh was answered after the newest, or
               \* the session changed while it was registering

history  == <<mine, newest, disordered>>
pageVars == <<path, auth, login, mount, shown, error, loading, submitting, fetch, post, history>>
tabVars  == <<vars, pageVars>>
profileVars == <<profiles, submission, reply, before>>   \* the page never touches these

PageState == <<shown, error, loading, submitting>>

\* What a mount of CamerasPage starts with, its first refresh begun.
StartAfresh ==
  /\ shown' = {} /\ error' = None /\ loading' = TRUE /\ submitting' = FALSE
  /\ mine' = {} /\ disordered' = FALSE

PageInit ==
  /\ Init
  /\ path = "/login" /\ auth = None
  /\ login = [l \in Logins |-> None]
  /\ mount = 0
  /\ shown = {} /\ error = None /\ loading = FALSE /\ submitting = FALSE
  /\ mine = {} /\ newest = None /\ disordered = FALSE
  /\ fetch = [f \in Fetches |-> None]
  /\ post = [m \in Mounts |-> None]

-----------------------------------------------------------------------------
OnPage == path = "/cameras"
Mounted(m) == OnPage /\ m = mount

\* listCameras is called; awaited: handleRegister waits for this refresh.
Send(f, m, a, awaited) ==
  /\ fetch[f] = None
  /\ fetch' = [fetch EXCEPT ![f] = [mount |-> m, auth |-> a, awaited |-> awaited, answer |-> None]]

\* CamerasPage is mounted anew under auth a; its effect refreshes.
Mount(a) ==
  /\ mount < MaxMounts
  /\ mount' = mount + 1
  /\ path' = "/cameras"
  /\ StartAfresh
  /\ \E f \in Fetches : Send(f, mount + 1, a, FALSE) /\ newest' = f

-----------------------------------------------------------------------------
(* LoginPage and AuthContext.                                                *)

\* handleSubmit, once at a time for one LoginPage; a session of another account may
\* still be stored.
SubmitLogin(l, o) ==
  /\ path = "/login"
  /\ login[l] = None /\ \A k \in Logins : login[k] # None => ~login[k].here
  /\ login' = [login EXCEPT ![l] = [org |-> o, here |-> TRUE]]
  /\ UNCHANGED <<vars, path, auth, mount, PageState, fetch, post, history>>

\* The LoginPage is left, and its handlers with it go on.
LeaveLogin(answered) ==
  login' = [l \in Logins |-> IF l \in answered \/ login[l] = None THEN None
                             ELSE [login[l] EXCEPT !.here = FALSE]]

\* login(token, organizationId), with the organization that was submitted.
LoggedIn(l) == auth' = [org |-> login[l].org, speaksFor |-> login[l].org]

\* Mutation: the effect runs once, not on auth.
LoginAnsweredOnce(l) ==
  /\ login[l] # None
  /\ LoggedIn(l)
  /\ LeaveLogin({l})
  /\ \/ /\ OnPage
        /\ UNCHANGED <<path, mount, shown, error, loading, submitting, fetch, history>>
     \/ ~OnPage /\ Mount(auth')
  /\ UNCHANGED <<vars, post>>

\* The answer arrives, wherever the user is by now: under a mounted CamerasPage
\* the effect on auth refreshes once more, else the page is mounted.
LoginAnswered(l) ==
  /\ login[l] # None
  /\ LoggedIn(l)
  /\ LeaveLogin({l})
  /\ \/ /\ OnPage
        /\ loading' = TRUE
        /\ \E f \in Fetches : Send(f, mount, auth', FALSE) /\ newest' = f
        /\ disordered' = (disordered \/ (post[mount] # None /\ auth' # auth))
        /\ UNCHANGED <<path, mount, shown, error, submitting, mine>>
     \/ ~OnPage /\ Mount(auth')
  /\ UNCHANGED <<vars, post>>

LoginFails(l) ==
  /\ login[l] # None
  /\ login' = [login EXCEPT ![l] = None]
  /\ UNCHANGED <<vars, path, auth, mount, PageState, fetch, post, history>>

\* logout; ProtectedRoute shows the login page.
Logout ==
  /\ OnPage
  /\ auth' = None
  /\ path' = "/login"
  /\ UNCHANGED <<vars, login, mount, PageState, fetch, post, history>>

\* The browser's Back leaves CamerasPage with the session stored.
Back ==
  /\ OnPage
  /\ path' = "/login"
  /\ UNCHANGED <<vars, auth, login, mount, PageState, fetch, post, history>>

\* Forward: ProtectedRoute lets in whoever has a session.
Forward ==
  /\ path = "/login" /\ auth # None
  /\ Mount(auth)
  /\ LeaveLogin({})
  /\ UNCHANGED <<vars, auth, post>>

\* Reloading the tab: readStoredAuth restores the session, and no handler of the
\* old document ever runs again.  What the service has got it still does.
Reload ==
  /\ OnPage /\ mount < MaxMounts
  /\ mount' = mount + 1
  /\ StartAfresh
  /\ login' = [l \in Logins |-> None]
  /\ \E g \in Fetches :
       newest' = g /\ fetch' = [f \in Fetches |->
         IF f = g THEN [mount |-> mount + 1, auth |-> auth, awaited |-> FALSE, answer |-> None] ELSE None]
  /\ post' = [m \in Mounts |-> IF post[m] # None /\ post[m].phase = "sent" THEN post[m] ELSE None]
  /\ UNCHANGED <<vars, path, auth>>

-----------------------------------------------------------------------------
(* refresh                                                                   *)

\* handleListCameras, for a token of this organization.
ServeList(f) ==
  /\ fetch[f] # None /\ fetch[f].answer = None
  /\ fetch[f].auth.org = fetch[f].auth.speaksFor
  /\ fetch' = [fetch EXCEPT ![f].answer = Owned(cameras, fetch[f].auth.org)]
  /\ UNCHANGED <<vars, path, auth, login, mount, PageState, post, history>>

\* Mutation: the state lives above the page and outlasts it.
AppliesAlways(m) == OnPage

\* React drops what an unmounted component sets.
Applies(m) == Mounted(m)

\* The rest of refresh, and of handleRegister if that awaited it.
Refreshed(f, ok) ==
  /\ fetch' = [fetch EXCEPT ![f] = None]
  /\ IF Applies(fetch[f].mount)
     THEN /\ shown' = IF ok THEN fetch[f].answer ELSE shown
          /\ error' = IF ok THEN None ELSE "load"
          /\ loading' = FALSE
          /\ submitting' = (submitting /\ ~fetch[f].awaited)
     ELSE UNCHANGED PageState
  /\ newest' = IF f = newest THEN None ELSE newest
  /\ disordered' = (disordered \/ (Mounted(fetch[f].mount) /\ newest = None))
  /\ UNCHANGED <<vars, path, auth, login, mount, post, mine>>

ListArrives(f) == fetch[f] # None /\ fetch[f].answer # None /\ Refreshed(f, TRUE)

\* No connection, a cut one, or a status that is not 2xx: listCameras throws.
ListFails(f) == fetch[f] # None /\ Refreshed(f, FALSE)

-----------------------------------------------------------------------------
(* handleRegister                                                            *)

Submit ==
  /\ OnPage /\ ~submitting
  /\ submitting' = TRUE
  /\ error' = None
  /\ post' = [post EXCEPT ![mount] = [auth |-> auth, phase |-> "sent", camera |-> {}]]
  /\ UNCHANGED <<vars, path, auth, login, mount, shown, loading, fetch, history>>

\* RegisterCamera for an organizer_admin of this organization.
ServeRegister(m) ==
  /\ post[m] # None /\ post[m].phase = "sent"
  /\ post[m].auth.org = post[m].auth.speaksFor
  /\ CreateCamera(post[m].auth.org)
  /\ post' = [post EXCEPT ![m].phase = "created", ![m].camera = cameras' \ cameras]
  /\ UNCHANGED <<profileVars, path, auth, login, mount, PageState, fetch, history>>

\* After the 201: the closure's refresh, with the auth of the submit.
Registered(m) ==
  /\ post[m] # None /\ post[m].phase = "created"
  /\ post' = [post EXCEPT ![m] = None]
  /\ \E f \in Fetches :
       /\ Send(f, m, post[m].auth, TRUE)
       /\ newest' = IF Mounted(m) THEN f ELSE newest
  /\ IF Mounted(m) THEN loading' = TRUE /\ mine' = mine \cup post[m].camera
                   ELSE UNCHANGED <<loading, mine>>
  /\ UNCHANGED <<vars, path, auth, login, mount, shown, error, submitting, disordered>>

\* Mutation: the button is enabled on success only.
RegisterFailsDisabled(m) ==
  /\ post[m] # None
  /\ post' = [post EXCEPT ![m] = None]
  /\ IF Mounted(m) THEN error' = "register" ELSE UNCHANGED error
  /\ UNCHANGED <<vars, path, auth, login, mount, shown, loading, submitting, fetch, history>>

\* It throws: refused, never sent, or created and the reply lost.
RegisterFails(m) ==
  /\ post[m] # None
  /\ post' = [post EXCEPT ![m] = None]
  /\ IF Mounted(m) THEN error' = "register" /\ submitting' = FALSE
                   ELSE UNCHANGED <<error, submitting>>
  /\ UNCHANGED <<vars, path, auth, login, mount, shown, loading, fetch, history>>

\* The service restarts; the organization's cameras are gone.
RestartService == LoseCameras /\ UNCHANGED <<profileVars, pageVars>>

User ==
  \/ \E l \in Logins, o \in Orgs : SubmitLogin(l, o)
  \/ Logout \/ Back \/ Forward \/ Reload \/ Submit

\* What the network and the page's handlers do on their own.
Settle ==
  \/ \E l \in Logins : LoginAnswered(l) \/ LoginFails(l)
  \/ \E f \in Fetches : ServeList(f) \/ ListArrives(f) \/ ListFails(f)
  \/ \E m \in Mounts : ServeRegister(m) \/ Registered(m) \/ RegisterFails(m)

PageNext == User \/ Settle \/ RestartService

PageSpec == PageInit /\ [][PageNext]_tabVars

\* A fetch is answered or fails: the connection does not hang for ever.
FairPageSpec ==
  /\ PageSpec
  /\ \A f \in Fetches : WF_tabVars(ListArrives(f) \/ ListFails(f))
  /\ \A m \in Mounts : WF_tabVars(Registered(m) \/ RegisterFails(m))

-----------------------------------------------------------------------------
PageTypeOK ==
  /\ path \in {"/login", "/cameras"}
  /\ auth \in {None} \cup Auths
  /\ login \in [Logins -> {None} \cup LoginCalls]
  /\ mount \in 0..MaxMounts
  /\ shown \in Kits /\ mine \in Kits
  /\ error \in {None, "load", "register"}
  /\ loading \in BOOLEAN /\ submitting \in BOOLEAN
  /\ fetch \in [Fetches -> {None} \cup ListCalls]
  /\ post \in [Mounts -> {None} \cup RegisterCalls]
  /\ newest \in Fetches \cup {None} /\ disordered \in BOOLEAN
  /\ OnPage => auth # None /\ mount > 0

\* The page has settled: nothing it began is under way and it shows no error.
AtRest ==
  /\ OnPage /\ ~loading /\ ~submitting /\ error = None
  /\ \A f \in Fetches : fetch[f] # None => fetch[f].mount # mount

\* At rest, the list has every camera of the session's organization that the user
\* was told is registered and that the service still has.  Refreshes of one mount
\* may overlap and be answered in any order, and so may those of earlier mounts:
\* only one that is answered after a later one of the same mount, or a session that
\* changes while a registration is under way, can take a camera away.
OwnCamerasShown ==
  AtRest /\ ~disordered => {c \in mine \cap cameras : c.org = auth.org} \subseteq shown

\* At rest, the list is the session's organization's and nobody else's, whatever
\* sessions and mounts came before, and even if another session came under the
\* mount while its list was still to come, with the same two exceptions.
ShownCamerasAreOurs == AtRest /\ ~disordered => \A c \in shown : c.org = auth.org

\* What CamerasPage.tsx says of itself: everything already registered to this org.
EverythingOfOursIsShown ==
  AtRest => /\ {c \in mine \cap cameras : c.org = auth.org} \subseteq shown
            /\ \A c \in shown : c.org = auth.org

\* The register button does not stay disabled: every registration ends, one way
\* or the other, or the page is left.
SubmittingEnds == (OnPage /\ submitting) ~> ~(OnPage /\ submitting)
=============================================================================
