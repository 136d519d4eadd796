---------------------------- MODULE TokenRefresh ----------------------------
(***************************************************************************)
(* The access token of one browser tab and the requests that depend on it  *)
(* (frontend/app/lib/api/client.ts, stores/authStore.ts, useAuthSync.ts).  *)
(* A request answered with 401 refreshes the token and is sent again;      *)
(* requests answered with 401 meanwhile wait in failedQueue.  Independently*)
(* a timer refreshes the token before it expires, the user logs in and     *)
(* out, and other tabs change the token in localStorage.                   *)
(*                                                                         *)
(* JavaScript runs one callback at a time and drains the promise reactions *)
(* it caused before the next one, so the reaction to each answer is one    *)
(* step.  Of a token only its presence matters: the backend may answer any *)
(* request that carries one with 401.  A fresh token lives longer than the *)
(* margin before expiry at which the timer is set (60 and 2 minutes).      *)
(***************************************************************************)
EXTENDS Naturals, FiniteSets

CONSTANTS
  Requests,       (* API requests of the tab                                 *)
  MaxBackground   (* bound: refreshes in flight that no request waits for    *)

ASSUME TokenAssumption ==
  /\ IsFiniteSet(Requests)
  /\ MaxBackground \in Nat \ {0}

VARIABLES
  \* kept by the browser across page loads
  token,          (* localStorage holds auth_token                           *)
  authenticated,  (* isAuthenticated of the persisted auth store             *)
  cookie,         (* the refresh token cookie, while the backend accepts it  *)
  \* the page
  timer,          (* proactiveRefreshTimeout is set                          *)
  background,     (* refreshes in flight that no request waits for           *)
  signing,        (* login() awaits /auth/me                                 *)
  isRefreshing, failedQueue,
  \* the requests: status, Authorization header, _retry flag
  req, header, retried,
  \* history
  sends,          (* times a request was sent                                *)
  bare,           (* nothing was scheduled for the token the page came by    *)
  loggedOut       (* the user logged out and nobody logged in since          *)

stored == <<token, authenticated, cookie>>
page == <<timer, background, signing>>
queueing == <<isRefreshing, failedQueue>>
requests == <<req, header, retried, sends>>
vars == <<stored, page, queueing, requests, bare, loggedOut>>

InFlight == {r \in Requests : req[r] \in {"sent", "queued", "refreshing"}}
Settled == {"done", "failed", "gone"}

Init ==
  /\ token = FALSE /\ authenticated = FALSE /\ cookie = FALSE
  /\ timer = FALSE /\ background = 0 /\ signing = FALSE
  /\ isRefreshing = FALSE /\ failedQueue = {}
  /\ req = [r \in Requests |-> "new"]
  /\ header = [r \in Requests |-> FALSE]
  /\ retried = [r \in Requests |-> FALSE]
  /\ sends = [r \in Requests |-> 0]
  /\ bare = FALSE /\ loggedOut = FALSE

-----------------------------------------------------------------------------
\* The request interceptor: the header of each request becomes the stored
\* token; without one a header from an earlier attempt stays.
Dispatch(S, present) ==
  /\ req' = [r \in Requests |-> IF r \in S THEN "sent" ELSE req[r]]
  /\ header' = [r \in Requests |-> IF r \in S THEN header[r] \/ present ELSE header[r]]
  /\ sends' = [r \in Requests |-> IF r \in S THEN sends[r] + 1 ELSE sends[r]]

\* processQueue, and the request that waited for the refresh itself.
Waiting(r) == failedQueue \cup {r}

Send(r) ==
  /\ req[r] = "new"
  /\ Dispatch({r}, token)
  /\ UNCHANGED <<stored, page, queueing, retried, bare, loggedOut>>

Succeeds(r) ==
  /\ req[r] = "sent"
  /\ req' = [req EXCEPT ![r] = "done"]
  /\ UNCHANGED <<stored, page, queueing, header, retried, sends, bare, loggedOut>>

\* Any error the response interceptor passes on: no answer within 30 s, a
\* status other than 401, a 401 without a header, a 401 after _retry.
Fails(r) ==
  /\ req[r] = "sent"
  /\ req' = [req EXCEPT ![r] = "failed"]
  /\ UNCHANGED <<stored, page, queueing, header, retried, sends, bare, loggedOut>>

\* A 401 while another request is refreshing the token.
Enqueue(r) ==
  /\ req[r] = "sent" /\ header[r] /\ ~retried[r]
  /\ isRefreshing
  /\ failedQueue' = failedQueue \cup {r}
  /\ req' = [req EXCEPT ![r] = "queued"]
  /\ UNCHANGED <<stored, page, isRefreshing, header, retried, sends, bare, loggedOut>>

\* Mutant of StartRefresh: _retry is not set.
MutStartRefreshForgetsRetry(r) ==
  /\ req[r] = "sent" /\ header[r] /\ ~retried[r]
  /\ ~isRefreshing
  /\ isRefreshing' = TRUE
  /\ req' = [req EXCEPT ![r] = "refreshing"]
  /\ UNCHANGED <<stored, page, failedQueue, header, retried, sends, bare, loggedOut>>

\* Mutant of StartRefresh: isRefreshing is not looked at.
MutStartRefreshAlways(r) ==
  /\ req[r] = "sent" /\ header[r] /\ ~retried[r]
  /\ retried' = [retried EXCEPT ![r] = TRUE]
  /\ isRefreshing' = TRUE
  /\ req' = [req EXCEPT ![r] = "refreshing"]
  /\ UNCHANGED <<stored, page, failedQueue, header, sends, bare, loggedOut>>

\* The first 401: this request refreshes the token.
StartRefresh(r) ==
  /\ req[r] = "sent" /\ header[r] /\ ~retried[r]
  /\ ~isRefreshing
  /\ retried' = [retried EXCEPT ![r] = TRUE]
  /\ isRefreshing' = TRUE
  /\ req' = [req EXCEPT ![r] = "refreshing"]
  /\ UNCHANGED <<stored, page, failedQueue, header, sends, bare, loggedOut>>

-----------------------------------------------------------------------------
\* refreshAccessToken with an answer: the token is stored and the timer set.
StoreToken ==
  /\ cookie
  /\ token' = TRUE
  /\ timer' = TRUE
  /\ bare' = FALSE
  /\ UNCHANGED <<authenticated, cookie, signing, loggedOut>>

\* refreshAccessToken with any error, a rejection or no answer at all.
DropSession ==
  /\ token' = FALSE
  /\ authenticated' = FALSE
  /\ UNCHANGED <<cookie, timer, signing, bare, loggedOut>>

RefreshSucceeds(r) ==
  /\ req[r] = "refreshing"
  /\ StoreToken
  /\ Dispatch(Waiting(r), TRUE)
  /\ failedQueue' = {}
  /\ isRefreshing' = FALSE
  /\ UNCHANGED <<background, retried>>

\* Mutant of RefreshFails: the queue is dropped, not rejected.
MutRefreshFailsDropsQueue(r) ==
  /\ req[r] = "refreshing"
  /\ DropSession
  /\ req' = [req EXCEPT ![r] = "failed"]
  /\ failedQueue' = {}
  /\ isRefreshing' = FALSE
  /\ UNCHANGED <<background, header, retried, sends>>

\* Everybody who waited is rejected; unless the page is /login already, the
\* browser is sent there, which is a Reload.
RefreshFails(r) ==
  /\ req[r] = "refreshing"
  /\ DropSession
  /\ req' = [q \in Requests |-> IF q \in Waiting(r) THEN "failed" ELSE req[q]]
  /\ failedQueue' = {}
  /\ isRefreshing' = FALSE
  /\ UNCHANGED <<background, header, retried, sends>>

\* The proactive refresh.
TimerFires ==
  /\ timer
  /\ background < MaxBackground
  /\ timer' = FALSE
  /\ background' = background + 1
  /\ UNCHANGED <<stored, signing, queueing, requests, bare, loggedOut>>

BackgroundSucceeds ==
  /\ background > 0
  /\ StoreToken
  /\ background' = background - 1
  /\ UNCHANGED <<queueing, requests>>

BackgroundFails ==
  /\ background > 0
  /\ DropSession
  /\ background' = background - 1
  /\ UNCHANGED <<queueing, requests>>

-----------------------------------------------------------------------------
\* Mutant of Schedule: the immediate refresh does not replace the timer.
MutScheduleBoth(inFlight) == timer' = TRUE /\ background' = inFlight + 1

\* scheduleProactiveRefresh for a token of unknown age: the timer is set, or
\* the token is too close to its expiry and is refreshed at once.
Schedule(inFlight) ==
  \/ timer' = TRUE /\ background' = inFlight
  \/ timer' = FALSE /\ inFlight < MaxBackground /\ background' = inFlight + 1

\* login: POST /auth/login is answered.  The token is stored for the request to
\* /auth/me that login awaits next; the store does not know of it yet.
LoginAnswered ==
  /\ ~signing
  /\ signing' = TRUE
  /\ token' = TRUE /\ cookie' = TRUE
  /\ bare' = TRUE /\ loggedOut' = FALSE
  /\ UNCHANGED <<authenticated, timer, background, queueing, requests>>

\* Mutant of LoginDone: the timer is left to a later sync.
MutLoginDoneSchedulesNothing ==
  /\ signing
  /\ signing' = FALSE
  /\ token' = TRUE /\ authenticated' = TRUE
  /\ bare' = FALSE /\ loggedOut' = FALSE
  /\ UNCHANGED <<cookie, timer, background, queueing, requests>>

\* /auth/me is answered: setAuth stores the token of the login, whatever became
\* of it meanwhile, then scheduleProactiveRefresh.
LoginDone ==
  /\ signing
  /\ signing' = FALSE
  /\ token' = TRUE /\ authenticated' = TRUE
  /\ timer' = TRUE
  /\ bare' = FALSE /\ loggedOut' = FALSE
  /\ UNCHANGED <<cookie, background, queueing, requests>>

\* /auth/me fails: login reports the error and leaves the token where it is.
LoginFails ==
  /\ signing
  /\ signing' = FALSE
  /\ UNCHANGED <<stored, timer, background, queueing, requests, bare, loggedOut>>

\* clearAuth; the timer and the refreshes in flight stay.
ClearAuth ==
  /\ token' = FALSE
  /\ authenticated' = FALSE
  /\ UNCHANGED <<cookie, page, queueing, requests, bare>>

\* The user menu calls clearAuth and navigates inside the application.
Logout ==
  /\ authenticated
  /\ ClearAuth
  /\ loggedOut' = TRUE

\* useAuthSync: the token is expired, is gone, or was refused by /auth/me.
SessionEnds ==
  /\ authenticated \/ token
  /\ ClearAuth
  /\ UNCHANGED loggedOut

\* _syncFromLocalStorage: useAuthSync, and for 5 s after a page load the store's
\* interval, call it for a token the store does not know of.
Sync ==
  /\ token /\ ~authenticated
  /\ authenticated' = TRUE
  /\ Schedule(background)
  /\ bare' = FALSE
  /\ UNCHANGED <<token, cookie, signing, queueing, requests, loggedOut>>

\* Another tab logs in; the storage event calls _syncFromLocalStorage.
OtherTabLogin ==
  /\ token' = TRUE /\ authenticated' = TRUE /\ cookie' = TRUE
  /\ Schedule(background)
  /\ bare' = FALSE /\ loggedOut' = FALSE
  /\ UNCHANGED <<signing, queueing, requests>>

\* Another tab removes the token; _syncFromLocalStorage finds none and does
\* nothing.
OtherTabClears ==
  /\ token
  /\ token' = FALSE
  /\ UNCHANGED <<authenticated, cookie, page, queueing, requests, bare, loggedOut>>

\* The refresh token expires or is revoked.
CookieExpires ==
  /\ cookie
  /\ cookie' = FALSE
  /\ UNCHANGED <<token, authenticated, page, queueing, requests, bare, loggedOut>>

\* The page is loaded again, by the user or by the navigation to /login.  The
\* rehydrated store sets the timer only for a token it does not know of.
Reload ==
  /\ signing' = FALSE
  /\ isRefreshing' = FALSE /\ failedQueue' = {}
  /\ req' = [r \in Requests |-> IF r \in InFlight THEN "gone" ELSE req[r]]
  /\ authenticated' = (authenticated \/ token)
  /\ IF token /\ ~authenticated
     THEN Schedule(0)
     ELSE timer' = FALSE /\ background' = 0
  /\ bare' = (token /\ authenticated)
  /\ UNCHANGED <<token, cookie, header, retried, sends, loggedOut>>

-----------------------------------------------------------------------------
Answer(r) ==
  \/ Succeeds(r)
  \/ Fails(r)
  \/ Enqueue(r)
  \/ StartRefresh(r)

RefreshAnswer(r) ==
  \/ RefreshSucceeds(r)
  \/ RefreshFails(r)

Session ==
  \/ LoginAnswered
  \/ LoginDone
  \/ LoginFails
  \/ Logout
  \/ SessionEnds
  \/ Sync
  \/ OtherTabLogin
  \/ OtherTabClears
  \/ CookieExpires
  \/ Reload

Background ==
  \/ TimerFires
  \/ BackgroundSucceeds
  \/ BackgroundFails

Next ==
  \/ \E r \in Requests : Send(r) \/ Answer(r) \/ RefreshAnswer(r)
  \/ Background
  \/ Session

Spec == Init /\ [][Next]_vars

\* axios ends every request, and refreshAccessToken, after 30 seconds.
FairSpec == Spec /\ \A r \in Requests : WF_vars(Answer(r)) /\ WF_vars(RefreshAnswer(r))
-----------------------------------------------------------------------------
Statuses == {"new", "sent", "queued", "refreshing"} \cup Settled

\* Types of the variables.
TypeOK ==
  /\ token \in BOOLEAN /\ authenticated \in BOOLEAN /\ cookie \in BOOLEAN
  /\ timer \in BOOLEAN /\ signing \in BOOLEAN
  /\ background \in 0 .. MaxBackground
  /\ isRefreshing \in BOOLEAN
  /\ failedQueue \subseteq Requests
  /\ req \in [Requests -> Statuses]
  /\ header \in [Requests -> BOOLEAN]
  /\ retried \in [Requests -> BOOLEAN]
  /\ sends \in [Requests -> Nat]
  /\ bare \in BOOLEAN /\ loggedOut \in BOOLEAN

\* isRefreshing is the lock of the response interceptor: it is taken exactly
\* while one request refreshes, and only then do requests wait in the queue.
RefreshOwner ==
  /\ isRefreshing <=> \E r \in Requests : req[r] = "refreshing"
  /\ \A q, r \in Requests : req[q] = "refreshing" /\ req[r] = "refreshing" => q = r
  /\ failedQueue = {r \in Requests : req[r] = "queued"}
  /\ failedQueue # {} => isRefreshing

\* A backend that answers everything with 401 never causes an endless loop of
\* refreshing and sending again: a request is sent once, and once more for
\* each request that ever refreshed the token.
SendsBounded ==
  \A r \in Requests : sends[r] <= 1 + Cardinality({q \in Requests : retried[q]})

\* A stored token is going to be refreshed before it expires: a timer is set or
\* a refresh is under way, whatever refreshes, logouts and other tabs do.  Only
\* two pages hold a token that nothing looks after: one that came back to its
\* session, and one whose login has not heard from /auth/me, or never will, until
\* the next refresh or sync.
TokenWatched == token => timer \/ background > 0 \/ bare

\* Every request that is sent is settled: no promise waits in failedQueue for
\* a refresh that has ended.
EveryRequestSettles == \A r \in Requests : (req[r] = "sent") ~> (req[r] \in Settled)

\* "Cookie will be deleted by backend on logout" (authStore.ts): after a
\* logout the tab is not authenticated again until somebody logs in.
LoggedOutStaysOut == loggedOut => ~authenticated
=============================================================================
