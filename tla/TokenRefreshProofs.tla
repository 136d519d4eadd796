------------------------- MODULE TokenRefreshProofs -------------------------
(* Proofs about TokenRefresh, for any number of requests. *)
EXTENDS TokenRefresh, FiniteSetTheorems, TLAPS

-----------------------------------------------------------------------------
(* Types. *)

\* The bound on the refreshes that run in the background.
LEMMA ScheduleType ==
  ASSUME NEW n \in 0 .. MaxBackground, Schedule(n)
  PROVE  timer' \in BOOLEAN /\ background' \in 0 .. MaxBackground
<1>1. CASE timer' = TRUE /\ background' = n
  BY <1>1
<1>2. CASE timer' = FALSE /\ n < MaxBackground /\ background' = n + 1
  <2>1. background' \in 0 .. MaxBackground
    BY <1>2, TokenAssumption
  <2>2. QED
    BY <1>2, <2>1
<1>3. QED
  BY <1>1, <1>2 DEF Schedule

LEMMA TypeStep ==
  ASSUME TypeOK, [Next]_vars
  PROVE  TypeOK'
<1> USE TokenAssumption DEF TypeOK, Statuses, Settled
<1>1. ASSUME NEW r \in Requests, Send(r) PROVE TypeOK'
  BY <1>1 DEF Send, Dispatch, stored, page, queueing
<1>2. ASSUME NEW r \in Requests, Answer(r) PROVE TypeOK'
  BY <1>2 DEF Answer, Succeeds, Fails, Enqueue, StartRefresh, stored, page, queueing
<1>3. ASSUME NEW r \in Requests, RefreshSucceeds(r) PROVE TypeOK'
  <2>1. sends' \in [Requests -> Nat]
    BY <1>3 DEF RefreshSucceeds, Dispatch
  <2>2. req' \in [Requests -> Statuses]
    BY <1>3 DEF RefreshSucceeds, Dispatch
  <2>3. header' \in [Requests -> BOOLEAN]
    BY <1>3, Zenon DEF RefreshSucceeds, Dispatch
  <2>4. QED
    BY <1>3, <2>1, <2>2, <2>3 DEF RefreshSucceeds, StoreToken
<1>4. ASSUME NEW r \in Requests, RefreshFails(r) PROVE TypeOK'
  BY <1>4 DEF RefreshFails, DropSession, Waiting
<1>5. CASE Background
  <2>1. background' \in 0 .. MaxBackground
    <3>1. /\ background \in Nat /\ MaxBackground \in Nat /\ background <= MaxBackground
          /\ \/ background < MaxBackground /\ background' = background + 1
             \/ background > 0 /\ background' = background - 1
      BY <1>5 DEF Background, TimerFires, BackgroundSucceeds, BackgroundFails
    <3>2. QED
      BY <3>1
  <2>2. QED
    BY <1>5, <2>1 DEF Background, TimerFires, BackgroundSucceeds, BackgroundFails,
              StoreToken, DropSession, stored, queueing, requests
<1>6. CASE LoginAnswered \/ LoginDone \/ LoginFails \/ Logout \/ SessionEnds
           \/ OtherTabClears \/ CookieExpires
  BY <1>6 DEF LoginAnswered, LoginDone, LoginFails, Logout, SessionEnds,
              ClearAuth, OtherTabClears, CookieExpires,
              stored, page, queueing, requests
<1>7. CASE Sync \/ OtherTabLogin
  BY <1>7, ScheduleType DEF Sync, OtherTabLogin, queueing, requests
<1>8. CASE Reload
  <2>1. timer' \in BOOLEAN /\ background' \in 0 .. MaxBackground
    BY <1>8, ScheduleType, 0 \in 0 .. MaxBackground DEF Reload
  <2>2. req' \in [Requests -> Statuses]
    BY <1>8 DEF Reload
  <2>3. QED
    BY <1>8, <2>1, <2>2 DEF Reload
<1>9. CASE UNCHANGED vars
  BY <1>9 DEF vars, stored, page, queueing, requests
<1>10. QED
  BY <1>1, <1>2, <1>3, <1>4, <1>5, <1>6, <1>7, <1>8, <1>9
     DEF Next, RefreshAnswer, Session

\* Every variable keeps its type.
THEOREM TypeCorrect == Spec => []TypeOK
<1>1. Init => TypeOK
  <2>1. 0 \in 0 .. MaxBackground
    BY TokenAssumption
  <2>2. ASSUME Init
        PROVE  /\ req \in [Requests -> Statuses] /\ header \in [Requests -> BOOLEAN]
               /\ retried \in [Requests -> BOOLEAN] /\ sends \in [Requests -> Nat]
    BY <2>2 DEF Init, Statuses
  <2>3. QED
    BY <2>1, <2>2 DEF Init, TypeOK
<1>2. TypeOK /\ [Next]_vars => TypeOK'
  BY TypeStep
<1>3. QED
  BY <1>1, <1>2, PTL DEF Spec

-----------------------------------------------------------------------------
(* The interceptor's lock and its queue. *)

LEMMA OwnerStep ==
  ASSUME TypeOK, RefreshOwner, [Next]_vars
  PROVE  RefreshOwner'
<1> USE DEF RefreshOwner, TypeOK, Statuses, Settled
<1>1. ASSUME NEW r \in Requests, Send(r) PROVE RefreshOwner'
  BY <1>1 DEF Send, Dispatch, queueing
<1>2. ASSUME NEW r \in Requests, Succeeds(r) \/ Fails(r) PROVE RefreshOwner'
  BY <1>2 DEF Succeeds, Fails, queueing
<1>3. ASSUME NEW r \in Requests, Enqueue(r) PROVE RefreshOwner'
  BY <1>3 DEF Enqueue
<1>4. ASSUME NEW r \in Requests, StartRefresh(r) PROVE RefreshOwner'
  BY <1>4 DEF StartRefresh
<1>5. ASSUME NEW r \in Requests, RefreshSucceeds(r) PROVE RefreshOwner'
  BY <1>5 DEF RefreshSucceeds, Dispatch, Waiting
<1>6. ASSUME NEW r \in Requests, RefreshFails(r) PROVE RefreshOwner'
  BY <1>6 DEF RefreshFails, Waiting
<1>7. CASE Background
  BY <1>7 DEF Background, TimerFires, BackgroundSucceeds, BackgroundFails, queueing, requests
<1>8. CASE Reload
  BY <1>8 DEF Reload, InFlight
<1>9. CASE LoginAnswered \/ LoginDone \/ LoginFails \/ Logout \/ SessionEnds \/ Sync
           \/ OtherTabLogin \/ OtherTabClears \/ CookieExpires
  BY <1>9 DEF LoginAnswered, LoginDone, LoginFails, Logout, SessionEnds,
              ClearAuth, Sync, OtherTabLogin, OtherTabClears,
              CookieExpires, queueing, requests
<1>10. CASE UNCHANGED vars
  BY <1>10 DEF vars, queueing, requests
<1>11. QED
  BY <1>1, <1>2, <1>3, <1>4, <1>5, <1>6, <1>7, <1>8, <1>9, <1>10
     DEF Next, Answer, RefreshAnswer, Session

\* At most one request refreshes the token at a time, and requests wait for it
\* only while it does.
THEOREM OneOwner == Spec => []RefreshOwner
<1>1. Init => RefreshOwner
  BY DEF Init, RefreshOwner
<1>2. TypeOK /\ RefreshOwner /\ [Next]_vars => RefreshOwner'
  BY OwnerStep
<1>3. QED
  BY <1>1, <1>2, TypeCorrect, PTL DEF Spec

-----------------------------------------------------------------------------
(* The watch over the token. *)

LEMMA WatchedStep ==
  ASSUME TypeOK, TokenWatched, [Next]_vars
  PROVE  TokenWatched'
<1> USE DEF TokenWatched, TypeOK
<1>1. ASSUME NEW r \in Requests, Send(r) \/ Answer(r) PROVE TokenWatched'
  BY <1>1 DEF Send, Answer, Succeeds, Fails, Enqueue, StartRefresh, stored, page
<1>2. ASSUME NEW r \in Requests, RefreshAnswer(r) PROVE TokenWatched'
  BY <1>2 DEF RefreshAnswer, RefreshSucceeds, RefreshFails, StoreToken, DropSession
<1>0. background \in Nat
  OBVIOUS
<1>3. CASE Background
  <2>1. CASE TimerFires
    <3>1. background' > 0
      BY <1>0, <2>1 DEF TimerFires
    <3>2. QED
      BY <3>1
  <2>2. CASE BackgroundSucceeds
    BY <2>2 DEF BackgroundSucceeds, StoreToken
  <2>3. CASE BackgroundFails
    BY <2>3 DEF BackgroundFails, DropSession
  <2>4. QED
    BY <1>3, <2>1, <2>2, <2>3 DEF Background
<1>4. CASE Session
  <2>1. ASSUME NEW n \in Nat, Schedule(n) PROVE timer' \/ background' > 0
    <3>1. CASE timer' = TRUE
      BY <3>1
    <3>2. CASE background' = n + 1
      BY <3>2
    <3>3. QED
      BY <2>1, <3>1, <3>2 DEF Schedule
  <2>2. CASE LoginAnswered \/ LoginDone \/ LoginFails \/ Logout \/ SessionEnds
           \/ OtherTabClears \/ CookieExpires
    BY <2>2 DEF LoginAnswered, LoginDone, LoginFails, Logout, SessionEnds,
              ClearAuth, OtherTabClears, CookieExpires, stored, page
  <2>3. CASE Sync \/ OtherTabLogin
    BY <1>0, <2>1, <2>3 DEF Sync, OtherTabLogin
  <2>4. CASE Reload
    <3>1. CASE token /\ ~authenticated
      BY <2>1, <2>4, <3>1, 0 \in Nat DEF Reload
    <3>2. CASE ~(token /\ ~authenticated)
      BY <2>4, <3>2 DEF Reload
    <3>3. QED
      BY <3>1, <3>2
  <2>5. QED
    BY <1>4, <2>2, <2>3, <2>4 DEF Session
<1>5. CASE UNCHANGED vars
  BY <1>5 DEF vars, stored, page
<1>6. QED
  BY <1>1, <1>2, <1>3, <1>4, <1>5 DEF Next

\* Whatever refreshes, logouts and other tabs do, a stored token has a timer or
\* a refresh that looks after it, but for a page that came back to its session
\* or whose login has not got past /auth/me.
THEOREM Watched == Spec => []TokenWatched
<1>1. Init => TokenWatched
  BY DEF Init, TokenWatched
<1>2. TypeOK /\ TokenWatched /\ [Next]_vars => TokenWatched'
  BY WatchedStep
<1>3. QED
  BY <1>1, <1>2, TypeCorrect, PTL DEF Spec

-----------------------------------------------------------------------------
(* The number of times a request is sent.  Each sending after the first pays *)
(* with a refresh that ended, and a request refreshes the token only once.   *)

Ended == {q \in Requests : retried[q] /\ req[q] # "refreshing"}

First(r) == IF req[r] = "new" THEN 0 ELSE 1

Counted ==
  /\ \A r \in Requests : req[r] = "refreshing" => retried[r]
  /\ \A r \in Requests : sends[r] <= First(r) + Cardinality(Ended)

LEMMA EndedFinite == IsFiniteSet(Ended) /\ Cardinality(Ended) \in Nat
<1>1. IsFiniteSet(Ended)
  BY TokenAssumption, FS_Subset DEF Ended
<1>2. QED
  BY <1>1, FS_CardinalityType

LEMMA CountStep ==
  ASSUME TypeOK, RefreshOwner, Counted, [Next]_vars
  PROVE  Counted'
<1>0. /\ IsFiniteSet(Ended) /\ Cardinality(Ended) \in Nat
      /\ IsFiniteSet(Ended') /\ Cardinality(Ended') \in Nat
  <2>1. IsFiniteSet(Ended') /\ Cardinality(Ended') \in Nat
    BY TokenAssumption, FS_Subset, FS_CardinalityType, Ended' \subseteq Requests DEF Ended
  <2>2. QED
    BY <2>1, EndedFinite
\* A step that sends nothing again and undoes no refresh.
<1>1. ASSUME \A r \in Requests : req'[r] = "refreshing" => retried'[r],
             Ended \subseteq Ended',
             \A r \in Requests : sends'[r] - First(r)' <= sends[r] - First(r)
      PROVE  Counted'
  <2>1. Cardinality(Ended) <= Cardinality(Ended')
    BY <1>0, <1>1, FS_Subset
  <2>2. ASSUME NEW r \in Requests PROVE sends'[r] <= First(r)' + Cardinality(Ended')
    <3>1. /\ sends[r] <= First(r) + Cardinality(Ended)
          /\ sends'[r] - First(r)' <= sends[r] - First(r)
      BY <1>1 DEF Counted
    <3>2. /\ sends[r] \in Nat /\ sends'[r] \in Nat
          /\ First(r) \in Nat /\ First(r)' \in Nat
      BY TypeStep DEF TypeOK, First
    <3>3. QED
      BY <1>0, <2>1, <3>1, <3>2
  <2>3. QED
    BY <1>1, <2>2 DEF Counted
<1>2. ASSUME NEW r \in Requests, Send(r) PROVE Counted'
  <2>1. Ended \subseteq Ended'
    BY <1>2 DEF Send, Dispatch, Ended, TypeOK
  <2>2. \A q \in Requests : req'[q] = "refreshing" => retried'[q]
    BY <1>2 DEF Send, Dispatch, Counted, TypeOK
  <2>3. \A q \in Requests : sends'[q] - First(q)' <= sends[q] - First(q)
    BY <1>2 DEF Send, Dispatch, First, TypeOK
  <2>4. QED
    BY <1>1, <2>1, <2>2, <2>3
<1>3. ASSUME NEW r \in Requests, Answer(r) PROVE Counted'
  <2> USE <1>3 DEF Answer, Succeeds, Fails, Enqueue, StartRefresh, TypeOK
  <2>1. Ended \subseteq Ended'
    BY DEF Ended
  <2>2. \A q \in Requests : req'[q] = "refreshing" => retried'[q]
    BY DEF Counted
  <2>3. \A q \in Requests : sends'[q] - First(q)' <= sends[q] - First(q)
    BY DEF First
  <2>4. QED
    BY <1>1, <2>1, <2>2, <2>3
<1>4. ASSUME NEW r \in Requests, RefreshSucceeds(r) PROVE Counted'
  <2>1. Ended' = Ended \cup {r} /\ r \notin Ended
    BY <1>4 DEF RefreshSucceeds, Dispatch, Waiting, Ended, Counted, TypeOK, RefreshOwner
  <2>2. Cardinality(Ended') = Cardinality(Ended) + 1
    BY <1>0, <2>1, FS_AddElement
  <2>3. ASSUME NEW q \in Requests PROVE sends'[q] <= First(q)' + Cardinality(Ended')
    <3>1. sends[q] <= First(q) + Cardinality(Ended) /\ sends[q] \in Nat
      BY DEF Counted, TypeOK
    <3>2. sends'[q] <= sends[q] + 1 /\ First(q) <= First(q)'
      BY <1>4 DEF RefreshSucceeds, Dispatch, Waiting, First, TypeOK
    <3>3. First(q) \in Nat /\ First(q)' \in Nat /\ sends'[q] \in Nat
      BY TypeStep DEF First, TypeOK
    <3>4. QED
      BY <1>0, <2>2, <3>1, <3>2, <3>3
  <2>4. \A q \in Requests : req'[q] = "refreshing" => retried'[q]
    BY <1>4 DEF RefreshSucceeds, Dispatch, Waiting, Counted, TypeOK
  <2>5. QED
    BY <2>3, <2>4 DEF Counted
<1>5. ASSUME NEW r \in Requests, RefreshFails(r) PROVE Counted'
  <2> USE <1>5 DEF RefreshFails, Waiting, TypeOK
  <2>1. Ended \subseteq Ended'
    BY DEF Ended
  <2>2. \A q \in Requests : req'[q] = "refreshing" => retried'[q]
    BY DEF Counted
  <2>3. \A q \in Requests : sends'[q] - First(q)' <= sends[q] - First(q)
    BY DEF First
  <2>4. QED
    BY <1>1, <2>1, <2>2, <2>3
<1>6. CASE Reload
  <2> USE <1>6 DEF Reload, InFlight, TypeOK
  <2>1. Ended \subseteq Ended'
    BY DEF Ended
  <2>2. \A q \in Requests : req'[q] = "refreshing" => retried'[q]
    BY DEF Counted
  <2>3. \A q \in Requests : sends'[q] - First(q)' <= sends[q] - First(q)
    BY DEF First
  <2>4. QED
    BY <1>1, <2>1, <2>2, <2>3
<1>7. CASE UNCHANGED requests
  <2> USE <1>7 DEF requests
  <2>1. Ended' = Ended
    BY DEF Ended
  <2>2. \A q \in Requests : First(q)' = First(q)
    BY DEF First
  <2>3. QED
    BY <2>1, <2>2 DEF Counted
<1>8. Background \/ LoginAnswered \/ LoginDone \/ LoginFails \/ Logout
        \/ SessionEnds \/ Sync \/ OtherTabLogin
        \/ OtherTabClears \/ CookieExpires \/ UNCHANGED vars => UNCHANGED requests
  BY DEF Background, TimerFires, BackgroundSucceeds, BackgroundFails,
         LoginAnswered, LoginDone, LoginFails, Logout,
         SessionEnds, ClearAuth, Sync, OtherTabLogin, OtherTabClears, CookieExpires, vars
<1>9. QED
  BY <1>2, <1>3, <1>4, <1>5, <1>6, <1>7, <1>8 DEF Next, RefreshAnswer, Session

\* No request is sent more often than once for itself and once for each
\* request that ever refreshed the token.
THEOREM Bounded == Spec => []SendsBounded
<1>1. Init => Counted
  BY EndedFinite DEF Init, Counted, First
<1>2. TypeOK /\ RefreshOwner /\ Counted /\ [Next]_vars => Counted'
  BY CountStep
<1>3. TypeOK /\ Counted => SendsBounded
  <2> SUFFICES ASSUME TypeOK, Counted, NEW r \in Requests
               PROVE  sends[r] <= 1 + Cardinality({q \in Requests : retried[q]})
    BY DEF SendsBounded
  <2> DEFINE Retried == {q \in Requests : retried[q]}
  <2>1. IsFiniteSet(Retried) /\ Cardinality(Retried) \in Nat
    BY TokenAssumption, FS_Subset, FS_CardinalityType, Retried \subseteq Requests
  <2>2. Ended \subseteq Retried
    BY DEF Ended
  <2>3. Cardinality(Ended) <= Cardinality(Retried)
    BY <2>1, <2>2, FS_Subset
  <2>4. /\ sends[r] <= First(r) + Cardinality(Ended)
        /\ First(r) \in {0, 1} /\ sends[r] \in Nat
    BY DEF Counted, First, TypeOK
  <2>5. QED
    BY <2>1, <2>3, <2>4, EndedFinite
<1>4. QED
  BY <1>1, <1>2, <1>3, TypeCorrect, OneOwner, PTL DEF Spec
=============================================================================
