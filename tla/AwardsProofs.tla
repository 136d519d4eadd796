---------------------------- MODULE AwardsProofs ----------------------------
(***************************************************************************)
(* What Awards keeps for every number of workers, users, facts and badges. *)
(*                                                                         *)
(* WorkI and RowsI say what a worker holds at each place; on top of them   *)
(* OnceI, PointsI, BadgesI and ScoresI each say what the workers under way *)
(* owe to one of the properties: two that record a fact at once mark it, a *)
(* total that is about to be written is not above what was earned, a badge *)
(* a user qualifies for is in some worker's hands, and so is a score that  *)
(* is not on the leaderboard yet.                                          *)
(***************************************************************************)
EXTENDS Awards, FiniteSetTheorems, TLAPS

Recording == {"read", "add"}
Onward == {"badges", "score"} \cup Scoring

At(w, u, pcs) == work[w].pc \in pcs /\ User(w) = u

\* A worker has a fact unless it is idle, the fact's user has a row of points
\* once the points were added, badges are in hand only among the badges, and
\* the own row is written only at the end.
WorkI ==
  \A w \in Workers :
    /\ work[w].pc # "idle" => work[w].fact \in Facts
    /\ work[w].pc \in Onward => points[User(w)] # None
    /\ work[w].pc # "badges" => work[w].held = {} /\ work[w].want = None
    /\ work[w].wrote => work[w].pc \in {"rank", "lock"}

\* A locked row is the own row of a worker or one that exists, and a worker
\* writes only such rows.
RowsI ==
  /\ \A u \in Users : lock[u] # None =>
       /\ work[lock[u]].pc \in {"rank", "lock"}
       /\ u = User(lock[u]) \/ entry[u] # None
  /\ \A w \in Workers :
       /\ work[w].pc \in {"rank", "lock"} =>
            /\ work[w].wrote => lock[User(w)] = w
            /\ ~work[w].wrote => work[w].row # None /\ work[w].row.points = work[w].score
       /\ work[w].pc \in Scoring \ {"row"} /\ work[w].row # None => entry[User(w)] # None
       /\ work[w].pc = "lock" =>
            /\ \A v \in Users : work[w].ranks[v] # 0 => v = User(w) \/ entry[v] # None
            /\ work[w].row = None => work[w].ranks[User(w)] # 0

Base == TypeOK /\ WorkI /\ RowsI

LEMMA UsersType ==
  /\ \A f \in Facts : UserOf[f] \in Users /\ Worth[f] \in Nat
  /\ Cardinality(Users) \in Nat
BY FactsAssumption, AwardBoundsAssumption, FS_CardinalityType

LEMMA NoneIsNoRow == None \notin Rows
<1>1. Rows \subseteq [points : Nat, rank : Nat]
  BY UsersType DEF Rows
<1>2. QED BY <1>1, NoneAssumption

LEMMA ReadPointsStep ==
  ASSUME Base, NEW w \in Workers, ReadPoints(w)
  PROVE  /\ work' \in [Workers -> Worker]
         /\ \A o \in Workers \ {w} : work'[o] = work[o]
         /\ work'[w].pc = "add"
         /\ work'[w].seen = points[User(w)]
         /\ work'[w].fact = work[w].fact /\ work'[w].left = work[w].left
         /\ work'[w].want = work[w].want /\ work'[w].held = work[w].held
         /\ work'[w].score = work[w].score /\ work'[w].row = work[w].row
         /\ work'[w].wrote = work[w].wrote /\ work'[w].ranks = work[w].ranks
         /\ UNCHANGED <<sent, recorded, earned, points, badges, entry, lock, doubled, crossed, behind, faults>>
<1> DEFINE r == [work[w] EXCEPT !.pc = "add", !.seen = points[User(w)]]
<1>1. work[w] \in Worker /\ work' = [work EXCEPT ![w] = r]
  BY DEF Base, TypeOK, ReadPoints
<1>2. User(w) \in Users /\ badges[User(w)] \subseteq Badges /\ work[w].fact \in Facts
      /\ points[User(w)] \in Nat \cup {None} /\ entry[User(w)] \in Rows \cup {None}
      /\ (work[w].pc \in Onward => points[User(w)] \in Nat)
  BY UsersType DEF Base, TypeOK, WorkI, ReadPoints, User
<1>3. r \in Worker
  BY <1>1, <1>2 DEF ReadPoints, Worker, Onward
<1>4. work'[w] = r
  BY <1>1 DEF Base, TypeOK
<1>5. work' \in [Workers -> Worker] /\ \A o \in Workers \ {w} : work'[o] = work[o]
  BY <1>1, <1>3 DEF Base, TypeOK
<1>6. UNCHANGED <<sent, recorded, earned, points, badges, entry, lock, doubled, crossed, behind, faults>>
  BY DEF ReadPoints, awards, history
<1>7. QED BY <1>1, <1>4, <1>5, <1>6 DEF Worker

\* Where a worker goes from the points, and the badges it then looks at.
AfterPoints(w) == IF EventOf[work[w].fact] \in Checked THEN "badges" ELSE "score"
LeftAfterPoints(w) == IF EventOf[work[w].fact] \in Checked THEN Suited(EventOf[work[w].fact]) ELSE work[w].left

LEMMA AddPointsStep ==
  ASSUME Base, NEW w \in Workers, AddPoints(w)
  PROVE  /\ work' \in [Workers -> Worker]
         /\ \A o \in Workers \ {w} : work'[o] = work[o]
         /\ work'[w].pc = AfterPoints(w) /\ work'[w].left = LeftAfterPoints(w)
         /\ work'[w].fact = work[w].fact /\ work'[w].seen = work[w].seen
         /\ work'[w].want = work[w].want /\ work'[w].held = work[w].held
         /\ work'[w].score = work[w].score /\ work'[w].row = work[w].row
         /\ work'[w].wrote = work[w].wrote /\ work'[w].ranks = work[w].ranks
         /\ UNCHANGED <<sent, badges, entry, lock, raced, doubled, crossed, behind, faults>>
<1> DEFINE r == [work[w] EXCEPT !.pc = AfterPoints(w), !.left = LeftAfterPoints(w)]
<1>1. work[w] \in Worker /\ work' = [work EXCEPT ![w] = r]
  <2>1. work \in [Workers -> Worker] /\ work[w] \in Worker
    BY DEF Base, TypeOK
  <2>2. CASE EventOf[work[w].fact] \in Checked
    BY <2>1, <2>2 DEF AddPoints, AfterPoints, LeftAfterPoints
  <2>3. CASE EventOf[work[w].fact] \notin Checked
    <3>1. [work[w] EXCEPT !.pc = "score"] = r
      BY <2>1, <2>3 DEF AfterPoints, LeftAfterPoints, Worker
    <3>2. QED BY <2>1, <2>3, <3>1 DEF AddPoints
  <2>4. QED BY <2>2, <2>3
<1>2. User(w) \in Users /\ badges[User(w)] \subseteq Badges /\ work[w].fact \in Facts
      /\ points[User(w)] \in Nat \cup {None} /\ entry[User(w)] \in Rows \cup {None}
      /\ (work[w].pc \in Onward => points[User(w)] \in Nat)
  BY UsersType DEF Base, TypeOK, WorkI, AddPoints, User
<1>3. r \in Worker
  BY <1>1, <1>2 DEF AddPoints, AfterPoints, LeftAfterPoints, Suited, Worker, Onward
<1>4. work'[w] = r
  BY <1>1 DEF Base, TypeOK
<1>5. work' \in [Workers -> Worker] /\ \A o \in Workers \ {w} : work'[o] = work[o]
  BY <1>1, <1>3 DEF Base, TypeOK
<1>6. UNCHANGED <<sent, badges, entry, lock, raced, doubled, crossed, behind, faults>>
  BY DEF AddPoints, awards, history
<1>7. QED BY <1>1, <1>4, <1>5, <1>6 DEF Worker

LEMMA CheckBadgeStep ==
  ASSUME Base, NEW w \in Workers, NEW b \in Badges, CheckBadge(w, b)
  PROVE  /\ work' \in [Workers -> Worker]
         /\ \A o \in Workers \ {w} : work'[o] = work[o]
         /\ work'[w].left = work[w].left \ {b}
         /\ work'[w].want = (IF b \in badges[User(w)] THEN None ELSE b)
         /\ work'[w].pc = work[w].pc /\ work'[w].fact = work[w].fact
         /\ work'[w].seen = work[w].seen /\ work'[w].held = work[w].held
         /\ work'[w].score = work[w].score /\ work'[w].row = work[w].row
         /\ work'[w].wrote = work[w].wrote /\ work'[w].ranks = work[w].ranks
         /\ UNCHANGED <<sent, recorded, earned, points, badges, entry, lock, raced, doubled, crossed, behind, faults>>
<1> DEFINE r == [work[w] EXCEPT !.left = work[w].left \ {b}, !.want = IF b \in badges[User(w)] THEN None ELSE b]
<1>1. work[w] \in Worker /\ work' = [work EXCEPT ![w] = r]
  BY DEF Base, TypeOK, CheckBadge
<1>2. User(w) \in Users /\ badges[User(w)] \subseteq Badges /\ work[w].fact \in Facts
      /\ points[User(w)] \in Nat \cup {None} /\ entry[User(w)] \in Rows \cup {None}
      /\ (work[w].pc \in Onward => points[User(w)] \in Nat)
  BY UsersType DEF Base, TypeOK, WorkI, CheckBadge, User
<1>3. r \in Worker
  BY <1>1, <1>2 DEF CheckBadge, Worker, Onward
<1>4. work'[w] = r
  BY <1>1 DEF Base, TypeOK
<1>5. work' \in [Workers -> Worker] /\ \A o \in Workers \ {w} : work'[o] = work[o]
  BY <1>1, <1>3 DEF Base, TypeOK
<1>6. UNCHANGED <<sent, recorded, earned, points, badges, entry, lock, raced, doubled, crossed, behind, faults>>
  BY DEF CheckBadge, awards, history
<1>7. QED BY <1>1, <1>4, <1>5, <1>6 DEF Worker

LEMMA AwardBadgeStep ==
  ASSUME Base, NEW w \in Workers, AwardBadge(w)
  PROVE  /\ work' \in [Workers -> Worker]
         /\ \A o \in Workers \ {w} : work'[o] = work[o]
         /\ work'[w].want = None
         /\ work'[w].held = (IF Qualifies(w) THEN work[w].held \cup {work[w].want} ELSE work[w].held)
         /\ work'[w].pc = work[w].pc /\ work'[w].fact = work[w].fact
         /\ work'[w].seen = work[w].seen /\ work'[w].left = work[w].left
         /\ work'[w].score = work[w].score /\ work'[w].row = work[w].row
         /\ work'[w].wrote = work[w].wrote /\ work'[w].ranks = work[w].ranks
         /\ UNCHANGED <<sent, recorded, earned, points, badges, entry, lock, raced, doubled, crossed, behind, faults>>
<1> DEFINE r == [work[w] EXCEPT !.want = None, !.held = IF Qualifies(w) THEN work[w].held \cup {work[w].want} ELSE work[w].held]
<1>0. work[w] \in Worker /\ DOMAIN work = Workers
  BY DEF Base, TypeOK
<1>1. work[w] \in Worker /\ work' = [work EXCEPT ![w] = r]
  BY <1>0 DEF AwardBadge, Worker
<1>2. User(w) \in Users /\ badges[User(w)] \subseteq Badges /\ work[w].fact \in Facts
      /\ points[User(w)] \in Nat \cup {None} /\ entry[User(w)] \in Rows \cup {None}
      /\ (work[w].pc \in Onward => points[User(w)] \in Nat)
  BY UsersType DEF Base, TypeOK, WorkI, AwardBadge, User
<1>3. r \in Worker
  BY <1>1, <1>2 DEF AwardBadge, Worker, Onward
<1>4. work'[w] = r
  BY <1>1 DEF Base, TypeOK
<1>5. work' \in [Workers -> Worker] /\ \A o \in Workers \ {w} : work'[o] = work[o]
  BY <1>1, <1>3 DEF Base, TypeOK
<1>6. UNCHANGED <<sent, recorded, earned, points, badges, entry, lock, raced, doubled, crossed, behind, faults>>
  BY DEF AwardBadge, awards, history
<1>7. QED BY <1>1, <1>4, <1>5, <1>6 DEF Worker

LEMMA CommitBadgesStep ==
  ASSUME Base, NEW w \in Workers, CommitBadges(w)
  PROVE  /\ work' \in [Workers -> Worker]
         /\ \A o \in Workers \ {w} : work'[o] = work[o]
         /\ work'[w].pc = "score"
         /\ work'[w].held = {}
         /\ work'[w].fact = work[w].fact /\ work'[w].seen = work[w].seen
         /\ work'[w].left = work[w].left /\ work'[w].want = work[w].want
         /\ work'[w].score = work[w].score /\ work'[w].row = work[w].row
         /\ work'[w].wrote = work[w].wrote /\ work'[w].ranks = work[w].ranks
         /\ UNCHANGED <<sent, recorded, earned, points, entry, lock, raced, doubled, crossed, behind, faults>>
<1> DEFINE r == [work[w] EXCEPT !.pc = "score", !.held = {}]
<1>1. work[w] \in Worker /\ work' = [work EXCEPT ![w] = r]
  BY DEF Base, TypeOK, CommitBadges
<1>2. User(w) \in Users /\ badges[User(w)] \subseteq Badges /\ work[w].fact \in Facts
      /\ points[User(w)] \in Nat \cup {None} /\ entry[User(w)] \in Rows \cup {None}
      /\ (work[w].pc \in Onward => points[User(w)] \in Nat)
  BY UsersType DEF Base, TypeOK, WorkI, CommitBadges, User
<1>3. r \in Worker
  BY <1>1, <1>2 DEF CommitBadges, Worker, Onward
<1>4. work'[w] = r
  BY <1>1 DEF Base, TypeOK
<1>5. work' \in [Workers -> Worker] /\ \A o \in Workers \ {w} : work'[o] = work[o]
  BY <1>1, <1>3 DEF Base, TypeOK
<1>6. UNCHANGED <<sent, recorded, earned, points, entry, lock, raced, doubled, crossed, behind, faults>>
  BY DEF CommitBadges, awards, history
<1>7. QED BY <1>1, <1>4, <1>5, <1>6 DEF Worker

LEMMA ReadScoreStep ==
  ASSUME Base, NEW w \in Workers, ReadScore(w)
  PROVE  /\ work' \in [Workers -> Worker]
         /\ \A o \in Workers \ {w} : work'[o] = work[o]
         /\ work'[w].pc = "row"
         /\ work'[w].score = points[User(w)]
         /\ work'[w].fact = work[w].fact /\ work'[w].seen = work[w].seen
         /\ work'[w].left = work[w].left /\ work'[w].want = work[w].want
         /\ work'[w].held = work[w].held /\ work'[w].row = work[w].row
         /\ work'[w].wrote = work[w].wrote /\ work'[w].ranks = work[w].ranks
         /\ UNCHANGED <<sent, recorded, earned, points, badges, entry, lock, raced, doubled, behind, faults>>
<1> DEFINE r == [work[w] EXCEPT !.pc = "row", !.score = points[User(w)]]
<1>1. work[w] \in Worker /\ work' = [work EXCEPT ![w] = r]
  BY DEF Base, TypeOK, ReadScore
<1>2. User(w) \in Users /\ badges[User(w)] \subseteq Badges /\ work[w].fact \in Facts
      /\ points[User(w)] \in Nat \cup {None} /\ entry[User(w)] \in Rows \cup {None}
      /\ (work[w].pc \in Onward => points[User(w)] \in Nat)
  BY UsersType DEF Base, TypeOK, WorkI, ReadScore, User
<1>3. r \in Worker
  BY <1>1, <1>2 DEF ReadScore, Worker, Onward, Scoring
<1>4. work'[w] = r
  BY <1>1 DEF Base, TypeOK
<1>5. work' \in [Workers -> Worker] /\ \A o \in Workers \ {w} : work'[o] = work[o]
  BY <1>1, <1>3 DEF Base, TypeOK
<1>6. UNCHANGED <<sent, recorded, earned, points, badges, entry, lock, raced, doubled, behind, faults>>
  BY DEF ReadScore, awards, history
<1>7. QED BY <1>1, <1>4, <1>5, <1>6 DEF Worker

LEMMA ReadRowStep ==
  ASSUME Base, NEW w \in Workers, ReadRow(w)
  PROVE  /\ work' \in [Workers -> Worker]
         /\ \A o \in Workers \ {w} : work'[o] = work[o]
         /\ work'[w].pc = "flush"
         /\ work'[w].row = entry[User(w)]
         /\ work'[w].fact = work[w].fact /\ work'[w].seen = work[w].seen
         /\ work'[w].left = work[w].left /\ work'[w].want = work[w].want
         /\ work'[w].held = work[w].held /\ work'[w].score = work[w].score
         /\ work'[w].wrote = work[w].wrote /\ work'[w].ranks = work[w].ranks
         /\ UNCHANGED <<sent, recorded, earned, points, badges, entry, lock, raced, doubled, crossed, behind, faults>>
<1> DEFINE r == [work[w] EXCEPT !.pc = "flush", !.row = entry[User(w)]]
<1>1. work[w] \in Worker /\ work' = [work EXCEPT ![w] = r]
  BY DEF Base, TypeOK, ReadRow
<1>2. User(w) \in Users /\ badges[User(w)] \subseteq Badges /\ work[w].fact \in Facts
      /\ points[User(w)] \in Nat \cup {None} /\ entry[User(w)] \in Rows \cup {None}
      /\ (work[w].pc \in Onward => points[User(w)] \in Nat)
  BY UsersType DEF Base, TypeOK, WorkI, ReadRow, User
<1>3. r \in Worker
  BY <1>1, <1>2 DEF ReadRow, Worker, Onward, Scoring
<1>4. work'[w] = r
  BY <1>1 DEF Base, TypeOK
<1>5. work' \in [Workers -> Worker] /\ \A o \in Workers \ {w} : work'[o] = work[o]
  BY <1>1, <1>3 DEF Base, TypeOK
<1>6. UNCHANGED <<sent, recorded, earned, points, badges, entry, lock, raced, doubled, crossed, behind, faults>>
  BY DEF ReadRow, awards, history
<1>7. QED BY <1>1, <1>4, <1>5, <1>6 DEF Worker

LEMMA FlushRowStep ==
  ASSUME Base, NEW w \in Workers, FlushRow(w)
  PROVE  /\ work' \in [Workers -> Worker]
         /\ \A o \in Workers \ {w} : work'[o] = work[o]
         /\ work'[w].pc = "rank"
         /\ work'[w].wrote = (IF work[w].row # None /\ work[w].row.points = work[w].score THEN work[w].wrote ELSE TRUE)
         /\ work'[w].fact = work[w].fact /\ work'[w].seen = work[w].seen
         /\ work'[w].left = work[w].left /\ work'[w].want = work[w].want
         /\ work'[w].held = work[w].held /\ work'[w].score = work[w].score
         /\ work'[w].row = work[w].row /\ work'[w].ranks = work[w].ranks
         /\ UNCHANGED <<sent, recorded, earned, points, badges, entry, raced, doubled, crossed, behind, faults>>
<1> DEFINE r == [work[w] EXCEPT !.pc = "rank", !.wrote = IF work[w].row # None /\ work[w].row.points = work[w].score THEN work[w].wrote ELSE TRUE]
<1>0. work[w] \in Worker /\ DOMAIN work = Workers
  BY DEF Base, TypeOK
<1>1. work[w] \in Worker /\ work' = [work EXCEPT ![w] = r]
  BY <1>0 DEF FlushRow, Worker
<1>2. User(w) \in Users /\ badges[User(w)] \subseteq Badges /\ work[w].fact \in Facts
      /\ points[User(w)] \in Nat \cup {None} /\ entry[User(w)] \in Rows \cup {None}
      /\ (work[w].pc \in Onward => points[User(w)] \in Nat)
  BY UsersType DEF Base, TypeOK, WorkI, FlushRow, User
<1>3. r \in Worker
  BY <1>1, <1>2 DEF FlushRow, Worker, Onward, Scoring
<1>4. work'[w] = r
  BY <1>1 DEF Base, TypeOK
<1>5. work' \in [Workers -> Worker] /\ \A o \in Workers \ {w} : work'[o] = work[o]
  BY <1>1, <1>3 DEF Base, TypeOK
<1>6. UNCHANGED <<sent, recorded, earned, points, badges, entry, raced, doubled, crossed, behind, faults>>
  BY DEF FlushRow, awards, history
<1>7. QED BY <1>1, <1>4, <1>5, <1>6 DEF Worker

LEMMA ReadPointsBase ==
  ASSUME Base, NEW w \in Workers, ReadPoints(w)
  PROVE  Base'
<1>1. /\ work' \in [Workers -> Worker]
      /\ \A o \in Workers \ {w} : work'[o] = work[o]
      /\ work'[w].pc = "add"
      /\ work'[w].seen = points[User(w)]
      /\ work'[w].fact = work[w].fact /\ work'[w].left = work[w].left
      /\ work'[w].want = work[w].want /\ work'[w].held = work[w].held
      /\ work'[w].score = work[w].score /\ work'[w].row = work[w].row
      /\ work'[w].wrote = work[w].wrote /\ work'[w].ranks = work[w].ranks
      /\ UNCHANGED <<sent, recorded, earned, points, badges, entry, lock, doubled, crossed, behind, faults>>
  BY ReadPointsStep
<1>2. User(w) \in Users /\ \A o \in Workers : User(o)' = User(o) /\ (work[o].pc # "idle" => User(o) \in Users)
  BY <1>1, UsersType DEF Base, WorkI, TypeOK, User, ReadPoints
<1>3. raced' \subseteq Users
  BY <1>2, UsersType, NoneAssumption DEF Base, TypeOK, WorkI, Worker, ReadPoints, User
<1>4. TypeOK'
  BY <1>1, <1>3 DEF Base, TypeOK
<1>5. work[w].pc = "read"
  BY DEF ReadPoints
<1>6. WorkI'
  <2> SUFFICES ASSUME NEW o \in Workers
               PROVE  (/\ work[o].pc # "idle" => work[o].fact \in Facts
                       /\ work[o].pc \in Onward => points[User(o)] # None
                       /\ work[o].pc # "badges" => work[o].held = {} /\ work[o].want = None
                       /\ work[o].wrote => work[o].pc \in {"rank", "lock"})'
    BY DEF WorkI
  <2>1. CASE o = w
    BY <2>1, <1>1, <1>2, <1>3, <1>5, NoneAssumption DEF Base, WorkI, Scoring, Onward
  <2>2. CASE o # w
    BY <2>2, <1>1, <1>2, <1>3, <1>5 DEF Base, WorkI, Scoring, Onward
  <2>3. QED BY <2>1, <2>2
<1>7. RowsI'
  BY <1>1, <1>2, <1>5 DEF Base, TypeOK, RowsI, Scoring
<1>8. QED BY <1>4, <1>6, <1>7 DEF Base

LEMMA AddPointsBase ==
  ASSUME Base, NEW w \in Workers, AddPoints(w)
  PROVE  Base'
<1>1. /\ work' \in [Workers -> Worker]
      /\ \A o \in Workers \ {w} : work'[o] = work[o]
      /\ work'[w].pc = AfterPoints(w) /\ work'[w].pc \in {"badges", "score"}
      /\ work'[w].fact = work[w].fact /\ work'[w].seen = work[w].seen
      /\ work'[w].want = work[w].want /\ work'[w].held = work[w].held
      /\ work'[w].score = work[w].score /\ work'[w].row = work[w].row
      /\ work'[w].wrote = work[w].wrote /\ work'[w].ranks = work[w].ranks
      /\ UNCHANGED <<sent, badges, entry, lock, raced, doubled, crossed, behind, faults>>
  BY AddPointsStep DEF AfterPoints
<1>2. User(w) \in Users /\ \A o \in Workers : User(o)' = User(o) /\ (work[o].pc # "idle" => User(o) \in Users)
  BY <1>1, UsersType DEF Base, WorkI, TypeOK, User, AddPoints
<1>3. recorded' \in [Facts -> Nat] /\ earned' \in [Users -> Nat] /\ points' \in [Users -> Nat \cup {None}]
      /\ points'[User(w)] # None /\ \A u \in Users : u # User(w) => points'[u] = points[u]
  BY <1>2, UsersType, NoneAssumption DEF Base, TypeOK, WorkI, Worker, AddPoints, User
<1>4. TypeOK'
  BY <1>1, <1>3 DEF Base, TypeOK
<1>5. work[w].pc = "add"
  BY DEF AddPoints
<1>6. WorkI'
  <2> SUFFICES ASSUME NEW o \in Workers
               PROVE  (/\ work[o].pc # "idle" => work[o].fact \in Facts
                       /\ work[o].pc \in Onward => points[User(o)] # None
                       /\ work[o].pc # "badges" => work[o].held = {} /\ work[o].want = None
                       /\ work[o].wrote => work[o].pc \in {"rank", "lock"})'
    BY DEF WorkI
  <2>1. CASE o = w
    BY <2>1, <1>1, <1>2, <1>3, <1>5, NoneAssumption DEF Base, WorkI, Scoring, Onward
  <2>2. CASE o # w
    BY <2>2, <1>1, <1>2, <1>3, <1>5 DEF Base, WorkI, Scoring, Onward
  <2>3. QED BY <2>1, <2>2
<1>7. RowsI'
  BY <1>1, <1>2, <1>5 DEF Base, TypeOK, RowsI, Scoring
<1>8. QED BY <1>4, <1>6, <1>7 DEF Base

LEMMA CheckBadgeBase ==
  ASSUME Base, NEW w \in Workers, NEW b \in Badges, CheckBadge(w, b)
  PROVE  Base'
<1>1. /\ work' \in [Workers -> Worker]
      /\ \A o \in Workers \ {w} : work'[o] = work[o]
      /\ work'[w].left = work[w].left \ {b}
      /\ work'[w].want = (IF b \in badges[User(w)] THEN None ELSE b)
      /\ work'[w].pc = work[w].pc /\ work'[w].fact = work[w].fact
      /\ work'[w].seen = work[w].seen /\ work'[w].held = work[w].held
      /\ work'[w].score = work[w].score /\ work'[w].row = work[w].row
      /\ work'[w].wrote = work[w].wrote /\ work'[w].ranks = work[w].ranks
      /\ UNCHANGED <<sent, recorded, earned, points, badges, entry, lock, raced, doubled, crossed, behind, faults>>
  BY CheckBadgeStep
<1>2. User(w) \in Users /\ \A o \in Workers : User(o)' = User(o) /\ (work[o].pc # "idle" => User(o) \in Users)
  BY <1>1, UsersType DEF Base, WorkI, TypeOK, User, CheckBadge
<1>4. TypeOK'
  BY <1>1 DEF Base, TypeOK
<1>5. work[w].pc = "badges"
  BY DEF CheckBadge
<1>6. WorkI'
  <2> SUFFICES ASSUME NEW o \in Workers
               PROVE  (/\ work[o].pc # "idle" => work[o].fact \in Facts
                       /\ work[o].pc \in Onward => points[User(o)] # None
                       /\ work[o].pc # "badges" => work[o].held = {} /\ work[o].want = None
                       /\ work[o].wrote => work[o].pc \in {"rank", "lock"})'
    BY DEF WorkI
  <2>1. CASE o = w
    BY <2>1, <1>1, <1>2, <1>5, NoneAssumption DEF Base, WorkI, Scoring, Onward
  <2>2. CASE o # w
    BY <2>2, <1>1, <1>2, <1>5 DEF Base, WorkI, Scoring, Onward
  <2>3. QED BY <2>1, <2>2
<1>7. RowsI'
  BY <1>1, <1>2, <1>5 DEF Base, TypeOK, RowsI, Scoring
<1>8. QED BY <1>4, <1>6, <1>7 DEF Base

LEMMA AwardBadgeBase ==
  ASSUME Base, NEW w \in Workers, AwardBadge(w)
  PROVE  Base'
<1>1. /\ work' \in [Workers -> Worker]
      /\ \A o \in Workers \ {w} : work'[o] = work[o]
      /\ work'[w].want = None
      /\ work'[w].held = (IF Qualifies(w) THEN work[w].held \cup {work[w].want} ELSE work[w].held)
      /\ work'[w].pc = work[w].pc /\ work'[w].fact = work[w].fact
      /\ work'[w].seen = work[w].seen /\ work'[w].left = work[w].left
      /\ work'[w].score = work[w].score /\ work'[w].row = work[w].row
      /\ work'[w].wrote = work[w].wrote /\ work'[w].ranks = work[w].ranks
      /\ UNCHANGED <<sent, recorded, earned, points, badges, entry, lock, raced, doubled, crossed, behind, faults>>
  BY AwardBadgeStep
<1>2. User(w) \in Users /\ \A o \in Workers : User(o)' = User(o) /\ (work[o].pc # "idle" => User(o) \in Users)
  BY <1>1, UsersType DEF Base, WorkI, TypeOK, User, AwardBadge
<1>4. TypeOK'
  BY <1>1 DEF Base, TypeOK
<1>5. work[w].pc = "badges" /\ work[w].want # None
  BY DEF AwardBadge
<1>6. WorkI'
  <2> SUFFICES ASSUME NEW o \in Workers
               PROVE  (/\ work[o].pc # "idle" => work[o].fact \in Facts
                       /\ work[o].pc \in Onward => points[User(o)] # None
                       /\ work[o].pc # "badges" => work[o].held = {} /\ work[o].want = None
                       /\ work[o].wrote => work[o].pc \in {"rank", "lock"})'
    BY DEF WorkI
  <2>1. CASE o = w
    BY <2>1, <1>1, <1>2, <1>5, NoneAssumption DEF Base, WorkI, Scoring, Onward
  <2>2. CASE o # w
    BY <2>2, <1>1, <1>2, <1>5 DEF Base, WorkI, Scoring, Onward
  <2>3. QED BY <2>1, <2>2
<1>7. RowsI'
  BY <1>1, <1>2, <1>5 DEF Base, TypeOK, RowsI, Scoring
<1>8. QED BY <1>4, <1>6, <1>7 DEF Base

LEMMA CommitBadgesBase ==
  ASSUME Base, NEW w \in Workers, CommitBadges(w)
  PROVE  Base'
<1>1. /\ work' \in [Workers -> Worker]
      /\ \A o \in Workers \ {w} : work'[o] = work[o]
      /\ work'[w].pc = "score"
      /\ work'[w].held = {}
      /\ work'[w].fact = work[w].fact /\ work'[w].seen = work[w].seen
      /\ work'[w].left = work[w].left /\ work'[w].want = work[w].want
      /\ work'[w].score = work[w].score /\ work'[w].row = work[w].row
      /\ work'[w].wrote = work[w].wrote /\ work'[w].ranks = work[w].ranks
      /\ UNCHANGED <<sent, recorded, earned, points, entry, lock, raced, doubled, crossed, behind, faults>>
  BY CommitBadgesStep
<1>2. User(w) \in Users /\ \A o \in Workers : User(o)' = User(o) /\ (work[o].pc # "idle" => User(o) \in Users)
  BY <1>1, UsersType DEF Base, WorkI, TypeOK, User, CommitBadges
<1>3. badges' \in [Users -> SUBSET Badges]
  BY <1>2, UsersType, NoneAssumption DEF Base, TypeOK, WorkI, Worker, CommitBadges, User
<1>4. TypeOK'
  BY <1>1, <1>3 DEF Base, TypeOK
<1>5. work[w].pc = "badges" /\ work[w].want = None
  BY DEF CommitBadges
<1>6. WorkI'
  <2> SUFFICES ASSUME NEW o \in Workers
               PROVE  (/\ work[o].pc # "idle" => work[o].fact \in Facts
                       /\ work[o].pc \in Onward => points[User(o)] # None
                       /\ work[o].pc # "badges" => work[o].held = {} /\ work[o].want = None
                       /\ work[o].wrote => work[o].pc \in {"rank", "lock"})'
    BY DEF WorkI
  <2>1. CASE o = w
    BY <2>1, <1>1, <1>2, <1>3, <1>5, NoneAssumption DEF Base, WorkI, Scoring, Onward
  <2>2. CASE o # w
    BY <2>2, <1>1, <1>2, <1>3, <1>5 DEF Base, WorkI, Scoring, Onward
  <2>3. QED BY <2>1, <2>2
<1>7. RowsI'
  BY <1>1, <1>2, <1>5 DEF Base, TypeOK, RowsI, Scoring
<1>8. QED BY <1>4, <1>6, <1>7 DEF Base

LEMMA ReadScoreBase ==
  ASSUME Base, NEW w \in Workers, ReadScore(w)
  PROVE  Base'
<1>1. /\ work' \in [Workers -> Worker]
      /\ \A o \in Workers \ {w} : work'[o] = work[o]
      /\ work'[w].pc = "row"
      /\ work'[w].score = points[User(w)]
      /\ work'[w].fact = work[w].fact /\ work'[w].seen = work[w].seen
      /\ work'[w].left = work[w].left /\ work'[w].want = work[w].want
      /\ work'[w].held = work[w].held /\ work'[w].row = work[w].row
      /\ work'[w].wrote = work[w].wrote /\ work'[w].ranks = work[w].ranks
      /\ UNCHANGED <<sent, recorded, earned, points, badges, entry, lock, raced, doubled, behind, faults>>
  BY ReadScoreStep
<1>2. User(w) \in Users /\ \A o \in Workers : User(o)' = User(o) /\ (work[o].pc # "idle" => User(o) \in Users)
  BY <1>1, UsersType DEF Base, WorkI, TypeOK, User, ReadScore
<1>3. crossed' \subseteq Users
  BY <1>2, UsersType, NoneAssumption DEF Base, TypeOK, WorkI, Worker, ReadScore, User
<1>4. TypeOK'
  BY <1>1, <1>3 DEF Base, TypeOK
<1>5. work[w].pc = "score"
  BY DEF ReadScore
<1>6. WorkI'
  <2> SUFFICES ASSUME NEW o \in Workers
               PROVE  (/\ work[o].pc # "idle" => work[o].fact \in Facts
                       /\ work[o].pc \in Onward => points[User(o)] # None
                       /\ work[o].pc # "badges" => work[o].held = {} /\ work[o].want = None
                       /\ work[o].wrote => work[o].pc \in {"rank", "lock"})'
    BY DEF WorkI
  <2>1. CASE o = w
    BY <2>1, <1>1, <1>2, <1>3, <1>5, NoneAssumption DEF Base, WorkI, Scoring, Onward
  <2>2. CASE o # w
    BY <2>2, <1>1, <1>2, <1>3, <1>5 DEF Base, WorkI, Scoring, Onward
  <2>3. QED BY <2>1, <2>2
<1>7. RowsI'
  BY <1>1, <1>2, <1>5 DEF Base, TypeOK, RowsI, Scoring
<1>8. QED BY <1>4, <1>6, <1>7 DEF Base

LEMMA ReadRowBase ==
  ASSUME Base, NEW w \in Workers, ReadRow(w)
  PROVE  Base'
<1>1. /\ work' \in [Workers -> Worker]
      /\ \A o \in Workers \ {w} : work'[o] = work[o]
      /\ work'[w].pc = "flush"
      /\ work'[w].row = entry[User(w)]
      /\ work'[w].fact = work[w].fact /\ work'[w].seen = work[w].seen
      /\ work'[w].left = work[w].left /\ work'[w].want = work[w].want
      /\ work'[w].held = work[w].held /\ work'[w].score = work[w].score
      /\ work'[w].wrote = work[w].wrote /\ work'[w].ranks = work[w].ranks
      /\ UNCHANGED <<sent, recorded, earned, points, badges, entry, lock, raced, doubled, crossed, behind, faults>>
  BY ReadRowStep
<1>2. User(w) \in Users /\ \A o \in Workers : User(o)' = User(o) /\ (work[o].pc # "idle" => User(o) \in Users)
  BY <1>1, UsersType DEF Base, WorkI, TypeOK, User, ReadRow
<1>4. TypeOK'
  BY <1>1 DEF Base, TypeOK
<1>5. work[w].pc = "row"
  BY DEF ReadRow
<1>6. WorkI'
  <2> SUFFICES ASSUME NEW o \in Workers
               PROVE  (/\ work[o].pc # "idle" => work[o].fact \in Facts
                       /\ work[o].pc \in Onward => points[User(o)] # None
                       /\ work[o].pc # "badges" => work[o].held = {} /\ work[o].want = None
                       /\ work[o].wrote => work[o].pc \in {"rank", "lock"})'
    BY DEF WorkI
  <2>1. CASE o = w
    BY <2>1, <1>1, <1>2, <1>5, NoneAssumption DEF Base, WorkI, Scoring, Onward
  <2>2. CASE o # w
    BY <2>2, <1>1, <1>2, <1>5 DEF Base, WorkI, Scoring, Onward
  <2>3. QED BY <2>1, <2>2
<1>7. RowsI'
  BY <1>1, <1>2, <1>5 DEF Base, TypeOK, RowsI, Scoring
<1>8. QED BY <1>4, <1>6, <1>7 DEF Base

LEMMA FlushRowBase ==
  ASSUME Base, NEW w \in Workers, FlushRow(w)
  PROVE  Base'
<1>1. /\ work' \in [Workers -> Worker]
      /\ \A o \in Workers \ {w} : work'[o] = work[o]
      /\ work'[w].pc = "rank"
      /\ work'[w].wrote = (IF work[w].row # None /\ work[w].row.points = work[w].score THEN work[w].wrote ELSE TRUE)
      /\ work'[w].fact = work[w].fact /\ work'[w].seen = work[w].seen
      /\ work'[w].left = work[w].left /\ work'[w].want = work[w].want
      /\ work'[w].held = work[w].held /\ work'[w].score = work[w].score
      /\ work'[w].row = work[w].row /\ work'[w].ranks = work[w].ranks
      /\ UNCHANGED <<sent, recorded, earned, points, badges, entry, raced, doubled, crossed, behind, faults>>
  BY FlushRowStep
<1>2. User(w) \in Users /\ \A o \in Workers : User(o)' = User(o) /\ (work[o].pc # "idle" => User(o) \in Users)
  BY <1>1, UsersType DEF Base, WorkI, TypeOK, User, FlushRow
<1>3. lock' \in [Users -> Workers \cup {None}] /\ (\A u \in Users : u # User(w) => lock'[u] = lock[u])
      /\ (lock'[User(w)] = lock[User(w)] \/ (lock'[User(w)] = w /\ lock[User(w)] = None))
      /\ (work'[w].wrote /\ ~work[w].wrote => lock'[User(w)] = w)
  <2>1. CASE UNCHANGED lock /\ work[w].row # None /\ work[w].row.points = work[w].score
    <3>1. work'[w].wrote = work[w].wrote /\ lock' = lock
      BY <2>1, <1>1
    <3>2. lock' \in [Users -> Workers \cup {None}]
      BY <3>1 DEF Base, TypeOK
    <3>3. QED BY <3>1, <3>2
  <2>2. CASE lock[User(w)] = None /\ lock' = [lock EXCEPT ![User(w)] = w]
    BY <2>2, <1>2 DEF Base, TypeOK
  <2>3. QED BY <2>1, <2>2 DEF FlushRow
<1>4. TypeOK'
  BY <1>1, <1>3 DEF Base, TypeOK
<1>5. work[w].pc = "flush"
  BY DEF FlushRow
<1>6. WorkI'
  <2> SUFFICES ASSUME NEW o \in Workers
               PROVE  (/\ work[o].pc # "idle" => work[o].fact \in Facts
                       /\ work[o].pc \in Onward => points[User(o)] # None
                       /\ work[o].pc # "badges" => work[o].held = {} /\ work[o].want = None
                       /\ work[o].wrote => work[o].pc \in {"rank", "lock"})'
    BY DEF WorkI
  <2>1. CASE o = w
    BY <2>1, <1>1, <1>2, <1>3, <1>5, NoneAssumption DEF Base, WorkI, Scoring, Onward
  <2>2. CASE o # w
    BY <2>2, <1>1, <1>2, <1>3, <1>5 DEF Base, WorkI, Scoring, Onward
  <2>3. QED BY <2>1, <2>2
<1>7. RowsI'
  <2> USE DEF Base
  <2>1. \A u \in Users : lock[u] # w
    BY <1>5, NoneAssumption DEF RowsI
  <2>2. (\A u \in Users : lock[u] # None =>
           work[lock[u]].pc \in {"rank", "lock"} /\ (u = User(lock[u]) \/ entry[u] # None))'
    <3> SUFFICES ASSUME NEW u \in Users, lock'[u] # None
                 PROVE  (work[lock[u]].pc \in {"rank", "lock"} /\ (u = User(lock[u]) \/ entry[u] # None))'
      OBVIOUS
    <3>1. CASE lock'[u] = lock[u]
      <4>1. lock[u] \in Workers \ {w}
        BY <2>1, <3>1 DEF TypeOK
      <4>2. QED BY <3>1, <4>1, <1>1, <1>2 DEF RowsI
    <3>2. CASE u = User(w) /\ lock'[u] = w
      BY <3>2, <1>1, <1>2
    <3>3. QED BY <3>1, <3>2, <1>3
  <2>3. ASSUME NEW o \in Workers \ {w}
        PROVE  (/\ work[o].pc \in {"rank", "lock"} =>
                     /\ work[o].wrote => lock[User(o)] = o
                     /\ ~work[o].wrote => work[o].row # None /\ work[o].row.points = work[o].score
                /\ work[o].pc \in Scoring \ {"row"} /\ work[o].row # None => entry[User(o)] # None
                /\ work[o].pc = "lock" =>
                     /\ \A v \in Users : work[o].ranks[v] # 0 => v = User(o) \/ entry[v] # None
                     /\ work[o].row = None => work[o].ranks[User(o)] # 0)'
    <3>1. work'[o] = work[o] /\ User(o)' = User(o) /\ entry' = entry
          /\ (work[o].pc \in {"rank", "lock"} => User(o) \in Users)
      BY <1>1, <1>2
    <3>2. work[o].pc \in {"rank", "lock"} /\ lock[User(o)] = o => lock'[User(o)] = o
      BY <3>1, <1>3, NoneAssumption
    <3>3. QED BY <3>1, <3>2 DEF RowsI
  <2>4. (/\ work[w].pc \in {"rank", "lock"} =>
              /\ work[w].wrote => lock[User(w)] = w
              /\ ~work[w].wrote => work[w].row # None /\ work[w].row.points = work[w].score
         /\ work[w].pc \in Scoring \ {"row"} /\ work[w].row # None => entry[User(w)] # None)'
    <3>1. ~work[w].wrote
      BY <1>5 DEF WorkI
    <3>2. work[w].row # None => entry[User(w)] # None
      BY <1>5 DEF RowsI, Scoring
    <3>3. QED BY <3>1, <3>2, <1>1, <1>2, <1>3
  <2>5. QED BY <1>1, <2>2, <2>3, <2>4 DEF RowsI
<1>8. QED BY <1>4, <1>6, <1>7 DEF Base

\* What is left when a worker is done with its fact, in any way.
LEMMA Ends ==
  ASSUME Base, NEW w \in Workers, work' = [work EXCEPT ![w] = Rest],
         lock' = [u \in Users |-> IF lock[u] = w THEN None ELSE lock[u]],
         UNCHANGED points, \A u \in Users : entry[u] # None => entry'[u] # None
  PROVE  /\ work' \in [Workers -> Worker]
         /\ \A o \in Workers \ {w} : work'[o] = work[o]
         /\ work'[w] = Rest
         /\ lock' \in [Users -> Workers \cup {None}]
         /\ WorkI' /\ RowsI'
<1>1. Rest \in Worker
  BY UsersType DEF Rest, Worker
<1>2. /\ work' \in [Workers -> Worker] /\ work'[w] = Rest
      /\ \A o \in Workers \ {w} : work'[o] = work[o]
  BY <1>1 DEF Base, TypeOK
<1>3. lock' \in [Users -> Workers \cup {None}]
  BY DEF Base, TypeOK
<1>4. /\ \A o \in Workers \ {w} : User(o)' = User(o)
      /\ \A o \in Workers : work[o].pc # "idle" => User(o) \in Users
  BY <1>2, UsersType DEF Base, WorkI, User
<1>5. /\ Rest.pc = "idle" /\ Rest.held = {} /\ Rest.want = None /\ Rest.wrote = FALSE
  BY DEF Rest
<1>6. WorkI'
  <2> SUFFICES ASSUME NEW o \in Workers
               PROVE  (/\ work[o].pc # "idle" => work[o].fact \in Facts
                       /\ work[o].pc \in Onward => points[User(o)] # None
                       /\ work[o].pc # "badges" => work[o].held = {} /\ work[o].want = None
                       /\ work[o].wrote => work[o].pc \in {"rank", "lock"})'
    BY DEF WorkI
  <2>1. CASE o = w
    BY <2>1, <1>2, <1>5 DEF Onward, Scoring
  <2>2. CASE o # w
    BY <2>2, <1>2, <1>4 DEF Base, WorkI
  <2>3. QED BY <2>1, <2>2
<1>7. RowsI'
  <2>1. (\A u \in Users : lock[u] # None =>
           work[lock[u]].pc \in {"rank", "lock"} /\ (u = User(lock[u]) \/ entry[u] # None))'
    <3> SUFFICES ASSUME NEW u \in Users, lock'[u] # None
                 PROVE  (work[lock[u]].pc \in {"rank", "lock"} /\ (u = User(lock[u]) \/ entry[u] # None))'
      OBVIOUS
    <3>1. lock'[u] = lock[u] /\ lock[u] \in Workers \ {w}
      BY DEF Base, TypeOK
    <3>2. QED BY <3>1, <1>2, <1>4 DEF Base, RowsI
  <2>2. ASSUME NEW o \in Workers
        PROVE  (/\ work[o].pc \in {"rank", "lock"} =>
                     /\ work[o].wrote => lock[User(o)] = o
                     /\ ~work[o].wrote => work[o].row # None /\ work[o].row.points = work[o].score
                /\ work[o].pc \in Scoring \ {"row"} /\ work[o].row # None => entry[User(o)] # None
                /\ work[o].pc = "lock" =>
                     /\ \A v \in Users : work[o].ranks[v] # 0 => v = User(o) \/ entry[v] # None
                     /\ work[o].row = None => work[o].ranks[User(o)] # 0)'
    <3>1. CASE o = w
      BY <3>1, <1>2, <1>5 DEF Scoring
    <3>2. CASE o # w
      <4>1. work'[o] = work[o] /\ User(o)' = User(o)
        BY <3>2, <1>2, <1>4
      <4>2. work[o].pc \in {"rank", "lock"} /\ lock[User(o)] = o => lock'[User(o)] = o
        BY <3>2, <1>4
      <4>3. work[o].pc \in Scoring => User(o) \in Users
        BY <1>4 DEF Scoring
      <4>4. QED BY <4>1, <4>2, <4>3 DEF Base, RowsI, Scoring
    <3>3. QED BY <3>1, <3>2
  <2>3. QED BY <2>1, <2>2 DEF RowsI
<1>8. QED BY <1>2, <1>3, <1>6, <1>7

LEMMA RollbackStep ==
  ASSUME Base, NEW w \in Workers, Rollback(w), work[w].pc # "idle", faults' \in 0 .. MaxFaults
  PROVE  /\ Base'
         /\ \A o \in Workers \ {w} : work'[o] = work[o]
         /\ work'[w] = Rest
         /\ work[w].pc \notin Recording => User(w) \in behind'
         /\ behind \subseteq behind'
         /\ UNCHANGED <<recorded, earned, points, badges, entry, raced, doubled, crossed>>
<1>1. /\ work' = [work EXCEPT ![w] = Rest]
      /\ lock' = [u \in Users |-> IF lock[u] = w THEN None ELSE lock[u]]
      /\ UNCHANGED <<sent, recorded, earned, points, badges, entry, raced, doubled, crossed>>
  BY DEF Rollback, awards
<1>2. /\ work' \in [Workers -> Worker]
      /\ \A o \in Workers \ {w} : work'[o] = work[o]
      /\ work'[w] = Rest
      /\ lock' \in [Users -> Workers \cup {None}]
      /\ WorkI' /\ RowsI'
  BY <1>1, Ends
<1>3. /\ behind \subseteq behind' /\ behind' \subseteq Users
      /\ work[w].pc \notin Recording => User(w) \in behind'
  BY UsersType DEF Base, WorkI, TypeOK, Rollback, User, Recording
<1>4. TypeOK'
  BY <1>1, <1>2, <1>3 DEF Base, TypeOK
<1>5. QED BY <1>1, <1>2, <1>3, <1>4 DEF Base

LEMMA CommitScoreStep ==
  ASSUME Base, NEW w \in Workers, CommitScore(w)
  PROVE  /\ Base'
         /\ \A o \in Workers \ {w} : work'[o] = work[o]
         /\ work'[w] = Rest
         /\ \A u \in Users : u # User(w) =>
              IF entry[u] = None THEN entry'[u] = None
              ELSE entry'[u] # None /\ entry'[u].points = entry[u].points
         /\ entry'[User(w)] # None
         /\ entry'[User(w)].points =
              IF work[w].row = None \/ work[w].wrote THEN work[w].score ELSE entry[User(w)].points
         /\ UNCHANGED <<recorded, earned, points, badges, raced, doubled, crossed, behind>>
<1>1. /\ work' = [work EXCEPT ![w] = Rest]
      /\ lock' = [u \in Users |-> IF lock[u] = w THEN None ELSE lock[u]]
      /\ work[w].pc = "lock"
      /\ UNCHANGED <<sent, recorded, earned, points, badges, raced, doubled, crossed, behind, faults>>
  BY DEF CommitScore, history
<1>2. /\ User(w) \in Users /\ work[w] \in Worker
      /\ entry \in [Users -> Rows \cup {None}]
      /\ work[w].row = None => work[w].ranks[User(w)] # 0
      /\ work[w].row # None => entry[User(w)] # None
      /\ work[w].wrote => lock[User(w)] = w
      /\ \A u \in Users : lock[u] = w => u = User(w) \/ entry[u] # None
  <2>1. User(w) \in Users /\ work[w] \in Worker /\ entry \in [Users -> Rows \cup {None}]
    BY <1>1, UsersType DEF Base, TypeOK, WorkI, User
  <2>2. /\ work[w].row = None => work[w].ranks[User(w)] # 0
        /\ work[w].row # None => entry[User(w)] # None
        /\ work[w].wrote => lock[User(w)] = w
    BY <1>1 DEF Base, RowsI, Scoring
  <2>3. \A u \in Users : lock[u] = w => u = User(w) \/ entry[u] # None
    BY NoneAssumption DEF Base, RowsI
  <2>4. QED BY <2>1, <2>2, <2>3
<1> DEFINE Own == [points |-> work[w].score, rank |-> work[w].ranks[User(w)]]
           New(u) == [points |-> IF u = User(w) /\ work[w].wrote THEN work[w].score ELSE entry[u].points,
                      rank |-> IF work[w].ranks[u] # 0 THEN work[w].ranks[u] ELSE entry[u].rank]
<1>3. None \notin Rows
  BY NoneIsNoRow
<1>4. ASSUME NEW u \in Users
      PROVE  entry'[u] = IF u = User(w) /\ work[w].row = None THEN Own
                         ELSE IF lock[u] = w THEN New(u) ELSE entry[u]
  BY DEF CommitScore
<1>5. work[w].row = None => Own \in Rows
  BY <1>2, UsersType DEF Worker, Rows
<1>6. ASSUME NEW u \in Users, entry[u] # None
      PROVE  New(u) \in Rows
  <2>1. entry[u] \in Rows
    BY <1>2, <1>6
  <2>2. entry[u].points \in Nat /\ entry[u].rank \in 1 .. Cardinality(Users)
        /\ work[w].score \in Nat /\ work[w].ranks[u] \in 0 .. Cardinality(Users)
    BY <2>1, <1>2 DEF Rows, Worker
  <2>3. New(u).points \in Nat /\ New(u).rank \in 1 .. Cardinality(Users)
    BY <2>2, UsersType
  <2>4. QED BY <2>3 DEF Rows
<1>7. entry' \in [Users -> Rows \cup {None}]
  <2>1. ASSUME NEW u \in Users PROVE entry'[u] \in Rows \cup {None}
    <3>1. CASE u = User(w) /\ work[w].row = None
      BY <3>1, <1>4, <1>5
    <3>2. CASE ~(u = User(w) /\ work[w].row = None) /\ lock[u] = w
      BY <3>2, <1>2, <1>4, <1>6
    <3>3. CASE ~(u = User(w) /\ work[w].row = None) /\ lock[u] # w
      BY <3>3, <1>2, <1>4
    <3>4. QED BY <3>1, <3>2, <3>3
  <2>2. entry' = [u \in Users |-> entry'[u]]
    BY DEF CommitScore
  <2>3. QED BY <2>1, <2>2
<1>8. ASSUME NEW u \in Users, u # User(w)
      PROVE  IF entry[u] = None THEN entry'[u] = None
             ELSE entry'[u] # None /\ entry'[u].points = entry[u].points
  <2>1. CASE entry[u] = None
    BY <2>1, <1>2, <1>4, <1>8
  <2>2. CASE entry[u] # None /\ lock[u] = w
    <3>1. entry'[u] = New(u) /\ New(u) \in Rows /\ New(u).points = entry[u].points
      BY <2>2, <1>4, <1>6, <1>8
    <3>2. QED BY <3>1, <2>2, <1>3
  <2>3. CASE entry[u] # None /\ lock[u] # w
    BY <2>3, <1>4, <1>8
  <2>4. QED BY <2>1, <2>2, <2>3
<1>9. /\ entry'[User(w)] # None
      /\ entry'[User(w)].points =
           IF work[w].row = None \/ work[w].wrote THEN work[w].score ELSE entry[User(w)].points
  <2>1. CASE work[w].row = None
    <3>1. entry'[User(w)] = Own /\ Own \in Rows /\ Own.points = work[w].score
      BY <2>1, <1>2, <1>4, <1>5
    <3>2. QED BY <3>1, <2>1, <1>3
  <2>2. CASE work[w].row # None /\ lock[User(w)] = w
    <3>1. entry'[User(w)] = New(User(w)) /\ New(User(w)) \in Rows
      BY <2>2, <1>2, <1>4, <1>6
    <3>2. New(User(w)).points = IF work[w].wrote THEN work[w].score ELSE entry[User(w)].points
      OBVIOUS
    <3>3. entry'[User(w)] # None
      BY <3>1, <1>3
    <3>4. QED BY <3>1, <3>2, <3>3, <2>2
  <2>3. CASE work[w].row # None /\ lock[User(w)] # w
    <3>1. entry'[User(w)] = entry[User(w)] /\ entry[User(w)] # None /\ ~work[w].wrote
      BY <2>3, <1>2, <1>4
    <3>2. QED BY <3>1, <2>3
  <2>4. QED BY <2>1, <2>2, <2>3
<1>10. /\ work' \in [Workers -> Worker]
       /\ \A o \in Workers \ {w} : work'[o] = work[o]
       /\ work'[w] = Rest
       /\ lock' \in [Users -> Workers \cup {None}]
       /\ WorkI' /\ RowsI'
  <2>1. \A u \in Users : entry[u] # None => entry'[u] # None
    BY <1>8, <1>9
  <2>2. QED BY <2>1, <1>1, Ends
<1>11. TypeOK'
  BY <1>1, <1>7, <1>10 DEF Base, TypeOK
<1>12. QED BY <1>1, <1>8, <1>9, <1>10, <1>11 DEF Base

LEMMA TakeStep ==
  ASSUME Base, NEW w \in Workers, NEW f \in Facts, Take(w, f)
  PROVE  /\ Base'
         /\ \A o \in Workers \ {w} : work'[o] = work[o]
         /\ work[w].pc = "idle"
         /\ \/ work'[w] = work[w]
            \/ work'[w].pc = "read" /\ work'[w].fact = f /\ recorded[f] = 0
         /\ doubled \subseteq doubled'
         /\ (\E o \in Workers : work[o].pc \in Recording /\ work[o].fact = f) => f \in doubled'
         /\ UNCHANGED <<recorded, earned, points, badges, entry, raced, crossed, behind>>
<1> DEFINE r == [Rest EXCEPT !.pc = "read", !.fact = f]
<1>1. /\ work[w].pc = "idle"
      /\ sent' = [sent EXCEPT ![f] = @ + 1]
      /\ UNCHANGED <<recorded, earned, points, badges, entry, lock, raced, crossed, behind, faults>>
  BY DEF Take, awards
<1>2. Rest \in Worker
  BY UsersType DEF Rest, Worker
<1>3. r \in Worker /\ r.pc = "read" /\ r.fact = f /\ r.held = {} /\ r.want = None /\ r.wrote = FALSE
  BY <1>2 DEF Worker, Rest
<1>4. /\ work' \in [Workers -> Worker]
      /\ \A o \in Workers \ {w} : work'[o] = work[o]
      /\ work'[w] = work[w] \/ (work'[w] = r /\ recorded[f] = 0)
  <2>1. CASE recorded[f] > 0
    <3>1. work' = work
      BY <2>1 DEF Take
    <3>2. work \in [Workers -> Worker]
      BY DEF Base, TypeOK
    <3>3. QED BY <3>1, <3>2
  <2>2. CASE ~(recorded[f] > 0)
    <3>1. work' = [work EXCEPT ![w] = r] /\ recorded[f] \in Nat
      BY <2>2 DEF Base, TypeOK, Take
    <3>2. recorded[f] = 0
      BY <3>1, <2>2
    <3>3. QED BY <3>1, <3>2, <1>3 DEF Base, TypeOK
  <2>3. QED BY <2>1, <2>2
<1>5. sent' \in [Facts -> Nat] /\ doubled \subseteq doubled' /\ doubled' \subseteq Facts
      /\ ((\E o \in Workers : work[o].pc \in Recording /\ work[o].fact = f) => f \in doubled')
  BY DEF Base, TypeOK, Take, Recording
<1>6. TypeOK'
  BY <1>1, <1>4, <1>5 DEF Base, TypeOK
<1>7. \A o \in Workers : work[o].pc # "idle" => User(o)' = User(o) /\ User(o) \in Users
  BY <1>1, <1>4, UsersType DEF Base, WorkI, User
<1>8. WorkI'
  <2> SUFFICES ASSUME NEW o \in Workers
               PROVE  (/\ work[o].pc # "idle" => work[o].fact \in Facts
                       /\ work[o].pc \in Onward => points[User(o)] # None
                       /\ work[o].pc # "badges" => work[o].held = {} /\ work[o].want = None
                       /\ work[o].wrote => work[o].pc \in {"rank", "lock"})'
    BY DEF WorkI
  <2>1. CASE work'[o] = work[o]
    BY <2>1, <1>1, <1>7 DEF Base, WorkI, Onward, Scoring
  <2>2. CASE work'[o] = r
    BY <2>2, <1>3 DEF Onward, Scoring
  <2>3. QED BY <2>1, <2>2, <1>4
<1>9. RowsI'
  <2>1. (\A u \in Users : lock[u] # None =>
           work[lock[u]].pc \in {"rank", "lock"} /\ (u = User(lock[u]) \/ entry[u] # None))'
    <3> SUFFICES ASSUME NEW u \in Users, lock[u] # None
                 PROVE  (work[lock[u]].pc \in {"rank", "lock"} /\ (u = User(lock[u]) \/ entry[u] # None))'
      BY <1>1
    <3>1. lock[u] \in Workers /\ work[lock[u]].pc \in {"rank", "lock"}
      BY DEF Base, TypeOK, RowsI
    <3>2. QED BY <3>1, <1>1, <1>4, <1>7 DEF Base, RowsI
  <2>2. ASSUME NEW o \in Workers
        PROVE  (/\ work[o].pc \in {"rank", "lock"} =>
                     /\ work[o].wrote => lock[User(o)] = o
                     /\ ~work[o].wrote => work[o].row # None /\ work[o].row.points = work[o].score
                /\ work[o].pc \in Scoring \ {"row"} /\ work[o].row # None => entry[User(o)] # None
                /\ work[o].pc = "lock" =>
                     /\ \A v \in Users : work[o].ranks[v] # 0 => v = User(o) \/ entry[v] # None
                     /\ work[o].row = None => work[o].ranks[User(o)] # 0)'
    <3>1. CASE work'[o] = work[o]
      BY <3>1, <1>1, <1>7 DEF Base, RowsI, Scoring
    <3>2. CASE work'[o] = r
      BY <3>2, <1>3 DEF Scoring
    <3>3. QED BY <3>1, <3>2, <1>4
  <2>3. QED BY <2>1, <2>2 DEF RowsI
<1>10. QED BY <1>1, <1>3, <1>4, <1>5, <1>6, <1>8, <1>9 DEF Base

LEMMA ReadRanksStep ==
  ASSUME Base, NEW w \in Workers, ReadRanks(w)
  PROVE  /\ work' \in [Workers -> Worker]
         /\ \A o \in Workers \ {w} : work'[o] = work[o]
         /\ work[w].pc = "rank" /\ work'[w].pc = "lock"
         /\ \A v \in Users : work'[w].ranks[v] # 0 => v = User(w) \/ entry[v] # None
         /\ work[w].row = None => work'[w].ranks[User(w)] # 0
         /\ work'[w].fact = work[w].fact /\ work'[w].seen = work[w].seen
         /\ work'[w].left = work[w].left /\ work'[w].want = work[w].want
         /\ work'[w].held = work[w].held /\ work'[w].score = work[w].score
         /\ work'[w].row = work[w].row /\ work'[w].wrote = work[w].wrote
         /\ UNCHANGED <<sent, recorded, earned, points, badges, entry, lock, raced, doubled, crossed, behind, faults>>
<1> USE DEF Base
<1>1. PICK rank \in [Listed(w) -> 1 .. Cardinality(Listed(w))] :
        work' = [work EXCEPT ![w].pc = "lock",
                   ![w].ranks = [u \in Users |-> IF u \in Listed(w) /\ rank[u] # Loaded(w, u) THEN rank[u] ELSE 0]]
  BY DEF ReadRanks
<1> DEFINE ranks == [u \in Users |-> IF u \in Listed(w) /\ rank[u] # Loaded(w, u) THEN rank[u] ELSE 0]
           r == [work[w] EXCEPT !.pc = "lock", !.ranks = ranks]
<1>2. Cardinality(Listed(w)) \in 0 .. Cardinality(Users)
  <2>1. Listed(w) \subseteq Users
    BY DEF Listed
  <2>2. IsFiniteSet(Users)
    BY AwardBoundsAssumption
  <2>3. IsFiniteSet(Listed(w)) /\ Cardinality(Listed(w)) <= Cardinality(Users)
    BY <2>1, <2>2, FS_Subset
  <2>4. QED BY <2>3, UsersType, FS_CardinalityType
<1>3. ranks \in [Users -> 0 .. Cardinality(Users)]
  BY <1>2, UsersType
<1>4. work[w] \in Worker /\ work' = [work EXCEPT ![w] = r]
  BY <1>1 DEF TypeOK
<1>5. r \in Worker
  BY <1>3, <1>4 DEF Worker, Scoring
<1>6. work' \in [Workers -> Worker] /\ work'[w] = r /\ \A o \in Workers \ {w} : work'[o] = work[o]
  BY <1>4, <1>5 DEF TypeOK
<1>7. work[w].pc = "rank" /\ UNCHANGED <<sent, recorded, earned, points, badges, entry, lock, raced, doubled, crossed, behind, faults>>
  BY DEF ReadRanks, awards, history
<1>8. User(w) \in Users
  BY <1>7, UsersType DEF WorkI, User
<1>9. \A v \in Users : ranks[v] # 0 => v = User(w) \/ entry[v] # None
  BY DEF Listed
<1>10. work[w].row = None => ranks[User(w)] # 0
  <2> SUFFICES ASSUME work[w].row = None
               PROVE  ranks[User(w)] # 0
    OBVIOUS
  <2>1. work[w].wrote
    BY <1>7 DEF RowsI
  <2>2. User(w) \in Listed(w) /\ Loaded(w, User(w)) = 0
    BY <1>8, <2>1 DEF Listed, Loaded
  <2>3. rank[User(w)] \in 1 .. Cardinality(Listed(w))
    BY <2>2
  <2>4. rank[User(w)] # 0
    BY <2>3, <1>2
  <2>5. QED BY <1>8, <2>2, <2>4
<1>11. r.ranks = ranks
  BY <1>4 DEF Worker
<1>12. QED BY <1>4, <1>6, <1>7, <1>9, <1>10, <1>11 DEF Worker

LEMMA ReadRanksBase ==
  ASSUME Base, NEW w \in Workers, ReadRanks(w)
  PROVE  Base'
<1>1. /\ work' \in [Workers -> Worker]
      /\ \A o \in Workers \ {w} : work'[o] = work[o]
      /\ work[w].pc = "rank" /\ work'[w].pc = "lock"
      /\ \A v \in Users : work'[w].ranks[v] # 0 => v = User(w) \/ entry[v] # None
      /\ work[w].row = None => work'[w].ranks[User(w)] # 0
      /\ work'[w].fact = work[w].fact /\ work'[w].seen = work[w].seen
      /\ work'[w].left = work[w].left /\ work'[w].want = work[w].want
      /\ work'[w].held = work[w].held /\ work'[w].score = work[w].score
      /\ work'[w].row = work[w].row /\ work'[w].wrote = work[w].wrote
      /\ UNCHANGED <<sent, recorded, earned, points, badges, entry, lock, raced, doubled, crossed, behind, faults>>
  BY ReadRanksStep
<1>2. User(w) \in Users /\ \A o \in Workers : User(o)' = User(o) /\ (work[o].pc # "idle" => User(o) \in Users)
  BY <1>1, UsersType DEF Base, WorkI, TypeOK, User
<1>3. TypeOK'
  BY <1>1 DEF Base, TypeOK
<1>4. WorkI'
  <2> SUFFICES ASSUME NEW o \in Workers
               PROVE  (/\ work[o].pc # "idle" => work[o].fact \in Facts
                       /\ work[o].pc \in Onward => points[User(o)] # None
                       /\ work[o].pc # "badges" => work[o].held = {} /\ work[o].want = None
                       /\ work[o].wrote => work[o].pc \in {"rank", "lock"})'
    BY DEF WorkI
  <2>1. CASE o = w
    BY <2>1, <1>1, <1>2 DEF Base, WorkI, Scoring, Onward
  <2>2. CASE o # w
    BY <2>2, <1>1, <1>2 DEF Base, WorkI
  <2>3. QED BY <2>1, <2>2
<1>5. RowsI'
  BY <1>1, <1>2 DEF Base, TypeOK, RowsI, Scoring
<1>6. QED BY <1>3, <1>4, <1>5 DEF Base

LEMMA LockRowBase ==
  ASSUME Base, NEW w \in Workers, LockRow(w)
  PROVE  /\ Base'
         /\ UNCHANGED <<work, recorded, earned, points, badges, entry, raced, doubled, crossed, behind>>
<1>1. PICK u \in Blocking(w) : lock[u] = None /\ lock' = [lock EXCEPT ![u] = w]
  BY DEF LockRow
<1>2. /\ work[w].pc = "lock"
      /\ UNCHANGED <<sent, recorded, earned, points, badges, entry, work, raced, doubled, crossed, behind, faults>>
  BY DEF LockRow, awards, history
<1>3. u \in Users /\ (u = User(w) \/ entry[u] # None)
  BY <1>2 DEF Blocking, ToLock, Base, RowsI
<1>4. /\ lock' \in [Users -> Workers \cup {None}] /\ lock'[u] = w
      /\ \A v \in Users \ {u} : lock'[v] = lock[v]
  BY <1>1, <1>3 DEF Base, TypeOK
<1>5. \A o \in Workers : User(o)' = User(o) /\ (work[o].pc # "idle" => User(o) \in Users)
  BY <1>2, UsersType DEF Base, WorkI, User
<1>6. TypeOK' /\ WorkI'
  BY <1>2, <1>4, <1>5 DEF Base, TypeOK, WorkI
<1>7. RowsI'
  <2>1. (\A v \in Users : lock[v] # None =>
           work[lock[v]].pc \in {"rank", "lock"} /\ (v = User(lock[v]) \/ entry[v] # None))'
    <3> SUFFICES ASSUME NEW v \in Users, lock'[v] # None
                 PROVE  (work[lock[v]].pc \in {"rank", "lock"} /\ (v = User(lock[v]) \/ entry[v] # None))'
      OBVIOUS
    <3>1. CASE v = u
      BY <3>1, <1>2, <1>3, <1>4, <1>5
    <3>2. CASE v # u
      <4>1. lock'[v] = lock[v] /\ lock[v] \in Workers
        BY <3>2, <1>4 DEF Base, TypeOK
      <4>2. QED BY <4>1, <1>2, <1>5 DEF Base, RowsI
    <3>3. QED BY <3>1, <3>2
  <2>2. ASSUME NEW o \in Workers
        PROVE  (/\ work[o].pc \in {"rank", "lock"} =>
                     /\ work[o].wrote => lock[User(o)] = o
                     /\ ~work[o].wrote => work[o].row # None /\ work[o].row.points = work[o].score
                /\ work[o].pc \in Scoring \ {"row"} /\ work[o].row # None => entry[User(o)] # None
                /\ work[o].pc = "lock" =>
                     /\ \A v \in Users : work[o].ranks[v] # 0 => v = User(o) \/ entry[v] # None
                     /\ work[o].row = None => work[o].ranks[User(o)] # 0)'
    <3>1. work[o].pc \in {"rank", "lock"} /\ lock[User(o)] = o => lock'[User(o)] = o
      BY <1>1, <1>4, <1>5, NoneAssumption
    <3>2. QED BY <3>1, <1>2, <1>5 DEF Base, RowsI
  <2>3. QED BY <2>1, <2>2 DEF RowsI
<1>8. QED BY <1>2, <1>6, <1>7 DEF Base

-----------------------------------------------------------------------------
(* A fact is recorded twice only if two workers recorded it at once. *)

OnceI ==
  /\ \A w, o \in Workers :
       w # o /\ work[w].pc \in Recording /\ work[o].pc \in Recording /\ work[w].fact = work[o].fact
         => work[w].fact \in doubled
  /\ \A w \in Workers : work[w].pc \in Recording /\ recorded[work[w].fact] > 0 => work[w].fact \in doubled
  /\ AwardedOnce

LEMMA OnceQuiet ==
  ASSUME OnceI, UNCHANGED recorded, doubled \subseteq doubled',
         \A o \in Workers : work'[o].pc \in Recording => work[o].pc \in Recording /\ work'[o].fact = work[o].fact
  PROVE  OnceI'
BY DEF OnceI, AwardedOnce

LEMMA OnceTake ==
  ASSUME Base, OnceI, NEW w \in Workers, NEW f \in Facts, Take(w, f)
  PROVE  OnceI'
<1>1. /\ \A o \in Workers \ {w} : work'[o] = work[o]
      /\ work[w].pc = "idle"
      /\ \/ work'[w] = work[w]
         \/ work'[w].pc = "read" /\ work'[w].fact = f /\ recorded[f] = 0
      /\ doubled \subseteq doubled'
      /\ (\E o \in Workers : work[o].pc \in Recording /\ work[o].fact = f) => f \in doubled'
      /\ UNCHANGED recorded
  BY TakeStep
<1>2. CASE work'[w] = work[w]
  BY <1>1, <1>2, OnceQuiet
<1>3. CASE work'[w].pc = "read" /\ work'[w].fact = f /\ recorded[f] = 0
  <2>1. ASSUME NEW a \in Workers, NEW o \in Workers, a # o,
               work'[a].pc \in Recording, work'[o].pc \in Recording, work'[a].fact = work'[o].fact
        PROVE  work'[a].fact \in doubled'
    <3>1. CASE a = w
      BY <3>1, <2>1, <1>1, <1>3
    <3>2. CASE o = w
      BY <3>2, <2>1, <1>1, <1>3
    <3>3. CASE a # w /\ o # w
      BY <3>3, <2>1, <1>1 DEF OnceI
    <3>4. QED BY <3>1, <3>2, <3>3
  <2>2. ASSUME NEW a \in Workers, work'[a].pc \in Recording, recorded'[work'[a].fact] > 0
        PROVE  work'[a].fact \in doubled'
    BY <2>2, <1>1, <1>3 DEF OnceI
  <2>3. AwardedOnce'
    BY <1>1 DEF OnceI, AwardedOnce
  <2>4. QED BY <2>1, <2>2, <2>3 DEF OnceI
<1>4. QED BY <1>1, <1>2, <1>3

LEMMA OnceAdd ==
  ASSUME Base, OnceI, NEW w \in Workers, AddPoints(w)
  PROVE  OnceI'
<1>1. /\ \A o \in Workers \ {w} : work'[o] = work[o]
      /\ work'[w].pc \in {"badges", "score"} /\ UNCHANGED doubled
  BY AddPointsStep DEF AfterPoints
<1> DEFINE f == work[w].fact
<1>2. f \in Facts /\ work[w].pc \in Recording
  BY DEF Base, WorkI, AddPoints, Recording
<1>3. recorded' = [recorded EXCEPT ![f] = @ + 1] /\ recorded \in [Facts -> Nat]
  BY DEF AddPoints, Base, TypeOK
<1>4. \A g \in Facts : g # f => recorded'[g] = recorded[g]
  BY <1>2, <1>3
<1>5. recorded'[f] = recorded[f] + 1 /\ recorded[f] \in Nat
  BY <1>2, <1>3
<1>6. \A o \in Workers : work'[o].pc \in Recording => o # w /\ work'[o] = work[o] /\ work[o].fact \in Facts
  BY <1>1 DEF Recording, Base, WorkI
<1>7. ASSUME NEW o \in Workers, work'[o].pc \in Recording, recorded'[work'[o].fact] > 0
      PROVE  work'[o].fact \in doubled'
  <2>1. CASE work[o].fact = f
    BY <2>1, <1>1, <1>2, <1>6, <1>7 DEF OnceI
  <2>2. CASE work[o].fact # f
    BY <2>2, <1>1, <1>4, <1>6, <1>7 DEF OnceI
  <2>3. QED BY <2>1, <2>2
<1>8. AwardedOnce'
  <2> SUFFICES ASSUME NEW g \in Facts, recorded'[g] > 1
               PROVE  g \in doubled
    BY <1>1 DEF AwardedOnce
  <2>1. CASE g = f
    <3>1. recorded[f] > 0
      BY <2>1, <1>5
    <3>2. QED BY <3>1, <2>1, <1>2 DEF OnceI
  <2>2. CASE g # f
    BY <2>2, <1>4 DEF OnceI, AwardedOnce
  <2>3. QED BY <2>1, <2>2
<1>9. QED BY <1>1, <1>6, <1>7, <1>8 DEF OnceI

-----------------------------------------------------------------------------
(* A total that is about to be written is not above what was earned. *)

PointsI ==
  /\ \A w \in Workers :
       /\ work[w].pc = "add" =>
            /\ work[w].seen # None => work[w].seen <= earned[User(w)]
            /\ User(w) \notin raced => work[w].seen = points[User(w)]
            /\ \A o \in Workers \ {w} : At(o, User(w), {"add"}) => User(w) \in raced
       /\ work[w].pc \in Scoring => work[w].score <= earned[User(w)]
  /\ PointsKept

LEMMA PointsQuiet ==
  ASSUME PointsI, UNCHANGED <<points, earned>>, raced \subseteq raced',
         \A o \in Workers :
           /\ work'[o].pc = "add" =>
                work[o].pc = "add" /\ work'[o].fact = work[o].fact /\ work'[o].seen = work[o].seen
           /\ work'[o].pc \in Scoring =>
                work[o].pc \in Scoring /\ work'[o].fact = work[o].fact /\ work'[o].score = work[o].score,
         \A u \in Users : entry'[u] # None => entry'[u].points <= earned[u]
  PROVE  PointsI'
<1>1. PointsKept'
  BY DEF PointsI, PointsKept, Total
<1>2. ASSUME NEW o \in Workers
      PROVE  (/\ work[o].pc = "add" =>
                   /\ work[o].seen # None => work[o].seen <= earned[User(o)]
                   /\ User(o) \notin raced => work[o].seen = points[User(o)]
                   /\ \A q \in Workers \ {o} : At(q, User(o), {"add"}) => User(o) \in raced
              /\ work[o].pc \in Scoring => work[o].score <= earned[User(o)])'
  BY DEF PointsI, At, User
<1>3. QED BY <1>1, <1>2 DEF PointsI

LEMMA PointsRead ==
  ASSUME Base, PointsI, NEW w \in Workers, ReadPoints(w)
  PROVE  PointsI'
<1>1. /\ \A o \in Workers \ {w} : work'[o] = work[o]
      /\ work'[w].pc = "add" /\ work'[w].seen = points[User(w)] /\ work'[w].fact = work[w].fact
      /\ UNCHANGED <<earned, points, entry>>
  BY ReadPointsStep
<1>2. /\ \A o \in Workers : User(o)' = User(o)
      /\ User(w) \in Users
  BY <1>1, UsersType DEF User, Base, WorkI, ReadPoints
<1>3. raced \subseteq raced' /\ ((\E o \in Workers \ {w} : At(o, User(w), {"add"})) => User(w) \in raced')
  BY DEF ReadPoints, Beside, At
<1>4. PointsKept'
  BY <1>1, <1>3 DEF PointsI, PointsKept, Total
<1>5. ASSUME NEW o \in Workers
      PROVE  (/\ work[o].pc = "add" =>
                   /\ work[o].seen # None => work[o].seen <= earned[User(o)]
                   /\ User(o) \notin raced => work[o].seen = points[User(o)]
                   /\ \A q \in Workers \ {o} : At(q, User(o), {"add"}) => User(o) \in raced
              /\ work[o].pc \in Scoring => work[o].score <= earned[User(o)])'
  <2>1. CASE o = w
    <3>1. points[User(w)] # None => points[User(w)] <= earned[User(w)]
      BY <1>2 DEF PointsI, PointsKept, Total
    <3>2. \A q \in Workers \ {w} : At(q, User(w), {"add"})' => User(w) \in raced'
      BY <1>1, <1>2, <1>3 DEF At
    <3>3. QED BY <2>1, <3>1, <3>2, <1>1, <1>2 DEF At, Scoring
  <2>2. CASE o # w
    <3>1. work'[o] = work[o] /\ User(o)' = User(o)
      BY <2>2, <1>1, <1>2
    <3>2. work[o].pc = "add" => \A q \in Workers \ {o} : At(q, User(o), {"add"})' => User(o) \in raced'
      <4> SUFFICES ASSUME work[o].pc = "add", NEW q \in Workers \ {o}, At(q, User(o), {"add"})'
                   PROVE  User(o) \in raced'
        OBVIOUS
      <4>1. CASE q = w
        BY <4>1, <2>2, <3>1, <1>2, <1>3 DEF At
      <4>2. CASE q # w
        BY <4>2, <3>1, <1>1, <1>2, <1>3 DEF At, PointsI
      <4>3. QED BY <4>1, <4>2
    <3>3. QED BY <3>1, <3>2, <1>1, <1>3 DEF PointsI, At
  <2>3. QED BY <2>1, <2>2
<1>6. QED BY <1>4, <1>5 DEF PointsI

LEMMA PointsAdd ==
  ASSUME Base, PointsI, NEW w \in Workers, AddPoints(w)
  PROVE  PointsI'
<1> DEFINE u == User(w)
           total == IF work[w].seen = None THEN 0 ELSE work[w].seen
           worth == Worth[work[w].fact]
<1>1. /\ \A o \in Workers \ {w} : work'[o] = work[o]
      /\ work'[w].pc \in {"badges", "score"} /\ work'[w].fact = work[w].fact
      /\ UNCHANGED <<entry, raced>>
  BY AddPointsStep DEF AfterPoints
<1>2. /\ \A o \in Workers : User(o)' = User(o)
      /\ \A o \in Workers : work[o].pc # "idle" => User(o) \in Users
      /\ u \in Users /\ worth \in Nat /\ work[w].pc = "add" /\ work[w] \in Worker
  BY <1>1, UsersType DEF User, Base, TypeOK, WorkI, AddPoints
<1>3. /\ points \in [Users -> Nat \cup {None}] /\ earned \in [Users -> Nat]
      /\ points' = [points EXCEPT ![u] = total + worth]
      /\ earned' = [earned EXCEPT ![u] = @ + worth]
  BY DEF AddPoints, Base, TypeOK
<1>4. /\ points'[u] = total + worth /\ earned'[u] = earned[u] + worth /\ earned[u] \in Nat
      /\ \A v \in Users \ {u} : points'[v] = points[v] /\ earned'[v] = earned[v]
  BY <1>2, <1>3
<1>5. total \in Nat /\ total <= earned[u] /\ (u \notin raced => total = Total(u))
  <2>1. work[w].seen \in Nat \cup {None}
    BY <1>2 DEF Worker
  <2>2. work[w].seen # None => work[w].seen <= earned[u]
    BY <1>2 DEF PointsI
  <2>3. u \notin raced => work[w].seen = points[u]
    BY <1>2 DEF PointsI
  <2>4. QED BY <2>1, <2>2, <2>3, <1>4 DEF Total
<1>6. points'[u] # None /\ points'[u] = total + worth
  BY <1>2, <1>4, <1>5, NoneAssumption
<1>7. \A v \in Users : earned[v] <= earned'[v] /\ earned[v] \in Nat /\ earned'[v] \in Nat
  BY <1>2, <1>3, <1>4
<1>8. PointsKept'
  <2> SUFFICES ASSUME NEW v \in Users
               PROVE  (/\ Total(v) <= earned[v]
                       /\ v \notin raced => Total(v) = earned[v]
                       /\ entry[v] # None => entry[v].points <= earned[v])'
    BY DEF PointsKept
  <2>1. (entry[v] # None => entry[v].points <= earned[v])'
    <3>1. entry[v] # None => entry[v].points \in Nat /\ entry[v].points <= earned[v]
      BY DEF Base, TypeOK, Rows, PointsI, PointsKept
    <3>2. QED BY <3>1, <1>1, <1>7
  <2>2. CASE v = u
    <3>1. Total(v)' = total + worth
      BY <1>6, <2>2 DEF Total
    <3>2. u \notin raced => total = earned[u]
      BY <1>2, <1>5 DEF PointsI, PointsKept
    <3>3. QED BY <3>1, <3>2, <2>1, <2>2, <1>1, <1>2, <1>4, <1>5
  <2>3. CASE v # u
    <3>1. Total(v)' = Total(v) /\ earned'[v] = earned[v]
      BY <2>3, <1>4 DEF Total
    <3>2. QED BY <3>1, <2>1, <1>1 DEF PointsI, PointsKept
  <2>4. QED BY <2>2, <2>3
<1>9. ASSUME NEW o \in Workers
      PROVE  (/\ work[o].pc = "add" =>
                   /\ work[o].seen # None => work[o].seen <= earned[User(o)]
                   /\ User(o) \notin raced => work[o].seen = points[User(o)]
                   /\ \A q \in Workers \ {o} : At(q, User(o), {"add"}) => User(o) \in raced
              /\ work[o].pc \in Scoring => work[o].score <= earned[User(o)])'
  <2>1. CASE o = w
    BY <2>1, <1>1 DEF Scoring
  <2>2. CASE o # w
    <3>1. work'[o] = work[o] /\ User(o)' = User(o) /\ (work[o].pc # "idle" => User(o) \in Users)
          /\ work[o] \in Worker
      BY <2>2, <1>1, <1>2 DEF Base, TypeOK
    <3>2. (work[o].pc \in Scoring => work[o].score <= earned[User(o)])'
      <4>1. work[o].pc \in Scoring => User(o) \in Users /\ work[o].score <= earned[User(o)]
        BY <3>1 DEF PointsI, Scoring
      <4>2. work[o].score \in Nat
        BY <3>1 DEF Worker
      <4>3. QED BY <3>1, <4>1, <4>2, <1>7
    <3>3. ASSUME work[o].pc = "add"
          PROVE  (/\ work[o].seen # None => work[o].seen <= earned[User(o)]
                  /\ User(o) \notin raced => work[o].seen = points[User(o)])'
      <4>1. User(o) \in Users /\ work[o].seen \in Nat \cup {None}
        BY <3>1, <3>3 DEF Worker
      <4>2. work[o].seen # None => work[o].seen <= earned[User(o)]
        BY <3>3 DEF PointsI
      <4>3. User(o) \notin raced => User(o) # u /\ work[o].seen = points[User(o)]
        BY <3>3, <2>2, <1>2 DEF PointsI, At
      <4>4. QED BY <4>1, <4>2, <4>3, <3>1, <1>1, <1>4, <1>7
    <3>4. (work[o].pc = "add" => \A q \in Workers \ {o} : At(q, User(o), {"add"}) => User(o) \in raced)'
      BY <3>1, <1>1, <1>2 DEF At, PointsI
    <3>5. QED BY <3>1, <3>2, <3>3, <3>4
  <2>3. QED BY <2>1, <2>2
<1>10. QED BY <1>8, <1>9 DEF PointsI

LEMMA PointsScore ==
  ASSUME Base, PointsI, NEW w \in Workers, ReadScore(w)
  PROVE  PointsI'
<1>1. /\ \A o \in Workers \ {w} : work'[o] = work[o]
      /\ work'[w].pc = "row" /\ work'[w].score = points[User(w)] /\ work'[w].fact = work[w].fact
      /\ UNCHANGED <<earned, points, entry, raced>>
  BY ReadScoreStep
<1>2. \A o \in Workers : User(o)' = User(o)
  BY <1>1 DEF User
<1>3. User(w) \in Users /\ points[User(w)] # None
  BY UsersType DEF User, Base, WorkI, ReadScore, Onward
<1>4. points[User(w)] <= earned[User(w)]
  BY <1>3 DEF PointsI, PointsKept, Total
<1>5. PointsKept'
  BY <1>1 DEF PointsI, PointsKept, Total
<1>6. ASSUME NEW o \in Workers
      PROVE  (/\ work[o].pc = "add" =>
                   /\ work[o].seen # None => work[o].seen <= earned[User(o)]
                   /\ User(o) \notin raced => work[o].seen = points[User(o)]
                   /\ \A q \in Workers \ {o} : At(q, User(o), {"add"}) => User(o) \in raced
              /\ work[o].pc \in Scoring => work[o].score <= earned[User(o)])'
  <2>1. CASE o = w
    BY <2>1, <1>1, <1>2, <1>4
  <2>2. CASE o # w
    <3>1. \A q \in Workers : At(q, User(o), {"add"})' => At(q, User(o), {"add"})
      BY <1>1, <1>2 DEF At
    <3>2. QED BY <2>2, <3>1, <1>1, <1>2 DEF PointsI
  <2>3. QED BY <2>1, <2>2
<1>7. QED BY <1>5, <1>6 DEF PointsI

LEMMA PointsCommit ==
  ASSUME Base, PointsI, NEW w \in Workers, CommitScore(w)
  PROVE  PointsI'
<1>1. /\ \A o \in Workers \ {w} : work'[o] = work[o]
      /\ work'[w] = Rest /\ Rest.pc = "idle"
      /\ \A u \in Users : u # User(w) =>
           IF entry[u] = None THEN entry'[u] = None
           ELSE entry'[u] # None /\ entry'[u].points = entry[u].points
      /\ entry'[User(w)].points =
           IF work[w].row = None \/ work[w].wrote THEN work[w].score ELSE entry[User(w)].points
      /\ UNCHANGED <<earned, points, raced>>
  BY CommitScoreStep DEF Rest
<1>2. /\ work[w].score <= earned[User(w)]
      /\ work[w].row # None => entry[User(w)] # None
  BY DEF CommitScore, PointsI, Scoring, Base, RowsI
<1>3. ASSUME NEW u \in Users, entry'[u] # None
      PROVE  entry'[u].points <= earned[u]
  BY <1>1, <1>2, <1>3 DEF PointsI, PointsKept
<1>4. QED BY <1>1, <1>3, PointsQuiet DEF Scoring

-----------------------------------------------------------------------------
(* A badge a user has earned is awarded or in a worker's hands. *)

\* The worker has inserted the badge, or will still evaluate it with the type.
InHand(w, u, b, e) ==
  /\ At(w, u, {"badges"})
  /\ b \in work[w].held \/ (EventOf[work[w].fact] = e /\ b \in work[w].left \cup {work[w].want})

\* A worker looks at the badges after such an event, which it recorded, and
\* only at those that go with it.
LookI ==
  \A w \in Workers : work[w].pc = "badges" =>
    /\ EventOf[work[w].fact] \in Checked /\ recorded[work[w].fact] > 0
    /\ work[w].left \subseteq Suited(EventOf[work[w].fact])
    /\ work[w].want # None => work[w].want \in Suited(EventOf[work[w].fact])

BadgesI ==
  /\ LookI
  /\ \A w \in Workers : \A b \in work[w].held : \E e \in EventTypes : Earns(User(w), b, e)
  /\ \A u \in Users, b \in Badges :
       /\ b \in badges[u] => \E e \in EventTypes : Earns(u, b, e)
       /\ \A e \in EventTypes : u \notin behind /\ Earns(u, b, e) =>
            b \in badges[u] \/ \E w \in Workers : InHand(w, u, b, e)

\* Counted, of any records.
Records(records, u, e) ==
  UNION {{f} \X (1 .. records[f]) : f \in {g \in Facts : UserOf[g] = u /\ EventOf[g] = e}}

LEMMA CountedFinite ==
  ASSUME NEW records \in [Facts -> Nat], NEW u, NEW e
  PROVE  IsFiniteSet(Records(records, u, e))
<1> DEFINE S == {g \in Facts : UserOf[g] = u /\ EventOf[g] = e}
           h == [f \in S |-> {f} \X (1 .. records[f])]
           T == {{f} \X (1 .. records[f]) : f \in S}
<1>1. IsFiniteSet(S)
  BY AwardBoundsAssumption, FS_Subset
<1>2. h \in Surjection(S, T)
  BY DEF Surjection
<1>3. \A X \in T : IsFiniteSet(X)
  <2>1. SUFFICES ASSUME NEW f \in S PROVE IsFiniteSet({f} \X (1 .. records[f]))
    OBVIOUS
  <2>2. records[f] \in Int /\ 1 \in Int
    OBVIOUS
  <2>3. IsFiniteSet({f}) /\ IsFiniteSet(1 .. records[f])
    BY <2>2, FS_Singleton, FS_Interval
  <2>4. QED BY <2>3, FS_Product
<1>4. Records(records, u, e) = UNION T
  BY DEF Records
<1> HIDE DEF S, h, T
<1>5. IsFiniteSet(T)
  BY <1>1, <1>2, FS_Surjection
<1>6. QED BY <1>3, <1>4, <1>5, FS_UNION

\* Nothing is forgotten: what is earned stays earned.
LEMMA EarnsStays ==
  ASSUME TypeOK, TypeOK', \A f \in Facts : recorded[f] <= recorded'[f],
         NEW u, NEW b \in Badges, NEW e, Earns(u, b, e)
  PROVE  Earns(u, b, e)'
<1>1. Counted(u, e) \subseteq Counted(u, e)'
  <2> SUFFICES ASSUME NEW f \in Facts, UserOf[f] = u, EventOf[f] = e, NEW k \in 1 .. recorded[f]
               PROVE  k \in 1 .. recorded'[f]
    BY DEF Counted
  <2>1. recorded[f] \in Nat /\ recorded'[f] \in Nat /\ recorded[f] <= recorded'[f]
    BY DEF TypeOK
  <2>2. QED BY <2>1
<1>2. PICK C : C = Counted(u, e)
  OBVIOUS
<1>3. PICK D : D = Counted(u, e)'
  OBVIOUS
<1>4. IsFiniteSet(Counted(u, e)')
  <2>1. recorded' \in [Facts -> Nat]
    BY DEF TypeOK
  <2>2. PICK r \in [Facts -> Nat] : r = recorded'
    BY <2>1
  <2>3. IsFiniteSet(Records(r, u, e))
    BY CountedFinite
  <2>4. Counted(u, e)' = Records(r, u, e)
    BY <2>2 DEF Counted, Records
  <2>5. QED BY <2>3, <2>4
<1>5. IsFiniteSet(D) /\ C \in SUBSET D
  BY <1>1, <1>2, <1>3, <1>4
<1>6. IsFiniteSet(C) /\ Cardinality(C) <= Cardinality(D)
  BY <1>5, FS_Subset
<1>7. Cardinality(C) \in Nat /\ Cardinality(D) \in Nat /\ Need[b] \in Nat
  BY <1>5, <1>6, FS_CardinalityType, FactsAssumption
<1>8. e \in Checked /\ b \in Suited(e) /\ C # {} /\ Cardinality(C) >= Need[b]
  BY <1>2 DEF Earns
<1>9. D # {} /\ Cardinality(D) >= Need[b]
  BY <1>5, <1>6, <1>7, <1>8
<1>10. (e \in Checked /\ b \in Suited(e))'
  BY <1>8 DEF Suited
<1>11. QED BY <1>3, <1>9, <1>10 DEF Earns

LEMMA BadgesQuiet ==
  ASSUME Base, BadgesI, NEW w \in Workers,
         \A o \in Workers \ {w} : work'[o] = work[o],
         work[w].pc # "badges" \/ User(w) \in behind', work'[w].held = {}, work'[w].pc # "badges",
         UNCHANGED <<recorded, badges>>, behind \subseteq behind'
  PROVE  BadgesI'
<1>1. \A u, e : Counted(u, e)' = Counted(u, e)
  BY DEF Counted
<1>2. \A u, b, e : Earns(u, b, e)' = Earns(u, b, e)
  BY <1>1 DEF Earns, Suited
<1>3. ASSUME NEW o \in Workers, NEW b \in work'[o].held
      PROVE  \E e \in EventTypes : Earns(User(o), b, e)'
  <2>1. o # w /\ work'[o] = work[o]
    BY <1>3
  <2>2. QED BY <2>1, <1>2, <1>3 DEF BadgesI, User
<1>4. ASSUME NEW u \in Users, NEW b \in Badges
      PROVE  (/\ b \in badges[u] => \E e \in EventTypes : Earns(u, b, e)
              /\ \A e \in EventTypes : u \notin behind /\ Earns(u, b, e) =>
                   b \in badges[u] \/ \E o \in Workers : InHand(o, u, b, e))'
  <2>1. ASSUME u \notin behind', NEW o \in Workers, NEW e \in EventTypes, InHand(o, u, b, e)
        PROVE  InHand(o, u, b, e)'
    BY <2>1 DEF InHand, At, User
  <2>2. QED BY <2>1, <1>2 DEF BadgesI
<1>5. LookI'
  BY DEF BadgesI, LookI, Suited
<1>6. QED BY <1>2, <1>3, <1>4, <1>5 DEF BadgesI, User

LEMMA BadgesAdd ==
  ASSUME Base, Base', BadgesI, NEW w \in Workers, AddPoints(w)
  PROVE  BadgesI'
<1> DEFINE f == work[w].fact
<1>1. /\ \A o \in Workers \ {w} : work'[o] = work[o]
      /\ work'[w].pc = AfterPoints(w) /\ work'[w].left = LeftAfterPoints(w)
      /\ work'[w].held = work[w].held /\ work'[w].fact = f /\ work'[w].want = work[w].want
      /\ UNCHANGED <<badges, behind>>
  BY AddPointsStep
<1>2. f \in Facts /\ work[w].pc = "add" /\ work[w].held = {} /\ work[w].want = None
  BY DEF Base, WorkI, AddPoints
<1>3. /\ recorded \in [Facts -> Nat] /\ recorded'[f] = recorded[f] + 1
      /\ \A g \in Facts : g # f => recorded'[g] = recorded[g]
  BY <1>2 DEF AddPoints, Base, TypeOK
<1>4. \A g \in Facts : recorded[g] \in Nat /\ recorded[g] <= recorded'[g]
  BY <1>2, <1>3
<1>5. ASSUME NEW u, NEW b \in Badges, NEW e, Earns(u, b, e)
      PROVE  Earns(u, b, e)'
  BY <1>4, <1>5, EarnsStays DEF Base
<1>6. ASSUME NEW o \in Workers, NEW b \in work'[o].held
      PROVE  \E e \in EventTypes : Earns(User(o), b, e)'
  <2>1. o # w /\ work'[o] = work[o]
    BY <1>1, <1>2, <1>6
  <2>2. b \in Badges /\ b \in work[o].held
    BY <2>1, <1>6 DEF Base, TypeOK, Worker
  <2>3. PICK e \in EventTypes : Earns(User(o), b, e)
    BY <2>2 DEF BadgesI
  <2>4. PICK u : u = User(o)
    OBVIOUS
  <2>5. Earns(u, b, e)'
    BY <2>2, <2>3, <2>4, <1>5
  <2>6. User(o)' = u
    BY <2>1, <2>4 DEF User
  <2>7. QED BY <2>5, <2>6 DEF Earns, Counted
<1>7. ASSUME NEW u \in Users, NEW b \in Badges
      PROVE  (/\ b \in badges[u] => \E e \in EventTypes : Earns(u, b, e)
              /\ \A e \in EventTypes : u \notin behind /\ Earns(u, b, e) =>
                   b \in badges[u] \/ \E o \in Workers : InHand(o, u, b, e))'
  <2>1. b \in badges'[u] => \E e \in EventTypes : Earns(u, b, e)'
    BY <1>1, <1>5 DEF BadgesI
  <2>2. ASSUME NEW e \in EventTypes, u \notin behind', Earns(u, b, e)'
        PROVE  b \in badges'[u] \/ \E o \in Workers : InHand(o, u, b, e)'
    <3>1. CASE UserOf[f] = u /\ EventOf[f] = e
      <4>1. e \in Checked /\ b \in Suited(e)
        BY <2>2 DEF Earns, Suited
      <4>2. work'[w].pc = "badges" /\ b \in work'[w].left
        BY <4>1, <3>1, <1>1 DEF AfterPoints, LeftAfterPoints
      <4>3. InHand(w, u, b, e)'
        BY <4>2, <3>1, <1>1 DEF InHand, At, User
      <4>4. QED BY <4>3
    <3>2. CASE ~(UserOf[f] = u /\ EventOf[f] = e)
      <4>1. Counted(u, e)' = Counted(u, e)
        BY <3>2, <1>3 DEF Counted
      <4>2. Earns(u, b, e)
        BY <4>1, <2>2 DEF Earns, Suited
      <4>3. ASSUME NEW o \in Workers, InHand(o, u, b, e)
            PROVE  InHand(o, u, b, e)'
        BY <4>3, <1>1, <1>2 DEF InHand, At, User
      <4>4. QED BY <4>2, <4>3, <2>2, <1>1 DEF BadgesI
    <3>3. QED BY <3>1, <3>2
  <2>3. QED BY <2>1, <2>2
<1>8. LookI'
  <2> SUFFICES ASSUME NEW o \in Workers, work'[o].pc = "badges"
               PROVE  (/\ EventOf[work[o].fact] \in Checked /\ recorded[work[o].fact] > 0
                       /\ work[o].left \subseteq Suited(EventOf[work[o].fact])
                       /\ work[o].want # None => work[o].want \in Suited(EventOf[work[o].fact]))'
    BY DEF LookI
  <2>1. CASE o = w
    BY <2>1, <1>1, <1>2, <1>3 DEF AfterPoints, LeftAfterPoints, Suited
  <2>2. CASE o # w
    <3>1. work'[o] = work[o] /\ work[o].fact \in Facts
      BY <2>2, <1>1 DEF Base, WorkI
    <3>2. recorded'[work[o].fact] > 0
      BY <3>1, <1>3, <1>4 DEF BadgesI, LookI
    <3>3. QED BY <3>1, <3>2 DEF BadgesI, LookI, Suited
  <2>3. QED BY <2>1, <2>2
<1>9. QED BY <1>6, <1>7, <1>8 DEF BadgesI, User

LEMMA BadgesCheck ==
  ASSUME Base, BadgesI, NEW w \in Workers, NEW x \in Badges, CheckBadge(w, x)
  PROVE  BadgesI'
<1>1. /\ \A o \in Workers \ {w} : work'[o] = work[o]
      /\ work'[w].left = work[w].left \ {x}
      /\ work'[w].want = (IF x \in badges[User(w)] THEN None ELSE x)
      /\ work'[w].pc = work[w].pc /\ work'[w].held = work[w].held /\ work'[w].fact = work[w].fact
      /\ UNCHANGED <<recorded, badges, behind>>
  BY CheckBadgeStep
<1>2. x \in work[w].left /\ work[w].pc = "badges"
  BY DEF CheckBadge
<1>3. \A u, b, e : Earns(u, b, e)' = Earns(u, b, e)
  BY <1>1 DEF Earns, Counted, Suited
<1>4. \A o \in Workers : User(o)' = User(o) /\ work'[o].held = work[o].held
  BY <1>1 DEF User
<1>5. ASSUME NEW u \in Users, NEW b \in Badges, NEW e \in EventTypes, NEW o \in Workers, InHand(o, u, b, e)
      PROVE  b \in badges[u] \/ InHand(o, u, b, e)'
  <2>1. CASE o # w
    BY <2>1, <1>1, <1>4, <1>5 DEF InHand, At
  <2>2. CASE o = w
    <3>1. work[w].want = None /\ b # None /\ User(w) = u
      BY <2>2, <1>5, NoneAssumption DEF CheckBadge, InHand, At
    <3>2. (EventOf[work[w].fact] = e /\ b \in work[w].left) \/ b \in work[w].held
      BY <3>1, <2>2, <1>5 DEF InHand
    <3>3. CASE b = x
      BY <3>1, <3>2, <3>3, <2>2, <1>1, <1>4, <1>5 DEF InHand, At
    <3>4. CASE b # x
      BY <3>2, <3>4, <2>2, <1>1, <1>4, <1>5 DEF InHand, At
    <3>5. QED BY <3>3, <3>4
  <2>3. QED BY <2>1, <2>2
<1>6. LookI'
  BY <1>1, <1>2 DEF BadgesI, LookI, Suited
<1>7. \A o \in Workers : \A b \in work'[o].held : \E e \in EventTypes : Earns(User(o), b, e)'
  BY <1>3, <1>4 DEF BadgesI
<1>8. ASSUME NEW u \in Users, NEW b \in Badges
      PROVE  (/\ b \in badges[u] => \E e \in EventTypes : Earns(u, b, e)
              /\ \A e \in EventTypes : u \notin behind /\ Earns(u, b, e) =>
                   b \in badges[u] \/ \E o \in Workers : InHand(o, u, b, e))'
  BY <1>1, <1>3, <1>5 DEF BadgesI
<1>9. QED BY <1>4, <1>6, <1>7, <1>8 DEF BadgesI

LEMMA BadgesAward ==
  ASSUME Base, BadgesI, NEW w \in Workers, AwardBadge(w)
  PROVE  BadgesI'
<1> DEFINE e0 == EventOf[work[w].fact]
<1>1. /\ \A o \in Workers \ {w} : work'[o] = work[o]
      /\ work'[w].held = (IF Qualifies(w) THEN work[w].held \cup {work[w].want} ELSE work[w].held)
      /\ work'[w].pc = work[w].pc /\ work'[w].left = work[w].left /\ work'[w].fact = work[w].fact
      /\ work'[w].want = None
      /\ UNCHANGED <<recorded, badges, behind>>
  BY AwardBadgeStep
<1>2. work[w].pc = "badges" /\ work[w].want # None
  BY DEF AwardBadge
<1>3. \A u, b, e : Earns(u, b, e)' = Earns(u, b, e)
  BY <1>1 DEF Earns, Counted, Suited
<1>4. \A o \in Workers : User(o)' = User(o)
  BY <1>1 DEF User
<1>5. e0 \in EventTypes /\ (Qualifies(w) => Earns(User(w), work[w].want, e0))
  <2>1. /\ work[w].fact \in Facts /\ e0 \in Checked /\ recorded[work[w].fact] > 0
        /\ work[w].want \in Suited(e0)
    BY <1>2 DEF BadgesI, LookI, Base, WorkI
  <2>2. 1 \in 1 .. recorded[work[w].fact]
    BY <2>1 DEF Base, TypeOK
  <2>3. <<work[w].fact, 1>> \in Counted(User(w), e0)
    BY <2>1, <2>2 DEF Counted, User
  <2>4. QED BY <2>1, <2>3, FactsAssumption DEF Qualifies, Earns
<1>6. ASSUME NEW o \in Workers, NEW b \in work'[o].held
      PROVE  \E e \in EventTypes : Earns(User(o), b, e)'
  <2>1. CASE o # w
    BY <2>1, <1>1, <1>3, <1>4, <1>6 DEF BadgesI
  <2>2. CASE o = w
    <3>1. CASE Qualifies(w)
      BY <3>1, <2>2, <1>1, <1>3, <1>4, <1>5, <1>6 DEF BadgesI
    <3>2. CASE ~Qualifies(w)
      BY <3>2, <2>2, <1>1, <1>3, <1>4, <1>6 DEF BadgesI
    <3>3. QED BY <3>1, <3>2
  <2>3. QED BY <2>1, <2>2
<1>7. ASSUME NEW u \in Users, NEW b \in Badges, NEW e \in EventTypes, Earns(u, b, e),
             NEW o \in Workers, InHand(o, u, b, e)
      PROVE  InHand(o, u, b, e)'
  <2>1. CASE o # w
    BY <2>1, <1>1, <1>4, <1>7 DEF InHand, At
  <2>2. CASE o = w /\ b # work[w].want
    <3>1. work[w].held \subseteq work'[w].held
      BY <1>1
    <3>2. QED BY <3>1, <2>2, <1>1, <1>4, <1>7 DEF InHand, At
  <2>3. CASE o = w /\ b = work[w].want
    <3>1. CASE e0 = e
      <4>1. Qualifies(w)
        BY <3>1, <2>3, <1>7 DEF Qualifies, Earns, InHand, At
      <4>2. QED BY <4>1, <2>3, <1>1, <1>4, <1>7 DEF InHand, At
    <3>2. CASE e0 # e
      <4>1. b \in work'[w].held
        BY <3>2, <2>3, <1>1, <1>7 DEF InHand
      <4>2. QED BY <4>1, <2>3, <1>1, <1>4, <1>7 DEF InHand, At
    <3>3. QED BY <3>1, <3>2
  <2>4. QED BY <2>1, <2>2, <2>3
<1>8. ASSUME NEW u \in Users, NEW b \in Badges
      PROVE  (/\ b \in badges[u] => \E e \in EventTypes : Earns(u, b, e)
              /\ \A e \in EventTypes : u \notin behind /\ Earns(u, b, e) =>
                   b \in badges[u] \/ \E o \in Workers : InHand(o, u, b, e))'
  BY <1>1, <1>3, <1>7 DEF BadgesI
<1>9. LookI'
  BY <1>1, <1>2 DEF BadgesI, LookI, Suited
<1>10. QED BY <1>6, <1>8, <1>9 DEF BadgesI, User

LEMMA BadgesCommit ==
  ASSUME Base, BadgesI, NEW w \in Workers, CommitBadges(w)
  PROVE  BadgesI'
<1>1. /\ \A o \in Workers \ {w} : work'[o] = work[o]
      /\ work'[w].pc = "score" /\ work'[w].held = {} /\ work'[w].fact = work[w].fact
      /\ UNCHANGED <<recorded, behind>>
  BY CommitBadgesStep
<1>2. \A u, b, e : Earns(u, b, e)' = Earns(u, b, e)
  BY <1>1 DEF Earns, Counted, Suited
<1>3. \A o \in Workers : User(o)' = User(o)
  BY <1>1 DEF User
<1>4. User(w) \in Users /\ work[w].want = None /\ work[w].left = {}
  BY UsersType DEF CommitBadges, Base, WorkI, User
<1>5. \A u \in Users : badges'[u] = IF u = User(w) THEN badges[u] \cup work[w].held ELSE badges[u]
  BY <1>4 DEF CommitBadges, Base, TypeOK
<1>6. ASSUME NEW o \in Workers, NEW b \in work'[o].held
      PROVE  \E e \in EventTypes : Earns(User(o), b, e)'
  BY <1>1, <1>2, <1>3, <1>6 DEF BadgesI
<1>7. ASSUME NEW u \in Users, NEW b \in Badges, NEW e \in EventTypes, NEW o \in Workers, InHand(o, u, b, e)
      PROVE  b \in badges'[u] \/ InHand(o, u, b, e)'
  <2>1. CASE o # w
    BY <2>1, <1>1, <1>3, <1>7 DEF InHand, At
  <2>2. CASE o = w
    BY <2>2, <1>4, <1>5, <1>7, NoneAssumption DEF InHand, At
  <2>3. QED BY <2>1, <2>2
<1>8. ASSUME NEW u \in Users, NEW b \in Badges
      PROVE  (/\ b \in badges[u] => \E e \in EventTypes : Earns(u, b, e)
              /\ \A e \in EventTypes : u \notin behind /\ Earns(u, b, e) =>
                   b \in badges[u] \/ \E o \in Workers : InHand(o, u, b, e))'
  <2>1. (b \in badges[u] => \E e \in EventTypes : Earns(u, b, e))'
    <3>1. CASE u = User(w)
      BY <3>1, <1>2, <1>5 DEF BadgesI
    <3>2. CASE u # User(w)
      BY <3>2, <1>2, <1>5 DEF BadgesI
    <3>3. QED BY <3>1, <3>2
  <2>2. badges[u] \subseteq badges'[u]
    BY <1>5
  <2>3. QED BY <2>1, <2>2, <1>1, <1>2, <1>7 DEF BadgesI
<1>9. LookI'
  BY <1>1 DEF BadgesI, LookI, Suited
<1>10. QED BY <1>6, <1>8, <1>9 DEF BadgesI, User

-----------------------------------------------------------------------------
(* A score that is not on the leaderboard is in a worker's hands. *)

Coming(u) == \E w \in Workers : At(w, u, {"badges", "score"})

Shows(u) == IF points[u] = None THEN entry[u] = None ELSE entry[u] # None /\ entry[u].points = points[u]

\* What the leaderboard showed when worker w loaded its user's row.
RowAsRead(w, u) ==
  IF work[w].row = None THEN entry[u] = None
                        ELSE entry[u] # None /\ entry[u].points = work[w].row.points

ScoresI ==
  \A u \in Users \ (behind \cup crossed) :
    /\ (\A w \in Workers : ~At(w, u, Scoring)) => Shows(u) \/ Coming(u)
    /\ \A w \in Workers : At(w, u, Scoring) =>
         /\ work[w].score = points[u] \/ Coming(u)
         /\ \A o \in Workers : At(o, u, Scoring) => o = w
         /\ work[w].pc # "row" => RowAsRead(w, u)

\* A step that leaves every worker where it is, as far as scores go, or takes
\* one away whose user is left behind.
LEMMA ScoresQuiet ==
  ASSUME ScoresI, NEW w \in Workers, UNCHANGED <<points, entry>>,
         behind \subseteq behind', crossed \subseteq crossed',
         \A o \in Workers \ {w} : work'[o] = work[o],
         \/ /\ work[w].pc \notin {"badges", "score"} \cup Scoring
            /\ work'[w].pc \notin {"badges", "score"} \cup Scoring
         \/ /\ work'[w].pc \notin {"badges", "score"} \cup Scoring
            /\ User(w) \in behind'
         \/ /\ work[w].pc \in {"badges", "score"} /\ work'[w].pc \in {"badges", "score"}
            /\ work'[w].fact = work[w].fact
         \/ /\ work[w].pc \in Scoring \ {"row"} /\ work'[w].pc \in Scoring \ {"row"}
            /\ work'[w].fact = work[w].fact /\ work'[w].score = work[w].score /\ work'[w].row = work[w].row
  PROVE  ScoresI'
<1> SUFFICES ASSUME NEW u \in Users \ (behind' \cup crossed')
             PROVE  (/\ (\A a \in Workers : ~At(a, u, Scoring)) => Shows(u) \/ Coming(u)
                     /\ \A a \in Workers : At(a, u, Scoring) =>
                          /\ work[a].score = points[u] \/ Coming(u)
                          /\ \A o \in Workers : At(o, u, Scoring) => o = a
                          /\ work[a].pc # "row" => RowAsRead(a, u))'
  BY DEF ScoresI
<1>1. u \in Users \ (behind \cup crossed)
  OBVIOUS
<1>2. \A o \in Workers : At(o, u, {"badges", "score"})' <=> At(o, u, {"badges", "score"})
  BY DEF At, User, Scoring
<1>3. Coming(u)' <=> Coming(u)
  BY <1>2 DEF Coming
<1>4. \A o \in Workers : At(o, u, Scoring)' <=> At(o, u, Scoring)
  BY DEF At, User, Scoring
<1>5. \A o \in Workers : At(o, u, Scoring) =>
        /\ work'[o].score = work[o].score /\ work'[o].row = work[o].row
        /\ (work'[o].pc = "row") <=> (work[o].pc = "row")
  BY DEF At, User, Scoring
<1>6. Shows(u)' <=> Shows(u)
  BY DEF Shows
<1>7. ASSUME NEW a \in Workers, At(a, u, Scoring)
      PROVE  RowAsRead(a, u)' <=> RowAsRead(a, u)
  BY <1>5, <1>7 DEF RowAsRead
<1>8. (\A a \in Workers : ~At(a, u, Scoring))' => (Shows(u) \/ Coming(u))'
  BY <1>1, <1>3, <1>4, <1>6 DEF ScoresI
<1>9. ASSUME NEW a \in Workers, At(a, u, Scoring)'
      PROVE  (/\ work[a].score = points[u] \/ Coming(u)
              /\ \A o \in Workers : At(o, u, Scoring) => o = a
              /\ work[a].pc # "row" => RowAsRead(a, u))'
  <2>1. At(a, u, Scoring)
    BY <1>4, <1>9
  <2>2. /\ work[a].score = points[u] \/ Coming(u)
        /\ \A o \in Workers : At(o, u, Scoring) => o = a
        /\ work[a].pc # "row" => RowAsRead(a, u)
    BY <1>1, <2>1 DEF ScoresI
  <2>3. QED BY <2>1, <2>2, <1>3, <1>4, <1>5, <1>7
<1>10. QED BY <1>8, <1>9

LEMMA ScoresAdd ==
  ASSUME Base, ScoresI, NEW w \in Workers, AddPoints(w)
  PROVE  ScoresI'
<1>1. /\ \A o \in Workers \ {w} : work'[o] = work[o]
      /\ work'[w].pc \in {"badges", "score"} /\ work'[w].fact = work[w].fact /\ work[w].pc = "add"
      /\ UNCHANGED <<entry, behind, crossed>>
  BY AddPointsStep DEF AddPoints, AfterPoints
<1>2. \A u \in Users \ {User(w)} : points'[u] = points[u]
  BY DEF AddPoints, Base, TypeOK
<1>3. \A o \in Workers : User(o)' = User(o)
  BY <1>1 DEF User
<1>4. Coming(User(w))'
  BY <1>1, <1>3 DEF Coming, At
<1>5. \A u \in Users, o \in Workers : At(o, u, Scoring)' <=> At(o, u, Scoring)
  BY <1>1, <1>3 DEF At, Scoring
<1>6. \A u \in Users : Coming(u) => Coming(u)'
  BY <1>1, <1>3 DEF Coming, At
<1> SUFFICES ASSUME NEW u \in Users \ (behind \cup crossed)
             PROVE  (/\ (\A a \in Workers : ~At(a, u, Scoring)) => Shows(u) \/ Coming(u)
                     /\ \A a \in Workers : At(a, u, Scoring) =>
                          /\ work[a].score = points[u] \/ Coming(u)
                          /\ \A o \in Workers : At(o, u, Scoring) => o = a
                          /\ work[a].pc # "row" => RowAsRead(a, u))'
  BY <1>1 DEF ScoresI
<1>7. (\A a \in Workers : ~At(a, u, Scoring))' => (Shows(u) \/ Coming(u))'
  <2>1. CASE u = User(w)
    <3>1. Coming(u)'
      BY <2>1, <1>3, <1>4 DEF Coming, At
    <3>2. QED BY <3>1
  <2>2. CASE u # User(w)
    <3>1. Shows(u)' <=> Shows(u)
      BY <2>2, <1>1, <1>2 DEF Shows
    <3>2. QED BY <3>1, <1>5, <1>6 DEF ScoresI
  <2>3. QED BY <2>1, <2>2
<1>8. ASSUME NEW a \in Workers, At(a, u, Scoring)'
      PROVE  (/\ work[a].score = points[u] \/ Coming(u)
              /\ \A o \in Workers : At(o, u, Scoring) => o = a
              /\ work[a].pc # "row" => RowAsRead(a, u))'
  <2>1. At(a, u, Scoring) /\ work'[a] = work[a]
    BY <1>1, <1>5, <1>8 DEF At, Scoring
  <2>2. (work[a].score = points[u] \/ Coming(u))'
    <3>1. CASE u = User(w)
      BY <3>1, <1>3, <1>4 DEF Coming, At
    <3>2. CASE u # User(w)
      BY <3>2, <2>1, <1>2, <1>6 DEF ScoresI
    <3>3. QED BY <3>1, <3>2
  <2>3. RowAsRead(a, u)' <=> RowAsRead(a, u)
    BY <2>1, <1>1 DEF RowAsRead
  <2>4. QED BY <2>1, <2>2, <2>3, <1>5 DEF ScoresI
<1>9. QED BY <1>7, <1>8

LEMMA ScoresReadScore ==
  ASSUME Base, ScoresI, NEW w \in Workers, ReadScore(w)
  PROVE  ScoresI'
<1>1. /\ \A o \in Workers \ {w} : work'[o] = work[o]
      /\ work'[w].pc = "row" /\ work'[w].score = points[User(w)] /\ work'[w].fact = work[w].fact
      /\ work[w].pc = "score"
      /\ UNCHANGED <<points, entry, behind>>
  BY ReadScoreStep DEF ReadScore
<1>2. \A o \in Workers : User(o)' = User(o)
  BY <1>1 DEF User
<1>3. /\ crossed \subseteq crossed'
      /\ (\E o \in Workers \ {w} : At(o, User(w), Scoring)) => User(w) \in crossed'
  BY DEF ReadScore, Beside, At
<1> SUFFICES ASSUME NEW u \in Users \ (behind \cup crossed')
             PROVE  (/\ (\A a \in Workers : ~At(a, u, Scoring)) => Shows(u) \/ Coming(u)
                     /\ \A a \in Workers : At(a, u, Scoring) =>
                          /\ work[a].score = points[u] \/ Coming(u)
                          /\ \A o \in Workers : At(o, u, Scoring) => o = a
                          /\ work[a].pc # "row" => RowAsRead(a, u))'
  BY <1>1 DEF ScoresI
<1>4. CASE u = User(w)
  <2>1. At(w, u, Scoring)'
    BY <1>1, <1>2, <1>4 DEF At, Scoring
  <2>2. \A o \in Workers : At(o, u, Scoring)' => o = w
    BY <1>1, <1>2, <1>3, <1>4 DEF At
  <2>3. QED BY <2>1, <2>2, <1>1, <1>4
<1>5. CASE u # User(w)
  <2>1. \A o \in Workers : \A pcs : At(o, u, pcs)' <=> At(o, u, pcs)
    BY <1>1, <1>2, <1>5 DEF At
  <2>2. (Coming(u)' <=> Coming(u)) /\ (Shows(u)' <=> Shows(u))
    BY <2>1, <1>1 DEF Coming, Shows
  <2>3. \A a \in Workers : At(a, u, Scoring) => work'[a] = work[a] /\ (RowAsRead(a, u)' <=> RowAsRead(a, u))
    BY <1>1, <1>5 DEF At, RowAsRead
  <2>4. u \in Users \ (behind \cup crossed)
    BY <1>3
  <2>5. QED BY <2>1, <2>2, <2>3, <2>4, <1>1 DEF ScoresI
<1>6. QED BY <1>4, <1>5

LEMMA ScoresReadRow ==
  ASSUME Base, ScoresI, NEW w \in Workers, ReadRow(w)
  PROVE  ScoresI'
<1>1. /\ \A o \in Workers \ {w} : work'[o] = work[o]
      /\ work[w].pc = "row" /\ work'[w].pc = "flush" /\ work'[w].row = entry[User(w)]
      /\ work'[w].score = work[w].score /\ work'[w].fact = work[w].fact
      /\ UNCHANGED <<points, entry, behind, crossed>>
  BY ReadRowStep DEF ReadRow
<1>2. \A o \in Workers : User(o)' = User(o)
  BY <1>1 DEF User
<1> SUFFICES ASSUME NEW u \in Users \ (behind \cup crossed)
             PROVE  (/\ (\A a \in Workers : ~At(a, u, Scoring)) => Shows(u) \/ Coming(u)
                     /\ \A a \in Workers : At(a, u, Scoring) =>
                          /\ work[a].score = points[u] \/ Coming(u)
                          /\ \A o \in Workers : At(o, u, Scoring) => o = a
                          /\ work[a].pc # "row" => RowAsRead(a, u))'
  BY <1>1 DEF ScoresI
<1>4. \A o \in Workers : At(o, u, Scoring)' <=> At(o, u, Scoring)
  BY <1>1, <1>2 DEF At, Scoring
<1>5. \A o \in Workers : At(o, u, {"badges", "score"})' <=> At(o, u, {"badges", "score"})
  BY <1>1, <1>2 DEF At
<1>6. (Coming(u)' <=> Coming(u)) /\ (Shows(u)' <=> Shows(u))
  BY <1>1, <1>5 DEF Coming, Shows
<1>7. ASSUME NEW a \in Workers, At(a, u, Scoring), work'[a].pc # "row"
      PROVE  RowAsRead(a, u)'
  <2>1. CASE a = w
    BY <2>1, <1>1, <1>7 DEF RowAsRead, At
  <2>2. CASE a # w
    BY <2>2, <1>1, <1>7 DEF RowAsRead, ScoresI
  <2>3. QED BY <2>1, <2>2
<1>8. \A a \in Workers : work'[a].score = work[a].score
  BY <1>1
<1>9. QED BY <1>1, <1>4, <1>6, <1>7, <1>8 DEF ScoresI

LEMMA ScoresCommit ==
  ASSUME Base, ScoresI, NEW w \in Workers, CommitScore(w)
  PROVE  ScoresI'
<1>1. /\ \A o \in Workers \ {w} : work'[o] = work[o]
      /\ work'[w] = Rest /\ Rest.pc = "idle"
      /\ \A u \in Users : u # User(w) =>
           IF entry[u] = None THEN entry'[u] = None
           ELSE entry'[u] # None /\ entry'[u].points = entry[u].points
      /\ entry'[User(w)] # None
      /\ entry'[User(w)].points =
           IF work[w].row = None \/ work[w].wrote THEN work[w].score ELSE entry[User(w)].points
      /\ UNCHANGED <<points, behind, crossed>>
  BY CommitScoreStep DEF Rest
<1>2. work[w].pc = "lock" /\ User(w) \in Users
  BY UsersType DEF CommitScore, Base, WorkI, User
<1>3. ~work[w].wrote => work[w].row # None /\ work[w].row.points = work[w].score
  BY <1>2 DEF Base, RowsI
<1>4. \A o \in Workers \ {w} : User(o)' = User(o)
  BY <1>1 DEF User
<1> SUFFICES ASSUME NEW u \in Users \ (behind \cup crossed)
             PROVE  (/\ (\A a \in Workers : ~At(a, u, Scoring)) => Shows(u) \/ Coming(u)
                     /\ \A a \in Workers : At(a, u, Scoring) =>
                          /\ work[a].score = points[u] \/ Coming(u)
                          /\ \A o \in Workers : At(o, u, Scoring) => o = a
                          /\ work[a].pc # "row" => RowAsRead(a, u))'
  BY <1>1 DEF ScoresI
<1>5. \A o \in Workers : At(o, u, Scoring)' <=> o # w /\ At(o, u, Scoring)
  BY <1>1, <1>4 DEF At, Scoring
<1>6. \A o \in Workers : At(o, u, {"badges", "score"})' <=> At(o, u, {"badges", "score"})
  BY <1>1, <1>2, <1>4 DEF At
<1>7. Coming(u)' <=> Coming(u)
  BY <1>6 DEF Coming
<1>8. CASE u = User(w)
  <2>1. At(w, u, Scoring)
    BY <1>2, <1>8 DEF At, Scoring
  <2>2. /\ work[w].score = points[u] \/ Coming(u)
        /\ \A o \in Workers : At(o, u, Scoring) => o = w
        /\ RowAsRead(w, u)
    BY <2>1, <1>2 DEF ScoresI
  <2>3. entry'[u].points = work[w].score
    BY <2>2, <1>1, <1>3, <1>8 DEF RowAsRead
  <2>4. points[u] # None
    BY <1>2, <1>8 DEF Base, WorkI, Onward, Scoring
  <2>5. (Shows(u) \/ Coming(u))'
    BY <2>2, <2>3, <2>4, <1>1, <1>7, <1>8 DEF Shows
  <2>6. QED BY <2>2, <2>5, <1>5
<1>9. CASE u # User(w)
  <2>1. Shows(u)' <=> Shows(u)
    BY <1>1, <1>9 DEF Shows
  <2>2. \A a \in Workers : At(a, u, Scoring) => a # w
    BY <1>9 DEF At
  <2>3. ASSUME NEW a \in Workers, At(a, u, Scoring)
        PROVE  work'[a] = work[a] /\ (RowAsRead(a, u)' <=> RowAsRead(a, u))
    BY <2>2, <2>3, <1>1, <1>9 DEF RowAsRead
  <2>4. (\A a \in Workers : ~At(a, u, Scoring))' => (Shows(u) \/ Coming(u))'
    BY <2>1, <2>2, <1>5, <1>7 DEF ScoresI
  <2>5. QED BY <2>3, <2>4, <1>1, <1>5, <1>7 DEF ScoresI
<1>10. QED BY <1>8, <1>9

-----------------------------------------------------------------------------
IInv == Base /\ OnceI /\ PointsI /\ BadgesI /\ ScoresI

LEMMA InitInvariant == Init => IInv
<1> SUFFICES ASSUME Init PROVE IInv
  OBVIOUS
<1>1. /\ Rest \in Worker /\ Rest.pc = "idle" /\ Rest.held = {} /\ Rest.want = None /\ Rest.wrote = FALSE
  BY UsersType DEF Rest, Worker
<1>2. \A w \in Workers : work[w] = Rest
  BY DEF Init
<1>3. TypeOK
  BY <1>1, AwardBoundsAssumption, FactsAssumption DEF Init, TypeOK
<1>4. WorkI
  BY <1>1, <1>2 DEF WorkI, Onward, Scoring
<1>5. RowsI
  BY <1>1, <1>2 DEF Init, RowsI, Scoring
<1>6. OnceI
  BY <1>1, <1>2 DEF Init, OnceI, AwardedOnce, Recording
<1>7. PointsI
  BY <1>1, <1>2 DEF Init, PointsI, PointsKept, Total, Scoring
<1>8. BadgesI
  <2>1. \A u, e : Counted(u, e) = {}
    <3>1. \A f \in Facts : {f} \X (1 .. recorded[f]) = {}
      BY DEF Init
    <3>2. QED BY <3>1 DEF Counted
  <2>2. QED BY <2>1, <1>1, <1>2 DEF Init, BadgesI, LookI, Earns
<1>9. ScoresI
  BY <1>1, <1>2 DEF Init, ScoresI, Shows, At, Scoring
<1>10. QED BY <1>3, <1>4, <1>5, <1>6, <1>7, <1>8, <1>9 DEF IInv, Base

\* The end of a transaction that was rolled back.
LEMMA RollbackInvariant ==
  ASSUME IInv, NEW w \in Workers, Rollback(w), work[w].pc # "idle", faults' \in 0 .. MaxFaults
  PROVE  IInv'
<1>1. /\ Base'
      /\ \A o \in Workers \ {w} : work'[o] = work[o]
      /\ work'[w] = Rest
      /\ work[w].pc \notin Recording => User(w) \in behind'
      /\ behind \subseteq behind'
      /\ UNCHANGED <<recorded, earned, points, badges, entry, raced, doubled, crossed>>
  BY RollbackStep DEF IInv
<1>2. Rest.pc = "idle" /\ Rest.held = {}
  BY DEF Rest
<1>3. OnceI'
  BY <1>1, <1>2, OnceQuiet DEF IInv, Recording
<1>4. PointsI'
  BY <1>1, <1>2, PointsQuiet DEF IInv, Scoring, PointsI, PointsKept
<1>5. BadgesI'
  BY <1>1, <1>2, BadgesQuiet DEF IInv, Recording
<1>6. ScoresI'
  BY <1>1, <1>2, ScoresQuiet DEF IInv, Scoring, Recording
<1>7. QED BY <1>1, <1>3, <1>4, <1>5, <1>6 DEF IInv

\* A step that changes only the locks.
LEMMA SameInvariant ==
  ASSUME IInv, Base',
         UNCHANGED <<work, recorded, earned, points, badges, entry, raced, doubled, crossed, behind>>
  PROVE  IInv'
<1>1. OnceI' /\ PointsI'
  BY DEF IInv, OnceI, AwardedOnce, PointsI, PointsKept, Total, At, User
<1>2. LookI'
  BY DEF IInv, BadgesI, LookI, Suited
<1>3. /\ \A u, b, e : Earns(u, b, e)' <=> Earns(u, b, e)
      /\ \A w, u, b, e : InHand(w, u, b, e)' <=> InHand(w, u, b, e)
      /\ \A w : User(w)' = User(w)
  BY DEF Earns, Counted, Suited, InHand, At, User
<1>4. BadgesI'
  BY <1>2, <1>3 DEF IInv, BadgesI
<1>5. ScoresI'
  BY DEF IInv, ScoresI, Shows, Coming, RowAsRead, At, User
<1>6. QED BY <1>1, <1>4, <1>5 DEF IInv

LEMMA NextInvariant == IInv /\ [Next]_vars => IInv'
<1> SUFFICES ASSUME IInv, [Next]_vars PROVE IInv'
  OBVIOUS
<1> USE DEF IInv
<1>1. ASSUME NEW w \in Workers, NEW f \in Facts, Take(w, f) PROVE IInv'
  <2>1. /\ Base'
        /\ \A o \in Workers \ {w} : work'[o] = work[o]
        /\ work[w].pc = "idle"
        /\ work'[w] = work[w] \/ work'[w].pc = "read"
        /\ UNCHANGED <<recorded, earned, points, badges, entry, raced, crossed, behind>>
    BY <1>1, TakeStep
  <2>2. OnceI'
    BY <1>1, OnceTake
  <2>3. PointsI'
    BY <2>1, PointsQuiet DEF Scoring, PointsI, PointsKept
  <2>4. work'[w].held = {}
    BY <2>1 DEF Base, WorkI
  <2>5. BadgesI'
    BY <2>1, <2>4, BadgesQuiet
  <2>6. ScoresI'
    BY <2>1, ScoresQuiet DEF Scoring
  <2>7. QED BY <2>1, <2>2, <2>3, <2>5, <2>6
<1>2. ASSUME NEW w \in Workers, ReadPoints(w) PROVE IInv'
  <2>1. /\ \A o \in Workers \ {w} : work'[o] = work[o]
        /\ work[w].pc = "read" /\ work'[w].pc = "add" /\ work'[w].fact = work[w].fact
        /\ work'[w].held = work[w].held
        /\ UNCHANGED <<recorded, points, badges, entry, doubled, crossed, behind>>
    BY <1>2, ReadPointsStep DEF ReadPoints
  <2>2. Base' /\ PointsI'
    BY <1>2, ReadPointsBase, PointsRead
  <2>3. OnceI'
    BY <2>1, OnceQuiet DEF Recording
  <2>4. work'[w].held = {}
    BY <2>1 DEF Base, WorkI
  <2>5. BadgesI'
    BY <2>1, <2>4, BadgesQuiet
  <2>6. ScoresI'
    BY <2>1, ScoresQuiet DEF Scoring
  <2>7. QED BY <2>2, <2>3, <2>5, <2>6
<1>3. ASSUME NEW w \in Workers, AddPoints(w) PROVE IInv'
  BY <1>3, AddPointsBase, OnceAdd, PointsAdd, BadgesAdd, ScoresAdd
<1>4. ASSUME NEW w \in Workers, NEW b \in Badges, CheckBadge(w, b) PROVE IInv'
  <2>1. /\ \A o \in Workers \ {w} : work'[o] = work[o]
        /\ work[w].pc = "badges" /\ work'[w].pc = "badges" /\ work'[w].fact = work[w].fact
        /\ UNCHANGED <<recorded, earned, points, entry, raced, doubled, crossed, behind>>
    BY <1>4, CheckBadgeStep DEF CheckBadge
  <2>2. Base' /\ BadgesI'
    BY <1>4, CheckBadgeBase, BadgesCheck
  <2>3. OnceI'
    BY <2>1, OnceQuiet DEF Recording
  <2>4. PointsI'
    BY <2>1, PointsQuiet DEF Scoring, PointsI, PointsKept
  <2>5. ScoresI'
    BY <2>1, ScoresQuiet DEF Scoring
  <2>6. QED BY <2>2, <2>3, <2>4, <2>5
<1>5. ASSUME NEW w \in Workers, AwardBadge(w) PROVE IInv'
  <2>1. /\ \A o \in Workers \ {w} : work'[o] = work[o]
        /\ work[w].pc = "badges" /\ work'[w].pc = "badges" /\ work'[w].fact = work[w].fact
        /\ UNCHANGED <<recorded, earned, points, entry, raced, doubled, crossed, behind>>
    BY <1>5, AwardBadgeStep DEF AwardBadge
  <2>2. Base' /\ BadgesI'
    BY <1>5, AwardBadgeBase, BadgesAward
  <2>3. OnceI'
    BY <2>1, OnceQuiet DEF Recording
  <2>4. PointsI'
    BY <2>1, PointsQuiet DEF Scoring, PointsI, PointsKept
  <2>5. ScoresI'
    BY <2>1, ScoresQuiet DEF Scoring
  <2>6. QED BY <2>2, <2>3, <2>4, <2>5
<1>6. ASSUME NEW w \in Workers, CommitBadges(w) PROVE IInv'
  <2>1. /\ \A o \in Workers \ {w} : work'[o] = work[o]
        /\ work[w].pc = "badges" /\ work'[w].pc = "score" /\ work'[w].fact = work[w].fact
        /\ UNCHANGED <<recorded, earned, points, entry, raced, doubled, crossed, behind>>
    BY <1>6, CommitBadgesStep DEF CommitBadges
  <2>2. Base' /\ BadgesI'
    BY <1>6, CommitBadgesBase, BadgesCommit
  <2>3. OnceI'
    BY <2>1, OnceQuiet DEF Recording
  <2>4. PointsI'
    BY <2>1, PointsQuiet DEF Scoring, PointsI, PointsKept
  <2>5. ScoresI'
    BY <2>1, ScoresQuiet DEF Scoring
  <2>6. QED BY <2>2, <2>3, <2>4, <2>5
<1>7. ASSUME NEW w \in Workers, ReadScore(w) PROVE IInv'
  <2>1. /\ \A o \in Workers \ {w} : work'[o] = work[o]
        /\ work[w].pc = "score" /\ work'[w].pc = "row" /\ work'[w].held = work[w].held
        /\ UNCHANGED <<recorded, badges, doubled, behind>>
    BY <1>7, ReadScoreStep DEF ReadScore
  <2>2. Base' /\ PointsI' /\ ScoresI'
    BY <1>7, ReadScoreBase, PointsScore, ScoresReadScore
  <2>3. OnceI'
    BY <2>1, OnceQuiet DEF Recording
  <2>4. work'[w].held = {}
    BY <2>1 DEF Base, WorkI
  <2>5. BadgesI'
    BY <2>1, <2>4, BadgesQuiet
  <2>6. QED BY <2>2, <2>3, <2>5
<1>8. ASSUME NEW w \in Workers, ReadRow(w) PROVE IInv'
  <2>1. /\ \A o \in Workers \ {w} : work'[o] = work[o]
        /\ work[w].pc = "row" /\ work'[w].pc = "flush" /\ work'[w].held = work[w].held
        /\ work'[w].fact = work[w].fact /\ work'[w].score = work[w].score
        /\ UNCHANGED <<recorded, earned, points, badges, entry, raced, doubled, behind>>
    BY <1>8, ReadRowStep DEF ReadRow
  <2>2. Base' /\ ScoresI'
    BY <1>8, ReadRowBase, ScoresReadRow
  <2>3. OnceI'
    BY <2>1, OnceQuiet DEF Recording
  <2>4. PointsI'
    BY <2>1, PointsQuiet DEF Scoring, PointsI, PointsKept
  <2>5. work'[w].held = {}
    BY <2>1 DEF Base, WorkI
  <2>6. BadgesI'
    BY <2>1, <2>5, BadgesQuiet
  <2>7. QED BY <2>2, <2>3, <2>4, <2>6
<1>9. ASSUME NEW w \in Workers, FlushRow(w) \/ ReadRanks(w) PROVE IInv'
  <2>1. /\ \A o \in Workers \ {w} : work'[o] = work[o]
        /\ work[w].pc \in {"flush", "rank"} /\ work'[w].pc \in {"rank", "lock"}
        /\ work'[w].held = work[w].held /\ work'[w].row = work[w].row
        /\ work'[w].fact = work[w].fact /\ work'[w].score = work[w].score
        /\ UNCHANGED <<recorded, earned, points, badges, entry, raced, doubled, crossed, behind>>
    BY <1>9, FlushRowStep, ReadRanksStep DEF FlushRow
  <2>2. Base'
    BY <1>9, FlushRowBase, ReadRanksBase
  <2>3. OnceI'
    BY <2>1, OnceQuiet DEF Recording
  <2>4. PointsI'
    BY <2>1, PointsQuiet DEF Scoring, PointsI, PointsKept
  <2>5. work'[w].held = {}
    BY <2>1 DEF Base, WorkI
  <2>6. BadgesI'
    BY <2>1, <2>5, BadgesQuiet
  <2>7. ScoresI'
    BY <2>1, ScoresQuiet DEF Scoring
  <2>8. QED BY <2>2, <2>3, <2>4, <2>6, <2>7
<1>10. ASSUME NEW w \in Workers, LockRow(w) PROVE IInv'
  <2>1. Base' /\ UNCHANGED <<work, recorded, earned, points, badges, entry, raced, doubled, crossed, behind>>
    BY <1>10, LockRowBase
  <2>2. QED BY <2>1, SameInvariant
<1>11. ASSUME NEW w \in Workers, CommitScore(w) PROVE IInv'
  <2>1. /\ Base'
        /\ \A o \in Workers \ {w} : work'[o] = work[o]
        /\ work[w].pc = "lock" /\ work'[w].pc = "idle" /\ work'[w].held = {}
        /\ UNCHANGED <<recorded, badges, doubled, behind>>
    <3>1. Rest.pc = "idle" /\ Rest.held = {}
      BY DEF Rest
    <3>2. work[w].pc = "lock"
      BY <1>11 DEF CommitScore
    <3>3. QED BY <1>11, <3>1, <3>2, CommitScoreStep
  <2>2. PointsI' /\ ScoresI'
    BY <1>11, PointsCommit, ScoresCommit
  <2>3. OnceI'
    BY <2>1, OnceQuiet DEF Recording
  <2>4. BadgesI'
    BY <2>1, BadgesQuiet
  <2>5. QED BY <2>1, <2>2, <2>3, <2>4
<1>12. ASSUME NEW w \in Workers, PointsConflict(w) \/ BadgeConflict(w) \/ RowConflict(w) PROVE IInv'
  <2>1. Rollback(w) /\ work[w].pc # "idle" /\ faults' \in 0 .. MaxFaults
    BY <1>12 DEF PointsConflict, BadgeConflict, RowConflict, Base, TypeOK
  <2>2. QED BY <2>1, RollbackInvariant
<1>13. ASSUME NEW w \in Workers, Victim(w) PROVE IInv'
  <2>1. WaitsFor(w) # {}
    BY <1>13 DEF Victim
  <2>2. Rollback(w) /\ work[w].pc # "idle" /\ faults' \in 0 .. MaxFaults
    BY <2>1, <1>13 DEF Victim, WaitsFor, Base, TypeOK
  <2>3. QED BY <2>2, RollbackInvariant
<1>14. ASSUME NEW w \in Workers, Fail(w) PROVE IInv'
  <2>1. Rollback(w) /\ work[w].pc # "idle" /\ faults' \in 0 .. MaxFaults
    BY <1>14, AwardBoundsAssumption DEF Fail, Base, TypeOK
  <2>2. QED BY <2>1, RollbackInvariant
<1>15. CASE UNCHANGED vars
  <2>1. UNCHANGED <<sent, work, lock, recorded, earned, points, badges, entry, raced, doubled, crossed, behind, faults>>
    BY <1>15 DEF vars, awards, history
  <2>2. Base'
    BY <2>1 DEF Base, TypeOK, WorkI, RowsI, User
  <2>3. QED BY <2>1, <2>2, SameInvariant
<1>16. QED
  BY <1>1, <1>2, <1>3, <1>4, <1>5, <1>6, <1>7, <1>8, <1>9, <1>10, <1>11, <1>12, <1>13, <1>14, <1>15 DEF Next, Work

LEMMA Invariance == Spec => []IInv
<1>1. QED BY InitInvariant, NextInvariant, PTL DEF Spec

-----------------------------------------------------------------------------
\* Every variable keeps its type, whatever fails and whoever waits.
THEOREM TypeCorrect == Spec => []TypeOK
<1>1. IInv => TypeOK
  BY DEF IInv, Base
<1>2. QED BY <1>1, Invariance, PTL

\* A fact that is delivered again, or to two workers, is recorded once unless
\* two workers were recording it at the same time.
THEOREM AwardedAtMostOnce == Spec => []AwardedOnce
<1>1. IInv => AwardedOnce
  BY DEF IInv, OnceI
<1>2. QED BY <1>1, Invariance, PTL

\* The totals are the sums of the recorded facts unless two workers computed
\* one at once, and neither they nor the leaderboard ever show more.
THEOREM PointsAreKept == Spec => []PointsKept
<1>1. IInv => PointsKept
  BY DEF IInv, PointsI
<1>2. QED BY <1>1, Invariance, PTL

\* Users have the badges the recorded facts earn them, and no others, once no
\* worker is at their badges, if no error left them behind.
THEOREM BadgesAreAwarded == Spec => []BadgesFollow
<1>1. IInv => BadgesFollow
  BY DEF IInv, BadgesI, BadgesFollow, InHand, At
<1>2. QED BY <1>1, Invariance, PTL

\* The leaderboard shows a user's points once nobody is about to update them,
\* if no error left the user behind and no two workers did so at once.
THEOREM ScoresAreShown == Spec => []ScoresFollow
<1>1. IInv => ScoresFollow
  BY DEF IInv, ScoresI, ScoresFollow, Shows, Coming, At
<1>2. QED BY <1>1, Invariance, PTL
=============================================================================
