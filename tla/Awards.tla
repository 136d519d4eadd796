------------------------------- MODULE Awards -------------------------------
(***************************************************************************)
(* Points, badges and the leaderboard (core/gamification): every worker    *)
(* process takes domain events from the stream and awards their user, in   *)
(* up to three transactions: the points, the badges, the leaderboard.  One *)
(* of the events, the creation of a task, is not followed by a look at the *)
(* badges.  An exception rolls the open transaction back and is swallowed: *)
(* the event does not come again.                                          *)
(*                                                                         *)
(* The database is at READ COMMITTED.  A transaction writes the values it  *)
(* computed from rows it read before; the row or key it writes is locked   *)
(* until it ends.  Levels and streaks are columns of the row of points     *)
(* that decide nothing here, and are left out.                             *)
(***************************************************************************)
EXTENDS Integers, FiniteSets

CONSTANTS
  Workers,        \* processes that consume events
  Users,          \* 1 .. n, in the order of their leaderboard rows
  Facts,          \* what can be awarded: a completed task, an attended event
  UserOf,         \* the user of a fact
  Worth,          \* the points of a fact, bonuses included
  EventTypes,     \* the types of the events
  EventOf,        \* the one that reports a fact
  Checked,        \* those after which the badges are looked at
  Badges,
  Wants,          \* the event type a badge asks for, or None
  Need,           \* how many events it takes
  MaxDeliveries,  \* events published, per fact
  MaxFaults,      \* database errors and workers that die
  None

ASSUME FactsAssumption ==
  /\ UserOf \in [Facts -> Users] /\ Worth \in [Facts -> Nat]
  /\ EventOf \in [Facts -> EventTypes] /\ Checked \subseteq EventTypes
  /\ Wants \in [Badges -> EventTypes \cup {None}] /\ Need \in [Badges -> Nat]
ASSUME AwardBoundsAssumption ==
  /\ Users \subseteq Nat /\ IsFiniteSet(Users) /\ IsFiniteSet(Facts)
  /\ MaxDeliveries \in [Facts -> Nat] /\ MaxFaults \in Nat
ASSUME NoneAssumption ==
  /\ None \notin Nat /\ None \notin Workers \cup Badges \cup Facts
  /\ None \notin [points : Nat, rank : Nat]

VARIABLES
  sent,      \* events published and taken, per fact
  recorded,  \* rows of gamification_events, per fact
  earned,    \* the sum of their points, per user
  points,    \* the rows of user_points
  badges,    \* the rows of user_badges
  entry,     \* the rows of leaderboard_entries: points and rank
  work,      \* what each worker is at
  lock,      \* who has written an uncommitted leaderboard row
  raced,     \* users whose points two workers computed at once
  doubled,   \* facts two workers recorded at once
  crossed,   \* users whose scores two workers updated at once
  behind,    \* users whose badges or scores an error left behind
  faults     \* failures so far

awards == <<recorded, earned, points, badges, entry>>
history == <<raced, doubled, crossed, behind>>
vars == <<sent, awards, work, lock, history, faults>>

\* A worker: where it is, the fact, the points it read, the badges it still
\* has to look at, the one it is about to award, those it inserted, the score
\* it read, the leaderboard row as it read it, whether it wrote that row, and
\* the ranks it has to write (0: none).
Rest == [pc |-> "idle", fact |-> None, seen |-> None, left |-> {}, want |-> None, held |-> {},
         score |-> 0, row |-> None, wrote |-> FALSE, ranks |-> [u \in Users |-> 0]]

Init ==
  /\ sent = [f \in Facts |-> 0]
  /\ recorded = [f \in Facts |-> 0]
  /\ earned = [u \in Users |-> 0]
  /\ points = [u \in Users |-> None]
  /\ badges = [u \in Users |-> {}]
  /\ entry = [u \in Users |-> None]
  /\ work = [w \in Workers |-> Rest]
  /\ lock = [u \in Users |-> None]
  /\ raced = {} /\ doubled = {} /\ crossed = {} /\ behind = {}
  /\ faults = 0

-----------------------------------------------------------------------------
User(w) == UserOf[work[w].fact]

\* The records of a user's events of a type.
Counted(u, e) ==
  UNION {{f} \X (1 .. recorded[f]) : f \in {g \in Facts : UserOf[g] = u /\ EventOf[g] = e}}

\* The badges whose criteria go with an event of the type.
Suited(e) == {b \in Badges : Wants[b] \in {None, e}}

\* Other workers that are at `pcs` with the same user.
Beside(w, u, pcs) == \E o \in Workers \ {w} : work[o].pc \in pcs /\ User(o) = u

\* Mutant: the record of the fact was committed before the points.
MutRollback(w) ==
  LET kept == work[w].pc = "add" IN
  /\ work' = [work EXCEPT ![w] = Rest]
  /\ lock' = [u \in Users |-> IF lock[u] = w THEN None ELSE lock[u]]
  /\ behind' = IF work[w].pc \in {"read", "add"} THEN behind ELSE behind \cup {User(w)}
  /\ recorded' = IF kept THEN [recorded EXCEPT ![work[w].fact] = @ + 1] ELSE recorded
  /\ earned' = IF kept THEN [earned EXCEPT ![User(w)] = @ + Worth[work[w].fact]] ELSE earned
  /\ UNCHANGED <<sent, points, badges, entry, raced, doubled, crossed>>

\* What is rolled back: locks and rows that were not committed.
Rollback(w) ==
  /\ work' = [work EXCEPT ![w] = Rest]
  /\ lock' = [u \in Users |-> IF lock[u] = w THEN None ELSE lock[u]]
  /\ behind' = IF work[w].pc \in {"read", "add"} THEN behind ELSE behind \cup {User(w)}
  /\ UNCHANGED <<sent, awards, raced, doubled, crossed>>

-----------------------------------------------------------------------------
(* The points of a fact. *)

\* Mutant: the records are not looked at.
MutTake(w, f) ==
  /\ work[w].pc = "idle" /\ sent[f] < MaxDeliveries[f]
  /\ sent' = [sent EXCEPT ![f] = @ + 1]
  /\ work' = [work EXCEPT ![w] = [Rest EXCEPT !.pc = "read", !.fact = f]]
  /\ doubled' = IF \E o \in Workers : work[o].pc \in {"read", "add"} /\ work[o].fact = f
                THEN doubled \cup {f} ELSE doubled
  /\ UNCHANGED <<awards, lock, raced, crossed, behind, faults>>

\* An event is taken; a fact that is recorded already is not awarded again.
Take(w, f) ==
  /\ work[w].pc = "idle" /\ sent[f] < MaxDeliveries[f]
  /\ sent' = [sent EXCEPT ![f] = @ + 1]
  /\ work' = IF recorded[f] > 0 THEN work
             ELSE [work EXCEPT ![w] = [Rest EXCEPT !.pc = "read", !.fact = f]]
  /\ doubled' = IF \E o \in Workers : work[o].pc \in {"read", "add"} /\ work[o].fact = f
                THEN doubled \cup {f} ELSE doubled
  /\ UNCHANGED <<awards, lock, raced, crossed, behind, faults>>

ReadPoints(w) ==
  /\ work[w].pc = "read"
  /\ work' = [work EXCEPT ![w].pc = "add", ![w].seen = points[User(w)]]
  /\ raced' = IF Beside(w, User(w), {"add"}) THEN raced \cup {User(w)} ELSE raced
  /\ UNCHANGED <<sent, awards, lock, doubled, crossed, behind, faults>>

\* The record and the new total are one commit.  A row of points that another
\* worker inserted meanwhile is a conflict, and the fact is not awarded.  After
\* the creation of a task the leaderboard follows at once.
AddPoints(w) ==
  LET f == work[w].fact
      u == User(w)
      total == IF work[w].seen = None THEN 0 ELSE work[w].seen
  IN
  /\ work[w].pc = "add"
  /\ ~(work[w].seen = None /\ points[u] # None)
  /\ recorded' = [recorded EXCEPT ![f] = @ + 1]
  /\ earned' = [earned EXCEPT ![u] = @ + Worth[f]]
  /\ points' = [points EXCEPT ![u] = total + Worth[f]]
  /\ work' = IF EventOf[f] \in Checked
             THEN [work EXCEPT ![w].pc = "badges", ![w].left = Suited(EventOf[f])]
             ELSE [work EXCEPT ![w].pc = "score"]
  /\ UNCHANGED <<sent, badges, entry, lock, history, faults>>

PointsConflict(w) ==
  /\ work[w].pc = "add" /\ work[w].seen = None /\ points[User(w)] # None
  /\ Rollback(w) /\ UNCHANGED faults

-----------------------------------------------------------------------------
(* The badges. *)

\* The next badge: a user who has it does not get it again.
CheckBadge(w, b) ==
  /\ work[w].pc = "badges" /\ work[w].want = None /\ b \in work[w].left
  /\ work' = [work EXCEPT ![w].left = @ \ {b},
                          ![w].want = IF b \in badges[User(w)] THEN None ELSE b]
  /\ UNCHANGED <<sent, awards, lock, history, faults>>

\* Another worker inserted the badge for this user and did not commit yet.
BadgeTaken(w) ==
  \E o \in Workers \ {w} : work[o].pc = "badges" /\ User(o) = User(w) /\ work[w].want \in work[o].held

\* Mutant: the criteria take one fact more than they say.
MutQualifies(w) == Cardinality(Counted(User(w), EventOf[work[w].fact])) > Need[work[w].want]

\* A badge that asks for no type counts the events of the type at hand.
Qualifies(w) == Cardinality(Counted(User(w), EventOf[work[w].fact])) >= Need[work[w].want]

\* The badge is inserted if the criteria are met.
AwardBadge(w) ==
  /\ work[w].pc = "badges" /\ work[w].want # None
  /\ \/ ~Qualifies(w) /\ work' = [work EXCEPT ![w].want = None]
     \/ /\ Qualifies(w) /\ ~BadgeTaken(w) /\ work[w].want \notin badges[User(w)]
        /\ work' = [work EXCEPT ![w].held = @ \cup {work[w].want}, ![w].want = None]
  /\ UNCHANGED <<sent, awards, lock, history, faults>>

BadgeConflict(w) ==
  /\ work[w].pc = "badges" /\ work[w].want # None
  /\ Qualifies(w) /\ work[w].want \in badges[User(w)]
  /\ Rollback(w) /\ UNCHANGED faults

CommitBadges(w) ==
  /\ work[w].pc = "badges" /\ work[w].want = None /\ work[w].left = {}
  /\ badges' = [badges EXCEPT ![User(w)] = @ \cup work[w].held]
  /\ work' = [work EXCEPT ![w].pc = "score", ![w].held = {}]
  /\ UNCHANGED <<sent, recorded, earned, points, entry, lock, history, faults>>

-----------------------------------------------------------------------------
(* The leaderboard. *)

Scoring == {"row", "flush", "rank", "lock"}

ReadScore(w) ==
  /\ work[w].pc = "score"
  /\ work' = [work EXCEPT ![w].pc = "row", ![w].score = points[User(w)]]
  /\ crossed' = IF Beside(w, User(w), Scoring) THEN crossed \cup {User(w)} ELSE crossed
  /\ UNCHANGED <<sent, awards, lock, raced, doubled, behind, faults>>

ReadRow(w) ==
  /\ work[w].pc = "row"
  /\ work' = [work EXCEPT ![w].pc = "flush", ![w].row = entry[User(w)]]
  /\ UNCHANGED <<sent, awards, lock, history, faults>>

\* The user's own row is inserted or, if its points change, updated.
FlushRow(w) ==
  LET u == User(w) IN
  /\ work[w].pc = "flush"
  /\ \/ /\ work[w].row # None /\ work[w].row.points = work[w].score
        /\ work' = [work EXCEPT ![w].pc = "rank"]
        /\ UNCHANGED lock
     \/ /\ lock[u] = None /\ (work[w].row = None => entry[u] = None)
        /\ work[w].row # None => work[w].row.points # work[w].score
        /\ lock' = [lock EXCEPT ![u] = w]
        /\ work' = [work EXCEPT ![w].pc = "rank", ![w].wrote = TRUE]
  /\ UNCHANGED <<sent, awards, history, faults>>

RowConflict(w) ==
  /\ work[w].pc = "flush" /\ work[w].row = None
  /\ lock[User(w)] = None /\ entry[User(w)] # None
  /\ Rollback(w) /\ UNCHANGED faults

\* The rows as worker w sees them: the committed ones and its own.
Seen(w, u) == IF u = User(w) /\ work[w].wrote THEN work[w].score ELSE entry[u].points
Listed(w) == {u \in Users : entry[u] # None \/ (u = User(w) /\ work[w].wrote)}

\* The rank a row had when it was loaded: the user's own was loaded before.
Loaded(w, u) ==
  IF u = User(w) THEN IF work[w].row = None THEN 0 ELSE work[w].row.rank
                 ELSE entry[u].rank

\* Mutant: the numbering starts at 0.
MutReadRanks(w) ==
  /\ work[w].pc = "rank"
  /\ \E rank \in [Listed(w) -> 0 .. Cardinality(Listed(w)) - 1] :
       /\ \A u, v \in Listed(w) :
            u # v => rank[u] # rank[v] /\ (Seen(w, u) > Seen(w, v) => rank[u] < rank[v])
       /\ work' = [work EXCEPT ![w].pc = "lock",
            ![w].ranks = [u \in Users |-> IF u \in Listed(w) /\ rank[u] # Loaded(w, u) THEN rank[u] ELSE 0]]
  /\ UNCHANGED <<sent, awards, lock, history, faults>>

\* _recalculate_ranks: rows are numbered by falling points, equal ones in any
\* order; only ranks that differ from the loaded ones are written.
ReadRanks(w) ==
  /\ work[w].pc = "rank"
  /\ \E rank \in [Listed(w) -> 1 .. Cardinality(Listed(w))] :
       /\ \A u, v \in Listed(w) :
            u # v => rank[u] # rank[v] /\ (Seen(w, u) > Seen(w, v) => rank[u] < rank[v])
       /\ work' = [work EXCEPT ![w].pc = "lock",
            ![w].ranks = [u \in Users |-> IF u \in Listed(w) /\ rank[u] # Loaded(w, u) THEN rank[u] ELSE 0]]
  /\ UNCHANGED <<sent, awards, lock, history, faults>>

\* The rows a commit still has to lock, in the order of their keys.
ToLock(w) == {u \in Users : work[w].ranks[u] # 0 /\ lock[u] # w}

Blocking(w) == {u \in ToLock(w) : \A v \in ToLock(w) : u <= v}

LockRow(w) ==
  /\ work[w].pc = "lock"
  /\ \E u \in Blocking(w) : lock[u] = None /\ lock' = [lock EXCEPT ![u] = w]
  /\ UNCHANGED <<sent, awards, work, history, faults>>

\* Mutant: of a row that was there only the rank is written.
MutCommitScore(w) ==
  /\ work[w].pc = "lock" /\ ToLock(w) = {}
  /\ entry' = [u \in Users |->
       IF u = User(w) /\ work[w].row = None
       THEN [points |-> work[w].score, rank |-> work[w].ranks[u]]
       ELSE IF lock[u] = w
       THEN [entry[u] EXCEPT !.rank = IF work[w].ranks[u] # 0 THEN work[w].ranks[u] ELSE @]
       ELSE entry[u]]
  /\ work' = [work EXCEPT ![w] = Rest]
  /\ lock' = [u \in Users |-> IF lock[u] = w THEN None ELSE lock[u]]
  /\ UNCHANGED <<sent, recorded, earned, points, badges, history, faults>>

\* Mutant: the rows are flushed and never committed.
MutCommitScoreFlushes(w) ==
  /\ work[w].pc = "lock" /\ ToLock(w) = {}
  /\ work' = [work EXCEPT ![w] = Rest]
  /\ UNCHANGED <<sent, awards, lock, history, faults>>

\* The points and ranks are committed.
CommitScore(w) ==
  /\ work[w].pc = "lock" /\ ToLock(w) = {}
  /\ entry' = [u \in Users |->
       IF u = User(w) /\ work[w].row = None
       THEN [points |-> work[w].score, rank |-> work[w].ranks[u]]
       ELSE IF lock[u] = w
       THEN [points |-> IF u = User(w) /\ work[w].wrote THEN work[w].score ELSE entry[u].points,
             rank |-> IF work[w].ranks[u] # 0 THEN work[w].ranks[u] ELSE entry[u].rank]
       ELSE entry[u]]
  /\ work' = [work EXCEPT ![w] = Rest]
  /\ lock' = [u \in Users |-> IF lock[u] = w THEN None ELSE lock[u]]
  /\ UNCHANGED <<sent, recorded, earned, points, badges, history, faults>>

-----------------------------------------------------------------------------
(* Failures. *)

\* Whom a worker waits for.
WaitsFor(w) ==
  CASE work[w].pc = "badges" /\ work[w].want # None ->
         {o \in Workers \ {w} : work[o].pc = "badges" /\ User(o) = User(w) /\ work[w].want \in work[o].held}
    [] work[w].pc = "flush" /\ (work[w].row = None \/ work[w].row.points # work[w].score) ->
         {lock[User(w)]} \cap (Workers \ {w})
    [] work[w].pc = "lock"  -> {lock[u] : u \in Blocking(w)} \cap (Workers \ {w})
    [] OTHER -> {}

\* PostgreSQL finds workers that wait in a circle and aborts one of them.
Victim(w) ==
  /\ \E D \in SUBSET Workers : w \in D /\ \A o \in D : WaitsFor(o) \cap D # {}
  /\ Rollback(w) /\ UNCHANGED faults

\* The database reports an error, or the worker dies.
Fail(w) ==
  /\ work[w].pc # "idle" /\ faults < MaxFaults
  /\ faults' = faults + 1
  /\ Rollback(w)

-----------------------------------------------------------------------------
Work(w) ==
  \/ ReadPoints(w) \/ AddPoints(w) \/ PointsConflict(w)
  \/ \E b \in Badges : CheckBadge(w, b)
  \/ AwardBadge(w) \/ BadgeConflict(w) \/ CommitBadges(w)
  \/ ReadScore(w) \/ ReadRow(w) \/ FlushRow(w) \/ RowConflict(w)
  \/ ReadRanks(w) \/ LockRow(w) \/ CommitScore(w)

Next ==
  \E w \in Workers :
    \/ Work(w) \/ Victim(w) \/ Fail(w)
    \/ \E f \in Facts : Take(w, f)

Spec == Init /\ [][Next]_vars

\* Each worker's handler runs on; the database ends every deadlock.
FairSpec == Spec /\ \A w \in Workers : WF_vars(Work(w)) /\ WF_vars(Victim(w))
-----------------------------------------------------------------------------
Rows == [points : Nat, rank : 1 .. Cardinality(Users)]

Worker == [pc : {"idle", "read", "add", "badges", "score"} \cup Scoring, fact : Facts \cup {None},
           seen : Nat \cup {None}, left : SUBSET Badges, want : Badges \cup {None}, held : SUBSET Badges,
           score : Nat, row : Rows \cup {None}, wrote : BOOLEAN,
           ranks : [Users -> 0 .. Cardinality(Users)]]

TypeOK ==
  /\ sent \in [Facts -> Nat] /\ recorded \in [Facts -> Nat]
  /\ earned \in [Users -> Nat] /\ points \in [Users -> Nat \cup {None}]
  /\ badges \in [Users -> SUBSET Badges] /\ entry \in [Users -> Rows \cup {None}]
  /\ work \in [Workers -> Worker]
  /\ lock \in [Users -> Workers \cup {None}]
  /\ raced \subseteq Users /\ crossed \subseteq Users /\ behind \subseteq Users /\ doubled \subseteq Facts
  /\ faults \in 0 .. MaxFaults

\* A fact is awarded twice only if two workers recorded it at the same time:
\* nothing but the look at the records keeps them apart (event_handlers.py,
\* _event_already_processed).
AwardedOnce == \A f \in Facts : recorded[f] > 1 => f \in doubled

Total(u) == IF points[u] = None THEN 0 ELSE points[u]

\* "Accumulated points per user": whatever fails, the total is the sum of the
\* recorded facts, unless two workers computed it at once, which may only lose
\* points; the leaderboard never shows more than was earned.
PointsKept ==
  \A u \in Users :
    /\ Total(u) <= earned[u]
    /\ u \notin raced => Total(u) = earned[u]
    /\ entry[u] # None => entry[u].points <= earned[u]

\* A badge is earned by the records of one event type that goes with it, and
\* only by one after which the badges are looked at.
Earns(u, b, e) ==
  /\ e \in Checked /\ b \in Suited(e)
  /\ Counted(u, e) # {} /\ Cardinality(Counted(u, e)) >= Need[b]

\* A user has only badges that the recorded events earn, and, unless an error
\* left the user behind, has them as soon as no worker is awarding badges to
\* the user: of two events handled at once, the one recorded last counts both.
\* Created tasks are counted by no badge, nor is the level or the streak of the
\* user (event_handlers.py handle_task_created, badge_service.py).
BadgesFollow ==
  \A u \in Users, b \in Badges :
    /\ b \in badges[u] => \E e \in EventTypes : Earns(u, b, e)
    /\ /\ \E e \in EventTypes : Earns(u, b, e)
       /\ u \notin behind
       /\ \A w \in Workers : work[w].pc = "badges" => User(w) # u
       => b \in badges[u]

\* Unless an error left the user behind or two workers updated the user's
\* score at once, the leaderboard shows the user's points as soon as nobody is
\* about to update it, whatever happens meanwhile to the ranks of others.
ScoresFollow ==
  \A u \in Users \ (behind \cup crossed) :
    (\A w \in Workers : work[w].pc \in {"badges", "score"} \cup Scoring => User(w) # u) =>
      IF points[u] = None THEN entry[u] = None
      ELSE entry[u] # None /\ entry[u].points = points[u]

\* Every event that was taken is done with in the end, though workers that
\* renumber the leaderboard lock its rows in orders that may form a circle.
HandlersEnd == \A w \in Workers : work[w].pc # "idle" ~> work[w].pc = "idle"
=============================================================================
