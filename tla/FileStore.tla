----------------------------- MODULE FileStore -----------------------------
(***************************************************************************)
(* The files of a tenant (core/files): rows in the database, their content *)
(* in an object store under a path made of the month and the file's name.  *)
(* Uploads, new versions, soft deletion, restoration, the daily sweep that *)
(* removes for good what was deleted long enough ago, one in each worker   *)
(* process, and the storage quotas with their warnings.                    *)
(*                                                                         *)
(* Every await is a point where another request may run, every query one   *)
(* where another worker process may, and every repository call commits.    *)
(* Of a path only the name and the version prefix are kept: the month and  *)
(* the entity type only tell more names apart, and no name begins with a   *)
(* version prefix itself.                                                  *)
(***************************************************************************)
EXTENDS Integers, FiniteSets

CONSTANTS
  Files,       \* uploads, each with the file it creates
  Revisions,   \* uploads of a new version of some file
  Sweeps,      \* worker processes that run the sweep
  Names,       \* the names users give their files
  MaxNumber,   \* version numbers
  MaxFaults,   \* calls that fail and workers that die
  Personal,    \* files that belong to no business entity: quotas count these
  Size,        \* the bytes of a file
  Scopes,      \* the tenant and its users, each with a quota
  Counted,     \* the files that count against the quota of a scope
  Quota,       \* its quota
  Thresholds,  \* the usages at which its owner is warned
  None

ASSUME SizeAssumption == Size \in [Files -> Nat \ {0}]
ASSUME ScopesAssumption ==
  /\ Counted \in [Scopes -> SUBSET Personal] /\ Personal \subseteq Files
  /\ Quota \in [Scopes -> Nat] /\ Thresholds \in [Scopes -> SUBSET (Nat \ {0})]
ASSUME RequestsAssumption == None \notin Files \cup Revisions /\ Files \cap Revisions = {}
ASSUME FileBoundsAssumption == IsFiniteSet(Files) /\ MaxNumber \in Nat \ {0} /\ MaxFaults \in Nat

\* <<0, n>> is the path of a file named n, <<k, n>> of "v<k>_n".
Paths == (0 .. MaxNumber) \X Names
Contents == Files \cup Revisions

VARIABLES
  file,      \* the rows of files
  versions,  \* the rows of file_versions
  store,     \* the object store: whose content is at a path
  upload,    \* the upload requests
  revision,  \* the requests that add a version
  sweep,     \* what each sweep has left to do
  warned,    \* the warnings sent
  peak,      \* most bytes of others past their check while one was checked, per scope
  overlapped,\* scopes that two uploads were at before either had its row
  restored,  \* files that were ever restored
  crossed,   \* files in a sweep's list while someone worked on them
  racing,    \* files with two version numbers handed out at once
  faults     \* failures so far

ScopesOf(f) == {u \in Scopes : f \in Counted[u]}
NoUsage == [u \in Scopes |-> 0]

vars == <<file, versions, store, upload, revision, sweep, warned, peak, overlapped, restored, crossed, racing, faults>>

Idle == [todo |-> {}, fresh |-> TRUE, hand |-> None, paths |-> {}]

Init ==
  /\ file = [f \in Files |-> [row |-> "none", old |-> FALSE, number |-> 0]]
  /\ versions = {}
  /\ store = [p \in Paths |-> None]
  /\ upload = [f \in Files |-> [pc |-> "idle", path |-> None, before |-> NoUsage,
                               unread |-> ScopesOf(f), unchecked |-> ScopesOf(f)]]
  /\ revision = [v \in Revisions |->
       [pc |-> "idle", file |-> None, number |-> 0, path |-> None, content |-> None]]
  /\ sweep = [w \in Sweeps |-> Idle]
  /\ warned = {}
  /\ peak = [u \in Scopes |-> 0]
  /\ overlapped = {} /\ restored = {} /\ crossed = {} /\ racing = {}
  /\ faults = 0

-----------------------------------------------------------------------------
(* Quotas. *)

Bytes(S) == UNION {{f} \X (1 .. Size[f]) : f \in S}

\* The sum of the sizes of a scope's current files.
Usage(u) == Cardinality(Bytes({f \in Counted[u] : file[f].row = "current"}))

\* Uploads that have read the usage of the scope and have no row yet.
Busy(u) == {f \in Counted[u] : upload[f].pc \in {"idle", "stored"} /\ u \notin upload[f].unread}

\* Those that passed its check, too.
InFlight(u) == {f \in Busy(u) : u \notin upload[f].unchecked}

\* Mutant: the file that arrives is not added to the usage.
MutFits(f, u) == Usage(u) <= Quota[u]

\* check_quota_before_upload, of the tenant or of the user.
Fits(f, u) == Usage(u) + Size[f] <= Quota[u]

\* Mutant: a threshold counts as crossed only above it.
MutCrossed(f, u) ==
  {t \in Thresholds[u] : upload[f].before[u] < t /\ t < upload[f].before[u] + Size[f]}

\* The thresholds between the usage read before the check and that with the file.
Crossed(f, u) ==
  {t \in Thresholds[u] : upload[f].before[u] < t /\ t <= upload[f].before[u] + Size[f]}

\* _highest_crossed_threshold: an upload warns of the highest one only.
Warnings(f) ==
  UNION {{u} \X {t \in Crossed(f, u) : \A x \in Crossed(f, u) : x <= t} :
           u \in ScopesOf(f)}

-----------------------------------------------------------------------------
(* Uploads. *)

\* The usages for the warnings come first, each by a query of its own.
UploadRead(f, u) ==
  /\ upload[f].pc = "idle" /\ u \in upload[f].unread
  /\ upload' = [upload EXCEPT ![f].before[u] = Usage(u), ![f].unread = @ \ {u}]
  /\ overlapped' = IF Busy(u) = {} THEN overlapped ELSE overlapped \cup {u}
  /\ UNCHANGED <<file, versions, store, revision, sweep, warned, peak, restored, crossed, racing, faults>>

\* The check reads each usage again.
UploadCheck(f, u) ==
  /\ upload[f].pc = "idle" /\ upload[f].unread = {} /\ u \in upload[f].unchecked
  /\ Fits(f, u)
  /\ upload' = [upload EXCEPT ![f].unchecked = @ \ {u}]
  /\ peak' = [peak EXCEPT ![u] = LET others == Cardinality(Bytes(InFlight(u)))
                                 IN  IF others > @ THEN others ELSE @]
  /\ UNCHANGED <<file, versions, store, revision, sweep, warned, overlapped, restored, crossed, racing, faults>>

UploadRefuse(f, u) ==
  /\ upload[f].pc = "idle" /\ upload[f].unread = {} /\ u \in upload[f].unchecked
  /\ ~Fits(f, u)
  /\ upload' = [upload EXCEPT ![f].pc = "dropped", ![f].before = NoUsage, ![f].unchecked = {}]
  /\ UNCHANGED <<file, versions, store, revision, sweep, warned, peak, overlapped, restored, crossed, racing, faults>>

\* An object that is there already is replaced.
UploadStore(f, p) ==
  /\ upload[f].pc = "idle" /\ upload[f].unread = {} /\ upload[f].unchecked = {}
  /\ store' = [store EXCEPT ![p] = f]
  /\ upload' = [upload EXCEPT ![f].pc = "stored", ![f].path = p]
  /\ UNCHANGED <<file, versions, revision, sweep, warned, peak, overlapped, restored, crossed, racing, faults>>

UploadCreate(f) ==
  /\ upload[f].pc = "stored"
  /\ file' = [file EXCEPT ![f] = [row |-> "current", old |-> FALSE, number |-> 1]]
  /\ upload' = [upload EXCEPT ![f].pc = "created"]
  /\ UNCHANGED <<versions, store, revision, sweep, warned, peak, overlapped, restored, crossed, racing, faults>>

\* No row could be written: the object goes, whoever's it is by now.
UploadCreateFails(f) ==
  /\ upload[f].pc = "stored" /\ faults < MaxFaults
  /\ faults' = faults + 1
  /\ store' = [store EXCEPT ![upload[f].path] = None]
  /\ upload' = [upload EXCEPT ![f].pc = "failed", ![f].before = NoUsage]
  /\ UNCHANGED <<file, versions, revision, sweep, warned, peak, overlapped, restored, crossed, racing>>

\* The row is committed, but reading it back fails: the object goes all the same.
UploadVerifyFails(f) ==
  /\ upload[f].pc = "created" /\ faults < MaxFaults
  /\ faults' = faults + 1
  /\ store' = [store EXCEPT ![upload[f].path] = None]
  /\ upload' = [upload EXCEPT ![f].pc = "unverified", ![f].before = NoUsage]
  /\ UNCHANGED <<file, versions, revision, sweep, warned, peak, overlapped, restored, crossed, racing>>

\* Mutant: the first version is number 0.
MutUploadFinish(f, fails, sent) ==
  /\ upload[f].pc = "created"
  /\ faults' = IF fails \/ sent # Warnings(f) THEN faults + 1 ELSE faults
  /\ faults' <= MaxFaults
  /\ versions' = IF fails \/ file[f].row = "gone" THEN versions
                 ELSE versions \cup {[file |-> f, number |-> 0, path |-> upload[f].path, content |-> f]}
  /\ upload' = [upload EXCEPT ![f].pc = "done", ![f].before = NoUsage]
  /\ warned' = warned \cup sent
  /\ UNCHANGED <<file, store, revision, sweep, peak, overlapped, restored, crossed, racing>>

\* Version 1 is recorded (a failure is only logged, a row that is gone takes
\* no version), then the warnings are sent.  One that cannot be sent, or that
\* nobody is there to receive, is only logged too.
UploadFinish(f, fails, sent) ==
  /\ upload[f].pc = "created"
  /\ faults' = IF fails \/ sent # Warnings(f) THEN faults + 1 ELSE faults
  /\ faults' <= MaxFaults
  /\ versions' = IF fails \/ file[f].row = "gone" THEN versions
                 ELSE versions \cup {[file |-> f, number |-> 1, path |-> upload[f].path, content |-> f]}
  /\ upload' = [upload EXCEPT ![f].pc = "done", ![f].before = NoUsage]
  /\ warned' = warned \cup sent
  /\ UNCHANGED <<file, store, revision, sweep, peak, overlapped, restored, crossed, racing>>

\* An upload that stops before it stored anything takes no further step.
UploadCrash(f) ==
  /\ upload[f].pc \in {"stored", "created"} /\ faults < MaxFaults
  /\ faults' = faults + 1
  /\ upload' = [upload EXCEPT ![f].pc = "failed", ![f].before = NoUsage]
  /\ UNCHANGED <<file, versions, store, revision, sweep, warned, peak, overlapped, restored, crossed, racing>>

-----------------------------------------------------------------------------
(* New versions. *)

Latest(f) ==
  LET numbers == {v.number : v \in {x \in versions : x.file = f}} \cup {0}
  IN  CHOOSE n \in numbers : \A m \in numbers : m <= n

Revised(f) == \E v \in Revisions : revision[v].pc \in {"numbered", "stored", "recorded"} /\ revision[v].file = f

\* The number is read before the content is stored.
ReviseRead(v, f, name, content) ==
  /\ revision[v].pc = "idle"
  /\ file[f].row = "current"
  /\ \E n \in 1 .. MaxNumber :
       /\ n = Latest(f) + 1
       /\ revision' = [revision EXCEPT ![v] =
            [pc |-> "numbered", file |-> f, number |-> n, path |-> <<n, name>>, content |-> content]]
  /\ racing' = IF Revised(f) \/ upload[f].pc = "created" THEN racing \cup {f} ELSE racing
  /\ UNCHANGED <<file, versions, store, upload, sweep, warned, peak, overlapped, restored, crossed, faults>>

\* The restoration of a version downloads its content and adds it anew.
ReviseRestore(v, f, x) ==
  /\ x.file = f /\ store[x.path] # None
  /\ ReviseRead(v, f, upload[f].path[2], store[x.path])

ReviseStore(v) ==
  /\ revision[v].pc = "numbered"
  /\ store' = [store EXCEPT ![revision[v].path] = revision[v].content]
  /\ revision' = [revision EXCEPT ![v].pc = "stored"]
  /\ UNCHANGED <<file, versions, upload, sweep, warned, peak, overlapped, restored, crossed, racing, faults>>

\* The file may be gone meanwhile: then the request fails.
ReviseRecord(v) ==
  LET r == revision[v] IN
  /\ r.pc = "stored"
  /\ IF file[r.file].row = "gone"
     THEN /\ revision' = [revision EXCEPT ![v].pc = "failed"] /\ UNCHANGED versions
     ELSE /\ versions' = versions \cup
               {[file |-> r.file, number |-> r.number, path |-> r.path, content |-> r.content]}
          /\ revision' = [revision EXCEPT ![v].pc = "recorded"]
  /\ UNCHANGED <<file, store, upload, sweep, warned, peak, overlapped, restored, crossed, racing, faults>>

\* Mutant: the number of the file stays behind.
MutReviseNumber(v) ==
  /\ revision[v].pc = "recorded"
  /\ revision' = [revision EXCEPT ![v].pc = "done"]
  /\ UNCHANGED <<file, versions, store, upload, sweep, warned, peak, overlapped, restored, crossed, racing, faults>>

\* The number of the file follows in a commit of its own.
ReviseNumber(v) ==
  /\ revision[v].pc = "recorded"
  /\ file' = IF file[revision[v].file].row = "gone" THEN file
             ELSE [file EXCEPT ![revision[v].file].number = revision[v].number]
  /\ revision' = [revision EXCEPT ![v].pc = "done"]
  /\ UNCHANGED <<versions, store, upload, sweep, warned, peak, overlapped, restored, crossed, racing, faults>>

ReviseFails(v) ==
  /\ revision[v].pc \in {"numbered", "stored", "recorded"} /\ faults < MaxFaults
  /\ faults' = faults + 1
  /\ revision' = [revision EXCEPT ![v].pc = "failed"]
  /\ UNCHANGED <<file, versions, store, upload, sweep, warned, peak, overlapped, restored, crossed, racing>>

-----------------------------------------------------------------------------
(* Deletion, restoration, the sweep. *)

\* Mutant: the content is deleted at once.
MutDelete(f) ==
  /\ file[f].row = "current"
  /\ file' = [file EXCEPT ![f].row = "deleted"]
  /\ store' = [store EXCEPT ![upload[f].path] = None]
  /\ UNCHANGED <<versions, upload, revision, sweep, warned, peak, overlapped, restored, crossed, racing, faults>>

\* The row is marked, the content stays.
Delete(f) ==
  /\ file[f].row = "current"
  /\ file' = [file EXCEPT ![f].row = "deleted"]
  /\ UNCHANGED <<versions, store, upload, revision, sweep, warned, peak, overlapped, restored, crossed, racing, faults>>

\* The retention period, which may be 0 days, is over.
Expire(f) ==
  /\ file[f].row = "deleted" /\ ~file[f].old
  /\ file' = [file EXCEPT ![f].old = TRUE]
  /\ UNCHANGED <<versions, store, upload, revision, sweep, warned, peak, overlapped, restored, crossed, racing, faults>>

Listed(f) == \E w \in Sweeps : f \in sweep[w].todo \/ f = sweep[w].hand

\* A restored file counts against its quotas again, without a check.
Restore(f) ==
  /\ file[f].row = "deleted"
  /\ file' = [file EXCEPT ![f].row = "current", ![f].old = FALSE]
  /\ restored' = restored \cup {f}
  /\ crossed' = IF Listed(f) THEN crossed \cup {f} ELSE crossed
  /\ UNCHANGED <<versions, store, upload, revision, sweep, warned, peak, overlapped, racing, faults>>

\* Mutant: the retention period is not looked at.
MutRemovable == {f \in Files : file[f].row = "deleted"}

\* get_deleted_files_for_cleanup.
Removable == {f \in Files : file[f].row = "deleted" /\ file[f].old}

SweepList(w) ==
  /\ sweep[w] = Idle /\ Removable # {}
  /\ sweep' = [sweep EXCEPT ![w].todo = Removable]
  /\ crossed' = crossed \cup {f \in Removable : Revised(f) \/ upload[f].pc = "created"}
  /\ UNCHANGED <<file, versions, store, upload, revision, warned, peak, overlapped, restored, racing, faults>>

\* The next file: its object is deleted and its versions are read.  It is not
\* looked at again, but a row that is gone cannot be read after the commit of
\* an earlier one, which ends the sweep.  An object that cannot be deleted is
\* kept, and only logged.
SweepTake(w, f, kept) ==
  /\ sweep[w].hand = None /\ f \in sweep[w].todo
  /\ faults' = IF kept THEN faults + 1 ELSE faults
  /\ faults' <= MaxFaults
  /\ IF file[f].row = "gone" /\ ~sweep[w].fresh
     THEN sweep' = [sweep EXCEPT ![w] = Idle] /\ UNCHANGED store /\ ~kept
     ELSE /\ store' = IF kept THEN store ELSE [store EXCEPT ![upload[f].path] = None]
          /\ sweep' = [sweep EXCEPT ![w] =
               [todo |-> @.todo \ {f}, fresh |-> FALSE, hand |-> f,
                paths |-> {x.path : x \in {y \in versions : y.file = f}}]]
  /\ UNCHANGED <<file, versions, upload, revision, warned, peak, overlapped, restored, crossed, racing>>

\* Mutant: the object of a version is passed over.
MutSweepErase(w, p, kept) ==
  /\ p \in sweep[w].paths
  /\ faults' = IF kept THEN faults + 1 ELSE faults
  /\ faults' <= MaxFaults
  /\ sweep' = [sweep EXCEPT ![w].paths = @ \ {p}]
  /\ UNCHANGED <<file, versions, store, upload, revision, warned, peak, overlapped, restored, crossed, racing>>

SweepErase(w, p, kept) ==
  /\ p \in sweep[w].paths
  /\ faults' = IF kept THEN faults + 1 ELSE faults
  /\ faults' <= MaxFaults
  /\ store' = IF kept THEN store ELSE [store EXCEPT ![p] = None]
  /\ sweep' = [sweep EXCEPT ![w].paths = @ \ {p}]
  /\ UNCHANGED <<file, versions, upload, revision, warned, peak, overlapped, restored, crossed, racing>>

\* The row goes, and its versions with it.
SweepPurge(w) ==
  LET f == sweep[w].hand IN
  /\ f # None /\ sweep[w].paths = {}
  /\ file' = [file EXCEPT ![f].row = "gone"]
  /\ versions' = {x \in versions : x.file # f}
  /\ sweep' = [sweep EXCEPT ![w] = IF @.todo = {} THEN Idle ELSE [@ EXCEPT !.hand = None]]
  /\ UNCHANGED <<store, upload, revision, warned, peak, overlapped, restored, crossed, racing, faults>>

\* A call fails or the worker dies: the row stays, its objects may be gone.
\* After a failure the sweep goes on with the next file.
SweepFails(w, dies) ==
  /\ sweep[w] # Idle /\ faults < MaxFaults
  /\ dies \/ sweep[w].hand # None
  /\ faults' = faults + 1
  /\ crossed' = crossed \cup ({sweep[w].hand} \cap Files)
  /\ sweep' = [sweep EXCEPT ![w] =
       IF dies \/ @.todo = {} THEN Idle ELSE [@ EXCEPT !.hand = None, !.paths = {}]]
  /\ UNCHANGED <<file, versions, store, upload, revision, warned, peak, overlapped, restored, racing>>

-----------------------------------------------------------------------------
UploadStep(f) ==
  \/ \E u \in Scopes : UploadRead(f, u) \/ UploadCheck(f, u) \/ UploadRefuse(f, u)
  \/ \E n \in Names : UploadStore(f, <<0, n>>)
  \/ UploadCreate(f) \/ UploadCreateFails(f) \/ UploadVerifyFails(f) \/ UploadCrash(f)
  \/ \E fails \in BOOLEAN, sent \in SUBSET Warnings(f) : UploadFinish(f, fails, sent)

ReviseStep(v) ==
  \/ \E f \in Files :
       \/ \E n \in Names : ReviseRead(v, f, n, v)
       \/ \E x \in versions : ReviseRestore(v, f, x)
  \/ ReviseStore(v) \/ ReviseRecord(v) \/ ReviseNumber(v) \/ ReviseFails(v)

SweepStep(w) ==
  \/ SweepList(w) \/ SweepPurge(w) \/ \E dies \in BOOLEAN : SweepFails(w, dies)
  \/ \E f \in Files, kept \in BOOLEAN : SweepTake(w, f, kept)
  \/ \E p \in Paths, kept \in BOOLEAN : SweepErase(w, p, kept)

Next ==
  \/ \E f \in Files : UploadStep(f) \/ Delete(f) \/ Expire(f) \/ Restore(f)
  \/ \E v \in Revisions : ReviseStep(v)
  \/ \E w \in Sweeps : SweepStep(w)

Spec == Init /\ [][Next]_vars

-----------------------------------------------------------------------------
FileRow == [row : {"none", "current", "deleted", "gone"}, old : BOOLEAN, number : 0 .. MaxNumber]
VersionRow == [file : Files, number : 1 .. MaxNumber, path : Paths, content : Contents]
UploadState == [pc : {"idle", "dropped", "stored", "created", "done", "failed", "unverified"},
                path : Paths \cup {None}, before : [Scopes -> Nat],
                unread : SUBSET Scopes, unchecked : SUBSET Scopes]
RevisionState == [pc : {"idle", "numbered", "stored", "recorded", "done", "failed"},
                  file : Files \cup {None}, number : 0 .. MaxNumber,
                  path : Paths \cup {None}, content : Contents \cup {None}]
SweepState == [todo : SUBSET Files, fresh : BOOLEAN, hand : Files \cup {None}, paths : SUBSET Paths]

TypeOK ==
  /\ file \in [Files -> FileRow]
  /\ versions \subseteq VersionRow
  /\ store \in [Paths -> Contents \cup {None}]
  /\ upload \in [Files -> UploadState]
  /\ revision \in [Revisions -> RevisionState]
  /\ sweep \in [Sweeps -> SweepState]
  /\ warned \subseteq Scopes \X Nat
  /\ peak \in [Scopes -> Nat]
  /\ overlapped \subseteq Scopes
  /\ restored \subseteq Files /\ crossed \subseteq Files /\ racing \subseteq Files
  /\ faults \in 0 .. MaxFaults

\* The requests that stored something at a path.
Writers(p) ==
  {f \in Files : upload[f].pc \in {"stored", "created", "done", "failed", "unverified"} /\ upload[f].path = p}
  \cup {v \in Revisions : revision[v].pc \in {"stored", "recorded", "done", "failed"} /\ revision[v].path = p}

\* A current file still has its own content, and so have its versions, as long
\* as no other request wrote to the same path and no sweep had the file in its
\* hands while it was restored or revised.  One failure breaks this: the upload
\* that cannot read its committed row back deletes its own content (service.py:
\* upload_file, create_file_version, cleanup_deleted_files, restore_file).
ContentKept ==
  /\ \A f \in Files \ crossed :
       /\ file[f].row = "current" /\ upload[f].pc # "unverified"
       /\ Writers(upload[f].path) = {f}
       => store[upload[f].path] = f
  /\ \A x \in versions :
       /\ x.file \notin crossed /\ file[x.file].row = "current"
       /\ \A c, d \in Writers(x.path) : c = d
       => store[x.path] = x.content

\* Only what stayed deleted for the whole retention period is removed for good,
\* unless it was restored after a sweep had listed it: the sweep does not look
\* at the row again.
PurgedAfterRetention ==
  \A f \in Files : file[f].row = "gone" => file[f].old \/ f \in crossed

\* The files of a scope that passed the quota check.
Taken(u) == {f \in Counted[u] \ restored : file[f].row = "current"} \cup InFlight(u)

\* The files that passed the quota check never exceed a quota by more than the
\* bytes that were past their own check, and without a row, while another one
\* was checked; restored files are not checked and come on top.
QuotaKept ==
  \A u \in Scopes : Cardinality(Bytes(Taken(u))) <= Quota[u] + peak[u]

\* When the uploads of a scope never overlapped, every threshold its usage has
\* reached was warned of, by a warning of that threshold or of a higher one,
\* unless something was restored or failed, sending a warning included.
WarnedAtThreshold ==
  \A u \in Scopes \ overlapped : \A t \in Thresholds[u] :
    /\ Usage(u) >= t /\ Counted[u] \cap restored = {} /\ faults = 0
    /\ \A f \in Counted[u] : upload[f].pc # "created"
    => \E w \in Thresholds[u] : w >= t /\ <<u, w>> \in warned

\* Unless two version numbers were handed out at once, the versions of a file
\* have numbers of their own and the file carries the latest one.
VersionsNumbered ==
  \A f \in Files \ racing :
    /\ \A x, y \in versions : x.file = f /\ y.file = f /\ x.number = y.number => x = y
    /\ faults = 0 /\ file[f].row \in {"current", "deleted"} /\ ~Revised(f) /\ upload[f].pc = "done"
         => file[f].number = Latest(f)

\* Someone knows of the object at a path: a version, a file, a request under
\* way, or a file or revision that a sweep crossed.
Answered(p) ==
  \/ \E x \in versions : x.path = p
  \/ \E f \in Files : upload[f].path = p /\
       (upload[f].pc = "stored" \/ file[f].row \in {"current", "deleted"} \/ f \in crossed)
  \/ \E v \in Revisions : revision[v].path = p /\
       (revision[v].pc = "stored" \/ revision[v].file \in crossed)

\* Every failure leaves at most one object behind of which nobody knows: the
\* workers that die between an object and its row, and the objects that could
\* not be deleted before their row was.
OrphansFromFailures ==
  Cardinality({p \in Paths : store[p] # None /\ ~Answered(p)}) <= faults

\* "Its content is gone from storage (deleted externally, lost volume, wrong
\* bucket)": by itself the program keeps the content of a current file, here of
\* one that no sweep ever had in its hands.
ContentThere ==
  \A f \in Files \ crossed : file[f].row = "current" => store[upload[f].path] # None
=============================================================================
