-------------------------- MODULE FileStoreProofs --------------------------
(***************************************************************************)
(* What FileStore keeps for every number of files, requests and sweeps.    *)
(*                                                                         *)
(* Base ties the rows to the requests that work on them; ListedI says what *)
(* is in the hands of a sweep; Content says whose content every object is: *)
(* an object is written or deleted only by a request or a sweep that works *)
(* for one of the writers of its path, so an object with one writer can    *)
(* only be lost while a sweep holds the file, which then goes for good, or *)
(* by the upload that cannot read its row back. NumberedI says that a      *)
(* revision has the next number until it is recorded, WarnedI that an      *)
(* upload under way has read no less than the usage, OwnerI who answers    *)
(* for every object but one per failure: a file in the hands of a sweep    *)
(* only for the paths still to delete.                                     *)
(***************************************************************************)
EXTENDS FileStore, FiniteSetTheorems, TLAPS

\* An upload has a path once it stored something, a row once it was created,
\* and reads every usage before it checks one.
RowI ==
  \A f \in Files :
    /\ upload[f].pc \notin {"idle", "dropped"} => upload[f].path \in Paths
    /\ upload[f].pc \in {"idle", "dropped", "stored"} => file[f].row = "none"
    /\ upload[f].pc \in {"created", "done", "unverified"} => file[f].row # "none"
    /\ upload[f].unread \subseteq upload[f].unchecked
    /\ upload[f].pc = "stored" => upload[f].unchecked = {}

\* A revision works on a file that exists or existed.
RevisionI ==
  \A v \in Revisions : revision[v].pc # "idle" =>
    /\ revision[v].file \in Files /\ revision[v].number \in 1 .. MaxNumber
    /\ revision[v].path \in Paths /\ revision[v].content \in Contents
    /\ file[revision[v].file].row # "none"

\* The versions of a file go with it.
VersionI == \A x \in versions : file[x.file].row \in {"current", "deleted"}

\* A sweep works on files that exist or existed.
SweepI ==
  \A w \in Sweeps, f \in Files : f \in sweep[w].todo \/ f = sweep[w].hand => file[f].row # "none"

Base == TypeOK /\ RowI /\ RevisionI /\ VersionI /\ SweepI

LEMMA PathsType == \A k \in 0 .. MaxNumber, n \in Names : <<k, n>> \in Paths
BY DEF Paths

LEMMA ThresholdsNat == \A u \in Scopes : \A t \in Thresholds[u] : t \in Nat \ {0}
BY ScopesAssumption

LEMMA FilesFinite ==
  ASSUME NEW u \in Scopes, NEW S, S \subseteq Counted[u]
  PROVE S \subseteq Files /\ IsFiniteSet(S)
<1>1. S \subseteq Files
  BY ScopesAssumption
<1>2. QED BY <1>1, FileBoundsAssumption, FS_Subset

\* The bytes of files are finitely many.
LEMMA BytesFinite ==
  ASSUME NEW S, S \subseteq Files
  PROVE IsFiniteSet(Bytes(S)) /\ Cardinality(Bytes(S)) \in Nat
<1> DEFINE T == {{f} \X (1 .. Size[f]) : f \in S}
           g == [f \in S |-> {f} \X (1 .. Size[f])]
<1>1. IsFiniteSet(S)
  BY FileBoundsAssumption, FS_Subset
<1>2. g \in Surjection(S, T)
  BY DEF Surjection
<1>3. \A X \in T : IsFiniteSet(X)
  <2>1. SUFFICES ASSUME NEW f \in S PROVE IsFiniteSet({f} \X (1 .. Size[f]))
    OBVIOUS
  <2>2. Size[f] \in Int /\ 1 \in Int
    BY SizeAssumption
  <2>3. IsFiniteSet({f}) /\ IsFiniteSet(1 .. Size[f])
    BY <2>2, FS_Singleton, FS_Interval
  <2>4. QED BY <2>3, FS_Product
<1>4. Bytes(S) = UNION T
  BY DEF Bytes
<1> HIDE DEF T, g
<1>5. IsFiniteSet(T)
  BY <1>1, <1>2, FS_Surjection
<1>6. QED BY <1>3, <1>4, <1>5, FS_UNION, FS_CardinalityType

\* Fewer files have fewer bytes.
LEMMA BytesGrow ==
  ASSUME NEW S, S \subseteq Files, NEW R, R \subseteq S
  PROVE Cardinality(Bytes(R)) <= Cardinality(Bytes(S))
<1>1. Bytes(R) \in SUBSET Bytes(S)
  BY DEF Bytes
<1>2. QED BY <1>1, BytesFinite, FS_Subset

LEMMA BytesJoin ==
  ASSUME NEW S, S \subseteq Files, NEW R, R \subseteq Files
  PROVE Cardinality(Bytes(S \cup R)) <= Cardinality(Bytes(S)) + Cardinality(Bytes(R))
<1>1. Bytes(S \cup R) = Bytes(S) \cup Bytes(R)
  BY DEF Bytes
<1>2. /\ IsFiniteSet(Bytes(S)) /\ Cardinality(Bytes(S)) \in Nat
      /\ IsFiniteSet(Bytes(R)) /\ Cardinality(Bytes(R)) \in Nat
  BY BytesFinite
<1>3. /\ IsFiniteSet(Bytes(S) \cap Bytes(R)) /\ Cardinality(Bytes(S) \cap Bytes(R)) \in Nat
  BY <1>2, FS_Intersection, FS_CardinalityType
<1>4. Cardinality(Bytes(S) \cup Bytes(R)) =
        Cardinality(Bytes(S)) + Cardinality(Bytes(R)) - Cardinality(Bytes(S) \cap Bytes(R))
  BY <1>2, FS_Union
<1> DEFINE a == Cardinality(Bytes(S))
           b == Cardinality(Bytes(R))
           c == Cardinality(Bytes(S) \cap Bytes(R))
           d == Cardinality(Bytes(S \cup R))
<1>5. a \in Nat /\ b \in Nat /\ c \in Nat /\ d = a + b - c
  BY <1>1, <1>2, <1>3, <1>4
<1>6. d <= a + b
  <2> HIDE DEF a, b, c, d
  <2>1. QED BY <1>5
<1>7. QED BY <1>6

LEMMA BytesOne ==
  ASSUME NEW f \in Files
  PROVE Cardinality(Bytes({f})) = Size[f] /\ Size[f] \in Nat
<1>1. Bytes({f}) = {f} \X (1 .. Size[f])
  BY DEF Bytes
<1>2. Size[f] \in Int /\ 1 \in Int /\ Size[f] >= 1
  BY SizeAssumption
<1>3. IsFiniteSet({f}) /\ Cardinality({f}) = 1
  BY FS_Singleton
<1>4. IsFiniteSet(1 .. Size[f]) /\ Cardinality(1 .. Size[f]) = Size[f] - 1 + 1
  <2>1. IsFiniteSet(1 .. Size[f]) /\ Cardinality(1 .. Size[f]) = IF 1 > Size[f] THEN 0 ELSE Size[f] - 1 + 1
    BY <1>2, FS_Interval
  <2>2. QED BY <1>2, <2>1
<1>5. PICK n : n = Size[f]
  OBVIOUS
<1>6. Cardinality(1 .. Size[f]) = n
  BY <1>2, <1>4, <1>5
<1>7. Cardinality({f} \X (1 .. Size[f])) = Cardinality({f}) * Cardinality(1 .. Size[f])
  BY <1>3, <1>4, FS_Product
<1>8. PICK k : k = Cardinality({f} \X (1 .. Size[f]))
  OBVIOUS
<1>9. k = 1 * n
  BY <1>3, <1>6, <1>7, <1>8
<1>10. k = n
  BY <1>2, <1>5, <1>9
<1>11. Size[f] \in Nat
  BY SizeAssumption
<1>12. Cardinality(Bytes({f})) = Size[f]
  BY <1>1, <1>5, <1>8, <1>10, Zenon
<1>13. QED BY <1>11, <1>12

LEMMA UsageNat == \A u \in Scopes : Usage(u) \in Nat
<1> SUFFICES ASSUME NEW u \in Scopes PROVE Usage(u) \in Nat
  OBVIOUS
<1>1. {f \in Counted[u] : file[f].row = "current"} \subseteq Files
  BY ScopesAssumption
<1>2. QED BY <1>1, BytesFinite DEF Usage

LEMMA InFlightNat == \A u \in Scopes : InFlight(u) \subseteq Files /\ Cardinality(Bytes(InFlight(u))) \in Nat
<1> SUFFICES ASSUME NEW u \in Scopes PROVE InFlight(u) \subseteq Files /\ Cardinality(Bytes(InFlight(u))) \in Nat
  OBVIOUS
<1>1. InFlight(u) \subseteq Files
  BY ScopesAssumption DEF InFlight, Busy
<1>2. QED BY <1>1, BytesFinite

UploadPcs == {"idle", "dropped", "stored", "created", "done", "failed", "unverified"}

\* The fields of an upload, one at a time.
LEMMA UploadFields ==
  ASSUME NEW r \in UploadState
  PROVE  /\ \A x \in UploadPcs : [r EXCEPT !.pc = x] \in UploadState
         /\ \A p \in Paths : [r EXCEPT !.path = p] \in UploadState
         /\ \A b \in [Scopes -> Nat] : [r EXCEPT !.before = b] \in UploadState
         /\ [r EXCEPT !.before = NoUsage] \in UploadState
         /\ \A S \in SUBSET Scopes : /\ [r EXCEPT !.unread = S] \in UploadState
                                    /\ [r EXCEPT !.unchecked = S] \in UploadState
<1>1. NoUsage \in [Scopes -> Nat]
  BY DEF NoUsage
<1>2. QED BY <1>1 DEF UploadState, UploadPcs

LEMMA UploadReadBase ==
  ASSUME Base, NEW f \in Files, NEW s \in Scopes, UploadRead(f, s)
  PROVE Base'
<1>1. upload' \in [Files -> UploadState]
  BY UsageNat DEF Base, TypeOK, UploadRead, UploadState
<1>2. TypeOK'
  BY <1>1 DEF Base, TypeOK, UploadRead
<1>3. RowI' /\ RevisionI' /\ VersionI'
  BY FileBoundsAssumption DEF Base, TypeOK, RowI, RevisionI, VersionI, UploadRead, UploadState, Paths, Contents
<1>4. SweepI'
  BY FileBoundsAssumption DEF Base, TypeOK, RowI, SweepI, UploadRead, SweepState, FileRow, Idle, Removable
<1>5. QED BY <1>2, <1>3, <1>4 DEF Base

LEMMA UploadCheckBase ==
  ASSUME Base, NEW f \in Files, NEW s \in Scopes, UploadCheck(f, s)
  PROVE Base'
<1>1. upload' \in [Files -> UploadState]
  <2>1. upload \in [Files -> UploadState]
    BY DEF Base, TypeOK
  <2>2. \A r \in UploadState : r.unread \in SUBSET Scopes /\ r.unchecked \in SUBSET Scopes
    BY DEF UploadState
  <2>3. QED BY <2>1, <2>2, UploadFields DEF UploadCheck, UploadPcs
<1>2. peak' \in [Scopes -> Nat]
  BY InFlightNat DEF Base, TypeOK, UploadCheck
<1>3. TypeOK'
  BY <1>1, <1>2 DEF Base, TypeOK, UploadCheck
<1>4. RowI' /\ RevisionI' /\ VersionI'
  BY FileBoundsAssumption DEF Base, TypeOK, RowI, RevisionI, VersionI, UploadCheck, UploadState, Paths, Contents
<1>5. SweepI'
  BY FileBoundsAssumption DEF Base, TypeOK, RowI, SweepI, UploadCheck, SweepState, FileRow, Idle, Removable
<1>6. QED BY <1>3, <1>4, <1>5 DEF Base

LEMMA UploadRefuseBase ==
  ASSUME Base, NEW f \in Files, NEW s \in Scopes, UploadRefuse(f, s)
  PROVE Base'
<1>1. upload' \in [Files -> UploadState]
  <2>1. upload \in [Files -> UploadState]
    BY DEF Base, TypeOK
  <2>2. \A r \in UploadState : r.unread \in SUBSET Scopes /\ r.unchecked \in SUBSET Scopes
    BY DEF UploadState
  <2>3. QED BY <2>1, <2>2, UploadFields DEF UploadRefuse, UploadPcs
<1>2. TypeOK'
  BY <1>1 DEF Base, TypeOK, UploadRefuse
<1>3. RowI' /\ RevisionI' /\ VersionI'
  BY FileBoundsAssumption DEF Base, TypeOK, RowI, RevisionI, VersionI, UploadRefuse, UploadState, Paths, Contents
<1>4. SweepI'
  BY FileBoundsAssumption DEF Base, TypeOK, RowI, SweepI, UploadRefuse, SweepState, FileRow, Idle, Removable
<1>5. QED BY <1>2, <1>3, <1>4 DEF Base

LEMMA UploadStoreBase ==
  ASSUME Base, NEW f \in Files, NEW n \in Names, UploadStore(f, <<0, n>>)
  PROVE Base'
<1>1. store' \in [Paths -> Contents \cup {None}]
  BY DEF Base, TypeOK, UploadStore, Contents
<1>2. upload' \in [Files -> UploadState]
  <2>1. upload \in [Files -> UploadState]
    BY DEF Base, TypeOK
  <2>2. \A r \in UploadState : r.unread \in SUBSET Scopes /\ r.unchecked \in SUBSET Scopes
    BY DEF UploadState
  <2>3. <<0, n>> \in Paths
    BY PathsType, FileBoundsAssumption
  <2>4. QED BY <2>1, <2>2, <2>3, UploadFields DEF UploadStore, UploadPcs
<1>3. TypeOK'
  BY <1>1, <1>2 DEF Base, TypeOK, UploadStore
<1>4. RowI' /\ RevisionI' /\ VersionI'
  <2>1. <<0, n>> \in Paths
    BY PathsType, FileBoundsAssumption
  <2>2. upload \in [Files -> UploadState] /\ store \in [Paths -> Contents \cup {None}]
    BY DEF Base, TypeOK
  <2>3. upload' = [upload EXCEPT ![f] = [upload[f] EXCEPT !.pc = "stored", !.path = <<0, n>>]]
    BY DEF UploadStore
  <2>4. /\ upload'[f].pc = "stored" /\ upload'[f].path = <<0, n>>
        /\ \A g \in Files : g # f => upload'[g] = upload[g]
    BY <2>2, <2>3 DEF UploadState
  <2>5. RowI'
    BY <2>1, <2>2, <2>4 DEF Base, RowI, UploadStore, Contents
  <2>6. RevisionI'
    BY DEF Base, RevisionI, UploadStore
  <2>7. VersionI'
    BY DEF Base, VersionI, UploadStore
  <2>8. QED BY <2>5, <2>6, <2>7
<1>5. SweepI'
  BY FileBoundsAssumption DEF Base, TypeOK, RowI, SweepI, UploadStore, SweepState, FileRow, Idle, Removable
<1>6. QED BY <1>3, <1>4, <1>5 DEF Base

LEMMA UploadCreateBase ==
  ASSUME Base, NEW f \in Files, UploadCreate(f)
  PROVE Base'
<1>1. file' \in [Files -> FileRow]
  BY FileBoundsAssumption DEF Base, TypeOK, UploadCreate, FileRow
<1>2. upload' \in [Files -> UploadState]
  <2>1. upload \in [Files -> UploadState]
    BY DEF Base, TypeOK
  <2>2. \A r \in UploadState : r.unread \in SUBSET Scopes /\ r.unchecked \in SUBSET Scopes
    BY DEF UploadState
  <2>3. QED BY <2>1, <2>2, UploadFields DEF UploadCreate, UploadPcs
<1>3. TypeOK'
  BY <1>1, <1>2 DEF Base, TypeOK, UploadCreate
<1>4. RowI' /\ RevisionI' /\ VersionI'
  BY FileBoundsAssumption DEF Base, TypeOK, RowI, RevisionI, VersionI, UploadCreate, Paths, Contents
<1>5. SweepI'
  BY FileBoundsAssumption DEF Base, TypeOK, RowI, SweepI, UploadCreate, SweepState, FileRow, Idle, Removable
<1>6. QED BY <1>3, <1>4, <1>5 DEF Base

LEMMA UploadCreateFailsBase ==
  ASSUME Base, NEW f \in Files, UploadCreateFails(f)
  PROVE Base'
<1>1. store' \in [Paths -> Contents \cup {None}]
  BY DEF Base, TypeOK, UploadCreateFails
<1>2. upload' \in [Files -> UploadState]
  <2>1. upload \in [Files -> UploadState]
    BY DEF Base, TypeOK
  <2>2. \A r \in UploadState : r.unread \in SUBSET Scopes /\ r.unchecked \in SUBSET Scopes
    BY DEF UploadState
  <2>3. QED BY <2>1, <2>2, UploadFields DEF UploadCreateFails, UploadPcs
<1>3. faults' \in 0 .. MaxFaults
  BY FileBoundsAssumption DEF Base, TypeOK, UploadCreateFails
<1>4. TypeOK'
  BY <1>1, <1>2, <1>3 DEF Base, TypeOK, UploadCreateFails
<1>5. RowI' /\ RevisionI' /\ VersionI'
  BY FileBoundsAssumption DEF Base, TypeOK, RowI, RevisionI, VersionI, UploadCreateFails, Paths, Contents
<1>6. SweepI'
  BY FileBoundsAssumption DEF Base, TypeOK, RowI, SweepI, UploadCreateFails, SweepState, FileRow, Idle, Removable
<1>7. QED BY <1>4, <1>5, <1>6 DEF Base

LEMMA UploadVerifyFailsBase ==
  ASSUME Base, NEW f \in Files, UploadVerifyFails(f)
  PROVE Base'
<1>1. store' \in [Paths -> Contents \cup {None}]
  BY DEF Base, TypeOK, UploadVerifyFails
<1>2. upload' \in [Files -> UploadState]
  <2>1. upload \in [Files -> UploadState]
    BY DEF Base, TypeOK
  <2>2. \A r \in UploadState : r.unread \in SUBSET Scopes /\ r.unchecked \in SUBSET Scopes
    BY DEF UploadState
  <2>3. QED BY <2>1, <2>2, UploadFields DEF UploadVerifyFails, UploadPcs
<1>3. faults' \in 0 .. MaxFaults
  BY FileBoundsAssumption DEF Base, TypeOK, UploadVerifyFails
<1>4. TypeOK'
  BY <1>1, <1>2, <1>3 DEF Base, TypeOK, UploadVerifyFails
<1>5. RowI' /\ RevisionI' /\ VersionI'
  BY FileBoundsAssumption DEF Base, TypeOK, RowI, RevisionI, VersionI, UploadVerifyFails, Paths, Contents
<1>6. SweepI'
  BY FileBoundsAssumption DEF Base, TypeOK, RowI, SweepI, UploadVerifyFails, SweepState, FileRow, Idle, Removable
<1>7. QED BY <1>4, <1>5, <1>6 DEF Base

LEMMA UploadCrashBase ==
  ASSUME Base, NEW f \in Files, UploadCrash(f)
  PROVE Base'
<1>1. upload' \in [Files -> UploadState]
  <2>1. upload \in [Files -> UploadState]
    BY DEF Base, TypeOK
  <2>2. \A r \in UploadState : r.unread \in SUBSET Scopes /\ r.unchecked \in SUBSET Scopes
    BY DEF UploadState
  <2>3. QED BY <2>1, <2>2, UploadFields DEF UploadCrash, UploadPcs
<1>2. faults' \in 0 .. MaxFaults
  BY FileBoundsAssumption DEF Base, TypeOK, UploadCrash
<1>3. TypeOK'
  BY <1>1, <1>2 DEF Base, TypeOK, UploadCrash
<1>4. RowI' /\ RevisionI' /\ VersionI'
  BY FileBoundsAssumption DEF Base, TypeOK, RowI, RevisionI, VersionI, UploadCrash, Paths, Contents
<1>5. SweepI'
  BY FileBoundsAssumption DEF Base, TypeOK, RowI, SweepI, UploadCrash, SweepState, FileRow, Idle, Removable
<1>6. QED BY <1>3, <1>4, <1>5 DEF Base

LEMMA UploadFinishBase ==
  ASSUME Base, NEW f \in Files, NEW fails \in BOOLEAN, NEW sent \in SUBSET Warnings(f), UploadFinish(f, fails, sent)
  PROVE Base'
<1>1. versions' \subseteq VersionRow
  BY FileBoundsAssumption DEF Base, TypeOK, UploadFinish, VersionRow, RowI, Contents
<1>2. upload' \in [Files -> UploadState]
  <2>1. upload \in [Files -> UploadState]
    BY DEF Base, TypeOK
  <2>2. \A r \in UploadState : r.unread \in SUBSET Scopes /\ r.unchecked \in SUBSET Scopes
    BY DEF UploadState
  <2>3. QED BY <2>1, <2>2, UploadFields DEF UploadFinish, UploadPcs
<1>3. warned' \subseteq Scopes \X Nat
  BY ThresholdsNat DEF Base, TypeOK, UploadFinish, Warnings, Crossed, ScopesOf
<1>4. faults' \in 0 .. MaxFaults
  BY FileBoundsAssumption DEF Base, TypeOK, UploadFinish
<1>5. TypeOK'
  BY <1>1, <1>2, <1>3, <1>4 DEF Base, TypeOK, UploadFinish
<1>6. RowI'
  BY <1>5, FileBoundsAssumption DEF Base, TypeOK, RowI, UploadFinish, FileRow, VersionRow, SweepState, RevisionState, UploadState
<1>7. RevisionI'
  BY <1>5, FileBoundsAssumption DEF Base, TypeOK, RevisionI, UploadFinish, FileRow, VersionRow, SweepState, RevisionState, UploadState
<1>8. VersionI'
  BY <1>5, FileBoundsAssumption DEF Base, TypeOK, RowI, RevisionI, VersionI, UploadFinish, FileRow, VersionRow, SweepState, RevisionState, UploadState
<1>9. SweepI'
  BY <1>5, FileBoundsAssumption DEF Base, TypeOK, SweepI, UploadFinish, FileRow, VersionRow, SweepState, RevisionState, UploadState
<1>10. QED BY <1>5, <1>6, <1>7, <1>8, <1>9 DEF Base

LEMMA DeleteBase ==
  ASSUME Base, NEW f \in Files, Delete(f)
  PROVE Base'
<1>1. file' \in [Files -> FileRow]
  BY DEF Base, TypeOK, Delete, FileRow
<1>2. TypeOK'
  BY <1>1 DEF Base, TypeOK, Delete
<1>3. RowI' /\ RevisionI' /\ VersionI'
  BY FileBoundsAssumption DEF Base, TypeOK, RowI, RevisionI, VersionI, Delete, Paths, Contents
<1>4. SweepI'
  BY FileBoundsAssumption DEF Base, TypeOK, RowI, SweepI, Delete, SweepState, FileRow, Idle, Removable
<1>5. QED BY <1>2, <1>3, <1>4 DEF Base

LEMMA ExpireBase ==
  ASSUME Base, NEW f \in Files, Expire(f)
  PROVE Base'
<1>1. file' \in [Files -> FileRow]
  BY DEF Base, TypeOK, Expire, FileRow
<1>2. TypeOK'
  BY <1>1 DEF Base, TypeOK, Expire
<1>3. RowI' /\ RevisionI' /\ VersionI'
  BY FileBoundsAssumption DEF Base, TypeOK, RowI, RevisionI, VersionI, Expire, Paths, Contents
<1>4. SweepI'
  BY FileBoundsAssumption DEF Base, TypeOK, RowI, SweepI, Expire, SweepState, FileRow, Idle, Removable
<1>5. QED BY <1>2, <1>3, <1>4 DEF Base

LEMMA RestoreBase ==
  ASSUME Base, NEW f \in Files, Restore(f)
  PROVE Base'
<1>1. file' \in [Files -> FileRow]
  BY DEF Base, TypeOK, Restore, FileRow
<1>2. TypeOK'
  BY <1>1 DEF Base, TypeOK, Restore
<1>3. RowI'
  BY <1>2, FileBoundsAssumption DEF Base, TypeOK, RowI, Restore, FileRow, VersionRow, SweepState, RevisionState, UploadState
<1>4. RevisionI'
  BY <1>2, FileBoundsAssumption DEF Base, TypeOK, RevisionI, Restore, FileRow, VersionRow, SweepState, RevisionState, UploadState
<1>5. VersionI'
  BY <1>2, FileBoundsAssumption DEF Base, TypeOK, RowI, RevisionI, VersionI, Restore, FileRow, VersionRow, SweepState, RevisionState, UploadState
<1>6. SweepI'
  BY <1>2, FileBoundsAssumption DEF Base, TypeOK, SweepI, Restore, FileRow, VersionRow, SweepState, RevisionState, UploadState
<1>7. QED BY <1>2, <1>3, <1>4, <1>5, <1>6 DEF Base

LEMMA ReviseReadBase ==
  ASSUME Base, NEW v \in Revisions, NEW f \in Files, NEW n \in Names, NEW c \in Contents, ReviseRead(v, f, n, c)
  PROVE Base'
<1>1. revision' \in [Revisions -> RevisionState]
  BY PathsType DEF Base, TypeOK, ReviseRead, RevisionState, Contents
<1>2. TypeOK'
  BY <1>1 DEF Base, TypeOK, ReviseRead
<1>3. RowI' /\ RevisionI' /\ VersionI'
  BY FileBoundsAssumption DEF Base, TypeOK, RowI, RevisionI, VersionI, ReviseRead, Paths, Contents
<1>4. SweepI'
  BY FileBoundsAssumption DEF Base, TypeOK, RowI, SweepI, ReviseRead, SweepState, FileRow, Idle, Removable
<1>5. QED BY <1>2, <1>3, <1>4 DEF Base

LEMMA ReviseStoreBase ==
  ASSUME Base, NEW v \in Revisions, ReviseStore(v)
  PROVE Base'
<1>1. store' \in [Paths -> Contents \cup {None}]
  BY DEF Base, TypeOK, ReviseStore, RevisionI
<1>2. revision' \in [Revisions -> RevisionState]
  BY DEF Base, TypeOK, ReviseStore, RevisionState
<1>3. TypeOK'
  BY <1>1, <1>2 DEF Base, TypeOK, ReviseStore
<1>4. RowI' /\ RevisionI' /\ VersionI'
  BY FileBoundsAssumption DEF Base, TypeOK, RowI, RevisionI, VersionI, ReviseStore, Paths, Contents
<1>5. SweepI'
  BY FileBoundsAssumption DEF Base, TypeOK, RowI, SweepI, ReviseStore, SweepState, FileRow, Idle, Removable
<1>6. QED BY <1>3, <1>4, <1>5 DEF Base

LEMMA ReviseRecordBase ==
  ASSUME Base, NEW v \in Revisions, ReviseRecord(v)
  PROVE Base'
<1>1. versions' \subseteq VersionRow
  BY DEF Base, TypeOK, ReviseRecord, VersionRow, RevisionI
<1>2. revision' \in [Revisions -> RevisionState]
  <2>1. \A x \in {"failed", "recorded"} : [revision[v] EXCEPT !.pc = x] \in RevisionState
    BY DEF Base, TypeOK, RevisionState
  <2>2. QED BY <2>1 DEF Base, TypeOK, ReviseRecord
<1>3. TypeOK'
  BY <1>1, <1>2 DEF Base, TypeOK, ReviseRecord
<1>4. RowI'
  BY <1>3, FileBoundsAssumption DEF Base, TypeOK, RowI, ReviseRecord, FileRow, VersionRow, SweepState, RevisionState, UploadState
<1>5. RevisionI'
  <2>1. \A x \in Revisions :
          /\ revision'[x].file = revision[x].file /\ revision'[x].number = revision[x].number
          /\ revision'[x].path = revision[x].path /\ revision'[x].content = revision[x].content
          /\ revision'[x].pc # "idle" => revision[x].pc # "idle"
    BY DEF Base, TypeOK, RevisionState, ReviseRecord
  <2>2. file' = file
    BY DEF ReviseRecord
  <2>3. QED BY <2>1, <2>2 DEF Base, RevisionI
<1>6. VersionI'
  BY <1>3, FileBoundsAssumption DEF Base, TypeOK, RowI, RevisionI, VersionI, ReviseRecord, FileRow, VersionRow, SweepState, RevisionState, UploadState
<1>7. SweepI'
  BY <1>3, FileBoundsAssumption DEF Base, TypeOK, SweepI, ReviseRecord, FileRow, VersionRow, SweepState, RevisionState, UploadState
<1>8. QED BY <1>3, <1>4, <1>5, <1>6, <1>7 DEF Base

LEMMA ReviseNumberBase ==
  ASSUME Base, NEW v \in Revisions, ReviseNumber(v)
  PROVE Base'
<1>1. file' \in [Files -> FileRow]
  BY FileBoundsAssumption DEF Base, TypeOK, ReviseNumber, FileRow, RevisionI
<1>2. revision' \in [Revisions -> RevisionState]
  BY DEF Base, TypeOK, ReviseNumber, RevisionState
<1>3. TypeOK'
  BY <1>1, <1>2 DEF Base, TypeOK, ReviseNumber
<1>4. RowI' /\ RevisionI' /\ VersionI'
  BY FileBoundsAssumption DEF Base, TypeOK, RowI, RevisionI, VersionI, ReviseNumber, Paths, Contents
<1>5. SweepI'
  BY FileBoundsAssumption DEF Base, TypeOK, RowI, SweepI, ReviseNumber, SweepState, FileRow, Idle, Removable
<1>6. QED BY <1>3, <1>4, <1>5 DEF Base

LEMMA ReviseFailsBase ==
  ASSUME Base, NEW v \in Revisions, ReviseFails(v)
  PROVE Base'
<1>1. revision' \in [Revisions -> RevisionState]
  BY DEF Base, TypeOK, ReviseFails, RevisionState
<1>2. faults' \in 0 .. MaxFaults
  BY FileBoundsAssumption DEF Base, TypeOK, ReviseFails
<1>3. TypeOK'
  BY <1>1, <1>2 DEF Base, TypeOK, ReviseFails
<1>4. RowI' /\ RevisionI' /\ VersionI'
  BY FileBoundsAssumption DEF Base, TypeOK, RowI, RevisionI, VersionI, ReviseFails, Paths, Contents
<1>5. SweepI'
  BY FileBoundsAssumption DEF Base, TypeOK, RowI, SweepI, ReviseFails, SweepState, FileRow, Idle, Removable
<1>6. QED BY <1>3, <1>4, <1>5 DEF Base

LEMMA SweepListBase ==
  ASSUME Base, NEW w \in Sweeps, SweepList(w)
  PROVE Base'
<1>1. sweep' \in [Sweeps -> SweepState]
  BY DEF Base, TypeOK, SweepList, SweepState, Removable, Idle
<1>2. crossed' \subseteq Files
  BY DEF Base, TypeOK, SweepList, Removable
<1>3. TypeOK'
  BY <1>1, <1>2 DEF Base, TypeOK, SweepList
<1>4. RowI' /\ RevisionI' /\ VersionI'
  BY FileBoundsAssumption DEF Base, TypeOK, RowI, RevisionI, VersionI, SweepList, Paths, Contents
<1>5. SweepI'
  BY FileBoundsAssumption DEF Base, TypeOK, RowI, SweepI, SweepList, SweepState, FileRow, Idle, Removable
<1>6. QED BY <1>3, <1>4, <1>5 DEF Base

LEMMA SweepTakeBase ==
  ASSUME Base, NEW w \in Sweeps, NEW f \in Files, NEW kept \in BOOLEAN, SweepTake(w, f, kept)
  PROVE Base'
<1>1. store' \in [Paths -> Contents \cup {None}]
  BY DEF Base, TypeOK, SweepTake
<1>2. sweep' \in [Sweeps -> SweepState]
  <2>1. {x.path : x \in {y \in versions : y.file = f}} \in SUBSET Paths
    BY DEF Base, TypeOK, VersionRow
  <2>2. [todo |-> sweep[w].todo \ {f}, fresh |-> FALSE, hand |-> f,
         paths |-> {x.path : x \in {y \in versions : y.file = f}}] \in SweepState
    BY <2>1 DEF Base, TypeOK, SweepState
  <2>3. Idle \in SweepState
    BY DEF Idle, SweepState
  <2>4. QED BY <2>2, <2>3 DEF Base, TypeOK, SweepTake
<1>7. faults' \in 0 .. MaxFaults
  BY FileBoundsAssumption DEF Base, TypeOK, SweepTake
<1>3. TypeOK'
  BY <1>1, <1>2, <1>7 DEF Base, TypeOK, SweepTake
<1>4. RowI' /\ RevisionI' /\ VersionI'
  BY FileBoundsAssumption DEF Base, TypeOK, RowI, RevisionI, VersionI, SweepTake, Paths, Contents
<1>5. SweepI'
  BY FileBoundsAssumption DEF Base, TypeOK, RowI, SweepI, SweepTake, SweepState, FileRow, Idle, Removable
<1>6. QED BY <1>3, <1>4, <1>5 DEF Base

LEMMA SweepEraseBase ==
  ASSUME Base, NEW w \in Sweeps, NEW p \in Paths, NEW kept \in BOOLEAN, SweepErase(w, p, kept)
  PROVE Base'
<1>1. store' \in [Paths -> Contents \cup {None}]
  BY DEF Base, TypeOK, SweepErase
<1>2. sweep' \in [Sweeps -> SweepState]
  BY DEF Base, TypeOK, SweepErase, SweepState
<1>7. faults' \in 0 .. MaxFaults
  BY FileBoundsAssumption DEF Base, TypeOK, SweepErase
<1>3. TypeOK'
  BY <1>1, <1>2, <1>7 DEF Base, TypeOK, SweepErase
<1>4. RowI' /\ RevisionI' /\ VersionI'
  BY FileBoundsAssumption DEF Base, TypeOK, RowI, RevisionI, VersionI, SweepErase, Paths, Contents
<1>5. SweepI'
  BY FileBoundsAssumption DEF Base, TypeOK, RowI, SweepI, SweepErase, SweepState, FileRow, Idle, Removable
<1>6. QED BY <1>3, <1>4, <1>5 DEF Base

LEMMA SweepPurgeBase ==
  ASSUME Base, NEW w \in Sweeps, SweepPurge(w)
  PROVE Base'
<1>1. file' \in [Files -> FileRow]
  BY DEF Base, TypeOK, SweepPurge, FileRow
<1>2. versions' \subseteq VersionRow
  BY DEF Base, TypeOK, SweepPurge, VersionRow
<1>3. sweep' \in [Sweeps -> SweepState]
  BY DEF Base, TypeOK, SweepPurge, SweepState, Idle
<1>4. TypeOK'
  BY <1>1, <1>2, <1>3 DEF Base, TypeOK, SweepPurge
<1>5. RowI'
  BY <1>4, FileBoundsAssumption DEF Base, TypeOK, RowI, SweepI, SweepPurge, FileRow, VersionRow, SweepState, RevisionState, UploadState
<1>6. RevisionI'
  BY <1>4, FileBoundsAssumption DEF Base, TypeOK, RevisionI, SweepPurge, FileRow, VersionRow, SweepState, RevisionState, UploadState
<1>7. VersionI'
  BY <1>4, FileBoundsAssumption DEF Base, TypeOK, RowI, RevisionI, VersionI, SweepPurge, FileRow, VersionRow, SweepState, RevisionState, UploadState
<1>8. SweepI'
  <2>1. \A x \in Sweeps : sweep'[x].todo \subseteq sweep[x].todo /\ sweep'[x].hand \in {sweep[x].hand, None}
    BY DEF Base, TypeOK, SweepState, SweepPurge, Idle
  <2>2. \A g \in Files : file'[g].row = "none" => file[g].row = "none"
    BY DEF Base, TypeOK, FileRow, SweepPurge
  <2>3. QED BY <2>1, <2>2, RequestsAssumption DEF Base, SweepI
<1>9. QED BY <1>4, <1>5, <1>6, <1>7, <1>8 DEF Base

LEMMA SweepFailsBase ==
  ASSUME Base, NEW w \in Sweeps, NEW dies \in BOOLEAN, SweepFails(w, dies)
  PROVE Base'
<1>1. sweep' \in [Sweeps -> SweepState]
  BY DEF Base, TypeOK, SweepFails, SweepState, Idle
<1>2. crossed' \subseteq Files
  BY DEF Base, TypeOK, SweepFails
<1>3. faults' \in 0 .. MaxFaults
  BY FileBoundsAssumption DEF Base, TypeOK, SweepFails
<1>4. TypeOK'
  BY <1>1, <1>2, <1>3 DEF Base, TypeOK, SweepFails
<1>5. RowI' /\ RevisionI' /\ VersionI'
  BY FileBoundsAssumption DEF Base, TypeOK, RowI, RevisionI, VersionI, SweepFails, Paths, Contents
<1>6. SweepI'
  <2>1. \A x \in Sweeps : sweep'[x].todo \subseteq sweep[x].todo /\ sweep'[x].hand \in {sweep[x].hand, None}
    BY DEF Base, TypeOK, SweepState, SweepFails, Idle
  <2>2. \A g \in Files : file'[g].row = "none" => file[g].row = "none"
    BY DEF Base, TypeOK, FileRow, SweepFails
  <2>3. QED BY <2>1, <2>2, RequestsAssumption DEF Base, SweepI
<1>7. QED BY <1>4, <1>5, <1>6 DEF Base

-----------------------------------------------------------------------------

\* A file that no sweep crossed is in a sweep's list only when it was deleted
\* for the retention period, and nobody works on it.
ListedI ==
  \A f \in Files \ crossed :
    /\ Listed(f) => /\ file[f].row = "gone" \/ (file[f].row = "deleted" /\ file[f].old)
                    /\ upload[f].pc # "created" /\ ~Revised(f)
    /\ file[f].row = "gone" => file[f].old

LEMMA UploadReadListed ==
  ASSUME Base, ListedI, NEW f \in Files, NEW s \in Scopes, UploadRead(f, s)
  PROVE ListedI'
BY DEF Base, TypeOK, RowI, RevisionI, SweepI, ListedI, Listed, Revised, UploadRead, FileRow, UploadState, RevisionState, SweepState, Idle, Removable

LEMMA UploadCheckListed ==
  ASSUME Base, ListedI, NEW f \in Files, NEW s \in Scopes, UploadCheck(f, s)
  PROVE ListedI'
BY DEF Base, TypeOK, RowI, RevisionI, SweepI, ListedI, Listed, Revised, UploadCheck, FileRow, UploadState, RevisionState, SweepState, Idle, Removable

LEMMA UploadRefuseListed ==
  ASSUME Base, ListedI, NEW f \in Files, NEW s \in Scopes, UploadRefuse(f, s)
  PROVE ListedI'
BY DEF Base, TypeOK, RowI, RevisionI, SweepI, ListedI, Listed, Revised, UploadRefuse, FileRow, UploadState, RevisionState, SweepState, Idle, Removable

LEMMA UploadStoreListed ==
  ASSUME Base, ListedI, NEW f \in Files, NEW n \in Names, UploadStore(f, <<0, n>>)
  PROVE ListedI'
BY DEF Base, TypeOK, RowI, RevisionI, SweepI, ListedI, Listed, Revised, UploadStore, FileRow, UploadState, RevisionState, SweepState, Idle, Removable

LEMMA UploadCreateListed ==
  ASSUME Base, ListedI, NEW f \in Files, UploadCreate(f)
  PROVE ListedI'
BY DEF Base, TypeOK, RowI, RevisionI, SweepI, ListedI, Listed, Revised, UploadCreate, FileRow, UploadState, RevisionState, SweepState, Idle, Removable

LEMMA UploadCreateFailsListed ==
  ASSUME Base, ListedI, NEW f \in Files, UploadCreateFails(f)
  PROVE ListedI'
BY DEF Base, TypeOK, RowI, RevisionI, SweepI, ListedI, Listed, Revised, UploadCreateFails, FileRow, UploadState, RevisionState, SweepState, Idle, Removable

LEMMA UploadVerifyFailsListed ==
  ASSUME Base, ListedI, NEW f \in Files, UploadVerifyFails(f)
  PROVE ListedI'
BY DEF Base, TypeOK, RowI, RevisionI, SweepI, ListedI, Listed, Revised, UploadVerifyFails, FileRow, UploadState, RevisionState, SweepState, Idle, Removable

LEMMA UploadCrashListed ==
  ASSUME Base, ListedI, NEW f \in Files, UploadCrash(f)
  PROVE ListedI'
BY DEF Base, TypeOK, RowI, RevisionI, SweepI, ListedI, Listed, Revised, UploadCrash, FileRow, UploadState, RevisionState, SweepState, Idle, Removable

LEMMA UploadFinishListed ==
  ASSUME Base, ListedI, NEW f \in Files, NEW fails \in BOOLEAN, NEW sent \in SUBSET Warnings(f), UploadFinish(f, fails, sent)
  PROVE ListedI'
BY DEF Base, TypeOK, RowI, RevisionI, SweepI, ListedI, Listed, Revised, UploadFinish, FileRow, UploadState, RevisionState, SweepState, Idle, Removable

LEMMA DeleteListed ==
  ASSUME Base, ListedI, NEW f \in Files, Delete(f)
  PROVE ListedI'
BY DEF Base, TypeOK, RowI, RevisionI, SweepI, ListedI, Listed, Revised, Delete, FileRow, UploadState, RevisionState, SweepState, Idle, Removable

LEMMA ExpireListed ==
  ASSUME Base, ListedI, NEW f \in Files, Expire(f)
  PROVE ListedI'
BY DEF Base, TypeOK, RowI, RevisionI, SweepI, ListedI, Listed, Revised, Expire, FileRow, UploadState, RevisionState, SweepState, Idle, Removable

LEMMA RestoreListed ==
  ASSUME Base, ListedI, NEW f \in Files, Restore(f)
  PROVE ListedI'
BY DEF Base, TypeOK, RowI, RevisionI, SweepI, ListedI, Listed, Revised, Restore, FileRow, UploadState, RevisionState, SweepState, Idle, Removable

LEMMA ReviseReadListed ==
  ASSUME Base, ListedI, NEW v \in Revisions, NEW f \in Files, NEW n \in Names, NEW c \in Contents, ReviseRead(v, f, n, c)
  PROVE ListedI'
BY DEF Base, TypeOK, RowI, RevisionI, SweepI, ListedI, Listed, Revised, ReviseRead, FileRow, UploadState, RevisionState, SweepState, Idle, Removable

LEMMA ReviseStoreListed ==
  ASSUME Base, ListedI, NEW v \in Revisions, ReviseStore(v)
  PROVE ListedI'
BY DEF Base, TypeOK, RowI, RevisionI, SweepI, ListedI, Listed, Revised, ReviseStore, FileRow, UploadState, RevisionState, SweepState, Idle, Removable

LEMMA ReviseNumberListed ==
  ASSUME Base, ListedI, NEW v \in Revisions, ReviseNumber(v)
  PROVE ListedI'
BY DEF Base, TypeOK, RowI, RevisionI, SweepI, ListedI, Listed, Revised, ReviseNumber, FileRow, UploadState, RevisionState, SweepState, Idle, Removable

LEMMA ReviseFailsListed ==
  ASSUME Base, ListedI, NEW v \in Revisions, ReviseFails(v)
  PROVE ListedI'
BY DEF Base, TypeOK, RowI, RevisionI, SweepI, ListedI, Listed, Revised, ReviseFails, FileRow, UploadState, RevisionState, SweepState, Idle, Removable

LEMMA SweepListListed ==
  ASSUME Base, ListedI, NEW w \in Sweeps, SweepList(w)
  PROVE ListedI'
BY DEF Base, TypeOK, RowI, RevisionI, SweepI, ListedI, Listed, Revised, SweepList, FileRow, UploadState, RevisionState, SweepState, Idle, Removable

LEMMA SweepEraseListed ==
  ASSUME Base, ListedI, NEW w \in Sweeps, NEW p \in Paths, NEW kept \in BOOLEAN, SweepErase(w, p, kept)
  PROVE ListedI'
BY DEF Base, TypeOK, RowI, RevisionI, SweepI, ListedI, Listed, Revised, SweepErase, FileRow, UploadState, RevisionState, SweepState, Idle, Removable

LEMMA ReviseRecordListed ==
  ASSUME Base, ListedI, NEW v \in Revisions, ReviseRecord(v)
  PROVE ListedI'
<1>1. \A x \in Revisions :
        /\ revision'[x].file = revision[x].file
        /\ revision'[x].pc \in {"numbered", "stored", "recorded"}
             => revision[x].pc \in {"numbered", "stored", "recorded"}
  BY DEF Base, TypeOK, RevisionState, ReviseRecord
<1>2. \A g \in Files : Revised(g)' => Revised(g)
  BY <1>1 DEF Revised
<1>3. UNCHANGED <<file, upload, sweep, crossed>>
  BY DEF ReviseRecord
<1>4. QED BY <1>2, <1>3 DEF ListedI, Listed

\* A sweep only ever shortens its list.
LEMMA SweepShorter ==
  ASSUME \A x \in Sweeps : /\ sweep'[x].todo \subseteq sweep[x].todo
                           /\ sweep'[x].hand \in {None, sweep[x].hand} \cup sweep[x].todo,
         NEW g \in Files, Listed(g)'
  PROVE Listed(g)
BY RequestsAssumption DEF Listed

LEMMA SweepTakeListed ==
  ASSUME Base, ListedI, NEW w \in Sweeps, NEW f \in Files, NEW kept \in BOOLEAN, SweepTake(w, f, kept)
  PROVE ListedI'
<1>1. \A x \in Sweeps : /\ sweep'[x].todo \subseteq sweep[x].todo
                        /\ sweep'[x].hand \in {None, sweep[x].hand} \cup sweep[x].todo
  BY DEF Base, TypeOK, SweepState, SweepTake, Idle
<1>2. UNCHANGED <<file, upload, revision, crossed>>
  BY DEF SweepTake
<1>3. QED BY <1>1, <1>2, SweepShorter DEF ListedI, Revised

LEMMA SweepPurgeListed ==
  ASSUME Base, ListedI, NEW w \in Sweeps, SweepPurge(w)
  PROVE ListedI'
<1>1. \A x \in Sweeps : /\ sweep'[x].todo \subseteq sweep[x].todo
                        /\ sweep'[x].hand \in {None, sweep[x].hand} \cup sweep[x].todo
  BY DEF Base, TypeOK, SweepState, SweepPurge, Idle
<1>2. UNCHANGED <<upload, revision, crossed>>
  BY DEF SweepPurge
<1>3. sweep[w].hand \in Files /\ Listed(sweep[w].hand)
  BY DEF Base, TypeOK, SweepState, SweepPurge, Listed
<1>4. \A g \in Files : /\ file'[g].old = file[g].old
                       /\ file'[g].row = IF g = sweep[w].hand THEN "gone" ELSE file[g].row
  BY <1>3 DEF Base, TypeOK, FileRow, SweepPurge
<1>5. \A g \in Files : Listed(g)' => Listed(g)
  BY <1>1, SweepShorter
<1>6. \A g \in Files : Revised(g)' <=> Revised(g)
  BY <1>2 DEF Revised
<1>7. QED BY <1>2, <1>3, <1>4, <1>5, <1>6 DEF ListedI

LEMMA SweepFailsListed ==
  ASSUME Base, ListedI, NEW w \in Sweeps, NEW dies \in BOOLEAN, SweepFails(w, dies)
  PROVE ListedI'
<1>1. \A x \in Sweeps : /\ sweep'[x].todo \subseteq sweep[x].todo
                        /\ sweep'[x].hand \in {None, sweep[x].hand} \cup sweep[x].todo
  BY DEF Base, TypeOK, SweepState, SweepFails, Idle
<1>2. UNCHANGED <<file, upload, revision>> /\ crossed \subseteq crossed'
  BY DEF SweepFails
<1>3. \A g \in Files : Listed(g)' => Listed(g)
  BY <1>1, SweepShorter
<1>4. \A g \in Files : Revised(g)' <=> Revised(g)
  BY <1>2 DEF Revised
<1>5. QED BY <1>2, <1>3, <1>4 DEF ListedI

-----------------------------------------------------------------------------

Wrote == {"stored", "created", "done", "failed", "unverified"}
Recorded == {"stored", "recorded", "done", "failed"}

\* The requests that write for file f.
Owns(f, c) == c = f \/ (c \in Revisions /\ revision[c].file = f)
\* A sweep is deleting the objects of f.
Held(f) == \E w \in Sweeps : sweep[w].hand = f
\* A file whose content has to be there.
Kept(f) == f \notin crossed /\ file[f].row \in {"current", "deleted"} /\ ~Held(f)

\* Only an upload that could not read its row back loses the content of it.
Sound(f) == upload[f].pc = "stored" \/ (Kept(f) /\ upload[f].pc # "unverified")

\* The content of an upload is there from the moment it is stored.
ContentI ==
  \A f \in Files : Sound(f) =>
    (Writers(upload[f].path) = {f} => store[upload[f].path] = f)

\* The content a revision has stored is there.
RevisedI ==
  \A v \in Revisions :
    /\ revision[v].pc = "stored" /\ revision[v].file \notin crossed
    /\ Writers(revision[v].path) = {v}
    => store[revision[v].path] = revision[v].content

\* An upload makes a version when it is done.
Made(f, c) == Owns(f, c) /\ (c = f => upload[f].pc = "done")

\* Every version was written for its file, and its content is there.
VersionsI ==
  \A x \in versions : \E c \in Writers(x.path) :
    /\ Made(x.file, c)
    /\ Kept(x.file) /\ Writers(x.path) = {c} => store[x.path] = x.content

\* A sweep deletes what was written for the file it holds.
PathsI ==
  \A w \in Sweeps : \A p \in sweep[w].paths :
    sweep[w].hand \in Files /\ \E c \in Writers(p) : Owns(sweep[w].hand, c)

Content == ContentI /\ RevisedI /\ VersionsI /\ PathsI

\* What no step takes back.
Monotone ==
  /\ \A f \in Files : upload[f].pc \in Wrote => upload'[f].path = upload[f].path
  /\ \A f \in Files : upload[f].pc \in {"done", "unverified"} => upload'[f].pc = upload[f].pc
  /\ \A f \in Files : upload[f].pc \in Wrote => upload'[f].pc \in Wrote
  /\ \A v \in Revisions : revision[v].pc # "idle" =>
       /\ revision'[v].path = revision[v].path /\ revision'[v].file = revision[v].file
       /\ revision'[v].content = revision[v].content
  /\ \A v \in Revisions : revision[v].pc \in Recorded => revision'[v].pc \in Recorded
  /\ crossed \subseteq crossed'

LEMMA UploadReadMonotone ==
  ASSUME Base, NEW f \in Files, NEW s \in Scopes, UploadRead(f, s)
  PROVE Monotone
BY DEF Base, TypeOK, Monotone, UploadRead, UploadState, RevisionState, Wrote, Recorded

LEMMA UploadCheckMonotone ==
  ASSUME Base, NEW f \in Files, NEW s \in Scopes, UploadCheck(f, s)
  PROVE Monotone
BY DEF Base, TypeOK, Monotone, UploadCheck, UploadState, RevisionState, Wrote, Recorded

LEMMA UploadRefuseMonotone ==
  ASSUME Base, NEW f \in Files, NEW s \in Scopes, UploadRefuse(f, s)
  PROVE Monotone
BY DEF Base, TypeOK, Monotone, UploadRefuse, UploadState, RevisionState, Wrote, Recorded

LEMMA UploadStoreMonotone ==
  ASSUME Base, NEW f \in Files, NEW n \in Names, UploadStore(f, <<0, n>>)
  PROVE Monotone
BY DEF Base, TypeOK, Monotone, UploadStore, UploadState, RevisionState, Wrote, Recorded

LEMMA UploadCreateMonotone ==
  ASSUME Base, NEW f \in Files, UploadCreate(f)
  PROVE Monotone
BY DEF Base, TypeOK, Monotone, UploadCreate, UploadState, RevisionState, Wrote, Recorded

LEMMA UploadCreateFailsMonotone ==
  ASSUME Base, NEW f \in Files, UploadCreateFails(f)
  PROVE Monotone
BY DEF Base, TypeOK, Monotone, UploadCreateFails, UploadState, RevisionState, Wrote, Recorded

LEMMA UploadVerifyFailsMonotone ==
  ASSUME Base, NEW f \in Files, UploadVerifyFails(f)
  PROVE Monotone
BY DEF Base, TypeOK, Monotone, UploadVerifyFails, UploadState, RevisionState, Wrote, Recorded

LEMMA UploadCrashMonotone ==
  ASSUME Base, NEW f \in Files, UploadCrash(f)
  PROVE Monotone
BY DEF Base, TypeOK, Monotone, UploadCrash, UploadState, RevisionState, Wrote, Recorded

LEMMA UploadFinishMonotone ==
  ASSUME Base, NEW f \in Files, NEW fails \in BOOLEAN, NEW sent \in SUBSET Warnings(f), UploadFinish(f, fails, sent)
  PROVE Monotone
BY DEF Base, TypeOK, Monotone, UploadFinish, UploadState, RevisionState, Wrote, Recorded

LEMMA DeleteMonotone ==
  ASSUME Base, NEW f \in Files, Delete(f)
  PROVE Monotone
BY DEF Base, TypeOK, Monotone, Delete, UploadState, RevisionState, Wrote, Recorded

LEMMA ExpireMonotone ==
  ASSUME Base, NEW f \in Files, Expire(f)
  PROVE Monotone
BY DEF Base, TypeOK, Monotone, Expire, UploadState, RevisionState, Wrote, Recorded

LEMMA RestoreMonotone ==
  ASSUME Base, NEW f \in Files, Restore(f)
  PROVE Monotone
BY DEF Base, TypeOK, Monotone, Restore, UploadState, RevisionState, Wrote, Recorded

LEMMA ReviseReadMonotone ==
  ASSUME Base, NEW v \in Revisions, NEW f \in Files, NEW n \in Names, NEW c \in Contents, ReviseRead(v, f, n, c)
  PROVE Monotone
BY DEF Base, TypeOK, Monotone, ReviseRead, UploadState, RevisionState, Wrote, Recorded

LEMMA ReviseStoreMonotone ==
  ASSUME Base, NEW v \in Revisions, ReviseStore(v)
  PROVE Monotone
BY DEF Base, TypeOK, Monotone, ReviseStore, UploadState, RevisionState, Wrote, Recorded

LEMMA ReviseRecordMonotone ==
  ASSUME Base, NEW v \in Revisions, ReviseRecord(v)
  PROVE Monotone
<1>1. \A x \in Revisions :
        /\ revision'[x].path = revision[x].path /\ revision'[x].file = revision[x].file
        /\ revision'[x].content = revision[x].content
        /\ revision[x].pc \in Recorded => revision'[x].pc \in Recorded
  BY DEF Base, TypeOK, ReviseRecord, RevisionState, Recorded
<1>2. UNCHANGED <<upload, crossed>>
  BY DEF ReviseRecord
<1>3. QED BY <1>1, <1>2 DEF Monotone

LEMMA ReviseNumberMonotone ==
  ASSUME Base, NEW v \in Revisions, ReviseNumber(v)
  PROVE Monotone
BY DEF Base, TypeOK, Monotone, ReviseNumber, UploadState, RevisionState, Wrote, Recorded

LEMMA ReviseFailsMonotone ==
  ASSUME Base, NEW v \in Revisions, ReviseFails(v)
  PROVE Monotone
BY DEF Base, TypeOK, Monotone, ReviseFails, UploadState, RevisionState, Wrote, Recorded

LEMMA SweepListMonotone ==
  ASSUME Base, NEW w \in Sweeps, SweepList(w)
  PROVE Monotone
BY DEF Base, TypeOK, Monotone, SweepList, UploadState, RevisionState, Wrote, Recorded

LEMMA SweepTakeMonotone ==
  ASSUME Base, NEW w \in Sweeps, NEW f \in Files, NEW kept \in BOOLEAN, SweepTake(w, f, kept)
  PROVE Monotone
BY DEF Base, TypeOK, Monotone, SweepTake, UploadState, RevisionState, Wrote, Recorded

LEMMA SweepEraseMonotone ==
  ASSUME Base, NEW w \in Sweeps, NEW p \in Paths, NEW kept \in BOOLEAN, SweepErase(w, p, kept)
  PROVE Monotone
BY DEF Base, TypeOK, Monotone, SweepErase, UploadState, RevisionState, Wrote, Recorded

LEMMA SweepPurgeMonotone ==
  ASSUME Base, NEW w \in Sweeps, SweepPurge(w)
  PROVE Monotone
BY DEF Base, TypeOK, Monotone, SweepPurge, UploadState, RevisionState, Wrote, Recorded

LEMMA SweepFailsMonotone ==
  ASSUME Base, NEW w \in Sweeps, NEW dies \in BOOLEAN, SweepFails(w, dies)
  PROVE Monotone
BY DEF Base, TypeOK, Monotone, SweepFails, UploadState, RevisionState, Wrote, Recorded

LEMMA WritersGrow ==
  ASSUME Base, Monotone, NEW p
  PROVE Writers(p) \subseteq Writers(p)'
BY DEF Writers, Monotone, Wrote, Recorded

LEMMA OwnsStays ==
  ASSUME Base, Monotone, NEW f, NEW p, NEW c \in Writers(p), Owns(f, c)
  PROVE Owns(f, c)'
BY RequestsAssumption DEF Writers, Monotone, Owns

LEMMA MadeStays ==
  ASSUME Base, Monotone, NEW f \in Files, NEW p, NEW c \in Writers(p), Made(f, c)
  PROVE Made(f, c)'
<1>1. Owns(f, c)'
  BY OwnsStays DEF Made
<1>2. c = f => upload'[f].pc = "done"
  BY DEF Made, Monotone
<1>3. QED BY <1>1, <1>2 DEF Made

\* The content of a file is disturbed at most at the paths Q.
LEMMA ContentStays ==
  ASSUME Base, Base', ContentI, Monotone, NEW Q,
         \A p \in Paths \ Q : store'[p] = store[p],
         \A f \in Files : Kept(f)' => Kept(f) \/ upload[f].pc = "stored",
         \A f \in Files : upload'[f].pc = "stored" => upload[f].pc = "stored" \/ upload'[f].path \in Q,
         \A f \in Files :
           /\ upload'[f].path \in Q /\ Writers(upload[f].path)' = {f}
           /\ Sound(f)'
           => store'[upload'[f].path] = f
  PROVE ContentI'
<1>1. SUFFICES ASSUME NEW f \in Files, Sound(f)',
                      Writers(upload[f].path)' = {f}, upload'[f].path \notin Q
               PROVE store'[upload'[f].path] = f
  BY DEF ContentI
<1>2. Sound(f)
  BY <1>1 DEF Sound, Monotone
<1>3. upload[f].pc \in Wrote /\ upload'[f].path = upload[f].path /\ upload[f].path \in Paths
  BY <1>2 DEF Base, TypeOK, UploadState, FileRow, RowI, Kept, Sound, Wrote, Monotone
<1>4. f \in Writers(upload[f].path)
  BY <1>3 DEF Writers, Wrote
<1>5. Writers(upload[f].path) \subseteq Writers(upload[f].path)'
  <2>1. PICK p : p = upload[f].path OBVIOUS
  <2>2. Writers(p) \subseteq Writers(p)' BY WritersGrow
  <2>3. QED BY <2>1, <2>2, <1>3 DEF Writers
<1>6. QED BY <1>1, <1>2, <1>3, <1>4, <1>5 DEF ContentI

LEMMA RevisedStays ==
  ASSUME Base, Base', RevisedI, Monotone, NEW Q,
         \A p \in Paths \ Q : store'[p] = store[p],
         \A v \in Revisions : revision'[v].pc = "stored" => revision[v].pc = "stored" \/ revision'[v].path \in Q,
         \A v \in Revisions :
           /\ revision'[v].path \in Q /\ Writers(revision[v].path)' = {v}
           /\ revision'[v].pc = "stored" /\ revision'[v].file \notin crossed'
           => store'[revision'[v].path] = revision'[v].content
  PROVE RevisedI'
<1>1. SUFFICES ASSUME NEW v \in Revisions, revision'[v].pc = "stored", revision'[v].file \notin crossed',
                      Writers(revision[v].path)' = {v}, revision'[v].path \notin Q
               PROVE store'[revision'[v].path] = revision'[v].content
  BY DEF RevisedI
<1>2. revision[v].pc = "stored"
  BY <1>1
<1>3. /\ revision'[v].path = revision[v].path /\ revision[v].path \in Paths
      /\ revision'[v].content = revision[v].content
      /\ revision[v].file \notin crossed
  BY <1>1, <1>2 DEF Base, RevisionI, Monotone
<1>4. v \in Writers(revision[v].path)
  BY <1>2 DEF Writers
<1>5. Writers(revision[v].path) \subseteq Writers(revision[v].path)'
  <2>1. PICK p : p = revision[v].path OBVIOUS
  <2>2. Writers(p) \subseteq Writers(p)' BY WritersGrow
  <2>3. QED BY <2>1, <2>2, <1>3 DEF Writers
<1>6. QED BY <1>1, <1>2, <1>3, <1>4, <1>5 DEF RevisedI

\* A version whose content was in order keeps it, except at the paths Q.
LEMMA VersionStays ==
  ASSUME Base, Base', VersionsI, Monotone, NEW Q,
         \A p \in Paths \ Q : store'[p] = store[p],
         \A f \in Files : Kept(f)' => Kept(f) \/ upload[f].pc = "stored",
         NEW x \in versions,
         \A c \in Writers(x.path) :
           x.path \in Q /\ Made(x.file, c) /\ Kept(x.file)' /\ Writers(x.path)' = {c}
             => store'[x.path] = x.content
  PROVE \E c \in Writers(x.path)' :
          /\ Made(x.file, c)'
          /\ Kept(x.file)' /\ Writers(x.path)' = {c} => store'[x.path] = x.content
<1>1. PICK c \in Writers(x.path) :
        /\ Made(x.file, c)
        /\ Kept(x.file) /\ Writers(x.path) = {c} => store[x.path] = x.content
  BY DEF VersionsI
<1>2. x.file \in Files /\ x.path \in Paths /\ file[x.file].row # "none"
  BY DEF Base, TypeOK, VersionRow, VersionI
<1>3. Writers(x.path) \subseteq Writers(x.path)'
  BY WritersGrow
<1>4. Made(x.file, c)'
  BY <1>1, <1>2, MadeStays
<1>5. ASSUME Kept(x.file)', Writers(x.path)' = {c}
      PROVE store'[x.path] = x.content
  <2>1. CASE x.path \in Q
    BY <1>1, <1>5, <2>1
  <2>2. CASE x.path \notin Q
    <3>1. Kept(x.file)
      BY <1>2, <1>5 DEF Base, RowI
    <3>2. Writers(x.path) = {c}
      BY <1>1, <1>3, <1>5
    <3>3. QED BY <1>1, <1>2, <2>2, <3>1, <3>2
  <2>3. QED BY <2>1, <2>2
<1>6. QED BY <1>1, <1>3, <1>4, <1>5

LEMMA PathsStay ==
  ASSUME Base, Base', PathsI, Monotone,
         \A w \in Sweeps : /\ sweep'[w].paths \subseteq sweep[w].paths
                           /\ sweep'[w].hand = sweep[w].hand \/ sweep'[w].paths = {}
  PROVE PathsI'
<1>1. SUFFICES ASSUME NEW w \in Sweeps, NEW p \in sweep'[w].paths
               PROVE sweep'[w].hand \in Files /\ \E c \in Writers(p)' : Owns(sweep[w].hand, c)'
  BY DEF PathsI
<1>2. p \in sweep[w].paths /\ sweep'[w].hand = sweep[w].hand
  BY <1>1
<1>3. PICK c \in Writers(p) : Owns(sweep[w].hand, c)
  BY <1>2 DEF PathsI
<1>4. sweep[w].hand \in Files
  BY <1>2 DEF PathsI
<1>5. c \in Writers(p)'
  BY WritersGrow
<1>6. PICK h : h = sweep[w].hand OBVIOUS
<1>7. Owns(h, c)'
  BY <1>3, <1>6, OwnsStays
<1>8. QED BY <1>2, <1>4, <1>5, <1>6, <1>7 DEF Owns

\* A step that leaves the object store alone.
LEMMA StoreSame ==
  ASSUME Base, Base', Content, Monotone, store' = store,
         \A f \in Files : Kept(f)' => Kept(f) \/ upload[f].pc = "stored",
         \A f \in Files : upload'[f].pc = "stored" => upload[f].pc = "stored",
         \A v \in Revisions : revision'[v].pc = "stored" => revision[v].pc = "stored",
         versions' \subseteq versions,
         \A w \in Sweeps : /\ sweep'[w].paths \subseteq sweep[w].paths
                           /\ sweep'[w].hand = sweep[w].hand \/ sweep'[w].paths = {}
  PROVE Content'
<1> DEFINE Q == {}
<1>1. /\ \A p \in Paths \ Q : store'[p] = store[p]
      /\ \A p : p \notin Q
  OBVIOUS
<1> HIDE DEF Q
<1>2. ContentI'
  BY <1>1, ContentStays DEF Content
<1>3. RevisedI'
  BY <1>1, RevisedStays DEF Content
<1>4. VersionsI'
  <2>1. SUFFICES ASSUME NEW x \in versions'
                 PROVE \E c \in Writers(x.path)' :
                         /\ Made(x.file, c)'
                         /\ Kept(x.file)' /\ Writers(x.path)' = {c} => store'[x.path] = x.content
    BY DEF VersionsI
  <2>2. x \in versions
    BY <2>1
  <2>3. QED BY <1>1, <2>2, VersionStays DEF Content
<1>5. PathsI'
  BY PathsStay DEF Content
<1>6. QED BY <1>2, <1>3, <1>4, <1>5 DEF Content

LEMMA UploadReadContent ==
  ASSUME Base, Base', ListedI, Content, NEW f \in Files, NEW s \in Scopes, UploadRead(f, s)
  PROVE Content'
<1>1. \A g \in Files : Kept(g)' => Kept(g) \/ upload[g].pc = "stored"
  BY RequestsAssumption DEF Base, TypeOK, UploadRead, Kept, Held, FileRow, SweepState, Idle
<1>2. store' = store /\ versions' \subseteq versions
  BY DEF UploadRead
<1>3. /\ \A g \in Files : upload'[g].pc = "stored" => upload[g].pc = "stored"
      /\ \A x \in Revisions : revision'[x].pc = "stored" => revision[x].pc = "stored"
  BY DEF Base, TypeOK, UploadRead, UploadState, RevisionState
<1>4. \A x \in Sweeps : /\ sweep'[x].paths \subseteq sweep[x].paths
                        /\ sweep'[x].hand = sweep[x].hand \/ sweep'[x].paths = {}
  BY DEF Base, TypeOK, UploadRead, SweepState, Idle
<1>5. QED BY <1>1, <1>2, <1>3, <1>4, UploadReadMonotone, StoreSame

LEMMA UploadCheckContent ==
  ASSUME Base, Base', ListedI, Content, NEW f \in Files, NEW s \in Scopes, UploadCheck(f, s)
  PROVE Content'
<1>1. \A g \in Files : Kept(g)' => Kept(g) \/ upload[g].pc = "stored"
  BY RequestsAssumption DEF Base, TypeOK, UploadCheck, Kept, Held, FileRow, SweepState, Idle
<1>2. store' = store /\ versions' \subseteq versions
  BY DEF UploadCheck
<1>3. /\ \A g \in Files : upload'[g].pc = "stored" => upload[g].pc = "stored"
      /\ \A x \in Revisions : revision'[x].pc = "stored" => revision[x].pc = "stored"
  BY DEF Base, TypeOK, UploadCheck, UploadState, RevisionState
<1>4. \A x \in Sweeps : /\ sweep'[x].paths \subseteq sweep[x].paths
                        /\ sweep'[x].hand = sweep[x].hand \/ sweep'[x].paths = {}
  BY DEF Base, TypeOK, UploadCheck, SweepState, Idle
<1>5. QED BY <1>1, <1>2, <1>3, <1>4, UploadCheckMonotone, StoreSame

LEMMA UploadRefuseContent ==
  ASSUME Base, Base', ListedI, Content, NEW f \in Files, NEW s \in Scopes, UploadRefuse(f, s)
  PROVE Content'
<1>1. \A g \in Files : Kept(g)' => Kept(g) \/ upload[g].pc = "stored"
  BY RequestsAssumption DEF Base, TypeOK, UploadRefuse, Kept, Held, FileRow, SweepState, Idle
<1>2. store' = store /\ versions' \subseteq versions
  BY DEF UploadRefuse
<1>3. /\ \A g \in Files : upload'[g].pc = "stored" => upload[g].pc = "stored"
      /\ \A x \in Revisions : revision'[x].pc = "stored" => revision[x].pc = "stored"
  BY DEF Base, TypeOK, UploadRefuse, UploadState, RevisionState
<1>4. \A x \in Sweeps : /\ sweep'[x].paths \subseteq sweep[x].paths
                        /\ sweep'[x].hand = sweep[x].hand \/ sweep'[x].paths = {}
  BY DEF Base, TypeOK, UploadRefuse, SweepState, Idle
<1>5. QED BY <1>1, <1>2, <1>3, <1>4, UploadRefuseMonotone, StoreSame

LEMMA UploadCreateContent ==
  ASSUME Base, Base', ListedI, Content, NEW f \in Files, UploadCreate(f)
  PROVE Content'
<1>1. \A g \in Files : Kept(g)' => Kept(g) \/ upload[g].pc = "stored"
  BY RequestsAssumption DEF Base, TypeOK, UploadCreate, Kept, Held, FileRow, SweepState, Idle
<1>2. store' = store /\ versions' \subseteq versions
  BY DEF UploadCreate
<1>3. /\ \A g \in Files : upload'[g].pc = "stored" => upload[g].pc = "stored"
      /\ \A x \in Revisions : revision'[x].pc = "stored" => revision[x].pc = "stored"
  BY DEF Base, TypeOK, UploadCreate, UploadState, RevisionState
<1>4. \A x \in Sweeps : /\ sweep'[x].paths \subseteq sweep[x].paths
                        /\ sweep'[x].hand = sweep[x].hand \/ sweep'[x].paths = {}
  BY DEF Base, TypeOK, UploadCreate, SweepState, Idle
<1>5. QED BY <1>1, <1>2, <1>3, <1>4, UploadCreateMonotone, StoreSame

LEMMA UploadCrashContent ==
  ASSUME Base, Base', ListedI, Content, NEW f \in Files, UploadCrash(f)
  PROVE Content'
<1>1. \A g \in Files : Kept(g)' => Kept(g) \/ upload[g].pc = "stored"
  BY RequestsAssumption DEF Base, TypeOK, UploadCrash, Kept, Held, FileRow, SweepState, Idle
<1>2. store' = store /\ versions' \subseteq versions
  BY DEF UploadCrash
<1>3. /\ \A g \in Files : upload'[g].pc = "stored" => upload[g].pc = "stored"
      /\ \A x \in Revisions : revision'[x].pc = "stored" => revision[x].pc = "stored"
  BY DEF Base, TypeOK, UploadCrash, UploadState, RevisionState
<1>4. \A x \in Sweeps : /\ sweep'[x].paths \subseteq sweep[x].paths
                        /\ sweep'[x].hand = sweep[x].hand \/ sweep'[x].paths = {}
  BY DEF Base, TypeOK, UploadCrash, SweepState, Idle
<1>5. QED BY <1>1, <1>2, <1>3, <1>4, UploadCrashMonotone, StoreSame

LEMMA DeleteContent ==
  ASSUME Base, Base', ListedI, Content, NEW f \in Files, Delete(f)
  PROVE Content'
<1>1. \A g \in Files : Kept(g)' => Kept(g) \/ upload[g].pc = "stored"
  BY RequestsAssumption DEF Base, TypeOK, Delete, Kept, Held, FileRow, SweepState, Idle
<1>2. store' = store /\ versions' \subseteq versions
  BY DEF Delete
<1>3. /\ \A g \in Files : upload'[g].pc = "stored" => upload[g].pc = "stored"
      /\ \A x \in Revisions : revision'[x].pc = "stored" => revision[x].pc = "stored"
  BY DEF Base, TypeOK, Delete, UploadState, RevisionState
<1>4. \A x \in Sweeps : /\ sweep'[x].paths \subseteq sweep[x].paths
                        /\ sweep'[x].hand = sweep[x].hand \/ sweep'[x].paths = {}
  BY DEF Base, TypeOK, Delete, SweepState, Idle
<1>5. QED BY <1>1, <1>2, <1>3, <1>4, DeleteMonotone, StoreSame

LEMMA ExpireContent ==
  ASSUME Base, Base', ListedI, Content, NEW f \in Files, Expire(f)
  PROVE Content'
<1>1. \A g \in Files : Kept(g)' => Kept(g) \/ upload[g].pc = "stored"
  BY RequestsAssumption DEF Base, TypeOK, Expire, Kept, Held, FileRow, SweepState, Idle
<1>2. store' = store /\ versions' \subseteq versions
  BY DEF Expire
<1>3. /\ \A g \in Files : upload'[g].pc = "stored" => upload[g].pc = "stored"
      /\ \A x \in Revisions : revision'[x].pc = "stored" => revision[x].pc = "stored"
  BY DEF Base, TypeOK, Expire, UploadState, RevisionState
<1>4. \A x \in Sweeps : /\ sweep'[x].paths \subseteq sweep[x].paths
                        /\ sweep'[x].hand = sweep[x].hand \/ sweep'[x].paths = {}
  BY DEF Base, TypeOK, Expire, SweepState, Idle
<1>5. QED BY <1>1, <1>2, <1>3, <1>4, ExpireMonotone, StoreSame

LEMMA RestoreContent ==
  ASSUME Base, Base', ListedI, Content, NEW f \in Files, Restore(f)
  PROVE Content'
<1>1. \A g \in Files : Kept(g)' => Kept(g) \/ upload[g].pc = "stored"
  BY RequestsAssumption DEF Base, TypeOK, Restore, Kept, Held, FileRow, SweepState, Idle
<1>2. store' = store /\ versions' \subseteq versions
  BY DEF Restore
<1>3. /\ \A g \in Files : upload'[g].pc = "stored" => upload[g].pc = "stored"
      /\ \A x \in Revisions : revision'[x].pc = "stored" => revision[x].pc = "stored"
  BY DEF Base, TypeOK, Restore, UploadState, RevisionState
<1>4. \A x \in Sweeps : /\ sweep'[x].paths \subseteq sweep[x].paths
                        /\ sweep'[x].hand = sweep[x].hand \/ sweep'[x].paths = {}
  BY DEF Base, TypeOK, Restore, SweepState, Idle
<1>5. QED BY <1>1, <1>2, <1>3, <1>4, RestoreMonotone, StoreSame

LEMMA ReviseReadContent ==
  ASSUME Base, Base', ListedI, Content, NEW v \in Revisions, NEW f \in Files, NEW n \in Names, NEW c \in Contents, ReviseRead(v, f, n, c)
  PROVE Content'
<1>1. \A g \in Files : Kept(g)' => Kept(g) \/ upload[g].pc = "stored"
  BY RequestsAssumption DEF Base, TypeOK, ReviseRead, Kept, Held, FileRow, SweepState, Idle
<1>2. store' = store /\ versions' \subseteq versions
  BY DEF ReviseRead
<1>3. /\ \A g \in Files : upload'[g].pc = "stored" => upload[g].pc = "stored"
      /\ \A x \in Revisions : revision'[x].pc = "stored" => revision[x].pc = "stored"
  BY DEF Base, TypeOK, ReviseRead, UploadState, RevisionState
<1>4. \A x \in Sweeps : /\ sweep'[x].paths \subseteq sweep[x].paths
                        /\ sweep'[x].hand = sweep[x].hand \/ sweep'[x].paths = {}
  BY DEF Base, TypeOK, ReviseRead, SweepState, Idle
<1>5. QED BY <1>1, <1>2, <1>3, <1>4, ReviseReadMonotone, StoreSame

LEMMA ReviseNumberContent ==
  ASSUME Base, Base', ListedI, Content, NEW v \in Revisions, ReviseNumber(v)
  PROVE Content'
<1>1. \A g \in Files : Kept(g)' => Kept(g) \/ upload[g].pc = "stored"
  BY RequestsAssumption DEF Base, TypeOK, ReviseNumber, Kept, Held, FileRow, SweepState, Idle
<1>2. store' = store /\ versions' \subseteq versions
  BY DEF ReviseNumber
<1>3. /\ \A g \in Files : upload'[g].pc = "stored" => upload[g].pc = "stored"
      /\ \A x \in Revisions : revision'[x].pc = "stored" => revision[x].pc = "stored"
  BY DEF Base, TypeOK, ReviseNumber, UploadState, RevisionState
<1>4. \A x \in Sweeps : /\ sweep'[x].paths \subseteq sweep[x].paths
                        /\ sweep'[x].hand = sweep[x].hand \/ sweep'[x].paths = {}
  BY DEF Base, TypeOK, ReviseNumber, SweepState, Idle
<1>5. QED BY <1>1, <1>2, <1>3, <1>4, ReviseNumberMonotone, StoreSame

LEMMA ReviseFailsContent ==
  ASSUME Base, Base', ListedI, Content, NEW v \in Revisions, ReviseFails(v)
  PROVE Content'
<1>1. \A g \in Files : Kept(g)' => Kept(g) \/ upload[g].pc = "stored"
  BY RequestsAssumption DEF Base, TypeOK, ReviseFails, Kept, Held, FileRow, SweepState, Idle
<1>2. store' = store /\ versions' \subseteq versions
  BY DEF ReviseFails
<1>3. /\ \A g \in Files : upload'[g].pc = "stored" => upload[g].pc = "stored"
      /\ \A x \in Revisions : revision'[x].pc = "stored" => revision[x].pc = "stored"
  BY DEF Base, TypeOK, ReviseFails, UploadState, RevisionState
<1>4. \A x \in Sweeps : /\ sweep'[x].paths \subseteq sweep[x].paths
                        /\ sweep'[x].hand = sweep[x].hand \/ sweep'[x].paths = {}
  BY DEF Base, TypeOK, ReviseFails, SweepState, Idle
<1>5. QED BY <1>1, <1>2, <1>3, <1>4, ReviseFailsMonotone, StoreSame

LEMMA SweepListContent ==
  ASSUME Base, Base', ListedI, Content, NEW w \in Sweeps, SweepList(w)
  PROVE Content'
<1>1. \A g \in Files : Kept(g)' => Kept(g) \/ upload[g].pc = "stored"
  BY RequestsAssumption DEF Base, TypeOK, SweepList, Kept, Held, FileRow, SweepState, Idle
<1>2. store' = store /\ versions' \subseteq versions
  BY DEF SweepList
<1>3. /\ \A g \in Files : upload'[g].pc = "stored" => upload[g].pc = "stored"
      /\ \A x \in Revisions : revision'[x].pc = "stored" => revision[x].pc = "stored"
  BY DEF Base, TypeOK, SweepList, UploadState, RevisionState
<1>4. \A x \in Sweeps : /\ sweep'[x].paths \subseteq sweep[x].paths
                        /\ sweep'[x].hand = sweep[x].hand \/ sweep'[x].paths = {}
  BY DEF Base, TypeOK, SweepList, SweepState, Idle
<1>5. QED BY <1>1, <1>2, <1>3, <1>4, SweepListMonotone, StoreSame

LEMMA SweepPurgeContent ==
  ASSUME Base, Base', ListedI, Content, NEW w \in Sweeps, SweepPurge(w)
  PROVE Content'
<1>1. \A g \in Files : Kept(g)' => Kept(g) \/ upload[g].pc = "stored"
  BY RequestsAssumption DEF Base, TypeOK, SweepPurge, Kept, Held, FileRow, SweepState, Idle
<1>2. store' = store /\ versions' \subseteq versions
  BY DEF SweepPurge
<1>3. /\ \A g \in Files : upload'[g].pc = "stored" => upload[g].pc = "stored"
      /\ \A x \in Revisions : revision'[x].pc = "stored" => revision[x].pc = "stored"
  BY DEF Base, TypeOK, SweepPurge, UploadState, RevisionState
<1>4. \A x \in Sweeps : /\ sweep'[x].paths \subseteq sweep[x].paths
                        /\ sweep'[x].hand = sweep[x].hand \/ sweep'[x].paths = {}
  BY DEF Base, TypeOK, SweepPurge, SweepState, Idle
<1>5. QED BY <1>1, <1>2, <1>3, <1>4, SweepPurgeMonotone, StoreSame

LEMMA SweepFailsContent ==
  ASSUME Base, Base', ListedI, Content, NEW w \in Sweeps, NEW dies \in BOOLEAN, SweepFails(w, dies)
  PROVE Content'
<1>1. \A g \in Files : Kept(g)' => Kept(g) \/ upload[g].pc = "stored"
  BY RequestsAssumption DEF Base, TypeOK, SweepFails, Kept, Held, FileRow, SweepState, Idle
<1>2. store' = store /\ versions' \subseteq versions
  BY DEF SweepFails
<1>3. /\ \A g \in Files : upload'[g].pc = "stored" => upload[g].pc = "stored"
      /\ \A x \in Revisions : revision'[x].pc = "stored" => revision[x].pc = "stored"
  BY DEF Base, TypeOK, SweepFails, UploadState, RevisionState
<1>4. \A x \in Sweeps : /\ sweep'[x].paths \subseteq sweep[x].paths
                        /\ sweep'[x].hand = sweep[x].hand \/ sweep'[x].paths = {}
  BY DEF Base, TypeOK, SweepFails, SweepState, Idle
<1>5. QED BY <1>1, <1>2, <1>3, <1>4, SweepFailsMonotone, StoreSame

\* A step that writes or deletes the object at q.
LEMMA StoreAt ==
  ASSUME Base, Base', Content, Monotone, NEW q \in Paths,
         \A p \in Paths : p # q => store'[p] = store[p],
         versions' = versions,
         \A f \in Files : Kept(f)' => Kept(f) \/ upload[f].pc = "stored",
         \A f \in Files : upload'[f].pc = "stored" => upload[f].pc = "stored" \/ upload'[f].path = q,
         \A v \in Revisions : revision'[v].pc = "stored" => revision[v].pc = "stored" \/ revision'[v].path = q,
         \A f \in Files : /\ upload'[f].path = q /\ Writers(q)' = {f}
                          /\ Sound(f)'
                          => store'[q] = f,
         \A v \in Revisions : /\ revision'[v].path = q /\ Writers(q)' = {v}
                              /\ revision'[v].pc = "stored" /\ revision'[v].file \notin crossed'
                              => store'[q] = revision'[v].content,
         \A x \in versions : \A c \in Writers(q) :
           x.path = q /\ Made(x.file, c) /\ Kept(x.file)' /\ Writers(q)' = {c} => store'[q] = x.content
  PROVE ContentI' /\ RevisedI' /\ VersionsI'
<1> DEFINE Q == {q}
<1>1. /\ \A p \in Paths \ Q : store'[p] = store[p]
      /\ \A p : p \in Q <=> p = q
  OBVIOUS
<1> HIDE DEF Q
<1>2. ContentI'
  <2>1. \A f \in Files :
           /\ upload'[f].path \in Q /\ Writers(upload[f].path)' = {f}
           /\ Sound(f)'
           => store'[upload'[f].path] = f
    BY <1>1 DEF Writers
  <2>2. \A f \in Files : upload'[f].pc = "stored" => upload[f].pc = "stored" \/ upload'[f].path \in Q
    BY <1>1
  <2>3. QED BY <1>1, <2>1, <2>2, ContentStays DEF Content
<1>3. RevisedI'
  <2>1. \A v \in Revisions :
           /\ revision'[v].path \in Q /\ Writers(revision[v].path)' = {v}
           /\ revision'[v].pc = "stored" /\ revision'[v].file \notin crossed'
           => store'[revision'[v].path] = revision'[v].content
    BY <1>1 DEF Writers
  <2>2. \A v \in Revisions : revision'[v].pc = "stored" => revision[v].pc = "stored" \/ revision'[v].path \in Q
    BY <1>1
  <2>3. QED BY <1>1, <2>1, <2>2, RevisedStays DEF Content
<1>4. VersionsI'
  <2>1. SUFFICES ASSUME NEW x \in versions
                 PROVE \E c \in Writers(x.path)' :
                         /\ Made(x.file, c)'
                         /\ Kept(x.file)' /\ Writers(x.path)' = {c} => store'[x.path] = x.content
    BY DEF VersionsI
  <2>2. \A c \in Writers(x.path) :
          x.path \in Q /\ Made(x.file, c) /\ Kept(x.file)' /\ Writers(x.path)' = {c}
            => store'[x.path] = x.content
    BY <1>1 DEF Writers
  <2>3. QED BY <1>1, <2>2, VersionStays DEF Content
<1>5. QED BY <1>2, <1>3, <1>4

LEMMA UploadStoreContent ==
  ASSUME Base, Base', ListedI, Content, NEW f \in Files, NEW n \in Names, UploadStore(f, <<0, n>>)
  PROVE Content'
<1>1. PICK q \in Paths : q = <<0, n>>
  BY PathsType, FileBoundsAssumption
<1>2. /\ \A p \in Paths : p # q => store'[p] = store[p]
      /\ store'[q] = f
      /\ UNCHANGED <<file, versions, revision, sweep, crossed>>
  BY <1>1 DEF Base, TypeOK, UploadStore
<1>3. /\ \A g \in Files : g # f => upload'[g] = upload[g]
      /\ upload'[f].pc = "stored" /\ upload'[f].path = q /\ upload[f].pc = "idle"
  BY <1>1 DEF Base, TypeOK, UploadState, UploadStore
<1>4. f \in Writers(q)' /\ f \notin Writers(q)
  BY <1>3, RequestsAssumption DEF Writers
<1>5. \A g \in Files : Kept(g)' => Kept(g)
  BY <1>2 DEF Kept, Held
<1>6. \A g \in Files : upload'[g].pc = "stored" => upload[g].pc = "stored" \/ upload'[g].path = q
  BY <1>3
<1>7. \A v \in Revisions : Writers(q)' # {v}
  BY <1>4, RequestsAssumption
<1>8. \A c \in Writers(q) : Writers(q)' # {c}
  BY <1>4
<1>9. \A g \in Files : Writers(q)' = {g} => store'[q] = g
  BY <1>2, <1>4
<1>10. ContentI' /\ RevisedI' /\ VersionsI'
  BY <1>2, <1>5, <1>6, <1>7, <1>8, <1>9, UploadStoreMonotone, StoreAt
<1>11. PathsI'
  BY <1>2, UploadStoreMonotone, PathsStay DEF Content
<1>12. QED BY <1>10, <1>11 DEF Content

LEMMA UploadCreateFailsContent ==
  ASSUME Base, Base', ListedI, Content, NEW f \in Files, UploadCreateFails(f)
  PROVE Content'
<1>1. PICK q \in Paths : q = upload[f].path
  BY DEF Base, RowI, UploadCreateFails
<1>2. /\ \A p \in Paths : p # q => store'[p] = store[p]
      /\ UNCHANGED <<file, versions, revision, sweep, crossed>>
  BY <1>1 DEF Base, TypeOK, UploadCreateFails
<1>3. /\ \A g \in Files : g # f => upload'[g] = upload[g]
      /\ upload'[f].pc = "failed" /\ upload'[f].path = q /\ file[f].row = "none"
  BY <1>1 DEF Base, TypeOK, UploadState, UploadCreateFails, RowI
<1>4. f \in Writers(q)'
  BY <1>3 DEF Writers
<1>5. \A g \in Files : Kept(g)' => Kept(g) /\ g # f
  BY <1>2, <1>3 DEF Kept, Held
<1>6. \A g \in Files : upload'[g].pc = "stored" => upload[g].pc = "stored" /\ g # f
  BY <1>3
<1>7. \A v \in Revisions : Writers(q)' # {v}
  BY <1>4, RequestsAssumption
<1>8. \A x \in versions : \A c \in Writers(q) :
        Made(x.file, c) /\ Kept(x.file)' => Writers(q)' # {c}
  <2>1. SUFFICES ASSUME NEW x \in versions, Made(x.file, f) PROVE ~Kept(x.file)'
    BY <1>4
  <2>2. x.file = f
    BY <2>1, RequestsAssumption DEF Made, Owns
  <2>3. QED BY <1>5, <2>2
<1>9. \A g \in Files : Sound(g)' => Writers(q)' # {g}
  BY <1>4, <1>5, <1>6 DEF Sound
<1>10. ContentI' /\ RevisedI' /\ VersionsI'
  BY <1>2, <1>5, <1>6, <1>7, <1>8, <1>9, UploadCreateFailsMonotone, StoreAt
<1>11. PathsI'
  BY <1>2, UploadCreateFailsMonotone, PathsStay DEF Content
<1>12. QED BY <1>10, <1>11 DEF Content

LEMMA UploadVerifyFailsContent ==
  ASSUME Base, Base', ListedI, Content, NEW f \in Files, UploadVerifyFails(f)
  PROVE Content'
<1>1. PICK q \in Paths : q = upload[f].path
  BY DEF Base, RowI, UploadVerifyFails
<1>2. /\ \A p \in Paths : p # q => store'[p] = store[p]
      /\ UNCHANGED <<file, versions, revision, sweep, crossed>>
  BY <1>1 DEF Base, TypeOK, UploadVerifyFails
<1>3. /\ \A g \in Files : g # f => upload'[g] = upload[g]
      /\ upload[f].pc = "created" /\ upload'[f].pc = "unverified" /\ upload'[f].path = q
  BY <1>1 DEF Base, TypeOK, UploadState, UploadVerifyFails
<1>4. f \in Writers(q)'
  BY <1>3 DEF Writers
<1>5. \A g \in Files : Kept(g)' => Kept(g)
  BY <1>2 DEF Kept, Held
<1>6. \A g \in Files : upload'[g].pc = "stored" => upload[g].pc = "stored"
  BY <1>3
<1>7. \A v \in Revisions : Writers(q)' # {v}
  BY <1>4, RequestsAssumption
<1>8. \A x \in versions : \A c \in Writers(q) : Made(x.file, c) => Writers(q)' # {c}
  <2>1. SUFFICES ASSUME NEW x \in versions, Made(x.file, f) PROVE FALSE
    BY <1>4
  <2>2. x.file = f
    BY <2>1, RequestsAssumption DEF Made, Owns
  <2>3. QED BY <1>3, <2>1, <2>2 DEF Made
<1>9. \A g \in Files : Sound(g)' => Writers(q)' # {g}
  BY <1>3, <1>4 DEF Sound
<1>10. ContentI' /\ RevisedI' /\ VersionsI'
  BY <1>2, <1>5, <1>6, <1>7, <1>8, <1>9, UploadVerifyFailsMonotone, StoreAt
<1>11. PathsI'
  BY <1>2, UploadVerifyFailsMonotone, PathsStay DEF Content
<1>12. QED BY <1>10, <1>11 DEF Content

LEMMA ReviseStoreContent ==
  ASSUME Base, Base', ListedI, Content, NEW v \in Revisions, ReviseStore(v)
  PROVE Content'
<1>1. PICK q \in Paths : q = revision[v].path
  BY DEF Base, RevisionI, ReviseStore
<1>2. /\ \A p \in Paths : p # q => store'[p] = store[p]
      /\ store'[q] = revision[v].content
      /\ UNCHANGED <<file, versions, upload, sweep, crossed>>
  BY <1>1 DEF Base, TypeOK, ReviseStore
<1>3. /\ \A x \in Revisions : x # v => revision'[x] = revision[x]
      /\ revision'[v].pc = "stored" /\ revision'[v].path = q /\ revision[v].pc = "numbered"
      /\ revision'[v].content = revision[v].content
  BY <1>1 DEF Base, TypeOK, RevisionState, ReviseStore
<1>4. v \in Writers(q)' /\ v \notin Writers(q)
  BY <1>3, RequestsAssumption DEF Writers
<1>5. \A g \in Files : Kept(g)' => Kept(g)
  BY <1>2 DEF Kept, Held
<1>6. \A x \in Revisions : revision'[x].pc = "stored" => revision[x].pc = "stored" \/ revision'[x].path = q
  BY <1>3
<1>7. \A g \in Files : Writers(q)' # {g}
  BY <1>4, RequestsAssumption
<1>8. \A c \in Writers(q) : Writers(q)' # {c}
  BY <1>4
<1>9. \A x \in Revisions : Writers(q)' = {x} => store'[q] = revision'[x].content
  BY <1>2, <1>3, <1>4
<1>10. ContentI' /\ RevisedI' /\ VersionsI'
  BY <1>2, <1>5, <1>6, <1>7, <1>8, <1>9, ReviseStoreMonotone, StoreAt
<1>11. PathsI'
  BY <1>2, ReviseStoreMonotone, PathsStay DEF Content
<1>12. QED BY <1>10, <1>11 DEF Content

\* A sweep that has file h in its hands deletes an object of h.
LEMMA Swept ==
  ASSUME Base, Base', ListedI, Content, Monotone, NEW h \in Files, Listed(h), Held(h)',
         NEW q \in Paths, NEW c \in Writers(q), Owns(h, c),
         \A p \in Paths : p # q => store'[p] = store[p],
         UNCHANGED <<file, versions, upload, revision, crossed>>,
         \A f \in Files : Kept(f)' => Kept(f)
  PROVE ContentI' /\ RevisedI' /\ VersionsI'
<1>1. c \in Writers(q)'
  BY WritersGrow
<1>2. ~Kept(h)' /\ upload'[h].pc # "stored"
  BY DEF Kept, Base, SweepI, RowI, Listed
<1>3. \A g \in Files : Sound(g)' => Writers(q)' # {g}
  BY <1>1, <1>2, RequestsAssumption DEF Owns, Sound
<1>4. \A v \in Revisions : revision'[v].pc = "stored" /\ revision'[v].file \notin crossed' => Writers(q)' # {v}
  <2>1. SUFFICES ASSUME NEW v \in Revisions, revision[v].pc = "stored", revision[v].file \notin crossed, c = v
                 PROVE FALSE
    BY <1>1
  <2>2. revision[v].file = h
    BY <2>1, RequestsAssumption DEF Owns
  <2>3. QED BY <2>1, <2>2 DEF ListedI, Revised
<1>5. \A x \in versions : \A d \in Writers(q) :
        Made(x.file, d) /\ Kept(x.file)' => Writers(q)' # {d}
  <2>1. SUFFICES ASSUME NEW x \in versions, Made(x.file, c)
                 PROVE x.file = h
    BY <1>1, <1>2
  <2>2. x.file \in Files
    BY DEF Base, TypeOK, VersionRow
  <2>3. QED BY <2>1, <2>2, RequestsAssumption DEF Made, Owns
<1>6. QED BY <1>3, <1>4, <1>5, StoreAt

LEMMA SweepEraseContent ==
  ASSUME Base, Base', ListedI, Content, NEW w \in Sweeps, NEW p \in Paths, NEW kept \in BOOLEAN, SweepErase(w, p, kept)
  PROVE Content'
<1>1. PICK h \in Files : h = sweep[w].hand /\ \E c \in Writers(p) : Owns(h, c)
  BY DEF SweepErase, Content, PathsI
<1>2. \A x \in Sweeps : sweep'[x].hand = sweep[x].hand /\ sweep'[x].paths \subseteq sweep[x].paths
  BY DEF Base, TypeOK, SweepState, SweepErase
<1>3. Listed(h) /\ Held(h)'
  BY <1>1, <1>2 DEF Listed, Held
<1>4. /\ \A q \in Paths : q # p => store'[q] = store[q]
      /\ UNCHANGED <<file, versions, upload, revision, crossed>>
  BY DEF Base, TypeOK, SweepErase
<1>5. \A f \in Files : Kept(f)' => Kept(f)
  BY <1>2, <1>4 DEF Kept, Held
<1>6. ContentI' /\ RevisedI' /\ VersionsI'
  BY <1>1, <1>3, <1>4, <1>5, SweepEraseMonotone, Swept
<1>7. PathsI'
  BY <1>2, SweepEraseMonotone, PathsStay DEF Content
<1>8. QED BY <1>6, <1>7 DEF Content

LEMMA SweepTakeContent ==
  ASSUME Base, Base', ListedI, Content, NEW w \in Sweeps, NEW f \in Files, NEW kept \in BOOLEAN, SweepTake(w, f, kept)
  PROVE Content'
<1>1. UNCHANGED <<file, versions, upload, revision, crossed>> /\ sweep[w].hand = None
  BY DEF SweepTake
<1>2. \A x \in Sweeps : x # w => sweep'[x] = sweep[x]
  BY DEF Base, TypeOK, SweepTake
<1>3. \A g \in Files : Kept(g)' => Kept(g)
  BY <1>1, <1>2, RequestsAssumption DEF Kept, Held
<1>4. CASE file[f].row = "gone" /\ ~sweep[w].fresh
  <2>1. store' = store /\ sweep'[w].paths = {}
    BY <1>4 DEF Base, TypeOK, SweepTake, Idle
  <2>2. \A x \in Sweeps : /\ sweep'[x].paths \subseteq sweep[x].paths
                          /\ sweep'[x].hand = sweep[x].hand \/ sweep'[x].paths = {}
    BY <1>2, <2>1
  <2>3. QED BY <1>1, <1>3, <2>1, <2>2, SweepTakeMonotone, StoreSame
<1>5. CASE ~(file[f].row = "gone" /\ ~sweep[w].fresh)
  <2>1. /\ sweep'[w].hand = f
        /\ sweep'[w].paths = {x.path : x \in {y \in versions : y.file = f}}
        /\ store' \in {store, [store EXCEPT ![upload[f].path] = None]}
    BY <1>5 DEF Base, TypeOK, SweepTake
  <2>2. Listed(f) /\ Held(f)'
    BY <2>1 DEF SweepTake, Listed, Held
  <2>3. upload[f].pc \in Wrote /\ upload[f].path \in Paths
    BY <2>2 DEF Base, TypeOK, UploadState, RowI, SweepI, Listed, Wrote
  <2>4. PICK q \in Paths : q = upload[f].path
    BY <2>3
  <2>5. f \in Writers(q) /\ Owns(f, f)
    BY <2>3, <2>4 DEF Writers, Wrote, Owns
  <2>6. \A p \in Paths : p # q => store'[p] = store[p]
    BY <2>1, <2>4 DEF Base, TypeOK
  <2>7. ContentI' /\ RevisedI' /\ VersionsI'
    BY <1>1, <1>3, <2>2, <2>5, <2>6, SweepTakeMonotone, Swept
  <2>8. PathsI'
    <3>1. SUFFICES ASSUME NEW x \in Sweeps, NEW p \in sweep'[x].paths
                   PROVE sweep'[x].hand \in Files /\ \E c \in Writers(p)' : Owns(sweep[x].hand, c)'
      BY DEF PathsI
    <3>2. CASE x = w
      <4>1. PICK y \in versions : y.file = f /\ y.path = p
        BY <2>1, <3>1, <3>2
      <4>2. PICK c \in Writers(p) : Owns(f, c)
        BY <4>1 DEF Content, VersionsI, Made
      <4>3. c \in Writers(p)' /\ Owns(f, c)'
        BY <4>2, SweepTakeMonotone, WritersGrow, OwnsStays
      <4>4. QED BY <2>1, <3>2, <4>3 DEF Owns
    <3>3. CASE x # w
      <4>1. sweep'[x] = sweep[x]
        BY <1>2, <3>3
      <4>2. sweep[x].hand \in Files
        BY <3>1, <4>1 DEF Content, PathsI
      <4>3. PICK h \in Files : h = sweep[x].hand
        BY <4>2
      <4>4. PICK c \in Writers(p) : Owns(h, c)
        BY <3>1, <4>1, <4>3 DEF Content, PathsI
      <4>5. c \in Writers(p)' /\ Owns(h, c)'
        BY <4>4, SweepTakeMonotone, WritersGrow, OwnsStays
      <4>6. QED BY <4>1, <4>3, <4>5 DEF Owns
    <3>4. QED BY <3>2, <3>3
  <2>9. QED BY <2>7, <2>8 DEF Content
<1>6. QED BY <1>4, <1>5

\* A version that is recorded for what its request stored.
LEMMA VersionAdded ==
  ASSUME Base, Base', Content, Monotone, store' = store,
         UNCHANGED <<file, sweep, crossed>>,
         NEW x \in VersionRow, versions' \subseteq versions \cup {x},
         \A f \in Files : upload'[f].pc = "stored" => upload[f].pc = "stored",
         \A v \in Revisions : revision'[v].pc = "stored" => revision[v].pc = "stored",
         NEW c \in Writers(x.path), Owns(x.file, c), c = x.file => upload'[c].pc = "done",
         Kept(x.file) /\ Writers(x.path) = {c} => store[x.path] = x.content
  PROVE Content'
<1>1. \A f \in Files : Kept(f)' <=> Kept(f)
  BY DEF Kept, Held
<1> DEFINE Q == {}
<1>2. /\ \A p \in Paths \ Q : store'[p] = store[p]
      /\ \A p : p \notin Q
  OBVIOUS
<1> HIDE DEF Q
<1>3. ContentI'
  BY <1>1, <1>2, ContentStays DEF Content
<1>4. RevisedI'
  BY <1>2, RevisedStays DEF Content
<1>5. VersionsI'
  <2>1. SUFFICES ASSUME NEW y \in versions'
                 PROVE \E d \in Writers(y.path)' :
                         /\ Made(y.file, d)'
                         /\ Kept(y.file)' /\ Writers(y.path)' = {d} => store'[y.path] = y.content
    BY DEF VersionsI
  <2>2. CASE y \in versions
    BY <1>1, <1>2, <2>2, VersionStays DEF Content
  <2>3. CASE y = x
    <3>1. c \in Writers(x.path)' /\ Made(x.file, c)' /\ Writers(x.path) \subseteq Writers(x.path)'
      BY WritersGrow, OwnsStays DEF Made
    <3>2. x.file \in Files
      BY DEF VersionRow
    <3>3. Kept(x.file)' => Kept(x.file)
      BY <1>1, <3>2
    <3>4. Kept(x.file)' /\ Writers(x.path)' = {c} => store'[x.path] = x.content
      BY <3>1, <3>3
    <3>5. QED BY <2>3, <3>1, <3>4
  <2>4. QED BY <2>1, <2>2, <2>3
<1>6. PathsI'
  BY PathsStay DEF Content
<1>7. QED BY <1>3, <1>4, <1>5, <1>6 DEF Content

LEMMA UploadFinishContent ==
  ASSUME Base, Base', ListedI, Content, NEW f \in Files, NEW fails \in BOOLEAN, NEW sent \in SUBSET Warnings(f), UploadFinish(f, fails, sent)
  PROVE Content'
<1> DEFINE x == [file |-> f, number |-> 1, path |-> upload[f].path, content |-> f]
<1>1. upload[f].pc = "created" /\ upload[f].path \in Paths
  BY DEF UploadFinish, Base, RowI
<1>2. x \in VersionRow
  BY <1>1, FileBoundsAssumption DEF VersionRow, Contents
<1>3. f \in Writers(x.path) /\ Owns(x.file, f)
  BY <1>1 DEF Writers, Owns
<1>4. Kept(x.file) /\ Writers(x.path) = {f} => store[x.path] = x.content
  BY <1>1 DEF Content, ContentI, Sound
<1>5. /\ store' = store /\ UNCHANGED <<file, sweep, crossed>>
      /\ versions' \subseteq versions \cup {x}
  BY DEF UploadFinish
<1>6. /\ \A g \in Files : upload'[g].pc = "stored" => upload[g].pc = "stored"
      /\ \A v \in Revisions : revision'[v].pc = "stored" => revision[v].pc = "stored"
  BY DEF Base, TypeOK, UploadFinish, UploadState
<1>8. x.file = f /\ upload'[f].pc = "done"
  BY DEF Base, TypeOK, UploadFinish, UploadState
<1> HIDE DEF x
<1>7. QED BY <1>2, <1>3, <1>4, <1>5, <1>6, <1>8, UploadFinishMonotone, VersionAdded

LEMMA ReviseRecordContent ==
  ASSUME Base, Base', ListedI, Content, NEW v \in Revisions, ReviseRecord(v)
  PROVE Content'
<1> DEFINE r == revision[v]
           x == [file |-> r.file, number |-> r.number, path |-> r.path, content |-> r.content]
<1>1. /\ r.pc = "stored" /\ r.file \in Files /\ r.number \in 1 .. MaxNumber
      /\ r.path \in Paths /\ r.content \in Contents
  BY DEF ReviseRecord, Base, RevisionI
<1>2. x \in VersionRow
  BY <1>1 DEF VersionRow
<1>3. v \in Writers(x.path) /\ Owns(x.file, v)
  BY <1>1 DEF Writers, Owns
<1>4. Kept(x.file) /\ Writers(x.path) = {v} => store[x.path] = x.content
  BY <1>1 DEF Content, RevisedI, Kept
<1>5. /\ store' = store /\ UNCHANGED <<file, sweep, crossed>>
      /\ versions' \subseteq versions \cup {x}
  BY DEF ReviseRecord
<1>6. /\ \A g \in Files : upload'[g].pc = "stored" => upload[g].pc = "stored"
      /\ \A y \in Revisions : revision'[y].pc = "stored" => revision[y].pc = "stored"
  BY DEF Base, TypeOK, ReviseRecord, RevisionState
<1>8. v # x.file
  BY <1>1, RequestsAssumption
<1> HIDE DEF x
<1>7. QED BY <1>2, <1>3, <1>4, <1>5, <1>6, <1>8, ReviseRecordMonotone, VersionAdded

-----------------------------------------------------------------------------

\* A step that lets no upload pass its check.
LEMMA QuotaStays ==
  ASSUME Base, QuotaKept, peak' = peak, restored \subseteq restored',
         \A f \in Files : upload'[f].pc \in {"idle", "stored"} =>
           upload[f].pc \in {"idle", "stored"} /\ upload[f].unchecked \subseteq upload'[f].unchecked,
         \A f \in Files : file'[f].row = "current" =>
           file[f].row = "current" \/ f \in restored' \/ upload[f].pc = "stored"
  PROVE QuotaKept'
<1>1. SUFFICES ASSUME NEW u \in Scopes
               PROVE Cardinality(Bytes(Taken(u)')) <= Quota[u] + peak[u]
  BY DEF QuotaKept, Taken, InFlight, Busy, Bytes
<1>2. Counted[u] \subseteq Files
  BY ScopesAssumption
<1>3. InFlight(u)' \subseteq InFlight(u)
  BY <1>2 DEF InFlight, Busy, Base, RowI
<1>4. \A f \in Counted[u] : upload[f].pc = "stored" => f \in InFlight(u)
  BY <1>2 DEF InFlight, Busy, Base, RowI
<1>5. Taken(u)' \subseteq Taken(u)
  BY <1>2, <1>3, <1>4 DEF Taken
<1>6. Taken(u) \subseteq Files /\ Taken(u)' \subseteq Files
  BY <1>2, <1>5, InFlightNat DEF Taken
<1>7. PICK S, T : S = Taken(u) /\ T = Taken(u)'
  OBVIOUS
<1>8. /\ Cardinality(Bytes(T)) <= Cardinality(Bytes(S))
      /\ Cardinality(Bytes(T)) \in Nat /\ Cardinality(Bytes(S)) \in Nat
  BY <1>5, <1>6, <1>7, BytesGrow, BytesFinite
<1>9. Cardinality(Bytes(S)) <= Quota[u] + peak[u]
  BY <1>7 DEF QuotaKept
<1>10. peak[u] \in Nat /\ Quota[u] \in Nat
  BY ScopesAssumption DEF Base, TypeOK
<1>11. QED BY <1>7, <1>8, <1>9, <1>10

LEMMA UploadReadQuota ==
  ASSUME Base, QuotaKept, NEW f \in Files, NEW s \in Scopes, UploadRead(f, s)
  PROVE QuotaKept'
<1>1. /\ peak' = peak /\ restored \subseteq restored'
      /\ \A g \in Files : upload'[g].pc \in {"idle", "stored"} =>
           upload[g].pc \in {"idle", "stored"} /\ upload[g].unchecked \subseteq upload'[g].unchecked
      /\ \A g \in Files : file'[g].row = "current" =>
           file[g].row = "current" \/ g \in restored' \/ upload[g].pc = "stored"
  BY DEF Base, TypeOK, UploadRead, FileRow, UploadState
<1>2. QED BY <1>1, QuotaStays

LEMMA UploadCheckQuota ==
  ASSUME Base, QuotaKept, NEW f \in Files, NEW s \in Scopes, UploadCheck(f, s)
  PROVE QuotaKept'
<1>1. SUFFICES ASSUME NEW u \in Scopes
               PROVE Cardinality(Bytes(Taken(u)')) <= Quota[u] + peak'[u]
  BY DEF QuotaKept, Taken, InFlight, Busy, Bytes
<1>2. Counted[u] \subseteq Files
  BY ScopesAssumption
<1>3. /\ upload'[f].pc = upload[f].pc /\ upload'[f].unread = upload[f].unread
      /\ upload'[f].unchecked = upload[f].unchecked \ {s}
      /\ \A g \in Files : g # f => upload'[g] = upload[g]
      /\ UNCHANGED <<file, restored>>
  BY DEF Base, TypeOK, UploadCheck, UploadState
<1>4. PICK S, T, C, I : /\ S = Taken(u) /\ T = Taken(u)' /\ I = InFlight(u)
                       /\ C = {g \in Counted[u] : file[g].row = "current"}
  OBVIOUS
<1>5. I \subseteq Files /\ C \subseteq Files /\ S \subseteq Files /\ T \subseteq Files
  BY <1>2, <1>4, InFlightNat DEF Taken, InFlight, Busy
<1>6. /\ Cardinality(Bytes(S)) \in Nat /\ Cardinality(Bytes(T)) \in Nat
      /\ Cardinality(Bytes(C)) \in Nat /\ Cardinality(Bytes(I)) \in Nat
  BY <1>5, BytesFinite
<1>7. peak[u] \in Nat /\ Quota[u] \in Nat
  BY ScopesAssumption DEF Base, TypeOK
<1>8. CASE u # s
  <2>1. T \subseteq S
    BY <1>2, <1>3, <1>4, <1>8 DEF Taken, InFlight, Busy
  <2>2. peak'[u] = peak[u]
    BY <1>8 DEF UploadCheck, Base, TypeOK
  <2>3. Cardinality(Bytes(T)) <= Cardinality(Bytes(S))
    BY <1>5, <2>1, BytesGrow
  <2>4. Cardinality(Bytes(S)) <= Quota[u] + peak[u]
    BY <1>4 DEF QuotaKept
  <2>5. QED BY <1>4, <1>6, <1>7, <2>2, <2>3, <2>4
<1>9. CASE u = s
  <2>1. T \subseteq C \cup (I \cup {f})
    BY <1>2, <1>3, <1>4, <1>9 DEF Taken, InFlight, Busy
  <2>2. Cardinality(Bytes(C)) + Size[f] <= Quota[u]
    BY <1>4, <1>9 DEF UploadCheck, Fits, Usage
  <2>3. peak'[u] \in Nat /\ Cardinality(Bytes(I)) <= peak'[u]
    BY <1>4, <1>6, <1>7, <1>9 DEF UploadCheck, Base, TypeOK
  <2>4. /\ Cardinality(Bytes(T)) <= Cardinality(Bytes(C \cup (I \cup {f})))
        /\ Cardinality(Bytes(C \cup (I \cup {f}))) \in Nat
    BY <1>5, <2>1, BytesGrow, BytesFinite
  <2>5. /\ Cardinality(Bytes(C \cup (I \cup {f}))) <= Cardinality(Bytes(C)) + Cardinality(Bytes(I \cup {f}))
        /\ Cardinality(Bytes(I \cup {f})) \in Nat
    BY <1>5, BytesJoin, BytesFinite
  <2>6. Cardinality(Bytes(I \cup {f})) <= Cardinality(Bytes(I)) + Cardinality(Bytes({f}))
    BY <1>5, BytesJoin
  <2>7. Cardinality(Bytes({f})) = Size[f] /\ Size[f] \in Nat
    BY BytesOne
  <2>8. QED BY <1>4, <1>6, <1>7, <2>2, <2>3, <2>4, <2>5, <2>6, <2>7
<1>10. QED BY <1>8, <1>9

LEMMA UploadRefuseQuota ==
  ASSUME Base, QuotaKept, NEW f \in Files, NEW s \in Scopes, UploadRefuse(f, s)
  PROVE QuotaKept'
<1>1. /\ peak' = peak /\ restored \subseteq restored'
      /\ \A g \in Files : upload'[g].pc \in {"idle", "stored"} =>
           upload[g].pc \in {"idle", "stored"} /\ upload[g].unchecked \subseteq upload'[g].unchecked
      /\ \A g \in Files : file'[g].row = "current" =>
           file[g].row = "current" \/ g \in restored' \/ upload[g].pc = "stored"
  BY DEF Base, TypeOK, UploadRefuse, FileRow, UploadState
<1>2. QED BY <1>1, QuotaStays

LEMMA UploadStoreQuota ==
  ASSUME Base, QuotaKept, NEW f \in Files, NEW n \in Names, UploadStore(f, <<0, n>>)
  PROVE QuotaKept'
<1>1. /\ peak' = peak /\ restored \subseteq restored'
      /\ \A g \in Files : upload'[g].pc \in {"idle", "stored"} =>
           upload[g].pc \in {"idle", "stored"} /\ upload[g].unchecked \subseteq upload'[g].unchecked
      /\ \A g \in Files : file'[g].row = "current" =>
           file[g].row = "current" \/ g \in restored' \/ upload[g].pc = "stored"
  BY DEF Base, TypeOK, UploadStore, FileRow, UploadState
<1>2. QED BY <1>1, QuotaStays

LEMMA UploadCreateQuota ==
  ASSUME Base, QuotaKept, NEW f \in Files, UploadCreate(f)
  PROVE QuotaKept'
<1>1. /\ peak' = peak /\ restored \subseteq restored'
      /\ \A g \in Files : upload'[g].pc \in {"idle", "stored"} =>
           upload[g].pc \in {"idle", "stored"} /\ upload[g].unchecked \subseteq upload'[g].unchecked
      /\ \A g \in Files : file'[g].row = "current" =>
           file[g].row = "current" \/ g \in restored' \/ upload[g].pc = "stored"
  BY DEF Base, TypeOK, UploadCreate, FileRow, UploadState
<1>2. QED BY <1>1, QuotaStays

LEMMA UploadCreateFailsQuota ==
  ASSUME Base, QuotaKept, NEW f \in Files, UploadCreateFails(f)
  PROVE QuotaKept'
<1>1. /\ peak' = peak /\ restored \subseteq restored'
      /\ \A g \in Files : upload'[g].pc \in {"idle", "stored"} =>
           upload[g].pc \in {"idle", "stored"} /\ upload[g].unchecked \subseteq upload'[g].unchecked
      /\ \A g \in Files : file'[g].row = "current" =>
           file[g].row = "current" \/ g \in restored' \/ upload[g].pc = "stored"
  BY DEF Base, TypeOK, UploadCreateFails, FileRow, UploadState
<1>2. QED BY <1>1, QuotaStays

LEMMA UploadVerifyFailsQuota ==
  ASSUME Base, QuotaKept, NEW f \in Files, UploadVerifyFails(f)
  PROVE QuotaKept'
<1>1. /\ peak' = peak /\ restored \subseteq restored'
      /\ \A g \in Files : upload'[g].pc \in {"idle", "stored"} =>
           upload[g].pc \in {"idle", "stored"} /\ upload[g].unchecked \subseteq upload'[g].unchecked
      /\ \A g \in Files : file'[g].row = "current" =>
           file[g].row = "current" \/ g \in restored' \/ upload[g].pc = "stored"
  BY DEF Base, TypeOK, UploadVerifyFails, FileRow, UploadState
<1>2. QED BY <1>1, QuotaStays

LEMMA UploadCrashQuota ==
  ASSUME Base, QuotaKept, NEW f \in Files, UploadCrash(f)
  PROVE QuotaKept'
<1>1. /\ peak' = peak /\ restored \subseteq restored'
      /\ \A g \in Files : upload'[g].pc \in {"idle", "stored"} =>
           upload[g].pc \in {"idle", "stored"} /\ upload[g].unchecked \subseteq upload'[g].unchecked
      /\ \A g \in Files : file'[g].row = "current" =>
           file[g].row = "current" \/ g \in restored' \/ upload[g].pc = "stored"
  BY DEF Base, TypeOK, UploadCrash, FileRow, UploadState
<1>2. QED BY <1>1, QuotaStays

LEMMA UploadFinishQuota ==
  ASSUME Base, QuotaKept, NEW f \in Files, NEW fails \in BOOLEAN, NEW sent \in SUBSET Warnings(f), UploadFinish(f, fails, sent)
  PROVE QuotaKept'
<1>1. /\ peak' = peak /\ restored \subseteq restored'
      /\ \A g \in Files : upload'[g].pc \in {"idle", "stored"} =>
           upload[g].pc \in {"idle", "stored"} /\ upload[g].unchecked \subseteq upload'[g].unchecked
      /\ \A g \in Files : file'[g].row = "current" =>
           file[g].row = "current" \/ g \in restored' \/ upload[g].pc = "stored"
  BY DEF Base, TypeOK, UploadFinish, FileRow, UploadState
<1>2. QED BY <1>1, QuotaStays

LEMMA DeleteQuota ==
  ASSUME Base, QuotaKept, NEW f \in Files, Delete(f)
  PROVE QuotaKept'
<1>1. /\ peak' = peak /\ restored \subseteq restored'
      /\ \A g \in Files : upload'[g].pc \in {"idle", "stored"} =>
           upload[g].pc \in {"idle", "stored"} /\ upload[g].unchecked \subseteq upload'[g].unchecked
      /\ \A g \in Files : file'[g].row = "current" =>
           file[g].row = "current" \/ g \in restored' \/ upload[g].pc = "stored"
  BY DEF Base, TypeOK, Delete, FileRow, UploadState
<1>2. QED BY <1>1, QuotaStays

LEMMA ExpireQuota ==
  ASSUME Base, QuotaKept, NEW f \in Files, Expire(f)
  PROVE QuotaKept'
<1>1. /\ peak' = peak /\ restored \subseteq restored'
      /\ \A g \in Files : upload'[g].pc \in {"idle", "stored"} =>
           upload[g].pc \in {"idle", "stored"} /\ upload[g].unchecked \subseteq upload'[g].unchecked
      /\ \A g \in Files : file'[g].row = "current" =>
           file[g].row = "current" \/ g \in restored' \/ upload[g].pc = "stored"
  BY DEF Base, TypeOK, Expire, FileRow, UploadState
<1>2. QED BY <1>1, QuotaStays

LEMMA RestoreQuota ==
  ASSUME Base, QuotaKept, NEW f \in Files, Restore(f)
  PROVE QuotaKept'
<1>1. /\ peak' = peak /\ restored \subseteq restored'
      /\ \A g \in Files : upload'[g].pc \in {"idle", "stored"} =>
           upload[g].pc \in {"idle", "stored"} /\ upload[g].unchecked \subseteq upload'[g].unchecked
      /\ \A g \in Files : file'[g].row = "current" =>
           file[g].row = "current" \/ g \in restored' \/ upload[g].pc = "stored"
  BY DEF Base, TypeOK, Restore, FileRow, UploadState
<1>2. QED BY <1>1, QuotaStays

LEMMA ReviseReadQuota ==
  ASSUME Base, QuotaKept, NEW v \in Revisions, NEW f \in Files, NEW n \in Names, NEW c \in Contents, ReviseRead(v, f, n, c)
  PROVE QuotaKept'
<1>1. /\ peak' = peak /\ restored \subseteq restored'
      /\ \A g \in Files : upload'[g].pc \in {"idle", "stored"} =>
           upload[g].pc \in {"idle", "stored"} /\ upload[g].unchecked \subseteq upload'[g].unchecked
      /\ \A g \in Files : file'[g].row = "current" =>
           file[g].row = "current" \/ g \in restored' \/ upload[g].pc = "stored"
  BY DEF Base, TypeOK, ReviseRead, FileRow, UploadState
<1>2. QED BY <1>1, QuotaStays

LEMMA ReviseStoreQuota ==
  ASSUME Base, QuotaKept, NEW v \in Revisions, ReviseStore(v)
  PROVE QuotaKept'
<1>1. /\ peak' = peak /\ restored \subseteq restored'
      /\ \A g \in Files : upload'[g].pc \in {"idle", "stored"} =>
           upload[g].pc \in {"idle", "stored"} /\ upload[g].unchecked \subseteq upload'[g].unchecked
      /\ \A g \in Files : file'[g].row = "current" =>
           file[g].row = "current" \/ g \in restored' \/ upload[g].pc = "stored"
  BY DEF Base, TypeOK, ReviseStore, FileRow, UploadState
<1>2. QED BY <1>1, QuotaStays

LEMMA ReviseRecordQuota ==
  ASSUME Base, QuotaKept, NEW v \in Revisions, ReviseRecord(v)
  PROVE QuotaKept'
<1>1. /\ peak' = peak /\ restored \subseteq restored'
      /\ \A g \in Files : upload'[g].pc \in {"idle", "stored"} =>
           upload[g].pc \in {"idle", "stored"} /\ upload[g].unchecked \subseteq upload'[g].unchecked
      /\ \A g \in Files : file'[g].row = "current" =>
           file[g].row = "current" \/ g \in restored' \/ upload[g].pc = "stored"
  BY DEF Base, TypeOK, ReviseRecord, FileRow, UploadState
<1>2. QED BY <1>1, QuotaStays

LEMMA ReviseNumberQuota ==
  ASSUME Base, QuotaKept, NEW v \in Revisions, ReviseNumber(v)
  PROVE QuotaKept'
<1>1. /\ peak' = peak /\ restored \subseteq restored'
      /\ \A g \in Files : upload'[g].pc \in {"idle", "stored"} =>
           upload[g].pc \in {"idle", "stored"} /\ upload[g].unchecked \subseteq upload'[g].unchecked
      /\ \A g \in Files : file'[g].row = "current" =>
           file[g].row = "current" \/ g \in restored' \/ upload[g].pc = "stored"
  BY DEF Base, TypeOK, ReviseNumber, FileRow, UploadState
<1>2. QED BY <1>1, QuotaStays

LEMMA ReviseFailsQuota ==
  ASSUME Base, QuotaKept, NEW v \in Revisions, ReviseFails(v)
  PROVE QuotaKept'
<1>1. /\ peak' = peak /\ restored \subseteq restored'
      /\ \A g \in Files : upload'[g].pc \in {"idle", "stored"} =>
           upload[g].pc \in {"idle", "stored"} /\ upload[g].unchecked \subseteq upload'[g].unchecked
      /\ \A g \in Files : file'[g].row = "current" =>
           file[g].row = "current" \/ g \in restored' \/ upload[g].pc = "stored"
  BY DEF Base, TypeOK, ReviseFails, FileRow, UploadState
<1>2. QED BY <1>1, QuotaStays

LEMMA SweepListQuota ==
  ASSUME Base, QuotaKept, NEW w \in Sweeps, SweepList(w)
  PROVE QuotaKept'
<1>1. /\ peak' = peak /\ restored \subseteq restored'
      /\ \A g \in Files : upload'[g].pc \in {"idle", "stored"} =>
           upload[g].pc \in {"idle", "stored"} /\ upload[g].unchecked \subseteq upload'[g].unchecked
      /\ \A g \in Files : file'[g].row = "current" =>
           file[g].row = "current" \/ g \in restored' \/ upload[g].pc = "stored"
  BY DEF Base, TypeOK, SweepList, FileRow, UploadState
<1>2. QED BY <1>1, QuotaStays

LEMMA SweepTakeQuota ==
  ASSUME Base, QuotaKept, NEW w \in Sweeps, NEW f \in Files, NEW kept \in BOOLEAN, SweepTake(w, f, kept)
  PROVE QuotaKept'
<1>1. /\ peak' = peak /\ restored \subseteq restored'
      /\ \A g \in Files : upload'[g].pc \in {"idle", "stored"} =>
           upload[g].pc \in {"idle", "stored"} /\ upload[g].unchecked \subseteq upload'[g].unchecked
      /\ \A g \in Files : file'[g].row = "current" =>
           file[g].row = "current" \/ g \in restored' \/ upload[g].pc = "stored"
  BY DEF Base, TypeOK, SweepTake, FileRow, UploadState
<1>2. QED BY <1>1, QuotaStays

LEMMA SweepEraseQuota ==
  ASSUME Base, QuotaKept, NEW w \in Sweeps, NEW p \in Paths, NEW kept \in BOOLEAN, SweepErase(w, p, kept)
  PROVE QuotaKept'
<1>1. /\ peak' = peak /\ restored \subseteq restored'
      /\ \A g \in Files : upload'[g].pc \in {"idle", "stored"} =>
           upload[g].pc \in {"idle", "stored"} /\ upload[g].unchecked \subseteq upload'[g].unchecked
      /\ \A g \in Files : file'[g].row = "current" =>
           file[g].row = "current" \/ g \in restored' \/ upload[g].pc = "stored"
  BY DEF Base, TypeOK, SweepErase, FileRow, UploadState
<1>2. QED BY <1>1, QuotaStays

LEMMA SweepPurgeQuota ==
  ASSUME Base, QuotaKept, NEW w \in Sweeps, SweepPurge(w)
  PROVE QuotaKept'
<1>1. /\ peak' = peak /\ restored \subseteq restored'
      /\ \A g \in Files : upload'[g].pc \in {"idle", "stored"} =>
           upload[g].pc \in {"idle", "stored"} /\ upload[g].unchecked \subseteq upload'[g].unchecked
      /\ \A g \in Files : file'[g].row = "current" =>
           file[g].row = "current" \/ g \in restored' \/ upload[g].pc = "stored"
  BY DEF Base, TypeOK, SweepPurge, FileRow, UploadState
<1>2. QED BY <1>1, QuotaStays

LEMMA SweepFailsQuota ==
  ASSUME Base, QuotaKept, NEW w \in Sweeps, NEW dies \in BOOLEAN, SweepFails(w, dies)
  PROVE QuotaKept'
<1>1. /\ peak' = peak /\ restored \subseteq restored'
      /\ \A g \in Files : upload'[g].pc \in {"idle", "stored"} =>
           upload[g].pc \in {"idle", "stored"} /\ upload[g].unchecked \subseteq upload'[g].unchecked
      /\ \A g \in Files : file'[g].row = "current" =>
           file[g].row = "current" \/ g \in restored' \/ upload[g].pc = "stored"
  BY DEF Base, TypeOK, SweepFails, FileRow, UploadState
<1>2. QED BY <1>1, QuotaStays

-----------------------------------------------------------------------------
Open(v, f) == revision[v].pc \in {"numbered", "stored", "recorded"} /\ revision[v].file = f

\* n is the latest number of a version of f.
Top(f, n) ==
  /\ \E x \in versions : x.file = f /\ x.number = n
  /\ \A x \in versions : x.file = f => x.number <= n

\* A file whose numbers never raced has one revision at a time, with a number
\* above all that are recorded.
Numbered(f) ==
  /\ \A x, y \in versions : x.file = f /\ y.file = f /\ x.number = y.number => x = y
  /\ \A v, w \in Revisions : Open(v, f) /\ Open(w, f) => v = w
  /\ upload[f].pc = "created" =>
       ~Revised(f) /\ file[f].number = 1 /\ \A x \in versions : x.file # f
  /\ \A v \in Revisions : Open(v, f) /\ revision[v].pc # "recorded" =>
       \A x \in versions : x.file = f => x.number < revision[v].number

\* The revision that was recorded, or else the file, has the latest number.
Carried(f) ==
  faults = 0 /\ file[f].row \in {"current", "deleted"} /\ upload[f].pc = "done" =>
    /\ \A v \in Revisions : Open(v, f) /\ revision[v].pc = "recorded" => Top(f, revision[v].number)
    /\ (\A v \in Revisions : Open(v, f) => revision[v].pc # "recorded") => Top(f, file[f].number)

NumberedI == \A f \in Files \ racing : Numbered(f) /\ Carried(f)

\* Least for the distance to a bound.
LEMMA Greatest ==
  ASSUME NEW n \in Nat, NEW T, T \subseteq 0 .. n, T # {}
  PROVE \E x \in T : \A y \in T : y <= x
<1> DEFINE D == {d \in Nat : n - d \in T}
<1>1. PICK t \in T : TRUE
  OBVIOUS
<1>2. n - t \in D
  <2>1. n - t \in Nat /\ n - (n - t) = t
    OBVIOUS
  <2>2. QED BY <2>1
<1>3. PICK d \in D : \A e \in D : <<e, d>> \notin OpToRel(<, Nat)
  BY <1>2, NatLessThanWellFounded, WFMin
<1>4. \A e \in D : ~(e < d)
  BY <1>3 DEF OpToRel
<1>5. \A y \in T : n - y \in D
  <2>1. \A y \in T : n - y \in Nat /\ n - (n - y) = y
    OBVIOUS
  <2>2. QED BY <2>1
<1>6. ASSUME NEW y \in T PROVE y <= n - d
  <2>1. n - y \in D /\ ~(n - y < d)
    BY <1>4, <1>5
  <2>2. y \in 0 .. n /\ d \in Nat
    OBVIOUS
  <2> HIDE DEF D
  <2>3. QED BY <2>1, <2>2
<1>7. QED BY <1>6

\* Latest is the greatest number recorded, or 0.
LEMMA LatestIs ==
  ASSUME TypeOK, NEW f \in Files
  PROVE /\ Latest(f) \in 0 .. MaxNumber
        /\ \A x \in versions : x.file = f => x.number <= Latest(f)
        /\ \A n : Top(f, n) => Latest(f) = n
<1> DEFINE numbers == {v.number : v \in {x \in versions : x.file = f}} \cup {0}
<1>1. numbers \subseteq 0 .. MaxNumber
  BY FileBoundsAssumption DEF TypeOK, VersionRow
<1>2. \E n \in numbers : \A m \in numbers : m <= n
  BY <1>1, Greatest, FileBoundsAssumption
<1>3. Latest(f) = CHOOSE n \in numbers : \A m \in numbers : m <= n
  BY DEF Latest
<1> HIDE DEF numbers
<1>4. Latest(f) \in numbers /\ \A m \in numbers : m <= Latest(f)
  BY <1>2, <1>3
<1>5. \A x \in versions : x.file = f => x.number \in numbers
  BY DEF numbers
<1>6. \A m \in numbers : m = 0 \/ \E x \in versions : x.file = f /\ x.number = m
  BY DEF numbers
<1>7. ASSUME NEW n, Top(f, n) PROVE Latest(f) = n
  <2>1. n \in numbers /\ n \in 1 .. MaxNumber
    BY <1>5, <1>7 DEF Top, TypeOK, VersionRow
  <2>2. n <= Latest(f) /\ Latest(f) \in 0 .. MaxNumber
    BY <1>1, <1>4, <2>1
  <2>3. Latest(f) = 0 \/ \E x \in versions : x.file = f /\ x.number = Latest(f)
    BY <1>4, <1>6
  <2>4. Latest(f) <= n
    BY <1>7, <2>1, <2>3 DEF Top
  <2>5. QED BY <2>1, <2>2, <2>4
<1>8. QED BY <1>1, <1>4, <1>5, <1>7

\* A step that neither records a version nor hands out a number.
LEMMA NumberedStays ==
  ASSUME Base, NumberedI, racing \subseteq racing',
         versions' \subseteq versions,
         \A x \in versions : file'[x.file].row \in {"current", "deleted"} => x \in versions',
         \A v \in Revisions :
           /\ revision'[v].pc \in {"numbered", "stored", "recorded"} =>
                /\ revision[v].pc \in {"numbered", "stored", "recorded"}
                /\ revision'[v].pc = "recorded" <=> revision[v].pc = "recorded"
                /\ revision'[v].file = revision[v].file /\ revision'[v].number = revision[v].number
           /\ revision[v].pc = "recorded" /\ faults' = 0 => revision'[v].pc = "recorded",
         \A f \in Files :
           /\ upload'[f].pc = "created" =>
                \/ upload[f].pc = "created" /\ file'[f].number = file[f].number
                \/ file[f].row = "none" /\ file'[f].number = 1
           /\ upload'[f].pc = "done" => upload[f].pc = "done" /\ file'[f].number = file[f].number
           /\ file'[f].row \in {"current", "deleted"} /\ upload[f].pc = "done" => file[f].row \in {"current", "deleted"},
         faults' = 0 => faults = 0
  PROVE NumberedI'
<1> SUFFICES ASSUME NEW f \in Files \ racing' PROVE Numbered(f)' /\ Carried(f)'
  BY DEF NumberedI
<1>1. Numbered(f) /\ Carried(f)
  BY DEF NumberedI
<1>2. \A v \in Revisions : Open(v, f)' =>
        /\ Open(v, f) /\ revision'[v].number = revision[v].number
        /\ revision'[v].pc = "recorded" <=> revision[v].pc = "recorded"
  BY DEF Open
<1>3. file[f].row = "none" => ~Revised(f) /\ \A x \in versions : x.file # f
  BY DEF Base, RevisionI, VersionI, Revised
<1>4. Numbered(f)'
  BY <1>1, <1>2, <1>3 DEF Numbered, Revised, Open
<1>5. ASSUME faults' = 0, file'[f].row \in {"current", "deleted"}, upload'[f].pc = "done"
      PROVE /\ \A v \in Revisions : Open(v, f)' /\ revision'[v].pc = "recorded" => Top(f, revision[v].number)'
            /\ (\A v \in Revisions : Open(v, f)' => revision'[v].pc # "recorded") => Top(f, file[f].number)'
  <2>1. \A x \in versions : x.file = f => x \in versions'
    BY <1>5
  <2>2. \A n : Top(f, n) => Top(f, n)'
    BY <2>1 DEF Top
  <2>3. \A v \in Revisions : Open(v, f) /\ revision[v].pc = "recorded" => Open(v, f)' /\ revision'[v].pc = "recorded"
    BY <1>5 DEF Open
  <2>4. \A v \in Revisions : Open(v, f)' /\ revision'[v].pc = "recorded" => Top(f, revision[v].number)'
    <3>1. \A v \in Revisions : Open(v, f)' /\ revision'[v].pc = "recorded" =>
            revision'[v].number = revision[v].number /\ Top(f, revision[v].number)
      BY <1>1, <1>2, <1>5 DEF Carried
    <3>2. QED BY <2>2, <3>1
  <2>5. (\A v \in Revisions : Open(v, f)' => revision'[v].pc # "recorded") => Top(f, file[f].number)'
    <3>1. (\A v \in Revisions : Open(v, f)' => revision'[v].pc # "recorded") =>
            file'[f].number = file[f].number /\ Top(f, file[f].number)
      BY <1>1, <1>5, <2>3 DEF Carried
    <3>2. QED BY <2>2, <3>1
  <2>6. QED BY <2>4, <2>5
<1>6. QED BY <1>4, <1>5 DEF Carried

LEMMA UploadFinishNumbered ==
  ASSUME Base, NumberedI, NEW g \in Files, NEW fails \in BOOLEAN, NEW sent \in SUBSET Warnings(g), UploadFinish(g, fails, sent)
  PROVE NumberedI'
<1> SUFFICES ASSUME NEW f \in Files \ racing' PROVE Numbered(f)' /\ Carried(f)'
  BY DEF NumberedI
<1>1. Numbered(f) /\ Carried(f)
  BY DEF NumberedI, UploadFinish
<1>2. UNCHANGED <<file, revision, racing>> /\ upload'[f].pc = IF f = g THEN "done" ELSE upload[f].pc
  BY DEF UploadFinish, Base, TypeOK, UploadState
<1>3. CASE f # g
  <2>1. \A x : x.file = f => (x \in versions' <=> x \in versions)
    BY <1>3 DEF UploadFinish
  <2>2. faults' = 0 => faults = 0
    BY FileBoundsAssumption DEF UploadFinish, Base, TypeOK
  <2>3. \A n : Top(f, n)' <=> Top(f, n)
    BY <2>1 DEF Top
  <2>4. Numbered(f)'
    BY <1>1, <1>2, <1>3, <2>1 DEF Numbered, Revised, Open
  <2>5. Carried(f)'
    BY <1>1, <1>2, <1>3, <2>2, <2>3 DEF Carried, Open
  <2>6. QED BY <2>4, <2>5
<1>4. CASE f = g
  <2>1. ~Revised(f) /\ \A x \in versions : x.file # f
    BY <1>1, <1>4 DEF Numbered, UploadFinish
  <2> DEFINE new == [file |-> f, number |-> 1, path |-> upload[f].path, content |-> f]
  <2>2. \A x \in versions' : x.file = f => x = new
    BY <1>4, <2>1 DEF UploadFinish
  <2>3. faults' = 0 /\ file[f].row \in {"current", "deleted"} => new \in versions'
    BY <1>4, FileBoundsAssumption DEF UploadFinish, Base, TypeOK
  <2>4. Numbered(f)'
    <3>1. ~Revised(f)'
      BY <1>2, <2>1 DEF Revised
    <3>2. \A v \in Revisions : ~Open(v, f)'
      BY <3>1 DEF Revised, Open
    <3>3. QED BY <1>2, <1>4, <2>2, <3>1, <3>2 DEF Numbered
  <2>5. faults' = 0 /\ file[f].row \in {"current", "deleted"} => Top(f, 1)'
    BY <2>2, <2>3 DEF Top
  <2>6. \A v \in Revisions : ~Open(v, f)'
    BY <1>2, <2>1 DEF Revised, Open
  <2>7. file[f].number = 1
    BY <1>1, <1>4 DEF Numbered, UploadFinish
  <2>8. QED BY <1>2, <2>4, <2>5, <2>6, <2>7 DEF Carried, Top
<1>5. QED BY <1>3, <1>4

LEMMA ReviseReadNumbered ==
  ASSUME Base, NumberedI, NEW v \in Revisions, NEW g \in Files, NEW n \in Names, NEW c \in Contents, ReviseRead(v, g, n, c)
  PROVE NumberedI'
<1> SUFFICES ASSUME NEW f \in Files \ racing' PROVE Numbered(f)' /\ Carried(f)'
  BY DEF NumberedI
<1>1. f \notin racing
  BY DEF ReviseRead
<1>2. Numbered(f) /\ Carried(f)
  BY <1>1 DEF NumberedI
<1>3. UNCHANGED <<file, versions, upload, faults>>
  BY DEF ReviseRead
<1>4. \A w \in Revisions \ {v} : revision'[w] = revision[w]
  BY DEF ReviseRead, Base, TypeOK
<1>5. revision[v].pc = "idle" /\ revision'[v].pc = "numbered" /\ revision'[v].file = g
  BY DEF ReviseRead, Base, TypeOK, RevisionState
<1>6. \A w \in Revisions : Open(w, f)' <=> Open(w, f) \/ (w = v /\ f = g)
  BY <1>4, <1>5 DEF Open
<1>7. \A m : Top(f, m)' <=> Top(f, m)
  BY <1>3 DEF Top
<1>8. Carried(f)'
  BY <1>2, <1>3, <1>4, <1>5, <1>6, <1>7 DEF Carried
<1>9. CASE f # g
  BY <1>2, <1>3, <1>4, <1>5, <1>6, <1>8, <1>9 DEF Numbered, Revised, Open
<1>10. CASE f = g
  <2>1. ~Revised(f) /\ upload[f].pc # "created"
    BY <1>10 DEF ReviseRead
  <2>2. \A w \in Revisions : ~Open(w, f)
    BY <2>1 DEF Revised, Open
  <2>3. revision'[v].number = Latest(f) + 1
    BY <1>10 DEF ReviseRead, Base, TypeOK, RevisionState
  <2>4. \A x \in versions : x.file = f => x.number < revision'[v].number
    BY <2>3, LatestIs, FileBoundsAssumption DEF Base, TypeOK, VersionRow
  <2>5. Numbered(f)'
    BY <1>2, <1>3, <1>6, <2>1, <2>2, <2>4 DEF Numbered
  <2>6. QED BY <1>8, <2>5
<1>11. QED BY <1>9, <1>10

LEMMA ReviseRecordNumbered ==
  ASSUME Base, NumberedI, NEW v \in Revisions, ReviseRecord(v)
  PROVE NumberedI'
<1> SUFFICES ASSUME NEW f \in Files \ racing' PROVE Numbered(f)' /\ Carried(f)'
  BY DEF NumberedI
<1>1. Numbered(f) /\ Carried(f)
  BY DEF NumberedI, ReviseRecord
<1>2. UNCHANGED <<file, upload, faults>>
  BY DEF ReviseRecord
<1>3. \A w \in Revisions \ {v} : revision'[w] = revision[w]
  BY DEF ReviseRecord, Base, TypeOK
<1>4. /\ revision[v].pc = "stored" /\ revision'[v].file = revision[v].file
      /\ revision'[v].number = revision[v].number
      /\ revision'[v].pc = IF file[revision[v].file].row = "gone" THEN "failed" ELSE "recorded"
  BY DEF ReviseRecord, Base, TypeOK, RevisionState
<1>5. \A w \in Revisions : Open(w, f)' => Open(w, f)
  BY <1>3, <1>4 DEF Open
<1>6. CASE revision[v].file # f
  <2>1. \A x : x.file = f => (x \in versions' <=> x \in versions)
    BY <1>6 DEF ReviseRecord
  <2>2. \A m : Top(f, m)' <=> Top(f, m)
    BY <2>1 DEF Top
  <2>3. \A w \in Revisions : Open(w, f)' <=> Open(w, f) /\ w # v
    BY <1>3, <1>4, <1>6 DEF Open
  <2>4. \A w \in Revisions : Open(w, f) => w # v
    BY <1>6 DEF Open
  <2>5. Numbered(f)'
    BY <1>1, <1>2, <1>3, <2>1, <2>3 DEF Numbered, Revised, Open
  <2>6. Carried(f)'
    BY <1>1, <1>2, <1>3, <2>2, <2>3, <2>4 DEF Carried
  <2>7. QED BY <2>5, <2>6
<1>7. CASE revision[v].file = f
  <2>1. Open(v, f) /\ \A w \in Revisions : Open(w, f) => w = v
    BY <1>1, <1>4, <1>7 DEF Open, Numbered
  <2>2. upload[f].pc # "created"
    BY <1>1, <2>1 DEF Numbered, Revised, Open
  <2>3. \A x \in versions : x.file = f => x.number < revision[v].number
    BY <1>1, <1>4, <2>1 DEF Numbered
  <2>4. \A w \in Revisions : Open(w, f)' => w = v /\ revision'[w].pc = "recorded"
    BY <1>4, <1>5, <2>1 DEF Open
  <2>5. CASE file[f].row = "gone"
    <3>1. versions' = versions
      BY <1>7, <2>5 DEF ReviseRecord
    <3>2. QED BY <1>1, <1>2, <2>2, <2>4, <2>5, <3>1 DEF Numbered, Carried
  <2>6. CASE file[f].row # "gone"
    <3> DEFINE new == [file |-> f, number |-> revision[v].number, path |-> revision[v].path, content |-> revision[v].content]
    <3>1. versions' = versions \cup {new}
      BY <1>7, <2>6 DEF ReviseRecord
    <3>2. \A x \in versions' : x.file = f => x \in versions \/ x = new
      BY <3>1
    <3>3. revision[v].number \in Nat /\ \A x \in versions : x.number \in Nat
      BY <1>4 DEF Base, TypeOK, RevisionI, VersionRow
    <3>4. Numbered(f)'
      BY <1>1, <1>2, <2>2, <2>3, <2>4, <3>2, <3>3 DEF Numbered
    <3>5. Top(f, revision[v].number)'
      <4>1. new \in versions' /\ new.file = f /\ new.number = revision'[v].number
        BY <1>4, <3>1
      <4>2. \A x \in versions' : x.file = f => x.number <= revision'[v].number
        BY <1>4, <2>3, <3>2, <3>3
      <4>3. QED BY <4>1, <4>2 DEF Top
    <3>6. Open(v, f)' /\ revision'[v].pc = "recorded"
      BY <1>4, <1>7, <2>6 DEF Open
    <3>7. QED BY <1>4, <2>4, <3>4, <3>5, <3>6 DEF Carried
  <2>7. QED BY <2>5, <2>6
<1>8. QED BY <1>6, <1>7

LEMMA ReviseNumberNumbered ==
  ASSUME Base, NumberedI, NEW v \in Revisions, ReviseNumber(v)
  PROVE NumberedI'
<1> SUFFICES ASSUME NEW f \in Files \ racing' PROVE Numbered(f)' /\ Carried(f)'
  BY DEF NumberedI
<1>1. Numbered(f) /\ Carried(f)
  BY DEF NumberedI, ReviseNumber
<1>2. UNCHANGED <<versions, upload, faults>>
  BY DEF ReviseNumber
<1>3. \A w \in Revisions \ {v} : revision'[w] = revision[w]
  BY DEF ReviseNumber, Base, TypeOK
<1>4. revision[v].pc = "recorded" /\ revision'[v].pc = "done"
  BY DEF ReviseNumber, Base, TypeOK, RevisionState
<1>5. \A w \in Revisions : Open(w, f)' <=> Open(w, f) /\ w # v
  BY <1>3, <1>4 DEF Open
<1>6. /\ file'[f].row = file[f].row
      /\ f # revision[v].file => file'[f].number = file[f].number
      /\ f = revision[v].file /\ file[f].row # "gone" => file'[f].number = revision[v].number
  BY <1>4 DEF ReviseNumber, Base, TypeOK, FileRow, RevisionI
<1>7. \A m : Top(f, m)' <=> Top(f, m)
  BY <1>2 DEF Top
<1>8. CASE revision[v].file # f
  <2>1. \A w \in Revisions : Open(w, f)' <=> Open(w, f)
    BY <1>5, <1>8 DEF Open
  <2>2. \A w \in Revisions : Open(w, f) => revision'[w] = revision[w]
    BY <1>3, <1>8 DEF Open
  <2>3. Numbered(f)'
    BY <1>1, <1>2, <1>6, <1>8, <2>1, <2>2 DEF Numbered, Revised, Open
  <2>4. Carried(f)'
    BY <1>1, <1>2, <1>6, <1>7, <1>8, <2>1, <2>2 DEF Carried
  <2>5. QED BY <2>3, <2>4
<1>9. CASE revision[v].file = f
  <2>1. Open(v, f) /\ \A w \in Revisions : Open(w, f) => w = v
    BY <1>1, <1>4, <1>9 DEF Open, Numbered
  <2>2. upload[f].pc # "created"
    BY <1>1, <2>1 DEF Numbered, Revised, Open
  <2>3. \A w \in Revisions : ~Open(w, f)'
    BY <1>5, <2>1
  <2>4. Numbered(f)'
    BY <1>1, <1>2, <2>2, <2>3 DEF Numbered
  <2>5. Carried(f)'
    BY <1>1, <1>2, <1>4, <1>6, <1>7, <1>9, <2>1, <2>3 DEF Carried
  <2>6. QED BY <2>4, <2>5
<1>10. QED BY <1>8, <1>9

LEMMA NumberedHolds ==
  ASSUME TypeOK, NumberedI
  PROVE VersionsNumbered
<1> SUFFICES ASSUME NEW f \in Files \ racing
             PROVE /\ \A x, y \in versions : x.file = f /\ y.file = f /\ x.number = y.number => x = y
                   /\ faults = 0 /\ file[f].row \in {"current", "deleted"} /\ ~Revised(f) /\ upload[f].pc = "done"
                        => file[f].number = Latest(f)
  BY DEF VersionsNumbered
<1>1. Numbered(f) /\ Carried(f)
  BY DEF NumberedI
<1>2. ~Revised(f) => \A v \in Revisions : ~Open(v, f)
  BY DEF Revised, Open
<1>3. QED BY <1>1, <1>2, LatestIs DEF Numbered, Carried

LEMMA UploadReadNumbered ==
  ASSUME Base, NumberedI, NEW f \in Files, NEW s \in Scopes, UploadRead(f, s)
  PROVE NumberedI'
BY NumberedStays, FileBoundsAssumption DEF UploadRead, Base, TypeOK, FileRow, UploadState, RevisionState, VersionRow, RowI

LEMMA UploadCheckNumbered ==
  ASSUME Base, NumberedI, NEW f \in Files, NEW s \in Scopes, UploadCheck(f, s)
  PROVE NumberedI'
BY NumberedStays, FileBoundsAssumption DEF UploadCheck, Base, TypeOK, FileRow, UploadState, RevisionState, VersionRow, RowI

LEMMA UploadRefuseNumbered ==
  ASSUME Base, NumberedI, NEW f \in Files, NEW s \in Scopes, UploadRefuse(f, s)
  PROVE NumberedI'
BY NumberedStays, FileBoundsAssumption DEF UploadRefuse, Base, TypeOK, FileRow, UploadState, RevisionState, VersionRow, RowI

LEMMA UploadStoreNumbered ==
  ASSUME Base, NumberedI, NEW f \in Files, NEW n \in Names, UploadStore(f, <<0, n>>)
  PROVE NumberedI'
BY NumberedStays, FileBoundsAssumption DEF UploadStore, Base, TypeOK, FileRow, UploadState, RevisionState, VersionRow, RowI

LEMMA UploadCreateNumbered ==
  ASSUME Base, NumberedI, NEW f \in Files, UploadCreate(f)
  PROVE NumberedI'
BY NumberedStays, FileBoundsAssumption DEF UploadCreate, Base, TypeOK, FileRow, UploadState, RevisionState, VersionRow, RowI

LEMMA UploadCreateFailsNumbered ==
  ASSUME Base, NumberedI, NEW f \in Files, UploadCreateFails(f)
  PROVE NumberedI'
BY NumberedStays, FileBoundsAssumption DEF UploadCreateFails, Base, TypeOK, FileRow, UploadState, RevisionState, VersionRow, RowI

LEMMA UploadVerifyFailsNumbered ==
  ASSUME Base, NumberedI, NEW f \in Files, UploadVerifyFails(f)
  PROVE NumberedI'
BY NumberedStays, FileBoundsAssumption DEF UploadVerifyFails, Base, TypeOK, FileRow, UploadState, RevisionState, VersionRow, RowI

LEMMA UploadCrashNumbered ==
  ASSUME Base, NumberedI, NEW f \in Files, UploadCrash(f)
  PROVE NumberedI'
BY NumberedStays, FileBoundsAssumption DEF UploadCrash, Base, TypeOK, FileRow, UploadState, RevisionState, VersionRow, RowI

LEMMA DeleteNumbered ==
  ASSUME Base, NumberedI, NEW f \in Files, Delete(f)
  PROVE NumberedI'
BY NumberedStays, FileBoundsAssumption DEF Delete, Base, TypeOK, FileRow, UploadState, RevisionState, VersionRow, RowI

LEMMA ExpireNumbered ==
  ASSUME Base, NumberedI, NEW f \in Files, Expire(f)
  PROVE NumberedI'
BY NumberedStays, FileBoundsAssumption DEF Expire, Base, TypeOK, FileRow, UploadState, RevisionState, VersionRow, RowI

LEMMA RestoreNumbered ==
  ASSUME Base, NumberedI, NEW f \in Files, Restore(f)
  PROVE NumberedI'
BY NumberedStays, FileBoundsAssumption DEF Restore, Base, TypeOK, FileRow, UploadState, RevisionState, VersionRow, RowI

LEMMA ReviseStoreNumbered ==
  ASSUME Base, NumberedI, NEW v \in Revisions, ReviseStore(v)
  PROVE NumberedI'
BY NumberedStays, FileBoundsAssumption DEF ReviseStore, Base, TypeOK, FileRow, UploadState, RevisionState, VersionRow, RowI

LEMMA ReviseFailsNumbered ==
  ASSUME Base, NumberedI, NEW v \in Revisions, ReviseFails(v)
  PROVE NumberedI'
BY NumberedStays, FileBoundsAssumption DEF ReviseFails, Base, TypeOK, FileRow, UploadState, RevisionState, VersionRow, RowI

LEMMA SweepListNumbered ==
  ASSUME Base, NumberedI, NEW w \in Sweeps, SweepList(w)
  PROVE NumberedI'
BY NumberedStays, FileBoundsAssumption DEF SweepList, Base, TypeOK, FileRow, UploadState, RevisionState, VersionRow, RowI

LEMMA SweepTakeNumbered ==
  ASSUME Base, NumberedI, NEW w \in Sweeps, NEW f \in Files, NEW kept \in BOOLEAN, SweepTake(w, f, kept)
  PROVE NumberedI'
BY NumberedStays, FileBoundsAssumption DEF SweepTake, Base, TypeOK, FileRow, UploadState, RevisionState, VersionRow, RowI

LEMMA SweepEraseNumbered ==
  ASSUME Base, NumberedI, NEW w \in Sweeps, NEW p \in Paths, NEW kept \in BOOLEAN, SweepErase(w, p, kept)
  PROVE NumberedI'
BY NumberedStays, FileBoundsAssumption DEF SweepErase, Base, TypeOK, FileRow, UploadState, RevisionState, VersionRow, RowI

LEMMA SweepPurgeNumbered ==
  ASSUME Base, NumberedI, NEW w \in Sweeps, SweepPurge(w)
  PROVE NumberedI'
BY NumberedStays, FileBoundsAssumption DEF SweepPurge, Base, TypeOK, FileRow, UploadState, RevisionState, VersionRow, RowI

LEMMA SweepFailsNumbered ==
  ASSUME Base, NumberedI, NEW w \in Sweeps, NEW dies \in BOOLEAN, SweepFails(w, dies)
  PROVE NumberedI'
BY NumberedStays, FileBoundsAssumption DEF SweepFails, Base, TypeOK, FileRow, UploadState, RevisionState, VersionRow, RowI

-----------------------------------------------------------------------------
\* A warning of the threshold or of a higher one was sent, or the upload that
\* reached it is about to send it.
Covered(u, t) ==
  \/ \E w \in Thresholds[u] : w >= t /\ <<u, w>> \in warned
  \/ \E f \in Counted[u] : upload[f].pc = "created" /\ t \in Crossed(f, u)

\* The uploads of the scope never overlapped and nothing else adds to its usage.
Alone(u) == u \notin overlapped /\ Counted[u] \cap restored = {} /\ faults = 0

\* Every threshold up to the usage is covered, and up to the usage that the one
\* upload under way has read, which is not less.
WarnedI ==
  \A u \in Scopes : Alone(u) =>
    /\ \A t \in Thresholds[u] : t <= Usage(u) => Covered(u, t)
    /\ \A f \in Busy(u) :
         /\ Usage(u) <= upload[f].before[u]
         /\ \A t \in Thresholds[u] : t <= upload[f].before[u] => Covered(u, t)
    /\ \A f, g \in Busy(u) : f = g

\* The usage of a scope follows its current files.
LEMMA UsageShrinks ==
  ASSUME NEW u \in Scopes, \A f \in Counted[u] : file'[f].row = "current" => file[f].row = "current"
  PROVE Usage(u)' <= Usage(u) /\ Usage(u)' \in Nat /\ Usage(u) \in Nat
<1>1. PICK S, T : /\ S = {f \in Counted[u] : file[f].row = "current"}
                  /\ T = {f \in Counted[u] : file'[f].row = "current"}
  OBVIOUS
<1>2. S \subseteq Files /\ T \subseteq S
  BY <1>1, ScopesAssumption
<1>3. /\ Cardinality(Bytes(T)) <= Cardinality(Bytes(S))
      /\ Cardinality(Bytes(S)) \in Nat /\ Cardinality(Bytes(T)) \in Nat
  BY <1>2, BytesGrow, BytesFinite
<1>4. Usage(u) = Cardinality(Bytes(S)) /\ Usage(u)' = Cardinality(Bytes(T))
  BY <1>1 DEF Usage, Bytes
<1>5. QED BY <1>3, <1>4

\* A step by which no usage grows and no upload reads one.
LEMMA WarnedStays ==
  ASSUME TypeOK, WarnedI, overlapped \subseteq overlapped', restored \subseteq restored',
         warned \subseteq warned', faults' = 0 => faults = 0,
         \A f \in Files :
           /\ upload'[f].pc \in {"idle", "stored"} =>
                /\ upload[f].pc \in {"idle", "stored"}
                /\ upload'[f].before = upload[f].before /\ upload'[f].unread = upload[f].unread
           /\ upload[f].pc = "created" /\ faults' = 0 => upload'[f] = upload[f]
           /\ file'[f].row = "current" => file[f].row = "current" \/ f \in restored'
  PROVE WarnedI'
<1> SUFFICES ASSUME NEW u \in Scopes, Alone(u)'
             PROVE /\ \A t \in Thresholds[u] : t <= Usage(u)' => Covered(u, t)'
                   /\ \A g \in Busy(u)' :
                        /\ Usage(u)' <= upload'[g].before[u]
                        /\ \A t \in Thresholds[u] : t <= upload'[g].before[u] => Covered(u, t)'
                   /\ \A g, h \in Busy(u)' : g = h
  BY DEF WarnedI
<1>1. Counted[u] \subseteq Files
  BY ScopesAssumption
<1>2. Alone(u) /\ faults' = 0 /\ \A f \in Counted[u] : f \notin restored'
  BY DEF Alone
<1>3. Usage(u)' <= Usage(u) /\ Usage(u)' \in Nat /\ Usage(u) \in Nat
  BY <1>1, <1>2, UsageShrinks
<1>4. \A t \in Thresholds[u] : Covered(u, t) => Covered(u, t)'
  BY <1>1, <1>2 DEF Covered, Crossed
<1>5. \A f \in Busy(u)' : /\ f \in Busy(u) /\ upload'[f].before[u] = upload[f].before[u]
                          /\ upload[f].before[u] \in Nat
  BY <1>1 DEF Busy, TypeOK, UploadState
<1>6. \A t \in Thresholds[u] : t <= Usage(u)' => Covered(u, t)'
  BY <1>2, <1>3, <1>4, ThresholdsNat DEF WarnedI
<1>7. ASSUME NEW g \in Busy(u)'
      PROVE /\ Usage(u)' <= upload'[g].before[u]
            /\ \A t \in Thresholds[u] : t <= upload'[g].before[u] => Covered(u, t)'
  BY <1>2, <1>3, <1>4, <1>5, <1>7 DEF WarnedI
<1>8. \A g, h \in Busy(u)' : g = h
  BY <1>2, <1>5 DEF WarnedI
<1>9. QED BY <1>6, <1>7, <1>8

LEMMA UploadStoreWarned ==
  ASSUME Base, WarnedI, NEW f \in Files, NEW n \in Names, UploadStore(f, <<0, n>>)
  PROVE WarnedI'
BY WarnedStays, FileBoundsAssumption DEF UploadStore, Base, TypeOK, FileRow, UploadState, RowI

LEMMA UploadCreateFailsWarned ==
  ASSUME Base, WarnedI, NEW f \in Files, UploadCreateFails(f)
  PROVE WarnedI'
BY WarnedStays, FileBoundsAssumption DEF UploadCreateFails, Base, TypeOK, FileRow, UploadState, RowI

LEMMA UploadVerifyFailsWarned ==
  ASSUME Base, WarnedI, NEW f \in Files, UploadVerifyFails(f)
  PROVE WarnedI'
BY WarnedStays, FileBoundsAssumption DEF UploadVerifyFails, Base, TypeOK, FileRow, UploadState, RowI

LEMMA UploadCrashWarned ==
  ASSUME Base, WarnedI, NEW f \in Files, UploadCrash(f)
  PROVE WarnedI'
BY WarnedStays, FileBoundsAssumption DEF UploadCrash, Base, TypeOK, FileRow, UploadState, RowI

LEMMA DeleteWarned ==
  ASSUME Base, WarnedI, NEW f \in Files, Delete(f)
  PROVE WarnedI'
BY WarnedStays, FileBoundsAssumption DEF Delete, Base, TypeOK, FileRow, UploadState, RowI

LEMMA ExpireWarned ==
  ASSUME Base, WarnedI, NEW f \in Files, Expire(f)
  PROVE WarnedI'
BY WarnedStays, FileBoundsAssumption DEF Expire, Base, TypeOK, FileRow, UploadState, RowI

LEMMA RestoreWarned ==
  ASSUME Base, WarnedI, NEW f \in Files, Restore(f)
  PROVE WarnedI'
BY WarnedStays, FileBoundsAssumption DEF Restore, Base, TypeOK, FileRow, UploadState, RowI

LEMMA ReviseReadWarned ==
  ASSUME Base, WarnedI, NEW v \in Revisions, NEW f \in Files, NEW n \in Names, NEW c \in Contents, ReviseRead(v, f, n, c)
  PROVE WarnedI'
BY WarnedStays, FileBoundsAssumption DEF ReviseRead, Base, TypeOK, FileRow, UploadState, RowI

LEMMA ReviseStoreWarned ==
  ASSUME Base, WarnedI, NEW v \in Revisions, ReviseStore(v)
  PROVE WarnedI'
BY WarnedStays, FileBoundsAssumption DEF ReviseStore, Base, TypeOK, FileRow, UploadState, RowI

LEMMA ReviseRecordWarned ==
  ASSUME Base, WarnedI, NEW v \in Revisions, ReviseRecord(v)
  PROVE WarnedI'
BY WarnedStays, FileBoundsAssumption DEF ReviseRecord, Base, TypeOK, FileRow, UploadState, RowI

LEMMA ReviseNumberWarned ==
  ASSUME Base, WarnedI, NEW v \in Revisions, ReviseNumber(v)
  PROVE WarnedI'
BY WarnedStays, FileBoundsAssumption DEF ReviseNumber, Base, TypeOK, FileRow, UploadState, RowI

LEMMA ReviseFailsWarned ==
  ASSUME Base, WarnedI, NEW v \in Revisions, ReviseFails(v)
  PROVE WarnedI'
BY WarnedStays, FileBoundsAssumption DEF ReviseFails, Base, TypeOK, FileRow, UploadState, RowI

LEMMA SweepListWarned ==
  ASSUME Base, WarnedI, NEW w \in Sweeps, SweepList(w)
  PROVE WarnedI'
BY WarnedStays, FileBoundsAssumption DEF SweepList, Base, TypeOK, FileRow, UploadState, RowI

LEMMA SweepTakeWarned ==
  ASSUME Base, WarnedI, NEW w \in Sweeps, NEW f \in Files, NEW kept \in BOOLEAN, SweepTake(w, f, kept)
  PROVE WarnedI'
BY WarnedStays, FileBoundsAssumption DEF SweepTake, Base, TypeOK, FileRow, UploadState, RowI

LEMMA SweepEraseWarned ==
  ASSUME Base, WarnedI, NEW w \in Sweeps, NEW p \in Paths, NEW kept \in BOOLEAN, SweepErase(w, p, kept)
  PROVE WarnedI'
BY WarnedStays, FileBoundsAssumption DEF SweepErase, Base, TypeOK, FileRow, UploadState, RowI

LEMMA SweepPurgeWarned ==
  ASSUME Base, WarnedI, NEW w \in Sweeps, SweepPurge(w)
  PROVE WarnedI'
BY WarnedStays, FileBoundsAssumption DEF SweepPurge, Base, TypeOK, FileRow, UploadState, RowI

LEMMA SweepFailsWarned ==
  ASSUME Base, WarnedI, NEW w \in Sweeps, NEW dies \in BOOLEAN, SweepFails(w, dies)
  PROVE WarnedI'
BY WarnedStays, FileBoundsAssumption DEF SweepFails, Base, TypeOK, FileRow, UploadState, RowI

\* What the one upload reads is the usage.
LEMMA UploadReadWarned ==
  ASSUME Base, WarnedI, NEW f \in Files, NEW s \in Scopes, UploadRead(f, s)
  PROVE WarnedI'
<1> SUFFICES ASSUME NEW u \in Scopes, Alone(u)'
             PROVE /\ \A t \in Thresholds[u] : t <= Usage(u)' => Covered(u, t)'
                   /\ \A g \in Busy(u)' :
                        /\ Usage(u)' <= upload'[g].before[u]
                        /\ \A t \in Thresholds[u] : t <= upload'[g].before[u] => Covered(u, t)'
                   /\ \A g, h \in Busy(u)' : g = h
  BY DEF WarnedI
<1>1. Alone(u) /\ (u = s => Busy(u) = {})
  BY DEF Alone, UploadRead
<1>2. Usage(u)' = Usage(u) /\ Usage(u) \in Nat
  BY UsageNat DEF UploadRead, Usage
<1>3. Counted[u] \subseteq Files
  BY ScopesAssumption
<1>4. /\ \A g \in Files \ {f} : upload'[g] = upload[g]
      /\ upload'[f].before[s] = Usage(s) /\ upload[f].pc = "idle" /\ upload'[f].pc = "idle"
      /\ u # s => upload'[f].before[u] = upload[f].before[u]
      /\ upload'[f].unread = upload[f].unread \ {s}
  BY DEF UploadRead, Base, TypeOK, UploadState
<1>5. \A t : Covered(u, t) => Covered(u, t)'
  BY <1>3, <1>4 DEF Covered, UploadRead, Crossed
<1>6. \A t \in Thresholds[u] : t <= Usage(u)' => Covered(u, t)'
  BY <1>1, <1>2, <1>5 DEF WarnedI
<1>7. CASE u = s
  <2>1. \A g \in Busy(u)' : g = f
    BY <1>1, <1>3, <1>4, <1>7 DEF Busy
  <2>2. upload'[f].before[u] = Usage(u)
    BY <1>4, <1>7
  <2>3. QED BY <1>2, <1>6, <2>1, <2>2
<1>8. CASE u # s
  <2>1. \A g \in Busy(u)' : g \in Busy(u) /\ upload'[g].before[u] = upload[g].before[u]
    BY <1>3, <1>4, <1>8 DEF Busy
  <2>2. QED BY <1>1, <1>2, <1>5, <1>6, <2>1 DEF WarnedI
<1>9. QED BY <1>7, <1>8

LEMMA UploadCheckWarned ==
  ASSUME Base, WarnedI, NEW f \in Files, NEW s \in Scopes, UploadCheck(f, s)
  PROVE WarnedI'
BY WarnedStays, FileBoundsAssumption DEF UploadCheck, Base, TypeOK, FileRow, UploadState, RowI

LEMMA UploadRefuseWarned ==
  ASSUME Base, WarnedI, NEW f \in Files, NEW s \in Scopes, UploadRefuse(f, s)
  PROVE WarnedI'
BY WarnedStays, FileBoundsAssumption DEF UploadRefuse, Base, TypeOK, FileRow, UploadState, RowI

\* The one upload under way adds its size to a usage it has not read less of.
LEMMA UploadCreateWarned ==
  ASSUME Base, WarnedI, NEW f \in Files, UploadCreate(f)
  PROVE WarnedI'
<1> SUFFICES ASSUME NEW u \in Scopes, Alone(u)'
             PROVE /\ \A t \in Thresholds[u] : t <= Usage(u)' => Covered(u, t)'
                   /\ \A g \in Busy(u)' :
                        /\ Usage(u)' <= upload'[g].before[u]
                        /\ \A t \in Thresholds[u] : t <= upload'[g].before[u] => Covered(u, t)'
                   /\ \A g, h \in Busy(u)' : g = h
  BY DEF WarnedI
<1>1. Alone(u)
  BY DEF Alone, UploadCreate
<1>2. Counted[u] \subseteq Files
  BY ScopesAssumption
<1>3. /\ \A g \in Files \ {f} : upload'[g] = upload[g] /\ file'[g] = file[g]
      /\ upload[f].pc = "stored" /\ upload'[f].pc = "created" /\ upload'[f].before = upload[f].before
      /\ upload[f].unread = {} /\ warned' = warned
  BY DEF UploadCreate, Base, TypeOK, UploadState, RowI
<1>4. \A t : Covered(u, t) => Covered(u, t)'
  BY <1>2, <1>3 DEF Covered, Crossed
<1>5. \A g \in Busy(u)' : g \in Busy(u) /\ g # f /\ upload'[g] = upload[g]
  BY <1>2, <1>3 DEF Busy
<1>6. CASE f \notin Counted[u]
  <2>1. {g \in Counted[u] : file'[g].row = "current"} = {g \in Counted[u] : file[g].row = "current"}
    BY <1>2, <1>3, <1>6
  <2>2. Usage(u)' = Usage(u)
    BY <2>1 DEF Usage, Bytes
  <2>3. QED BY <1>1, <1>4, <1>5, <2>2 DEF WarnedI
<1>7. CASE f \in Counted[u]
  <2>1. f \in Busy(u)
    BY <1>3, <1>7 DEF Busy
  <2>2. PICK b : b = upload[f].before[u]
    OBVIOUS
  <2>3. b \in Nat /\ Usage(u) <= b /\ \A t \in Thresholds[u] : t <= b => Covered(u, t)
    BY <1>1, <2>1, <2>2 DEF WarnedI, Base, TypeOK, UploadState
  <2>4. Busy(u)' = {}
    BY <1>1, <1>5, <2>1 DEF WarnedI
  <2>5. PICK S, T : /\ S = {g \in Counted[u] : file[g].row = "current"}
                    /\ T = {g \in Counted[u] : file'[g].row = "current"}
    OBVIOUS
  <2>6. S \subseteq Files /\ T \subseteq S \cup {f}
    BY <1>2, <1>3, <2>5
  <2>7. /\ Cardinality(Bytes(T)) <= Cardinality(Bytes(S \cup {f}))
        /\ Cardinality(Bytes(S \cup {f})) <= Cardinality(Bytes(S)) + Cardinality(Bytes({f}))
        /\ Cardinality(Bytes(T)) \in Nat /\ Cardinality(Bytes(S)) \in Nat
        /\ Cardinality(Bytes(S \cup {f})) \in Nat
    BY <2>6, BytesGrow, BytesJoin, BytesFinite
  <2>8. Usage(u) = Cardinality(Bytes(S)) /\ Usage(u)' = Cardinality(Bytes(T))
    BY <2>5 DEF Usage, Bytes
  <2>9. Usage(u)' <= b + Size[f] /\ Usage(u)' \in Nat /\ Size[f] \in Nat
    BY <2>3, <2>7, <2>8, BytesOne
  <2>10. \A t \in Thresholds[u] : b < t /\ t <= b + Size[f] => Covered(u, t)'
    BY <1>3, <1>7, <2>2 DEF Covered, Crossed
  <2>11. ASSUME NEW t \in Thresholds[u], t <= Usage(u)' PROVE Covered(u, t)'
    <3>1. t <= b \/ (b < t /\ t <= b + Size[f])
      BY <2>3, <2>9, <2>11, ThresholdsNat
    <3>2. QED BY <1>4, <2>3, <2>10, <3>1
  <2>12. QED BY <2>4, <2>11
<1>8. QED BY <1>6, <1>7

\* The warning of the highest threshold covers those the upload covered itself.
LEMMA UploadFinishWarned ==
  ASSUME Base, WarnedI, NEW f \in Files, NEW fails \in BOOLEAN, NEW sent \in SUBSET Warnings(f), UploadFinish(f, fails, sent)
  PROVE WarnedI'
<1> SUFFICES ASSUME NEW u \in Scopes, Alone(u)'
             PROVE /\ \A t \in Thresholds[u] : t <= Usage(u)' => Covered(u, t)'
                   /\ \A g \in Busy(u)' :
                        /\ Usage(u)' <= upload'[g].before[u]
                        /\ \A t \in Thresholds[u] : t <= upload'[g].before[u] => Covered(u, t)'
                   /\ \A g, h \in Busy(u)' : g = h
  BY DEF WarnedI
<1>1. Alone(u) /\ sent = Warnings(f)
  BY FileBoundsAssumption DEF Alone, UploadFinish, Base, TypeOK
<1>2. Counted[u] \subseteq Files
  BY ScopesAssumption
<1>3. /\ \A g \in Files \ {f} : upload'[g] = upload[g]
      /\ upload[f].pc = "created" /\ upload'[f].pc = "done" /\ file' = file
      /\ warned' = warned \cup sent
  BY DEF UploadFinish, Base, TypeOK, UploadState
<1>4. ASSUME NEW t \in Thresholds[u], Covered(u, t) PROVE Covered(u, t)'
  <2>1. CASE f \in Counted[u] /\ t \in Crossed(f, u)
    <3>1. PICK n \in Nat : n = upload[f].before[u] + Size[f]
      BY SizeAssumption DEF Base, TypeOK, UploadState
    <3>2. Crossed(f, u) \subseteq 0 .. n
      BY <3>1, ThresholdsNat DEF Crossed
    <3>3. PICK w \in Crossed(f, u) : \A x \in Crossed(f, u) : x <= w
      BY <2>1, <3>2, Greatest
    <3>4. <<u, w>> \in Warnings(f)
      BY <2>1, <3>3 DEF Warnings, ScopesOf
    <3>5. w \in Thresholds[u] /\ w >= t
      BY <2>1, <3>2, <3>3 DEF Crossed
    <3>6. QED BY <1>1, <1>3, <3>4, <3>5 DEF Covered
  <2>2. CASE ~(f \in Counted[u] /\ t \in Crossed(f, u))
    BY <1>2, <1>3, <1>4, <2>2 DEF Covered, Crossed
  <2>3. QED BY <2>1, <2>2
<1>5. \A g \in Busy(u)' : g \in Busy(u) /\ upload'[g] = upload[g]
  BY <1>2, <1>3 DEF Busy
<1>6. Usage(u)' = Usage(u)
  BY <1>3 DEF Usage
<1>7. QED BY <1>1, <1>4, <1>5, <1>6 DEF WarnedI

LEMMA WarnedHolds ==
  ASSUME WarnedI
  PROVE WarnedAtThreshold
<1> SUFFICES ASSUME NEW u \in Scopes, NEW t \in Thresholds[u], Usage(u) >= t, Alone(u),
                    \A f \in Counted[u] : upload[f].pc # "created"
             PROVE \E w \in Thresholds[u] : w >= t /\ <<u, w>> \in warned
  BY DEF WarnedAtThreshold, Alone
<1>1. t <= Usage(u)
  BY UsageNat, ThresholdsNat
<1>2. Covered(u, t)
  BY <1>1 DEF WarnedI
<1>3. QED BY <1>2 DEF Covered

-----------------------------------------------------------------------------
\* Only files that exist were crossed, nobody revises a file that is gone, and
\* every version was stored by a request for its file.
WorkI ==
  /\ \A f \in crossed : file[f].row # "none"
  /\ \A v \in Revisions : revision[v].pc = "idle" => revision[v].file = None
  /\ \A f \in Files \ crossed : file[f].row = "gone" => ~Revised(f)
  /\ \A x \in versions :
       \/ upload[x.file].path = x.path
       \/ \E v \in Revisions : revision[v].file = x.file /\ revision[v].path = x.path

\* A sweep that has the file in its hands is done with the path.
SweptAt(f, p) == \E w \in Sweeps : sweep[w].hand = f /\ p \notin sweep[w].paths

\* Someone answers for what is stored at a path: a version or a file that no
\* sweep is about to remove, a request that has yet to write its row, or a file
\* that a sweep crossed.
OwnerV(p) == \E x \in versions : x.path = p /\ (x.file \in crossed \/ ~SweptAt(x.file, p))
OwnerF(p) ==
  \E f \in Files : upload[f].path = p /\
    (upload[f].pc = "stored" \/ f \in crossed \/ (file[f].row \in {"current", "deleted"} /\ ~SweptAt(f, p)))
OwnerR(p) ==
  \E v \in Revisions : revision[v].path = p /\ (revision[v].pc = "stored" \/ revision[v].file \in crossed)

Owner(p) == OwnerV(p) \/ OwnerF(p) \/ OwnerR(p)

\* What nobody answers for.
Orphans == {p \in Paths : store[p] # None /\ ~Owner(p)}

OwnerI == IsFiniteSet(Orphans) /\ Cardinality(Orphans) <= faults

\* A step by which no file comes or goes.
LEMMA WorkStays ==
  ASSUME WorkI, crossed' = crossed, versions' \subseteq versions,
         \A f \in Files :
           upload'[f].path = upload[f].path /\ file'[f].row = file[f].row,
         \A v \in Revisions :
           /\ revision'[v].file = revision[v].file /\ revision'[v].path = revision[v].path
           /\ revision'[v].pc = "idle" => revision[v].pc = "idle"
           /\ revision'[v].pc \in {"numbered", "stored", "recorded"}
                => revision[v].pc \in {"numbered", "stored", "recorded"},
         \A x \in versions : x.file \in Files,
         crossed \subseteq Files
  PROVE WorkI'
BY DEF WorkI, Revised

LEMMA UploadReadWork ==
  ASSUME Base, ListedI, WorkI, NEW f \in Files, NEW s \in Scopes, UploadRead(f, s)
  PROVE WorkI'
<1>1. /\ crossed' = crossed /\ versions' = versions
      /\ \A g \in Files : upload'[g].path = upload[g].path /\ file'[g].row = file[g].row
  BY DEF UploadRead, Base, TypeOK, UploadState, FileRow
<1>2. \A x \in Revisions :
        /\ revision'[x].file = revision[x].file /\ revision'[x].path = revision[x].path
        /\ revision'[x].pc = "idle" => revision[x].pc = "idle"
        /\ revision'[x].pc \in {"numbered", "stored", "recorded"}
             => revision[x].pc \in {"numbered", "stored", "recorded"}
  BY DEF UploadRead, Base, TypeOK, RevisionState
<1>3. crossed \subseteq Files /\ \A x \in versions : x.file \in Files
  BY DEF Base, TypeOK, VersionRow
<1>4. QED BY <1>1, <1>2, <1>3, WorkStays

LEMMA UploadCheckWork ==
  ASSUME Base, ListedI, WorkI, NEW f \in Files, NEW s \in Scopes, UploadCheck(f, s)
  PROVE WorkI'
<1>1. /\ crossed' = crossed /\ versions' = versions
      /\ \A g \in Files : upload'[g].path = upload[g].path /\ file'[g].row = file[g].row
  BY DEF UploadCheck, Base, TypeOK, UploadState, FileRow
<1>2. \A x \in Revisions :
        /\ revision'[x].file = revision[x].file /\ revision'[x].path = revision[x].path
        /\ revision'[x].pc = "idle" => revision[x].pc = "idle"
        /\ revision'[x].pc \in {"numbered", "stored", "recorded"}
             => revision[x].pc \in {"numbered", "stored", "recorded"}
  BY DEF UploadCheck, Base, TypeOK, RevisionState
<1>3. crossed \subseteq Files /\ \A x \in versions : x.file \in Files
  BY DEF Base, TypeOK, VersionRow
<1>4. QED BY <1>1, <1>2, <1>3, WorkStays

LEMMA UploadRefuseWork ==
  ASSUME Base, ListedI, WorkI, NEW f \in Files, NEW s \in Scopes, UploadRefuse(f, s)
  PROVE WorkI'
<1>1. /\ crossed' = crossed /\ versions' = versions
      /\ \A g \in Files : upload'[g].path = upload[g].path /\ file'[g].row = file[g].row
  BY DEF UploadRefuse, Base, TypeOK, UploadState, FileRow
<1>2. \A x \in Revisions :
        /\ revision'[x].file = revision[x].file /\ revision'[x].path = revision[x].path
        /\ revision'[x].pc = "idle" => revision[x].pc = "idle"
        /\ revision'[x].pc \in {"numbered", "stored", "recorded"}
             => revision[x].pc \in {"numbered", "stored", "recorded"}
  BY DEF UploadRefuse, Base, TypeOK, RevisionState
<1>3. crossed \subseteq Files /\ \A x \in versions : x.file \in Files
  BY DEF Base, TypeOK, VersionRow
<1>4. QED BY <1>1, <1>2, <1>3, WorkStays

LEMMA UploadStoreWork ==
  ASSUME Base, ListedI, WorkI, NEW f \in Files, NEW n \in Names, UploadStore(f, <<0, n>>)
  PROVE WorkI'
<1>1. /\ UNCHANGED <<file, versions, revision, crossed>>
      /\ \A g \in Files \ {f} : upload'[g] = upload[g]
  BY DEF UploadStore, Base, TypeOK
<1>2. \A x \in versions : x.file \in Files \ {f}
  BY DEF UploadStore, Base, TypeOK, VersionRow, RowI, VersionI
<1>3. QED BY <1>1, <1>2 DEF WorkI, Revised

LEMMA UploadCreateWork ==
  ASSUME Base, ListedI, WorkI, NEW f \in Files, UploadCreate(f)
  PROVE WorkI'
BY RequestsAssumption DEF UploadCreate, Base, TypeOK, FileRow, UploadState, RevisionState, VersionRow, SweepState, Idle, RowI, RevisionI, VersionI, SweepI, WorkI, Revised, Removable

LEMMA UploadCreateFailsWork ==
  ASSUME Base, ListedI, WorkI, NEW f \in Files, UploadCreateFails(f)
  PROVE WorkI'
<1>1. /\ crossed' = crossed /\ versions' = versions
      /\ \A g \in Files : upload'[g].path = upload[g].path /\ file'[g].row = file[g].row
  BY DEF UploadCreateFails, Base, TypeOK, UploadState, FileRow
<1>2. \A x \in Revisions :
        /\ revision'[x].file = revision[x].file /\ revision'[x].path = revision[x].path
        /\ revision'[x].pc = "idle" => revision[x].pc = "idle"
        /\ revision'[x].pc \in {"numbered", "stored", "recorded"}
             => revision[x].pc \in {"numbered", "stored", "recorded"}
  BY DEF UploadCreateFails, Base, TypeOK, RevisionState
<1>3. crossed \subseteq Files /\ \A x \in versions : x.file \in Files
  BY DEF Base, TypeOK, VersionRow
<1>4. QED BY <1>1, <1>2, <1>3, WorkStays

LEMMA UploadVerifyFailsWork ==
  ASSUME Base, ListedI, WorkI, NEW f \in Files, UploadVerifyFails(f)
  PROVE WorkI'
<1>1. /\ crossed' = crossed /\ versions' = versions
      /\ \A g \in Files : upload'[g].path = upload[g].path /\ file'[g].row = file[g].row
  BY DEF UploadVerifyFails, Base, TypeOK, UploadState, FileRow
<1>2. \A x \in Revisions :
        /\ revision'[x].file = revision[x].file /\ revision'[x].path = revision[x].path
        /\ revision'[x].pc = "idle" => revision[x].pc = "idle"
        /\ revision'[x].pc \in {"numbered", "stored", "recorded"}
             => revision[x].pc \in {"numbered", "stored", "recorded"}
  BY DEF UploadVerifyFails, Base, TypeOK, RevisionState
<1>3. crossed \subseteq Files /\ \A x \in versions : x.file \in Files
  BY DEF Base, TypeOK, VersionRow
<1>4. QED BY <1>1, <1>2, <1>3, WorkStays

LEMMA UploadCrashWork ==
  ASSUME Base, ListedI, WorkI, NEW f \in Files, UploadCrash(f)
  PROVE WorkI'
<1>1. /\ crossed' = crossed /\ versions' = versions
      /\ \A g \in Files : upload'[g].path = upload[g].path /\ file'[g].row = file[g].row
  BY DEF UploadCrash, Base, TypeOK, UploadState, FileRow
<1>2. \A x \in Revisions :
        /\ revision'[x].file = revision[x].file /\ revision'[x].path = revision[x].path
        /\ revision'[x].pc = "idle" => revision[x].pc = "idle"
        /\ revision'[x].pc \in {"numbered", "stored", "recorded"}
             => revision[x].pc \in {"numbered", "stored", "recorded"}
  BY DEF UploadCrash, Base, TypeOK, RevisionState
<1>3. crossed \subseteq Files /\ \A x \in versions : x.file \in Files
  BY DEF Base, TypeOK, VersionRow
<1>4. QED BY <1>1, <1>2, <1>3, WorkStays

LEMMA UploadFinishWork ==
  ASSUME Base, ListedI, WorkI, NEW f \in Files, NEW fails \in BOOLEAN, NEW sent \in SUBSET Warnings(f), UploadFinish(f, fails, sent)
  PROVE WorkI'
<1>1. /\ UNCHANGED <<file, revision, crossed>>
      /\ \A g \in Files : upload'[g].path = upload[g].path
  BY DEF UploadFinish, Base, TypeOK, UploadState
<1>2. \A x \in versions' : x \in versions \/ (x.file = f /\ x.path = upload[f].path)
  BY DEF UploadFinish
<1>3. \A x \in versions : x.file \in Files
  BY DEF Base, TypeOK, VersionRow
<1>4. QED BY <1>1, <1>2, <1>3 DEF WorkI, Revised

LEMMA DeleteWork ==
  ASSUME Base, ListedI, WorkI, NEW f \in Files, Delete(f)
  PROVE WorkI'
BY RequestsAssumption DEF Delete, Base, TypeOK, FileRow, UploadState, RevisionState, VersionRow, SweepState, Idle, RowI, RevisionI, VersionI, SweepI, WorkI, Revised, Removable

LEMMA ExpireWork ==
  ASSUME Base, ListedI, WorkI, NEW f \in Files, Expire(f)
  PROVE WorkI'
BY RequestsAssumption DEF Expire, Base, TypeOK, FileRow, UploadState, RevisionState, VersionRow, SweepState, Idle, RowI, RevisionI, VersionI, SweepI, WorkI, Revised, Removable

LEMMA RestoreWork ==
  ASSUME Base, ListedI, WorkI, NEW f \in Files, Restore(f)
  PROVE WorkI'
BY RequestsAssumption DEF Restore, Base, TypeOK, FileRow, UploadState, RevisionState, VersionRow, SweepState, Idle, RowI, RevisionI, VersionI, SweepI, WorkI, Revised, Removable

LEMMA ReviseReadWork ==
  ASSUME Base, ListedI, WorkI, NEW v \in Revisions, NEW f \in Files, NEW n \in Names, NEW c \in Contents, ReviseRead(v, f, n, c)
  PROVE WorkI'
<1>1. UNCHANGED <<file, upload, versions, crossed>>
  BY DEF ReviseRead
<1>2. /\ \A x \in Revisions \ {v} : revision'[x] = revision[x]
      /\ revision[v].pc = "idle" /\ revision'[v].pc = "numbered" /\ revision'[v].file = f
      /\ file[f].row = "current" /\ revision[v].file = None
  BY DEF ReviseRead, Base, TypeOK, RevisionState, WorkI
<1>3. \A g \in Files : file[g].row = "gone" => (Revised(g)' => Revised(g))
  BY <1>1, <1>2 DEF Revised
<1>4. \A x \in versions : x.file \in Files
  BY DEF Base, TypeOK, VersionRow
<1>5. \A x \in versions : \/ upload[x.file].path = x.path
                          \/ \E y \in Revisions \ {v} : revision[y].file = x.file /\ revision[y].path = x.path
  BY <1>2, <1>4, RequestsAssumption DEF WorkI
<1>6. QED BY <1>1, <1>2, <1>3, <1>5 DEF WorkI

LEMMA ReviseStoreWork ==
  ASSUME Base, ListedI, WorkI, NEW v \in Revisions, ReviseStore(v)
  PROVE WorkI'
<1>1. /\ crossed' = crossed /\ versions' = versions
      /\ \A g \in Files : upload'[g].path = upload[g].path /\ file'[g].row = file[g].row
  BY DEF ReviseStore, Base, TypeOK, UploadState, FileRow
<1>2. \A x \in Revisions :
        /\ revision'[x].file = revision[x].file /\ revision'[x].path = revision[x].path
        /\ revision'[x].pc = "idle" => revision[x].pc = "idle"
        /\ revision'[x].pc \in {"numbered", "stored", "recorded"}
             => revision[x].pc \in {"numbered", "stored", "recorded"}
  BY DEF ReviseStore, Base, TypeOK, RevisionState
<1>3. crossed \subseteq Files /\ \A x \in versions : x.file \in Files
  BY DEF Base, TypeOK, VersionRow
<1>4. QED BY <1>1, <1>2, <1>3, WorkStays

LEMMA ReviseRecordWork ==
  ASSUME Base, ListedI, WorkI, NEW v \in Revisions, ReviseRecord(v)
  PROVE WorkI'
<1>1. \A x \in Revisions :
        /\ revision'[x].file = revision[x].file /\ revision'[x].path = revision[x].path
        /\ revision'[x].pc = "idle" => revision[x].pc = "idle"
        /\ revision'[x].pc \in {"numbered", "stored", "recorded"}
             => revision[x].pc \in {"numbered", "stored", "recorded"}
  BY DEF Base, TypeOK, RevisionState, ReviseRecord
<1>2. UNCHANGED <<file, upload, crossed>>
  BY DEF ReviseRecord
<1>3. \A x \in versions' : x \in versions \/ (x.file = revision[v].file /\ x.path = revision[v].path)
  BY DEF ReviseRecord
<1>4. QED BY <1>1, <1>2, <1>3 DEF WorkI, Revised

LEMMA ReviseNumberWork ==
  ASSUME Base, ListedI, WorkI, NEW v \in Revisions, ReviseNumber(v)
  PROVE WorkI'
<1>1. /\ crossed' = crossed /\ versions' = versions
      /\ \A g \in Files : upload'[g].path = upload[g].path /\ file'[g].row = file[g].row
  BY DEF ReviseNumber, Base, TypeOK, UploadState, FileRow
<1>2. \A x \in Revisions :
        /\ revision'[x].file = revision[x].file /\ revision'[x].path = revision[x].path
        /\ revision'[x].pc = "idle" => revision[x].pc = "idle"
        /\ revision'[x].pc \in {"numbered", "stored", "recorded"}
             => revision[x].pc \in {"numbered", "stored", "recorded"}
  BY DEF ReviseNumber, Base, TypeOK, RevisionState
<1>3. crossed \subseteq Files /\ \A x \in versions : x.file \in Files
  BY DEF Base, TypeOK, VersionRow
<1>4. QED BY <1>1, <1>2, <1>3, WorkStays

LEMMA ReviseFailsWork ==
  ASSUME Base, ListedI, WorkI, NEW v \in Revisions, ReviseFails(v)
  PROVE WorkI'
<1>1. /\ crossed' = crossed /\ versions' = versions
      /\ \A g \in Files : upload'[g].path = upload[g].path /\ file'[g].row = file[g].row
  BY DEF ReviseFails, Base, TypeOK, UploadState, FileRow
<1>2. \A x \in Revisions :
        /\ revision'[x].file = revision[x].file /\ revision'[x].path = revision[x].path
        /\ revision'[x].pc = "idle" => revision[x].pc = "idle"
        /\ revision'[x].pc \in {"numbered", "stored", "recorded"}
             => revision[x].pc \in {"numbered", "stored", "recorded"}
  BY DEF ReviseFails, Base, TypeOK, RevisionState
<1>3. crossed \subseteq Files /\ \A x \in versions : x.file \in Files
  BY DEF Base, TypeOK, VersionRow
<1>4. QED BY <1>1, <1>2, <1>3, WorkStays

LEMMA SweepListWork ==
  ASSUME Base, ListedI, WorkI, NEW w \in Sweeps, SweepList(w)
  PROVE WorkI'
BY RequestsAssumption DEF SweepList, Base, TypeOK, FileRow, UploadState, RevisionState, VersionRow, SweepState, Idle, RowI, RevisionI, VersionI, SweepI, WorkI, Revised, Removable

LEMMA SweepTakeWork ==
  ASSUME Base, ListedI, WorkI, NEW w \in Sweeps, NEW f \in Files, NEW kept \in BOOLEAN, SweepTake(w, f, kept)
  PROVE WorkI'
BY RequestsAssumption DEF SweepTake, Base, TypeOK, FileRow, UploadState, RevisionState, VersionRow, SweepState, Idle, RowI, RevisionI, VersionI, SweepI, WorkI, Revised, Removable

LEMMA SweepEraseWork ==
  ASSUME Base, ListedI, WorkI, NEW w \in Sweeps, NEW p \in Paths, NEW kept \in BOOLEAN, SweepErase(w, p, kept)
  PROVE WorkI'
BY RequestsAssumption DEF SweepErase, Base, TypeOK, FileRow, UploadState, RevisionState, VersionRow, SweepState, Idle, RowI, RevisionI, VersionI, SweepI, WorkI, Revised, Removable

LEMMA SweepPurgeWork ==
  ASSUME Base, ListedI, WorkI, NEW w \in Sweeps, SweepPurge(w)
  PROVE WorkI'
<1>1. UNCHANGED <<upload, revision, crossed>> /\ versions' \subseteq versions
  BY DEF SweepPurge
<1>2. sweep[w].hand \in Files /\ Listed(sweep[w].hand)
  BY DEF Base, TypeOK, SweepState, SweepPurge, Listed
<1>3. \A g \in Files : file'[g].row = IF g = sweep[w].hand THEN "gone" ELSE file[g].row
  BY <1>2 DEF Base, TypeOK, FileRow, SweepPurge
<1>4. crossed \subseteq Files
  BY DEF Base, TypeOK
<1>5. QED BY <1>1, <1>2, <1>3, <1>4 DEF WorkI, Revised, ListedI

LEMMA SweepFailsWork ==
  ASSUME Base, ListedI, WorkI, NEW w \in Sweeps, NEW dies \in BOOLEAN, SweepFails(w, dies)
  PROVE WorkI'
BY RequestsAssumption DEF SweepFails, Base, TypeOK, FileRow, UploadState, RevisionState, VersionRow, SweepState, Idle, RowI, RevisionI, VersionI, SweepI, WorkI, Revised, Removable

\* A step that leaves no object behind.
LEMMA OrphansSame ==
  ASSUME Base, OwnerI, faults' \in {faults, faults + 1},
         \A p \in Paths : store'[p] # None => Owner(p)' \/ (store[p] # None /\ ~Owner(p))
  PROVE OwnerI'
<1>1. PICK S, T : S = Orphans /\ T = Orphans'
  OBVIOUS
<1>2. T \in SUBSET S
  BY <1>1 DEF Orphans
<1>3. IsFiniteSet(S) /\ Cardinality(S) <= faults /\ faults \in Nat
  BY <1>1, FileBoundsAssumption DEF OwnerI, Base, TypeOK
<1>4. IsFiniteSet(T) /\ Cardinality(T) <= Cardinality(S) /\ Cardinality(T) \in Nat /\ Cardinality(S) \in Nat
  BY <1>2, <1>3, FS_Subset, FS_CardinalityType
<1>5. Cardinality(T) <= faults'
  BY <1>3, <1>4
<1>6. QED BY <1>1, <1>4, <1>5 DEF OwnerI

\* A failure that leaves at most the object at q behind.
LEMMA OrphansOneMore ==
  ASSUME Base, OwnerI, faults' = faults + 1, NEW q,
         \A p \in Paths : p # q /\ store'[p] # None => Owner(p)' \/ (store[p] # None /\ ~Owner(p))
  PROVE OwnerI'
<1>1. PICK S, T : S = Orphans /\ T = Orphans'
  OBVIOUS
<1>2. T \in SUBSET (S \cup {q})
  BY <1>1 DEF Orphans
<1>3. IsFiniteSet(S) /\ Cardinality(S) <= faults /\ faults \in Nat
  BY <1>1, FileBoundsAssumption DEF OwnerI, Base, TypeOK
<1>4. /\ IsFiniteSet(S \cup {q})
      /\ Cardinality(S \cup {q}) = IF q \in S THEN Cardinality(S) ELSE Cardinality(S) + 1
  BY <1>3, FS_AddElement
<1>5. Cardinality(S) \in Nat
  BY <1>3, FS_CardinalityType
<1>6. IsFiniteSet(T) /\ Cardinality(T) <= Cardinality(S \cup {q}) /\ Cardinality(T) \in Nat
  BY <1>2, <1>4, FS_Subset, FS_CardinalityType
<1>7. Cardinality(T) <= faults'
  BY <1>3, <1>4, <1>5, <1>6
<1>8. QED BY <1>1, <1>6, <1>7 DEF OwnerI

\* A step that takes nothing from the owners of a path.
LEMMA OwnerStays ==
  ASSUME NEW p, Owner(p), crossed \subseteq crossed', versions \subseteq versions',
         \A f \in Files :
           /\ upload'[f].path = upload[f].path
           /\ upload[f].pc = "stored" => upload'[f].pc = "stored"
           /\ file[f].row \in {"current", "deleted"} => file'[f].row \in {"current", "deleted"},
         \A f : SweptAt(f, p)' => SweptAt(f, p),
         \A v \in Revisions :
           revision[v].pc = "stored" \/ revision[v].file \in crossed =>
             /\ revision'[v].path = revision[v].path /\ revision'[v].file = revision[v].file
             /\ revision[v].pc = "stored" => revision'[v].pc = "stored"
  PROVE Owner(p)'
<1>1. OwnerV(p) => OwnerV(p)'
  BY DEF OwnerV
<1>2. OwnerF(p) => OwnerF(p)'
  BY DEF OwnerF
<1>3. OwnerR(p) => OwnerR(p)'
  BY DEF OwnerR
<1>4. QED BY <1>1, <1>2, <1>3 DEF Owner

LEMMA UploadFinishOwner ==
  ASSUME Base, WorkI, OwnerI, NEW f \in Files, NEW fails \in BOOLEAN, NEW sent \in SUBSET Warnings(f), UploadFinish(f, fails, sent)
  PROVE OwnerI'
<1>1. store' = store /\ faults' \in {faults, faults + 1}
  BY FileBoundsAssumption DEF UploadFinish, Base, TypeOK
<1>2. \A q, p : SweptAt(q, p)' => SweptAt(q, p)
  BY DEF UploadFinish, SweptAt, Base, TypeOK, SweepState, Idle
<1>3. /\ crossed \subseteq crossed' /\ versions \subseteq versions'
      /\ \A g \in Files :
           /\ upload'[g].path = upload[g].path
           /\ upload[g].pc = "stored" => upload'[g].pc = "stored"
           /\ file[g].row \in {"current", "deleted"} => file'[g].row \in {"current", "deleted"}
  BY DEF UploadFinish, Base, TypeOK, FileRow, UploadState
<1>4. \A x \in Revisions :
        revision[x].pc = "stored" \/ revision[x].file \in crossed =>
          /\ revision'[x].path = revision[x].path /\ revision'[x].file = revision[x].file
          /\ revision[x].pc = "stored" => revision'[x].pc = "stored"
  BY RequestsAssumption DEF UploadFinish, Base, TypeOK, RevisionState, WorkI
<1>5. \A p : Owner(p) => Owner(p)'
  BY <1>2, <1>3, <1>4, OwnerStays
<1>6. QED BY <1>1, <1>5, OrphansSame

LEMMA DeleteOwner ==
  ASSUME Base, WorkI, OwnerI, NEW f \in Files, Delete(f)
  PROVE OwnerI'
<1>1. store' = store /\ faults' \in {faults, faults + 1}
  BY FileBoundsAssumption DEF Delete, Base, TypeOK
<1>2. \A q, p : SweptAt(q, p)' => SweptAt(q, p)
  BY DEF Delete, SweptAt, Base, TypeOK, SweepState, Idle
<1>3. /\ crossed \subseteq crossed' /\ versions \subseteq versions'
      /\ \A g \in Files :
           /\ upload'[g].path = upload[g].path
           /\ upload[g].pc = "stored" => upload'[g].pc = "stored"
           /\ file[g].row \in {"current", "deleted"} => file'[g].row \in {"current", "deleted"}
  BY DEF Delete, Base, TypeOK, FileRow, UploadState
<1>4. \A x \in Revisions :
        revision[x].pc = "stored" \/ revision[x].file \in crossed =>
          /\ revision'[x].path = revision[x].path /\ revision'[x].file = revision[x].file
          /\ revision[x].pc = "stored" => revision'[x].pc = "stored"
  BY RequestsAssumption DEF Delete, Base, TypeOK, RevisionState, WorkI
<1>5. \A p : Owner(p) => Owner(p)'
  BY <1>2, <1>3, <1>4, OwnerStays
<1>6. QED BY <1>1, <1>5, OrphansSame

LEMMA ExpireOwner ==
  ASSUME Base, WorkI, OwnerI, NEW f \in Files, Expire(f)
  PROVE OwnerI'
<1>1. store' = store /\ faults' \in {faults, faults + 1}
  BY FileBoundsAssumption DEF Expire, Base, TypeOK
<1>2. \A q, p : SweptAt(q, p)' => SweptAt(q, p)
  BY DEF Expire, SweptAt, Base, TypeOK, SweepState, Idle
<1>3. /\ crossed \subseteq crossed' /\ versions \subseteq versions'
      /\ \A g \in Files :
           /\ upload'[g].path = upload[g].path
           /\ upload[g].pc = "stored" => upload'[g].pc = "stored"
           /\ file[g].row \in {"current", "deleted"} => file'[g].row \in {"current", "deleted"}
  BY DEF Expire, Base, TypeOK, FileRow, UploadState
<1>4. \A x \in Revisions :
        revision[x].pc = "stored" \/ revision[x].file \in crossed =>
          /\ revision'[x].path = revision[x].path /\ revision'[x].file = revision[x].file
          /\ revision[x].pc = "stored" => revision'[x].pc = "stored"
  BY RequestsAssumption DEF Expire, Base, TypeOK, RevisionState, WorkI
<1>5. \A p : Owner(p) => Owner(p)'
  BY <1>2, <1>3, <1>4, OwnerStays
<1>6. QED BY <1>1, <1>5, OrphansSame

LEMMA RestoreOwner ==
  ASSUME Base, WorkI, OwnerI, NEW f \in Files, Restore(f)
  PROVE OwnerI'
<1>1. store' = store /\ faults' \in {faults, faults + 1}
  BY FileBoundsAssumption DEF Restore, Base, TypeOK
<1>2. \A q, p : SweptAt(q, p)' => SweptAt(q, p)
  BY DEF Restore, SweptAt, Base, TypeOK, SweepState, Idle
<1>3. /\ crossed \subseteq crossed' /\ versions \subseteq versions'
      /\ \A g \in Files :
           /\ upload'[g].path = upload[g].path
           /\ upload[g].pc = "stored" => upload'[g].pc = "stored"
           /\ file[g].row \in {"current", "deleted"} => file'[g].row \in {"current", "deleted"}
  BY DEF Restore, Base, TypeOK, FileRow, UploadState
<1>4. \A x \in Revisions :
        revision[x].pc = "stored" \/ revision[x].file \in crossed =>
          /\ revision'[x].path = revision[x].path /\ revision'[x].file = revision[x].file
          /\ revision[x].pc = "stored" => revision'[x].pc = "stored"
  BY RequestsAssumption DEF Restore, Base, TypeOK, RevisionState, WorkI
<1>5. \A p : Owner(p) => Owner(p)'
  BY <1>2, <1>3, <1>4, OwnerStays
<1>6. QED BY <1>1, <1>5, OrphansSame

LEMMA ReviseReadOwner ==
  ASSUME Base, WorkI, OwnerI, NEW v \in Revisions, NEW f \in Files, NEW n \in Names, NEW c \in Contents, ReviseRead(v, f, n, c)
  PROVE OwnerI'
<1>1. store' = store /\ faults' \in {faults, faults + 1}
  BY FileBoundsAssumption DEF ReviseRead, Base, TypeOK
<1>2. \A q, p : SweptAt(q, p)' => SweptAt(q, p)
  BY DEF ReviseRead, SweptAt, Base, TypeOK, SweepState, Idle
<1>3. /\ crossed \subseteq crossed' /\ versions \subseteq versions'
      /\ \A g \in Files :
           /\ upload'[g].path = upload[g].path
           /\ upload[g].pc = "stored" => upload'[g].pc = "stored"
           /\ file[g].row \in {"current", "deleted"} => file'[g].row \in {"current", "deleted"}
  BY DEF ReviseRead, Base, TypeOK, FileRow, UploadState
<1>4. \A x \in Revisions :
        revision[x].pc = "stored" \/ revision[x].file \in crossed =>
          /\ revision'[x].path = revision[x].path /\ revision'[x].file = revision[x].file
          /\ revision[x].pc = "stored" => revision'[x].pc = "stored"
  BY RequestsAssumption DEF ReviseRead, Base, TypeOK, RevisionState, WorkI
<1>5. \A p : Owner(p) => Owner(p)'
  BY <1>2, <1>3, <1>4, OwnerStays
<1>6. QED BY <1>1, <1>5, OrphansSame

LEMMA ReviseNumberOwner ==
  ASSUME Base, WorkI, OwnerI, NEW v \in Revisions, ReviseNumber(v)
  PROVE OwnerI'
<1>1. store' = store /\ faults' \in {faults, faults + 1}
  BY FileBoundsAssumption DEF ReviseNumber, Base, TypeOK
<1>2. \A q, p : SweptAt(q, p)' => SweptAt(q, p)
  BY DEF ReviseNumber, SweptAt, Base, TypeOK, SweepState, Idle
<1>3. /\ crossed \subseteq crossed' /\ versions \subseteq versions'
      /\ \A g \in Files :
           /\ upload'[g].path = upload[g].path
           /\ upload[g].pc = "stored" => upload'[g].pc = "stored"
           /\ file[g].row \in {"current", "deleted"} => file'[g].row \in {"current", "deleted"}
  BY DEF ReviseNumber, Base, TypeOK, FileRow, UploadState
<1>4. \A x \in Revisions :
        revision[x].pc = "stored" \/ revision[x].file \in crossed =>
          /\ revision'[x].path = revision[x].path /\ revision'[x].file = revision[x].file
          /\ revision[x].pc = "stored" => revision'[x].pc = "stored"
  BY RequestsAssumption DEF ReviseNumber, Base, TypeOK, RevisionState, WorkI
<1>5. \A p : Owner(p) => Owner(p)'
  BY <1>2, <1>3, <1>4, OwnerStays
<1>6. QED BY <1>1, <1>5, OrphansSame

LEMMA SweepListOwner ==
  ASSUME Base, WorkI, OwnerI, NEW w \in Sweeps, SweepList(w)
  PROVE OwnerI'
<1>1. store' = store /\ faults' \in {faults, faults + 1}
  BY FileBoundsAssumption DEF SweepList, Base, TypeOK
<1>2. \A q, p : SweptAt(q, p)' => SweptAt(q, p)
  BY DEF SweepList, SweptAt, Base, TypeOK, SweepState, Idle
<1>3. /\ crossed \subseteq crossed' /\ versions \subseteq versions'
      /\ \A g \in Files :
           /\ upload'[g].path = upload[g].path
           /\ upload[g].pc = "stored" => upload'[g].pc = "stored"
           /\ file[g].row \in {"current", "deleted"} => file'[g].row \in {"current", "deleted"}
  BY DEF SweepList, Base, TypeOK, FileRow, UploadState
<1>4. \A x \in Revisions :
        revision[x].pc = "stored" \/ revision[x].file \in crossed =>
          /\ revision'[x].path = revision[x].path /\ revision'[x].file = revision[x].file
          /\ revision[x].pc = "stored" => revision'[x].pc = "stored"
  BY RequestsAssumption DEF SweepList, Base, TypeOK, RevisionState, WorkI
<1>5. \A p : Owner(p) => Owner(p)'
  BY <1>2, <1>3, <1>4, OwnerStays
<1>6. QED BY <1>1, <1>5, OrphansSame

LEMMA UploadCreateFailsOwner ==
  ASSUME Base, WorkI, OwnerI, NEW f \in Files, UploadCreateFails(f)
  PROVE OwnerI'
<1>1. UNCHANGED <<file, versions, revision, sweep, crossed>> /\ faults' = faults + 1
  BY DEF UploadCreateFails
<1>2. PICK q : q = upload[f].path
  OBVIOUS
<1>3. /\ \A g \in Files \ {f} : upload'[g] = upload[g]
      /\ \A p \in Paths \ {q} : store'[p] = store[p]
      /\ q \in Paths => store'[q] = None
  BY <1>2 DEF UploadCreateFails, Base, TypeOK
<1>4. ASSUME NEW p \in Paths, p # q, Owner(p) PROVE Owner(p)'
  <2>1. OwnerV(p) => OwnerV(p)'
    BY <1>1 DEF OwnerV, SweptAt
  <2>2. OwnerF(p) => OwnerF(p)'
    BY <1>1, <1>2, <1>3, <1>4 DEF OwnerF, SweptAt
  <2>3. OwnerR(p) => OwnerR(p)'
    BY <1>1, <1>2, <1>3, <1>4 DEF OwnerR
  <2>4. QED BY <1>4, <2>1, <2>2, <2>3 DEF Owner
<1>5. QED BY <1>1, <1>3, <1>4, OrphansSame

\* The row that is committed answers, if there is still an object.
LEMMA UploadVerifyFailsOwner ==
  ASSUME Base, WorkI, OwnerI, NEW f \in Files, UploadVerifyFails(f)
  PROVE OwnerI'
<1>1. (\A p \in Paths : store'[p] # None => store[p] # None) /\ faults' \in {faults, faults + 1}
  BY FileBoundsAssumption DEF UploadVerifyFails, Base, TypeOK
<1>2. \A q, p : SweptAt(q, p)' => SweptAt(q, p)
  BY DEF UploadVerifyFails, SweptAt, Base, TypeOK, SweepState, Idle
<1>3. /\ crossed \subseteq crossed' /\ versions \subseteq versions'
      /\ \A g \in Files :
           /\ upload'[g].path = upload[g].path
           /\ upload[g].pc = "stored" => upload'[g].pc = "stored"
           /\ file[g].row \in {"current", "deleted"} => file'[g].row \in {"current", "deleted"}
  BY DEF UploadVerifyFails, Base, TypeOK, FileRow, UploadState
<1>4. \A x \in Revisions :
        revision[x].pc = "stored" \/ revision[x].file \in crossed =>
          /\ revision'[x].path = revision[x].path /\ revision'[x].file = revision[x].file
          /\ revision[x].pc = "stored" => revision'[x].pc = "stored"
  BY RequestsAssumption DEF UploadVerifyFails, Base, TypeOK, RevisionState, WorkI
<1>5. \A p : Owner(p) => Owner(p)'
  BY <1>2, <1>3, <1>4, OwnerStays
<1>6. QED BY <1>1, <1>5, OrphansSame

\* A worker that dies before there is a row leaves its object behind.
LEMMA UploadCrashOwner ==
  ASSUME Base, WorkI, OwnerI, NEW f \in Files, UploadCrash(f)
  PROVE OwnerI'
<1>1. UNCHANGED <<file, versions, store, revision, sweep, crossed>> /\ faults' = faults + 1
  BY DEF UploadCrash
<1>2. PICK q : q = upload[f].path
  OBVIOUS
<1>3. \A g \in Files \ {f} : upload'[g] = upload[g]
  BY DEF UploadCrash, Base, TypeOK
<1>4. ASSUME NEW p \in Paths, p # q, Owner(p) PROVE Owner(p)'
  <2>1. OwnerV(p) => OwnerV(p)'
    BY <1>1 DEF OwnerV, SweptAt
  <2>2. OwnerF(p) => OwnerF(p)'
    BY <1>1, <1>2, <1>3, <1>4 DEF OwnerF, SweptAt
  <2>3. OwnerR(p) => OwnerR(p)'
    BY <1>1, <1>2, <1>3, <1>4 DEF OwnerR
  <2>4. QED BY <1>4, <2>1, <2>2, <2>3 DEF Owner
<1>5. QED BY <1>1, <1>4, OrphansOneMore

\* Nor does a new version take its object with it.
LEMMA ReviseFailsOwner ==
  ASSUME Base, WorkI, OwnerI, NEW v \in Revisions, ReviseFails(v)
  PROVE OwnerI'
<1>1. UNCHANGED <<file, versions, store, upload, sweep, crossed>> /\ faults' = faults + 1
  BY DEF ReviseFails
<1>2. PICK q : q = revision[v].path
  OBVIOUS
<1>3. \A x \in Revisions \ {v} : revision'[x] = revision[x]
  BY DEF ReviseFails, Base, TypeOK
<1>4. ASSUME NEW p \in Paths, p # q, Owner(p) PROVE Owner(p)'
  <2>1. OwnerV(p) => OwnerV(p)'
    BY <1>1 DEF OwnerV, SweptAt
  <2>2. OwnerF(p) => OwnerF(p)'
    BY <1>1, <1>2, <1>3, <1>4 DEF OwnerF, SweptAt
  <2>3. OwnerR(p) => OwnerR(p)'
    BY <1>1, <1>2, <1>3, <1>4 DEF OwnerR
  <2>4. QED BY <1>4, <2>1, <2>2, <2>3 DEF Owner
<1>5. QED BY <1>1, <1>4, OrphansOneMore

\* The row of the file stays, and the sweep crossed it.
LEMMA SweepFailsOwner ==
  ASSUME Base, WorkI, OwnerI, NEW w \in Sweeps, NEW dies \in BOOLEAN, SweepFails(w, dies)
  PROVE OwnerI'
<1>1. store' = store /\ faults' \in {faults, faults + 1}
  BY FileBoundsAssumption DEF SweepFails, Base, TypeOK
<1>2. \A q \in Files : \A p : SweptAt(q, p)' => SweptAt(q, p)
  <2> SUFFICES ASSUME NEW q \in Files, NEW p, NEW x \in Sweeps,
                      sweep'[x].hand = q, p \notin sweep'[x].paths
               PROVE sweep[x].hand = q /\ p \notin sweep[x].paths
    BY DEF SweptAt
  <2>1. x # w \/ sweep'[x].hand = None
    BY DEF SweepFails, Base, TypeOK, SweepState, Idle
  <2>2. x # w
    BY <2>1, RequestsAssumption
  <2>3. sweep'[x] = sweep[x]
    BY <2>2 DEF SweepFails, Base, TypeOK
  <2>4. QED BY <2>3
<1>3. /\ crossed \subseteq crossed' /\ versions \subseteq versions'
      /\ \A g \in Files :
           /\ upload'[g].path = upload[g].path
           /\ upload[g].pc = "stored" => upload'[g].pc = "stored"
           /\ file[g].row \in {"current", "deleted"} => file'[g].row \in {"current", "deleted"}
  BY DEF SweepFails, Base, TypeOK, FileRow, UploadState
<1>4. \A x \in Revisions :
        revision[x].pc = "stored" \/ revision[x].file \in crossed =>
          /\ revision'[x].path = revision[x].path /\ revision'[x].file = revision[x].file
          /\ revision[x].pc = "stored" => revision'[x].pc = "stored"
  BY RequestsAssumption DEF SweepFails, Base, TypeOK, RevisionState, WorkI
<1>5. ASSUME NEW p, Owner(p) PROVE Owner(p)'
  <2>1. OwnerV(p) => OwnerV(p)'
    <3>1. \A x \in versions : x.file \in Files
      BY DEF Base, TypeOK, VersionRow
    <3>2. QED BY <1>2, <1>3, <3>1 DEF OwnerV
  <2>2. OwnerF(p) => OwnerF(p)'
    BY <1>2, <1>3 DEF OwnerF
  <2>3. OwnerR(p) => OwnerR(p)'
    BY <1>3, <1>4 DEF OwnerR
  <2>4. QED BY <1>5, <2>1, <2>2, <2>3 DEF Owner
<1>6. QED BY <1>1, <1>5, OrphansSame

LEMMA UploadReadOwner ==
  ASSUME Base, WorkI, OwnerI, NEW f \in Files, NEW s \in Scopes, UploadRead(f, s)
  PROVE OwnerI'
<1>1. store' = store /\ faults' \in {faults, faults + 1}
  BY FileBoundsAssumption DEF UploadRead, Base, TypeOK
<1>2. \A q, p : SweptAt(q, p)' => SweptAt(q, p)
  BY DEF UploadRead, SweptAt, Base, TypeOK, SweepState, Idle
<1>3. /\ crossed \subseteq crossed' /\ versions \subseteq versions'
      /\ \A g \in Files :
           /\ upload'[g].path = upload[g].path
           /\ upload[g].pc = "stored" => upload'[g].pc = "stored"
           /\ file[g].row \in {"current", "deleted"} => file'[g].row \in {"current", "deleted"}
  BY DEF UploadRead, Base, TypeOK, FileRow, UploadState
<1>4. \A x \in Revisions :
        revision[x].pc = "stored" \/ revision[x].file \in crossed =>
          /\ revision'[x].path = revision[x].path /\ revision'[x].file = revision[x].file
          /\ revision[x].pc = "stored" => revision'[x].pc = "stored"
  BY RequestsAssumption DEF UploadRead, Base, TypeOK, RevisionState, WorkI
<1>5. \A p : Owner(p) => Owner(p)'
  BY <1>2, <1>3, <1>4, OwnerStays
<1>6. QED BY <1>1, <1>5, OrphansSame

LEMMA UploadCheckOwner ==
  ASSUME Base, WorkI, OwnerI, NEW f \in Files, NEW s \in Scopes, UploadCheck(f, s)
  PROVE OwnerI'
<1>1. store' = store /\ faults' \in {faults, faults + 1}
  BY FileBoundsAssumption DEF UploadCheck, Base, TypeOK
<1>2. \A q, p : SweptAt(q, p)' => SweptAt(q, p)
  BY DEF UploadCheck, SweptAt, Base, TypeOK, SweepState, Idle
<1>3. /\ crossed \subseteq crossed' /\ versions \subseteq versions'
      /\ \A g \in Files :
           /\ upload'[g].path = upload[g].path
           /\ upload[g].pc = "stored" => upload'[g].pc = "stored"
           /\ file[g].row \in {"current", "deleted"} => file'[g].row \in {"current", "deleted"}
  BY DEF UploadCheck, Base, TypeOK, FileRow, UploadState
<1>4. \A x \in Revisions :
        revision[x].pc = "stored" \/ revision[x].file \in crossed =>
          /\ revision'[x].path = revision[x].path /\ revision'[x].file = revision[x].file
          /\ revision[x].pc = "stored" => revision'[x].pc = "stored"
  BY RequestsAssumption DEF UploadCheck, Base, TypeOK, RevisionState, WorkI
<1>5. \A p : Owner(p) => Owner(p)'
  BY <1>2, <1>3, <1>4, OwnerStays
<1>6. QED BY <1>1, <1>5, OrphansSame

LEMMA UploadRefuseOwner ==
  ASSUME Base, WorkI, OwnerI, NEW f \in Files, NEW s \in Scopes, UploadRefuse(f, s)
  PROVE OwnerI'
<1>1. store' = store /\ faults' \in {faults, faults + 1}
  BY FileBoundsAssumption DEF UploadRefuse, Base, TypeOK
<1>2. \A q, p : SweptAt(q, p)' => SweptAt(q, p)
  BY DEF UploadRefuse, SweptAt, Base, TypeOK, SweepState, Idle
<1>3. /\ crossed \subseteq crossed' /\ versions \subseteq versions'
      /\ \A g \in Files :
           /\ upload'[g].path = upload[g].path
           /\ upload[g].pc = "stored" => upload'[g].pc = "stored"
           /\ file[g].row \in {"current", "deleted"} => file'[g].row \in {"current", "deleted"}
  BY DEF UploadRefuse, Base, TypeOK, FileRow, UploadState
<1>4. \A x \in Revisions :
        revision[x].pc = "stored" \/ revision[x].file \in crossed =>
          /\ revision'[x].path = revision[x].path /\ revision'[x].file = revision[x].file
          /\ revision[x].pc = "stored" => revision'[x].pc = "stored"
  BY RequestsAssumption DEF UploadRefuse, Base, TypeOK, RevisionState, WorkI
<1>5. \A p : Owner(p) => Owner(p)'
  BY <1>2, <1>3, <1>4, OwnerStays
<1>6. QED BY <1>1, <1>5, OrphansSame

\* The upload answers for what it stores.
LEMMA UploadStoreOwner ==
  ASSUME Base, WorkI, OwnerI, NEW f \in Files, NEW n \in Names, UploadStore(f, <<0, n>>)
  PROVE OwnerI'
<1>1. UNCHANGED <<file, versions, revision, sweep, crossed, faults>>
  BY DEF UploadStore
<1>2. /\ \A g \in Files \ {f} : upload'[g] = upload[g]
      /\ upload[f].pc = "idle" /\ upload'[f].pc = "stored" /\ upload'[f].path = <<0, n>>
      /\ file[f].row = "none" /\ f \notin crossed
  BY DEF UploadStore, Base, TypeOK, UploadState, RowI, WorkI
<1>3. \A p \in Paths \ {<<0, n>>} : store'[p] = store[p]
  BY DEF UploadStore, Base, TypeOK
<1>4. ASSUME NEW p \in Paths, Owner(p) PROVE Owner(p)'
  <2>1. OwnerV(p) => OwnerV(p)'
    BY <1>1 DEF OwnerV, SweptAt
  <2>2. OwnerF(p) => OwnerF(p)'
    BY <1>1, <1>2 DEF OwnerF, SweptAt
  <2>3. OwnerR(p) => OwnerR(p)'
    BY <1>1 DEF OwnerR
  <2>4. QED BY <1>4, <2>1, <2>2, <2>3 DEF Owner
<1>5. ASSUME NEW p \in Paths, p = <<0, n>> PROVE Owner(p)'
  BY <1>2, <1>5 DEF Owner, OwnerF
<1>6. QED BY <1>1, <1>3, <1>4, <1>5, OrphansSame

\* The new row answers for the object; no sweep can have had it.
LEMMA UploadCreateOwner ==
  ASSUME Base, WorkI, OwnerI, NEW f \in Files, UploadCreate(f)
  PROVE OwnerI'
<1>1. UNCHANGED <<versions, store, revision, sweep, crossed, faults>>
  BY DEF UploadCreate
<1>2. /\ \A g \in Files \ {f} : upload'[g] = upload[g] /\ file'[g] = file[g]
      /\ upload'[f].path = upload[f].path /\ file'[f].row = "current" /\ file[f].row = "none"
  BY DEF UploadCreate, Base, TypeOK, UploadState, RowI
<1>3. \A p : ~SweptAt(f, p)'
  BY <1>1, <1>2 DEF SweptAt, Base, SweepI
<1>4. ASSUME NEW p \in Paths, Owner(p) PROVE Owner(p)'
  <2>1. OwnerV(p) => OwnerV(p)'
    BY <1>1 DEF OwnerV, SweptAt
  <2>2. OwnerF(p) => OwnerF(p)'
    <3>1. \A g : SweptAt(g, p)' => SweptAt(g, p)
      BY <1>1 DEF SweptAt
    <3>2. QED BY <1>1, <1>2, <1>3, <3>1 DEF OwnerF
  <2>3. OwnerR(p) => OwnerR(p)'
    BY <1>1 DEF OwnerR
  <2>4. QED BY <1>4, <2>1, <2>2, <2>3 DEF Owner
<1>5. QED BY <1>1, <1>4, OrphansSame

LEMMA ReviseStoreOwner ==
  ASSUME Base, WorkI, OwnerI, NEW v \in Revisions, ReviseStore(v)
  PROVE OwnerI'
<1>1. UNCHANGED <<file, versions, upload, sweep, crossed, faults>>
  BY DEF ReviseStore
<1>2. /\ \A x \in Revisions \ {v} : revision'[x] = revision[x]
      /\ revision[v].pc = "numbered" /\ revision'[v].pc = "stored"
      /\ revision'[v].path = revision[v].path /\ revision'[v].file = revision[v].file
  BY DEF ReviseStore, Base, TypeOK, RevisionState
<1>3. \A p \in Paths \ {revision[v].path} : store'[p] = store[p]
  BY DEF ReviseStore, Base, TypeOK
<1>4. ASSUME NEW p \in Paths, Owner(p) PROVE Owner(p)'
  <2>1. \A q : SweptAt(q, p)' => SweptAt(q, p)
    BY <1>1 DEF SweptAt
  <2>2. QED BY <1>1, <1>2, <1>4, <2>1, OwnerStays
<1>5. ASSUME NEW p \in Paths, p = revision[v].path PROVE Owner(p)'
  BY <1>2, <1>5 DEF Owner, OwnerR
<1>6. QED BY <1>1, <1>3, <1>4, <1>5, OrphansSame

\* The version answers for the object from now on, unless the file is gone or a
\* sweep has it: then a sweep crossed it.
LEMMA ReviseRecordOwner ==
  ASSUME Base, ListedI, WorkI, OwnerI, NEW v \in Revisions, ReviseRecord(v)
  PROVE OwnerI'
<1> SUFFICES ASSUME NEW f, NEW q, f = revision[v].file, q = revision[v].path PROVE OwnerI'
  OBVIOUS
<1>1. UNCHANGED <<file, store, upload, sweep, crossed, faults>>
  BY DEF ReviseRecord
<1>2. /\ \A x \in Revisions \ {v} : revision'[x] = revision[x]
      /\ revision[v].pc = "stored" /\ revision'[v].path = q /\ revision'[v].file = f
      /\ f \in Files /\ versions \subseteq versions'
  BY DEF ReviseRecord, Base, TypeOK, RevisionState, RevisionI
<1>3. Revised(f)
  BY <1>2 DEF Revised
<1>4. CASE f \in crossed
  <2>1. ASSUME NEW p \in Paths, Owner(p) PROVE Owner(p)'
    <3>1. OwnerV(p) => OwnerV(p)'
      BY <1>1, <1>2 DEF OwnerV, SweptAt
    <3>2. OwnerF(p) => OwnerF(p)'
      BY <1>1 DEF OwnerF, SweptAt
    <3>3. OwnerR(p) => OwnerR(p)'
      BY <1>1, <1>2, <1>4 DEF OwnerR
    <3>4. QED BY <2>1, <3>1, <3>2, <3>3 DEF Owner
  <2>2. QED BY <1>1, <2>1, OrphansSame
<1>5. CASE f \notin crossed
  <2>1. file[f].row # "gone"
    BY <1>2, <1>3, <1>5 DEF WorkI
  <2>2. PICK x \in versions' : x.file = f /\ x.path = q
    <3>1. [file |-> f, number |-> revision[v].number, path |-> q, content |-> revision[v].content] \in versions'
      BY <2>1 DEF ReviseRecord
    <3>2. QED BY <3>1
  <2>3. ~SweptAt(f, q)'
    <3>1. ~Listed(f)
      BY <1>2, <1>3, <1>5 DEF ListedI
    <3>2. QED BY <1>1, <1>2, <3>1 DEF SweptAt, Listed
  <2>4. OwnerV(q)'
    BY <2>2, <2>3 DEF OwnerV
  <2>5. ASSUME NEW p \in Paths, p # q, Owner(p) PROVE Owner(p)'
    <3>1. OwnerV(p) => OwnerV(p)'
      BY <1>1, <1>2 DEF OwnerV, SweptAt
    <3>2. OwnerF(p) => OwnerF(p)'
      BY <1>1 DEF OwnerF, SweptAt
    <3>3. OwnerR(p) => OwnerR(p)'
      BY <1>1, <1>2, <2>5 DEF OwnerR
    <3>4. QED BY <2>5, <3>1, <3>2, <3>3 DEF Owner
  <2>6. ASSUME NEW p \in Paths, p = q PROVE Owner(p)'
    BY <2>2, <2>3, <2>6 DEF Owner, OwnerV
  <2>7. QED BY <1>1, <2>5, <2>6, OrphansSame
<1>6. QED BY <1>4, <1>5

\* The sweep deletes the object of the file and keeps the paths of its versions
\* to delete next.
LEMMA SweepTakeOwner ==
  ASSUME Base, WorkI, OwnerI, NEW w \in Sweeps, NEW f \in Files, NEW kept \in BOOLEAN, SweepTake(w, f, kept)
  PROVE OwnerI'
<1>1. UNCHANGED <<file, versions, upload, revision, crossed>>
  BY DEF SweepTake
<1>2. sweep[w].hand = None
  BY DEF SweepTake
<1>3. ASSUME NEW p \in Paths, Owner(p), store'[p] # None, kept => p # upload[f].path PROVE Owner(p)'
  <2>1. \A x \in Sweeps \ {w} : sweep'[x] = sweep[x]
    BY DEF SweepTake, Base, TypeOK
  <2>2. \/ sweep'[w].hand = None
        \/ /\ sweep'[w].hand = f /\ sweep'[w].paths = {x.path : x \in {y \in versions : y.file = f}}
           /\ upload[f].path \in Paths /\ ~kept => store'[upload[f].path] = None
    BY DEF SweepTake, Base, TypeOK, SweepState, Idle
  <2>3. \A g \in Files : SweptAt(g, p)' => \/ SweptAt(g, p)
                                           \/ g = f /\ sweep'[w].hand = f /\ p \notin sweep'[w].paths
    BY <2>1, <2>2, RequestsAssumption DEF SweptAt
  <2>4. ASSUME NEW x \in versions, x.path = p, ~SweptAt(x.file, p) PROVE ~SweptAt(x.file, p)'
    <3>1. x.file \in Files
      BY DEF Base, TypeOK, VersionRow
    <3>2. x.file = f /\ sweep'[w].hand = f => p \in sweep'[w].paths
      BY <2>2, <2>4, RequestsAssumption
    <3>3. QED BY <2>3, <2>4, <3>1, <3>2
  <2>5. ASSUME NEW g \in Files, upload[g].path = p, ~SweptAt(g, p) PROVE ~SweptAt(g, p)'
    <3>1. g = f => sweep'[w].hand = None
      BY <1>3, <2>2, <2>5
    <3>2. QED BY <2>3, <2>5, <3>1, RequestsAssumption
  <2>6. OwnerV(p) => OwnerV(p)'
    BY <1>1, <2>4 DEF OwnerV
  <2>7. OwnerF(p) => OwnerF(p)'
    BY <1>1, <2>5 DEF OwnerF
  <2>8. OwnerR(p) => OwnerR(p)'
    BY <1>1 DEF OwnerR
  <2>9. QED BY <1>3, <2>6, <2>7, <2>8 DEF Owner
<1>4. \A p \in Paths : store'[p] # None => store[p] # None
  BY DEF SweepTake, Base, TypeOK
<1>5. faults' = IF kept THEN faults + 1 ELSE faults
  BY DEF SweepTake
<1>6. CASE kept
  BY <1>3, <1>4, <1>5, <1>6, OrphansOneMore
<1>7. CASE ~kept
  BY <1>3, <1>4, <1>5, <1>7, OrphansSame
<1>8. QED BY <1>6, <1>7

LEMMA SweepEraseOwner ==
  ASSUME Base, WorkI, OwnerI, NEW w \in Sweeps, NEW q \in Paths, NEW kept \in BOOLEAN, SweepErase(w, q, kept)
  PROVE OwnerI'
<1>1. UNCHANGED <<file, versions, upload, revision, crossed>>
  BY DEF SweepErase
<1>2. /\ ~kept => store'[q] = None
      /\ \A p \in Paths \ {q} : store'[p] = store[p]
      /\ faults' = IF kept THEN faults + 1 ELSE faults
  BY DEF SweepErase, Base, TypeOK
<1>3. ASSUME NEW p \in Paths, p # q, Owner(p) PROVE Owner(p)'
  <2>1. \A x \in Sweeps : sweep'[x].hand = sweep[x].hand /\ (p \in sweep'[x].paths <=> p \in sweep[x].paths)
    BY <1>3 DEF SweepErase, Base, TypeOK, SweepState
  <2>2. \A g : SweptAt(g, p)' => SweptAt(g, p)
    BY <2>1 DEF SweptAt
  <2>3. QED BY <1>1, <1>3, <2>2, OwnerStays
<1>4. CASE kept
  BY <1>2, <1>3, <1>4, OrphansOneMore
<1>5. CASE ~kept
  BY <1>2, <1>3, <1>5, OrphansSame
<1>6. QED BY <1>4, <1>5

\* The file and its versions answer for nothing any more, or a sweep crossed the
\* file and the requests that stored them answer.
LEMMA SweepPurgeOwner ==
  ASSUME Base, WorkI, OwnerI, NEW w \in Sweeps, SweepPurge(w)
  PROVE OwnerI'
<1> DEFINE f == sweep[w].hand
<1>1. UNCHANGED <<store, upload, revision, crossed, faults>>
  BY DEF SweepPurge
<1>2. f \in Files /\ \A p : SweptAt(f, p)
  BY DEF SweepPurge, Base, TypeOK, SweepState, SweptAt
<1>3. \A g \in Files \ {f} : file'[g] = file[g]
  BY <1>2 DEF SweepPurge, Base, TypeOK
<1>4. \A x \in versions : x.file # f => x \in versions'
  BY DEF SweepPurge
<1>5. \A g \in Files : \A p : SweptAt(g, p)' => SweptAt(g, p)
  <2>1. \A x \in Sweeps \ {w} : sweep'[x] = sweep[x]
    BY DEF SweepPurge, Base, TypeOK
  <2>2. sweep'[w].hand = None
    BY DEF SweepPurge, Base, TypeOK, SweepState, Idle
  <2>3. QED BY <2>1, <2>2, RequestsAssumption DEF SweptAt
<1>6. ASSUME NEW p \in Paths, Owner(p) PROVE Owner(p)'
  <2>1. ASSUME OwnerV(p) PROVE Owner(p)'
    <3>1. PICK x \in versions : x.path = p /\ (x.file \in crossed \/ ~SweptAt(x.file, p))
      BY <2>1 DEF OwnerV
    <3>2. x.file \in Files
      BY DEF Base, TypeOK, VersionRow
    <3>3. CASE x.file # f
      BY <1>1, <1>4, <1>5, <3>1, <3>2, <3>3 DEF Owner, OwnerV
    <3>4. CASE x.file = f
      <4>1. f \in crossed
        BY <1>2, <3>1, <3>4
      <4>2. upload[f].path = p \/ \E v \in Revisions : revision[v].file = f /\ revision[v].path = p
        BY <3>1, <3>4 DEF WorkI
      <4>3. f \in crossed'
        BY <1>1, <4>1
      <4> HIDE DEF f
      <4>4. QED BY <1>1, <1>2, <4>2, <4>3 DEF Owner, OwnerF, OwnerR
    <3>5. QED BY <3>3, <3>4
  <2>2. OwnerF(p) => OwnerF(p)'
    BY <1>1, <1>2, <1>3, <1>5 DEF OwnerF
  <2>3. OwnerR(p) => OwnerR(p)'
    BY <1>1 DEF OwnerR
  <2>4. QED BY <1>6, <2>1, <2>2, <2>3 DEF Owner
<1>7. QED BY <1>1, <1>6, OrphansSame

LEMMA OwnersAnswer ==
  ASSUME Base, OwnerI
  PROVE OrphansFromFailures
<1>1. PICK S, T : S = Orphans /\ T = {p \in Paths : store[p] # None /\ ~Answered(p)}
  OBVIOUS
<1>2. T \in SUBSET S
  BY <1>1 DEF Orphans, Owner, OwnerV, OwnerF, OwnerR, Answered
<1>3. IsFiniteSet(S) /\ Cardinality(S) <= faults /\ faults \in Nat
  BY <1>1, FileBoundsAssumption DEF OwnerI, Base, TypeOK
<1>4. Cardinality(T) <= Cardinality(S) /\ Cardinality(T) \in Nat /\ Cardinality(S) \in Nat
  BY <1>2, <1>3, FS_Subset, FS_CardinalityType
<1>5. Cardinality(T) <= faults
  BY <1>3, <1>4
<1>6. QED BY <1>1, <1>5 DEF OrphansFromFailures

-----------------------------------------------------------------------------
Inv ==
  /\ Base /\ ListedI /\ Content /\ QuotaKept
  /\ NumberedI /\ WarnedI /\ WorkI /\ OwnerI

LEMMA InitInv == Init => Inv
<1> SUFFICES ASSUME Init PROVE Inv
  OBVIOUS
<1>1. TypeOK
  BY ScopesAssumption, FileBoundsAssumption DEF Init, TypeOK, FileRow, VersionRow, UploadState, RevisionState, SweepState, Idle, NoUsage, ScopesOf
<1>2. Base
  BY <1>1, RequestsAssumption DEF Init, Base, RowI, RevisionI, VersionI, SweepI, Idle
<1>3. ListedI
  BY RequestsAssumption DEF Init, ListedI, Listed, Revised, Idle
<1>4. Content
  BY DEF Init, Content, ContentI, RevisedI, VersionsI, PathsI, Sound, Kept, Idle
<1>5. QuotaKept
  <2>1. SUFFICES ASSUME NEW u \in Scopes PROVE Cardinality(Bytes(Taken(u))) <= Quota[u] + peak[u]
    BY DEF QuotaKept
  <2>2. Taken(u) = {}
    BY ScopesAssumption DEF Init, InFlight, Busy, Taken, ScopesOf
  <2>3. Bytes({}) = {}
    BY DEF Bytes
  <2>4. Cardinality(Bytes(Taken(u))) = 0
    BY <2>2, <2>3, FS_EmptySet
  <2>5. peak[u] = 0 /\ Quota[u] \in Nat
    BY ScopesAssumption DEF Init
  <2>6. QED BY <2>4, <2>5
<1>6. NumberedI
  BY DEF Init, NumberedI, Numbered, Carried, Revised, Open
<1>7. WarnedI
  <2>1. \A u \in Scopes : {f \in Counted[u] : file[f].row = "current"} = {} /\ Busy(u) = {}
    BY ScopesAssumption DEF Init, Busy, ScopesOf
  <2>2. Bytes({}) = {}
    BY DEF Bytes
  <2>3. \A u \in Scopes : Usage(u) = 0
    BY <2>1, <2>2, FS_EmptySet DEF Usage
  <2>4. \A u \in Scopes : \A t \in Thresholds[u] : ~(t <= Usage(u))
    BY <2>3, ThresholdsNat
  <2>5. QED BY <2>1, <2>4 DEF WarnedI
<1>8. WorkI
  BY DEF Init, WorkI, Revised
<1>9. OwnerI
  <2>1. Orphans = {} /\ faults = 0
    BY DEF Init, Orphans
  <2>2. IsFiniteSet({}) /\ Cardinality({}) = 0
    BY FS_EmptySet
  <2>3. QED BY <2>1, <2>2 DEF OwnerI
<1>10. QED BY <1>2, <1>3, <1>4, <1>5, <1>6, <1>7, <1>8, <1>9 DEF Inv

LEMMA NextInv ==
  ASSUME Inv, Next
  PROVE Inv'
<1> USE DEF Inv
<1>1. ASSUME NEW f \in Files, NEW s \in Scopes, UploadCheck(f, s) PROVE Inv'
  <2>1. Base'
    BY <1>1, UploadCheckBase
  <2>2. QED BY <1>1, <2>1, UploadCheckListed, UploadCheckContent, UploadCheckQuota,
       UploadCheckNumbered, UploadCheckWarned, UploadCheckWork, UploadCheckOwner
<1>2. ASSUME NEW f \in Files, NEW n \in Names, UploadStore(f, <<0, n>>) PROVE Inv'
  <2>1. Base'
    BY <1>2, UploadStoreBase
  <2>2. QED BY <1>2, <2>1, UploadStoreListed, UploadStoreContent, UploadStoreQuota,
       UploadStoreNumbered, UploadStoreWarned, UploadStoreWork, UploadStoreOwner
<1>3. ASSUME NEW f \in Files, UploadCreate(f) PROVE Inv'
  <2>1. Base'
    BY <1>3, UploadCreateBase
  <2>2. QED BY <1>3, <2>1, UploadCreateListed, UploadCreateContent, UploadCreateQuota,
       UploadCreateNumbered, UploadCreateWarned, UploadCreateWork, UploadCreateOwner
<1>4. ASSUME NEW f \in Files, UploadCreateFails(f) PROVE Inv'
  <2>1. Base'
    BY <1>4, UploadCreateFailsBase
  <2>2. QED BY <1>4, <2>1, UploadCreateFailsListed, UploadCreateFailsContent, UploadCreateFailsQuota,
       UploadCreateFailsNumbered, UploadCreateFailsWarned, UploadCreateFailsWork, UploadCreateFailsOwner
<1>5. ASSUME NEW f \in Files, UploadCrash(f) PROVE Inv'
  <2>1. Base'
    BY <1>5, UploadCrashBase
  <2>2. QED BY <1>5, <2>1, UploadCrashListed, UploadCrashContent, UploadCrashQuota,
       UploadCrashNumbered, UploadCrashWarned, UploadCrashWork, UploadCrashOwner
<1>6. ASSUME NEW f \in Files, NEW fails \in BOOLEAN, NEW sent \in SUBSET Warnings(f), UploadFinish(f, fails, sent) PROVE Inv'
  <2>1. Base'
    BY <1>6, UploadFinishBase
  <2>2. QED BY <1>6, <2>1, UploadFinishListed, UploadFinishContent, UploadFinishQuota,
       UploadFinishNumbered, UploadFinishWarned, UploadFinishWork, UploadFinishOwner
<1>7. ASSUME NEW f \in Files, Delete(f) PROVE Inv'
  <2>1. Base'
    BY <1>7, DeleteBase
  <2>2. QED BY <1>7, <2>1, DeleteListed, DeleteContent, DeleteQuota,
       DeleteNumbered, DeleteWarned, DeleteWork, DeleteOwner
<1>8. ASSUME NEW f \in Files, Expire(f) PROVE Inv'
  <2>1. Base'
    BY <1>8, ExpireBase
  <2>2. QED BY <1>8, <2>1, ExpireListed, ExpireContent, ExpireQuota,
       ExpireNumbered, ExpireWarned, ExpireWork, ExpireOwner
<1>9. ASSUME NEW f \in Files, Restore(f) PROVE Inv'
  <2>1. Base'
    BY <1>9, RestoreBase
  <2>2. QED BY <1>9, <2>1, RestoreListed, RestoreContent, RestoreQuota,
       RestoreNumbered, RestoreWarned, RestoreWork, RestoreOwner
<1>10. ASSUME NEW v \in Revisions, NEW f \in Files, NEW n \in Names, NEW c \in Contents, ReviseRead(v, f, n, c) PROVE Inv'
  <2>1. Base'
    BY <1>10, ReviseReadBase
  <2>2. QED BY <1>10, <2>1, ReviseReadListed, ReviseReadContent, ReviseReadQuota,
       ReviseReadNumbered, ReviseReadWarned, ReviseReadWork, ReviseReadOwner
<1>11. ASSUME NEW v \in Revisions, ReviseStore(v) PROVE Inv'
  <2>1. Base'
    BY <1>11, ReviseStoreBase
  <2>2. QED BY <1>11, <2>1, ReviseStoreListed, ReviseStoreContent, ReviseStoreQuota,
       ReviseStoreNumbered, ReviseStoreWarned, ReviseStoreWork, ReviseStoreOwner
<1>12. ASSUME NEW v \in Revisions, ReviseRecord(v) PROVE Inv'
  <2>1. Base'
    BY <1>12, ReviseRecordBase
  <2>2. QED BY <1>12, <2>1, ReviseRecordListed, ReviseRecordContent, ReviseRecordQuota,
       ReviseRecordNumbered, ReviseRecordWarned, ReviseRecordWork, ReviseRecordOwner
<1>13. ASSUME NEW v \in Revisions, ReviseNumber(v) PROVE Inv'
  <2>1. Base'
    BY <1>13, ReviseNumberBase
  <2>2. QED BY <1>13, <2>1, ReviseNumberListed, ReviseNumberContent, ReviseNumberQuota,
       ReviseNumberNumbered, ReviseNumberWarned, ReviseNumberWork, ReviseNumberOwner
<1>14. ASSUME NEW v \in Revisions, ReviseFails(v) PROVE Inv'
  <2>1. Base'
    BY <1>14, ReviseFailsBase
  <2>2. QED BY <1>14, <2>1, ReviseFailsListed, ReviseFailsContent, ReviseFailsQuota,
       ReviseFailsNumbered, ReviseFailsWarned, ReviseFailsWork, ReviseFailsOwner
<1>15. ASSUME NEW w \in Sweeps, SweepList(w) PROVE Inv'
  <2>1. Base'
    BY <1>15, SweepListBase
  <2>2. QED BY <1>15, <2>1, SweepListListed, SweepListContent, SweepListQuota,
       SweepListNumbered, SweepListWarned, SweepListWork, SweepListOwner
<1>16. ASSUME NEW w \in Sweeps, NEW f \in Files, NEW kept \in BOOLEAN, SweepTake(w, f, kept) PROVE Inv'
  <2>1. Base'
    BY <1>16, SweepTakeBase
  <2>2. QED BY <1>16, <2>1, SweepTakeListed, SweepTakeContent, SweepTakeQuota,
       SweepTakeNumbered, SweepTakeWarned, SweepTakeWork, SweepTakeOwner
<1>17. ASSUME NEW w \in Sweeps, NEW p \in Paths, NEW kept \in BOOLEAN, SweepErase(w, p, kept) PROVE Inv'
  <2>1. Base'
    BY <1>17, SweepEraseBase
  <2>2. QED BY <1>17, <2>1, SweepEraseListed, SweepEraseContent, SweepEraseQuota,
       SweepEraseNumbered, SweepEraseWarned, SweepEraseWork, SweepEraseOwner
<1>18. ASSUME NEW w \in Sweeps, SweepPurge(w) PROVE Inv'
  <2>1. Base'
    BY <1>18, SweepPurgeBase
  <2>2. QED BY <1>18, <2>1, SweepPurgeListed, SweepPurgeContent, SweepPurgeQuota,
       SweepPurgeNumbered, SweepPurgeWarned, SweepPurgeWork, SweepPurgeOwner
<1>19. ASSUME NEW w \in Sweeps, NEW dies \in BOOLEAN, SweepFails(w, dies) PROVE Inv'
  <2>1. Base'
    BY <1>19, SweepFailsBase
  <2>2. QED BY <1>19, <2>1, SweepFailsListed, SweepFailsContent, SweepFailsQuota,
       SweepFailsNumbered, SweepFailsWarned, SweepFailsWork, SweepFailsOwner
<1>20. ASSUME NEW v \in Revisions, NEW f \in Files, NEW x \in versions, ReviseRestore(v, f, x) PROVE Inv'
  <2>1. upload[f].path[2] \in Names
    <3>1. upload[f].path \in Paths
      BY <1>20 DEF ReviseRestore, ReviseRead, Base, TypeOK, UploadState, RowI
    <3>2. QED BY <3>1 DEF Paths
  <2>2. store[x.path] \in Contents
    BY <1>20 DEF ReviseRestore, Base, TypeOK, VersionRow
  <2>3. QED BY <1>20, <1>10, <2>1, <2>2 DEF ReviseRestore
<1>21. ASSUME NEW f \in Files, NEW s \in Scopes, UploadRead(f, s) PROVE Inv'
  <2>1. Base'
    BY <1>21, UploadReadBase
  <2>2. QED BY <1>21, <2>1, UploadReadListed, UploadReadContent, UploadReadQuota,
       UploadReadNumbered, UploadReadWarned, UploadReadWork, UploadReadOwner
<1>22. ASSUME NEW f \in Files, NEW s \in Scopes, UploadRefuse(f, s) PROVE Inv'
  <2>1. Base'
    BY <1>22, UploadRefuseBase
  <2>2. QED BY <1>22, <2>1, UploadRefuseListed, UploadRefuseContent, UploadRefuseQuota,
       UploadRefuseNumbered, UploadRefuseWarned, UploadRefuseWork, UploadRefuseOwner
<1>23. ASSUME NEW f \in Files, UploadVerifyFails(f) PROVE Inv'
  <2>1. Base'
    BY <1>23, UploadVerifyFailsBase
  <2>2. QED BY <1>23, <2>1, UploadVerifyFailsListed, UploadVerifyFailsContent, UploadVerifyFailsQuota,
       UploadVerifyFailsNumbered, UploadVerifyFailsWarned, UploadVerifyFailsWork, UploadVerifyFailsOwner
<1>24. ASSUME NEW f \in Files, UploadStep(f) PROVE Inv'
  <2>1. ASSUME NEW s \in Scopes, UploadRead(f, s) \/ UploadCheck(f, s) \/ UploadRefuse(f, s) PROVE Inv'
    BY <1>1, <1>21, <1>22, <2>1
  <2>2. ASSUME NEW n \in Names, UploadStore(f, <<0, n>>) PROVE Inv'
    BY <1>2, <2>2
  <2>3. ASSUME UploadCreate(f) \/ UploadCreateFails(f) \/ UploadVerifyFails(f) \/ UploadCrash(f) PROVE Inv'
    BY <1>3, <1>4, <1>5, <1>23, <2>3
  <2>4. ASSUME NEW fails \in BOOLEAN, NEW sent \in SUBSET Warnings(f), UploadFinish(f, fails, sent) PROVE Inv'
    BY <1>6, <2>4
  <2>5. QED BY <1>24, <2>1, <2>2, <2>3, <2>4 DEF UploadStep
<1>25. ASSUME NEW v \in Revisions, ReviseStep(v) PROVE Inv'
  BY <1>10, <1>11, <1>12, <1>13, <1>14, <1>20, <1>25 DEF ReviseStep, Contents
<1>26. ASSUME NEW w \in Sweeps, SweepStep(w) PROVE Inv'
  BY <1>15, <1>16, <1>17, <1>18, <1>19, <1>26 DEF SweepStep
<1>27. QED
  BY <1>7, <1>8, <1>9, <1>24, <1>25, <1>26 DEF Next

LEMMA StutterInv ==
  ASSUME Inv, UNCHANGED vars
  PROVE Inv'
<1>1. Base' /\ ListedI'
  BY DEF vars, Inv, Base, TypeOK, RowI, RevisionI, VersionI, SweepI, ListedI, Listed, Revised
<1>2. Content'
  BY DEF vars, Inv, Content, ContentI, RevisedI, VersionsI, PathsI, Sound, Made, Owns, Held, Kept, Writers
<1>3. QuotaKept'
  BY DEF vars, Inv, QuotaKept, Taken, InFlight, Busy, Bytes
<1>4. (NumberedI /\ WarnedI)'
  <2>1. NumberedI'
    BY DEF vars, Inv, NumberedI, Numbered, Carried, Top, Open, Revised
  <2>2. /\ \A u : Alone(u)' = Alone(u) /\ Usage(u)' = Usage(u) /\ Busy(u)' = Busy(u)
        /\ \A u, t : Covered(u, t)' <=> Covered(u, t)
        /\ upload' = upload
    BY DEF vars, Alone, Covered, Crossed, Usage, Bytes, Busy
  <2>3. WarnedI'
    BY <2>2 DEF Inv, WarnedI
  <2>4. QED BY <2>1, <2>3
<1>5. (WorkI /\ OwnerI)'
  BY DEF vars, Inv, WorkI, Revised, OwnerI, Orphans, Owner, OwnerV, OwnerF, OwnerR, SweptAt
<1>6. QED BY <1>1, <1>2, <1>3, <1>4, <1>5 DEF Inv

LEMMA SpecInv == Spec => []Inv
<1>1. Inv /\ [Next]_vars => Inv'
  BY NextInv, StutterInv
<1>2. QED BY <1>1, InitInv, PTL DEF Spec

-----------------------------------------------------------------------------

\* The rows, the object store and the requests have their types.
THEOREM TypeCorrect == Spec => []TypeOK
<1>1. Inv => TypeOK
  BY DEF Inv, Base
<1>2. QED BY <1>1, SpecInv, PTL

\* Every sweep, however many run at once, leaves alone what was not deleted for
\* the retention period, unless it was restored under its hands
\* (cleanup_deleted_files).
THEOREM SweepsSpareTheRest == Spec => []PurgedAfterRetention
<1>1. Inv => PurgedAfterRetention
  BY DEF Inv, ListedI, PurgedAfterRetention
<1>2. QED BY <1>1, SpecInv, PTL

\* Nothing but a namesake, a sweep that was crossed or an upload that could not
\* read its own row back takes the content of a current file or of one of its
\* versions, whatever else fails.
THEOREM ContentIsKept == Spec => []ContentKept
<1>1. Inv => ContentKept
  <2> SUFFICES ASSUME Inv PROVE ContentKept
    OBVIOUS
  <2>1. \A f \in Files \ crossed : file[f].row = "current" => ~Held(f)
    BY RequestsAssumption DEF Inv, ListedI, Listed, Held
  <2>2. \A f \in Files \ crossed : file[f].row = "current" => Kept(f)
    BY <2>1 DEF Kept
  <2>3. \A x \in versions : x.file \in Files
    BY DEF Inv, Base, TypeOK, VersionRow
  <2>4. QED BY <2>2, <2>3 DEF Inv, Content, ContentI, Sound, VersionsI, ContentKept
<1>2. QED BY <1>1, SpecInv, PTL

\* check_quota_before_upload keeps a quota up to the bytes that were under way at
\* the same time, for every number of scopes and files, all sizes and quotas.
THEOREM QuotasHold == Spec => []QuotaKept
<1>1. Inv => QuotaKept
  BY DEF Inv
<1>2. QED BY <1>1, SpecInv, PTL

\* Version numbers are unique and the file has the latest one, for every number
\* of requests, unless two numbers were handed out at once
\* (create_file_version, restore_version).
THEOREM NumbersHold == Spec => []VersionsNumbered
<1>1. Inv => VersionsNumbered
  BY NumberedHolds DEF Inv, Base
<1>2. QED BY <1>1, SpecInv, PTL

\* No threshold is passed over by uploads that do not overlap, whatever their
\* sizes and the deletions in between, though each warns of the highest one it
\* crossed only (_highest_crossed_threshold).
THEOREM ThresholdsWarn == Spec => []WarnedAtThreshold
<1>1. Inv => WarnedAtThreshold
  BY WarnedHolds DEF Inv
<1>2. QED BY <1>1, SpecInv, PTL

\* A failure leaves at most one object behind, however many sweeps and requests
\* write to the same paths (upload_file, cleanup_deleted_files).
THEOREM OrphansAreFew == Spec => []OrphansFromFailures
<1>1. Inv => OrphansFromFailures
  BY OwnersAnswer DEF Inv
<1>2. QED BY <1>1, SpecInv, PTL
=============================================================================
