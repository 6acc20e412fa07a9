------------------------- MODULE PolicyEngineProofs -------------------------
(***************************************************************************)
(* Theorems about PolicyEngine, for every set of threads, targets, clients *)
(* and names and every bound.  Inductive is shown to be inductive one part *)
(* at a time; the properties of the runs follow from it.                   *)
(***************************************************************************)
EXTENDS PolicyEngine, FiniteSetTheorems, TLAPS

USE ConstantsOK

-----------------------------------------------------------------------------
(* What the rebuilds compute has the right type.                           *)

\* The number of lists before a list, its bit, is a natural number.
LEMMA PositionType ==
    ASSUME NEW present \in SUBSET ListIds, NEW i \in ListIds
    PROVE  Position(present, i) \in Nat
<1>1. IsFiniteSet(ListIds)
    BY FS_Interval DEF ListIds
<1>2. {j \in present : j < i} \in SUBSET ListIds
    OBVIOUS
<1>3. IsFiniteSet({j \in present : j < i})
    BY <1>1, <1>2, FS_Subset
<1>4. QED
    BY <1>3, FS_CardinalityType DEF Position

LEMMA MaskType ==
    ASSUME NEW present \in SUBSET ListIds, NEW ids \in SUBSET ListIds
    PROVE  MaskOf(present, ids) \in SUBSET Nat
BY PositionType DEF MaskOf

LEMMA OverlayType ==
    ASSUME NEW names \in [Clients -> NameOrNone], NEW changes \in Changes
    PROVE  Overlay(names, changes) \in [Clients -> NameOrNone]
BY DEF Overlay, Changes

LEMMA NoChangeType == NoChange \in Changes
BY DEF NoChange, Changes

LEMMA OverlayNothing ==
    ASSUME NEW names \in [Clients -> NameOrNone]
    PROVE  Overlay(names, NoChange) = names
BY DEF Overlay, NoChange

LEMMA BlankRowsType == BlankRows \in Rows
BY DEF BlankRows, Rows, Versions, ListIds, NameOrNone

LEMMA FullSnapshotType ==
    ASSUME NEW r \in Rows, NEW changes \in Changes
    PROVE  FullSnapshot(r, changes) \in Snapshot
<1>1. \A s \in ScopeIds : MaskOf(r.present, r.assign[s]) \in SUBSET Nat
    BY MaskType DEF Rows
<1>2. Overlay(r.names, changes) \in [Clients -> NameOrNone]
    BY OverlayType DEF Rows
<1>3. QED
    BY <1>1, <1>2 DEF FullSnapshot, Snapshot, Rows

LEMMA BlankSnapshotType == BlankSnapshot \in Snapshot
BY BlankRowsType, NoChangeType, FullSnapshotType DEF BlankSnapshot

LEMMA WithSettingsType ==
    ASSUME NEW current \in Snapshot, NEW r \in Rows
    PROVE  WithSettings(current, r) \in Snapshot
BY DEF WithSettings, Snapshot, Rows, Versions, Sections

LEMMA WithListsType ==
    ASSUME NEW current \in Snapshot, NEW r \in Rows
    PROVE  WithLists(current, r) \in Snapshot
<1> DEFINE kept == [s \in ScopeIds |-> current.ids[s] \cap r.present]
<1>1. kept \in [ScopeIds -> SUBSET ListIds]
    BY DEF Snapshot, Rows
<1>2. [s \in ScopeIds |-> MaskOf(r.present, kept[s])]
          \in [ScopeIds -> SUBSET Nat]
    BY <1>1, MaskType DEF Rows
<1>3. [current.ver EXCEPT !["lists"] = r.ver["lists"]] \in Versions
    BY DEF Snapshot, Rows, Versions, Sections
<1> HIDE DEF kept
<1>4. WithLists(current, r) =
          [current EXCEPT
              !.ver["lists"] = r.ver["lists"], !.present = r.present,
              !.ids = kept,
              !.mask = [s \in ScopeIds |-> MaskOf(r.present, kept[s])]]
    BY DEF WithLists, kept
<1>5. QED
    BY <1>1, <1>2, <1>3, <1>4 DEF Snapshot, Rows

LEMMA WithScopesType ==
    ASSUME NEW from \in Snapshot, NEW r \in Rows
    PROVE  WithScopes(from, r) \in Snapshot
<1>1. [s \in ScopeIds |-> MaskOf(from.present, r.assign[s])]
          \in [ScopeIds -> SUBSET Nat]
    BY MaskType DEF Snapshot, Rows
<1>2. [from.ver EXCEPT !["scopes"] = r.ver["scopes"]] \in Versions
    BY DEF Snapshot, Rows, Versions, Sections
<1>3. QED
    BY <1>1, <1>2 DEF WithScopes, Snapshot, Rows

-----------------------------------------------------------------------------
(* Types.  The versions stay within their bound because every commit counts *)
(* as an edit, and the recorded errors are methods because a thread that    *)
(* rebuilds has called one.                                                 *)

Typed == TypeOK /\ Counted /\ Called

LEMMA InitTyped == Init => Typed
<1> SUFFICES ASSUME Init PROVE Typed
    OBVIOUS
<1>1. db \in Rows
    BY DEF Init, Rows, Versions, ListIds, NameOrNone
<1>2. snap \in Snapshot
    BY <1>1, NoChangeType, FullSnapshotType DEF Init
<1>3. /\ lock = NoThread /\ moved = {} /\ recording = FALSE /\ errors = {}
      /\ journal = NoChange /\ stateLock = "free" /\ pending = NoChange
      /\ unheard = {} /\ orphaned \in Versions /\ edits = 0 /\ faults = 0
    BY DEF Init, Versions
<1>4. /\ pc = [t \in Threads |-> "idle"] /\ want = [t \in Threads |-> "none"]
      /\ attempt = [t \in Threads |-> 1]
      /\ rows \in [Threads -> Rows] /\ base \in [Threads -> Snapshot]
    BY BlankRowsType, BlankSnapshotType DEF Init
<1>5. TypeOK
  <2>1. recording \in BOOLEAN
      BY <1>3, Zenon
  <2>2. QED
      BY <1>1, <1>2, <1>3, <1>4, <2>1, NoChangeType DEF TypeOK
<1>6. Counted /\ Called
    BY DEF Init, Counted, Called, Rebuilding
<1>7. QED
    BY <1>5, <1>6 DEF Typed

LEMMA CommitTyped ==
    ASSUME Typed, NEW t \in Threads, NEW m \in Methods,
           NEW secs \in SUBSET Sections, NEW changed \in Rows,
           NEW torn \in BOOLEAN, Commit(t, m, secs, changed, torn)
    PROVE  Typed'
<1>1. Bump(secs) \in Versions /\ \A s \in Sections : Bump(secs)[s] <= edits'
    BY DEF Typed, TypeOK, Counted, Commit, Bump, Rows, Versions
<1>2. db' \in Rows /\ Counted'
    BY <1>1 DEF Commit, Rows, Counted
<1>3. orphaned' \in Versions
    BY <1>1 DEF Commit, Typed, TypeOK, Versions
<1>4. TypeOK'
    BY <1>2, <1>3 DEF Commit, Fault, Typed, TypeOK, ptr
<1>5. Called'
    BY DEF Commit, Typed, TypeOK, Called, Rebuilding, Methods
<1>6. QED
    BY <1>2, <1>4, <1>5 DEF Typed

\* What an administrator's step is: a commit of rows with the same names,
\* followed by the method that rebuilds what has changed, or a call for a flush.
LEMMA AdministerCommits ==
    ASSUME Typed, NEW t \in Handlers, Administer(t)
    PROVE  \/ RequestFlush(t)
           \/ \E m \in Methods, secs \in SUBSET Sections, changed \in Rows,
                torn \in BOOLEAN :
                 /\ secs \subseteq Covers(m) /\ changed.names = db.names
                 /\ Commit(t, m, secs, changed, torn)
<1> USE DEF Methods, Sections, Covers
<1>0. db \in Rows
    BY DEF Typed, TypeOK
<1>1. CASE SaveSettings(t)
    BY <1>0, <1>1 DEF SaveSettings
<1>2. CASE ChangeList(t)
    BY <1>0, <1>2 DEF ChangeList
<1>3. CASE ChangeManualList(t)
    BY <1>0, <1>3 DEF ChangeManualList
<1>4. CASE DeleteList(t)
  <2>1. PICK i \in db.present :
            Commit(t, "reload_lists", {"lists"},
                   [db EXCEPT !.present = @ \ {i},
                              !.assign = [s \in ScopeIds |-> @[s] \ {i}]],
                   TRUE)
      BY <1>4 DEF DeleteList
  <2> DEFINE d == [db EXCEPT !.present = @ \ {i},
                             !.assign = [s \in ScopeIds |-> @[s] \ {i}]]
  <2>2. d \in Rows /\ d.names = db.names
      BY <1>0 DEF Rows
  <2>3. QED
      BY <2>1, <2>2
<1>5. ASSUME NEW i \in ListIds, NEW targets \in SUBSET ScopeIds
      PROVE  AssignedTo(i, targets) \in [ScopeIds -> SUBSET ListIds]
    BY <1>0 DEF AssignedTo, Rows
<1>6. CASE AddList(t)
  <2>1. PICK targets \in SUBSET ScopeIds :
            Commit(t, "reload", {"lists", "scopes"},
                   [db EXCEPT !.present = @ \cup {db.nextId},
                              !.nextId = @ + 1,
                              !.assign = AssignedTo(db.nextId, targets)], FALSE)
      BY <1>6 DEF AddList
  <2>2. db.nextId \in ListIds /\ db.nextId + 1 \in 1..(MaxLists + 1)
      BY <1>0, <1>6 DEF AddList, Rows, ListIds
  <2>3. AssignedTo(db.nextId, targets) \in [ScopeIds -> SUBSET ListIds]
      BY <1>5, <2>2
  <2> DEFINE d == [db EXCEPT !.present = @ \cup {db.nextId}, !.nextId = @ + 1,
                             !.assign = AssignedTo(db.nextId, targets)]
  <2>4. d \in Rows /\ d.names = db.names
      BY <1>0, <2>2, <2>3 DEF Rows
  <2>5. QED
      BY <2>1, <2>4
<1>7. CASE EditList(t)
  <2>1. PICK i \in db.present, targets \in SUBSET ScopeIds :
            Commit(t, "reload", {"lists", "scopes"},
                   [db EXCEPT !.assign = AssignedTo(i, targets)], FALSE)
      BY <1>7 DEF EditList
  <2>2. AssignedTo(i, targets) \in [ScopeIds -> SUBSET ListIds]
      BY <1>0, <1>5 DEF Rows
  <2> DEFINE d == [db EXCEPT !.assign = AssignedTo(i, targets)]
  <2>3. d \in Rows /\ d.names = db.names
      BY <1>0, <2>2 DEF Rows
  <2>4. QED
      BY <2>1, <2>3
<1>8. CASE SaveScope(t)
  <2>1. PICK s \in ScopeIds, ids \in SUBSET db.present :
            Commit(t, "reload_scopes", {"scopes"},
                   [db EXCEPT !.assign[s] = ids], FALSE)
      BY <1>8 DEF SaveScope
  <2>2. [db.assign EXCEPT ![s] = ids] \in [ScopeIds -> SUBSET ListIds]
      BY <1>0 DEF Rows
  <2> DEFINE d == [db EXCEPT !.assign[s] = ids]
  <2>3. d \in Rows /\ d.names = db.names
      BY <1>0, <2>2 DEF Rows
  <2>4. QED
      BY <2>1, <2>3
<1>9. QED
    BY <1>1, <1>2, <1>3, <1>4, <1>6, <1>7, <1>8 DEF Administer

LEMMA AdministerTyped ==
    ASSUME Typed, NEW t \in Handlers, Administer(t)
    PROVE  Typed'
<1>0. t \in Threads
    BY DEF Threads
<1>1. CASE RequestFlush(t)
  <2>1. TypeOK'
      BY <1>0, <1>1 DEF RequestFlush, Typed, TypeOK, ptr, history
  <2>2. Counted'
      BY <1>1 DEF RequestFlush, Typed, TypeOK, Counted, Rows, Versions
  <2>3. Called'
      BY <1>0, <1>1 DEF RequestFlush, Typed, TypeOK, Called, Rebuilding
  <2>4. QED
      BY <2>1, <2>2, <2>3 DEF Typed
<1>2. CASE ~RequestFlush(t)
    BY <1>0, <1>2, AdministerCommits, CommitTyped
<1>3. QED
    BY <1>1, <1>2

\* A thread that gives up the lock, whatever it publishes.
LEMMA ReleaseTyped ==
    ASSUME Typed, NEW t \in Threads, Release(t),
           db' \in Rows, Counted', snap' \in Snapshot, moved' \in SUBSET Threads,
           recording' \in BOOLEAN, journal' \in Changes,
           errors' \in SUBSET Methods, UNCHANGED orphaned,
           stateLock' \in {"free", "manager", "flush"}, pending' \in Changes,
           unheard' \in SUBSET Clients, UNCHANGED edits,
           faults' \in 0..MaxFaults
    PROVE  Typed'
<1>1. /\ pc' = [pc EXCEPT ![t] = "idle"] /\ want' = [want EXCEPT ![t] = "none"]
      /\ attempt' = [attempt EXCEPT ![t] = 1] /\ lock' = NoThread
    BY DEF Release
<1>2. rows' \in [Threads -> Rows] /\ base' \in [Threads -> Snapshot]
    BY BlankRowsType, BlankSnapshotType DEF Release, Typed, TypeOK
<1>3. /\ pc' \in [Threads -> {"idle", "waiting", "entered", "built",
                              "flushing", "flushed"}]
      /\ want' \in [Threads -> Methods \cup {"flush", "none"}]
      /\ attempt' \in [Threads -> 1..3]
      /\ lock' \in Threads \cup {NoThread}
    BY <1>1 DEF Typed, TypeOK
<1>4. orphaned' \in Versions /\ edits' \in 0..MaxEdits
    BY DEF Typed, TypeOK
<1>5. TypeOK'
    BY <1>2, <1>3, <1>4 DEF TypeOK
<1>6. Called'
    BY <1>1 DEF Typed, TypeOK, Called, Rebuilding
<1>7. QED
    BY <1>5, <1>6 DEF Typed

\* Journal(TRUE) and Journal(FALSE), or neither.
LEMMA JournalType ==
    ASSUME Typed,
           \/ Journal(TRUE) \/ Journal(FALSE) \/ UNCHANGED <<recording, journal>>
    PROVE  recording' \in BOOLEAN /\ journal' \in Changes
<1>1. journal' \in Changes
    BY NoChangeType DEF Typed, TypeOK, Journal
<1>2. recording' \in BOOLEAN
  <2>1. recording \in BOOLEAN
      BY DEF Typed, TypeOK
  <2>2. CASE UNCHANGED <<recording, journal>>
      BY <2>1, <2>2, Zenon
  <2>3. CASE Journal(TRUE)
      BY <2>3, Zenon DEF Journal
  <2>4. CASE Journal(FALSE)
      BY <2>4, Zenon DEF Journal
  <2>5. QED
      BY <2>2, <2>3, <2>4
<1>3. QED
    BY <1>1, <1>2

LEMMA PublishType ==
    ASSUME Typed, NEW s \in Snapshot, NEW by, Publish(s, by)
    PROVE  snap' \in Snapshot /\ moved' \in SUBSET Threads
BY DEF Publish

LEMMA RunningType ==
    ASSUME Typed, NEW t \in Threads, Rebuilding(t)
    PROVE  Running(t) \in Methods /\ want[t] \in Methods
BY DEF Typed, Called, Running, Methods

LEMMA FaultType ==
    ASSUME Typed, Fault
    PROVE  faults' \in 0..MaxFaults
BY DEF Typed, TypeOK, Fault

LEMMA CountedUnchanged ==
    ASSUME Typed, UNCHANGED <<db, edits>>
    PROVE  Counted' /\ db' \in Rows
BY DEF Typed, TypeOK, Counted

LEMMA EnterTyped ==
    ASSUME Typed, NEW t \in Threads, Enter(t)
    PROVE  Typed'
<1>1. recording' \in BOOLEAN /\ journal' \in Changes
    BY JournalType DEF Enter
<1>2. base' \in [Threads -> Snapshot]
    BY DEF Enter, Typed, TypeOK
<1>3. TypeOK'
    BY <1>1, <1>2 DEF Enter, Typed, TypeOK, ptr, history
<1>4. Counted'
    BY CountedUnchanged DEF Enter
<1>5. Called'
    BY DEF Enter, Typed, TypeOK, Called, Rebuilding, Methods
<1>6. QED
    BY <1>3, <1>4, <1>5 DEF Typed

LEMMA ReadTyped ==
    ASSUME Typed, NEW t \in Threads, Read(t)
    PROVE  Typed'
<1>1. TypeOK'
    BY DEF Read, Typed, TypeOK, ptr, history
<1>2. Counted'
    BY CountedUnchanged DEF Read
<1>3. Called'
    BY DEF Read, Typed, TypeOK, Called, Rebuilding
<1>4. QED
    BY <1>1, <1>2, <1>3 DEF Typed

LEMMA ReadFailsTyped ==
    ASSUME Typed, NEW t \in Threads, ReadFails(t)
    PROVE  Typed'
<1>1. recording' \in BOOLEAN /\ journal' \in Changes
    BY JournalType DEF ReadFails
<1>2. errors' \in SUBSET Methods
    BY RunningType DEF ReadFails, Rebuilding, Typed, TypeOK
<1>3. Counted' /\ db' \in Rows
    BY CountedUnchanged DEF ReadFails
<1>4. QED
    BY <1>1, <1>2, <1>3, FaultType, ReleaseTyped
    DEF ReadFails, Typed, TypeOK, ptr, history

LEMMA InstallFullTyped ==
    ASSUME Typed, NEW t \in Threads, InstallFull(t)
    PROVE  Typed'
<1>1. recording' \in BOOLEAN /\ journal' \in Changes
    BY JournalType DEF InstallFull
<1>2. snap' \in Snapshot /\ moved' \in SUBSET Threads
    BY FullSnapshotType, PublishType DEF InstallFull, Typed, TypeOK
<1>3. Counted' /\ db' \in Rows
    BY CountedUnchanged DEF InstallFull
<1>4. QED
    BY <1>1, <1>2, <1>3, ReleaseTyped
    DEF InstallFull, Typed, TypeOK, ptr, history

LEMMA InstallPartTyped ==
    ASSUME Typed, NEW t \in Threads, NEW m \in Methods, NEW s \in Snapshot,
           InstallPart(t, m, s)
    PROVE  Typed'
<1>1. recording' \in BOOLEAN /\ journal' \in Changes
    BY JournalType DEF InstallPart
<1>2. snap' \in Snapshot /\ moved' \in SUBSET Threads
    BY PublishType DEF InstallPart
<1>3. Counted' /\ db' \in Rows
    BY CountedUnchanged DEF InstallPart
<1>4. QED
    BY <1>1, <1>2, <1>3, ReleaseTyped
    DEF InstallPart, Typed, TypeOK, ptr, history

LEMMA RetryScopesTyped ==
    ASSUME Typed, NEW t \in Threads, RetryScopes(t)
    PROVE  Typed'
<1>1. recording' \in BOOLEAN /\ journal' \in Changes
    BY JournalType DEF RetryScopes
<1>2. base' \in [Threads -> Snapshot] /\ rows' \in [Threads -> Rows]
  <2>1. \/ base' = [base EXCEPT ![t] = snap]
        \/ base' = [base EXCEPT ![t] = BlankSnapshot]
      BY DEF RetryScopes
  <2>2. rows' = [rows EXCEPT ![t] = BlankRows]
      BY DEF RetryScopes
  <2>3. QED
      BY <2>1, <2>2, BlankRowsType, BlankSnapshotType DEF Typed, TypeOK
<1>3. attempt[t] \in 1..2 /\ want[t] = "reload_scopes"
    BY DEF RetryScopes, Running, Typed, TypeOK
<1>4. attempt' \in [Threads -> 1..3]
    BY <1>3 DEF RetryScopes, Typed, TypeOK
<1>5. TypeOK'
    BY <1>1, <1>2, <1>4 DEF RetryScopes, Typed, TypeOK, ptr, history
<1>6. Counted'
    BY CountedUnchanged DEF RetryScopes
<1>7. Called'
    BY <1>3, <1>4 DEF RetryScopes, Typed, TypeOK, Called, Rebuilding, Methods
<1>8. QED
    BY <1>5, <1>6, <1>7 DEF Typed

LEMMA RebuildTyped ==
    ASSUME Typed, NEW t \in Threads, Rebuild(t)
    PROVE  Typed'
<1>0. snap \in Snapshot /\ rows[t] \in Rows /\ base[t] \in Snapshot
    BY DEF Typed, TypeOK
<1>1. CASE Read(t)
    BY <1>1, ReadTyped
<1>2. CASE InstallFull(t)
    BY <1>2, InstallFullTyped
<1>3. CASE InstallSettings(t)
    BY <1>0, <1>3, WithSettingsType, InstallPartTyped DEF InstallSettings, Methods
<1>4. CASE InstallLists(t)
    BY <1>0, <1>4, WithListsType, InstallPartTyped DEF InstallLists, Methods
<1>5. CASE InstallScopes(t)
    BY <1>0, <1>5, WithScopesType, InstallPartTyped DEF InstallScopes, Methods
<1>6. CASE RetryScopes(t)
    BY <1>6, RetryScopesTyped
<1>7. QED
    BY <1>1, <1>2, <1>3, <1>4, <1>5, <1>6 DEF Rebuild

LEMMA RecoveryWakesTyped ==
    ASSUME Typed, RecoveryWakes
    PROVE  Typed'
<1>0. Recovery \in Threads
    BY DEF Threads
<1>1. TypeOK'
    BY <1>0 DEF RecoveryWakes, Typed, TypeOK, Methods, ptr, history
<1>2. Counted'
    BY CountedUnchanged DEF RecoveryWakes
<1>3. Called'
    BY <1>0 DEF RecoveryWakes, Typed, TypeOK, Called, Rebuilding
<1>4. QED
    BY <1>1, <1>2, <1>3 DEF Typed

LEMMA LearnNameTyped ==
    ASSUME Typed, LearnName
    PROVE  Typed'
<1>1. PICK c \in Clients, n \in NameOrNone :
          /\ db' = [db EXCEPT !.names[c] = n]
          /\ \/ /\ stateLock' = "manager"
                /\ pending' = [NoChange EXCEPT ![c] = n]
                /\ UNCHANGED <<unheard, faults>>
             \/ /\ Fault
                /\ unheard' = unheard \cup {c}
                /\ UNCHANGED <<stateLock, pending>>
    BY DEF LearnName
<1>2. /\ edits' = edits + 1 /\ edits < MaxEdits
      /\ UNCHANGED <<engine, orphaned>>
    BY DEF LearnName
<1>3. [db.names EXCEPT ![c] = n] \in [Clients -> NameOrNone]
    BY DEF Typed, TypeOK, Rows
<1>4. db' \in Rows /\ db'.ver = db.ver
    BY <1>1, <1>3 DEF Typed, TypeOK, Rows
<1>5. pending' \in Changes /\ unheard' \in SUBSET Clients
    BY <1>1, NoChangeType DEF Typed, TypeOK, Changes
<1>6. faults' \in 0..MaxFaults /\ edits' \in 0..MaxEdits
    BY <1>1, <1>2, FaultType DEF Typed, TypeOK
<1>7. TypeOK'
    BY <1>1, <1>2, <1>4, <1>5, <1>6 DEF Typed, TypeOK, engine
<1>8. Counted'
    BY <1>2, <1>4 DEF Typed, TypeOK, Counted, Rows, Versions
<1>9. Called'
    BY <1>2 DEF Typed, Called, engine, Rebuilding
<1>10. QED
    BY <1>7, <1>8, <1>9 DEF Typed

LEMMA RememberTyped ==
    ASSUME Typed, NEW by, RememberClientIdentities(by)
    PROVE  /\ snap' \in Snapshot /\ moved' \in SUBSET Threads
           /\ journal' \in Changes /\ unheard' \in SUBSET Clients
           /\ stateLock' = "free" /\ pending' = NoChange /\ pending' \in Changes
<1>1. Overlay(snap.names, pending) \in [Clients -> NameOrNone]
    BY OverlayType DEF Typed, TypeOK, Snapshot
<1>2. [snap EXCEPT !.names = Overlay(@, pending)] \in Snapshot
    BY <1>1 DEF Typed, TypeOK, Snapshot
<1>3. Overlay(journal, pending) \in Changes
    BY DEF Overlay, Changes, Typed, TypeOK
<1>4. QED
    BY <1>2, <1>3, PublishType, NoChangeType
    DEF RememberClientIdentities, Typed, TypeOK

LEMMA ManagerCallbackTyped ==
    ASSUME Typed, ManagerCallback
    PROVE  Typed'
<1>1. RememberClientIdentities(NoThread)
    BY DEF ManagerCallback
<1>2. TypeOK'
    BY <1>1, RememberTyped DEF ManagerCallback, Typed, TypeOK
<1>3. Counted'
    BY CountedUnchanged DEF ManagerCallback
<1>4. Called'
    BY DEF ManagerCallback, Typed, Called, Rebuilding
<1>5. QED
    BY <1>2, <1>3, <1>4 DEF Typed

LEMMA FlushCommitTyped ==
    ASSUME Typed, NEW t \in Threads, FlushCommit(t)
    PROVE  Typed'
<1>1. db' \in Rows /\ db'.ver = db.ver
    BY DEF FlushCommit, Typed, TypeOK, Rows, NameOrNone
<1>2. pending' \in Changes
    BY DEF FlushCommit, Changes, NameOrNone
<1>3. TypeOK'
    BY <1>1, <1>2 DEF FlushCommit, Typed, TypeOK, history
<1>4. Counted'
    BY <1>1 DEF FlushCommit, Typed, TypeOK, Counted
<1>5. Called'
    BY DEF FlushCommit, Typed, TypeOK, Called, Rebuilding
<1>6. QED
    BY <1>3, <1>4, <1>5 DEF Typed

LEMMA FlushCallbackTyped ==
    ASSUME Typed, NEW t \in Threads, FlushCallback(t)
    PROVE  Typed'
<1>1. RememberClientIdentities(t)
    BY DEF FlushCallback
<1>2. Counted' /\ db' \in Rows
    BY CountedUnchanged DEF FlushCallback
<1>3. recording' \in BOOLEAN
  <2>1. recording' = recording /\ recording \in BOOLEAN
      BY DEF FlushCallback, Typed, TypeOK
  <2>2. QED
      BY <2>1, Zenon
<1>4. QED
    BY <1>1, <1>2, <1>3, RememberTyped, ReleaseTyped
    DEF FlushCallback, Typed, TypeOK

LEMMA FlushFailsTyped ==
    ASSUME Typed, NEW t \in Threads, FlushFails(t)
    PROVE  Typed'
<1>1. db' \in Rows /\ Counted'
  <2>1. CASE UNCHANGED db
      BY <2>1, CountedUnchanged DEF FlushFails
  <2>2. CASE db' = [db EXCEPT !.names = [c \in Clients |-> NoName]]
    <3>1. db' \in Rows /\ db'.ver = db.ver
        BY <2>2 DEF Typed, TypeOK, Rows, NameOrNone
    <3>2. QED
        BY <3>1 DEF FlushFails, Typed, TypeOK, Counted
  <2>3. QED
      BY <2>1, <2>2 DEF FlushFails
<1>2. unheard' \in SUBSET Clients
    BY DEF FlushFails, NamedClients, Typed, TypeOK
<1>3. recording' \in BOOLEAN
  <2>1. recording' = recording /\ recording \in BOOLEAN
      BY DEF FlushFails, Typed, TypeOK
  <2>2. QED
      BY <2>1, Zenon
<1>4. QED
    BY <1>1, <1>2, <1>3, FaultType, ReleaseTyped
    DEF FlushFails, Typed, TypeOK, ptr

LEMMA RestartTyped ==
    ASSUME Typed, Restart
    PROVE  Typed'
<1>1. snap' \in Snapshot
    BY FullSnapshotType, NoChangeType DEF Restart, Started, Typed, TypeOK
<1>2. /\ rows' \in [Threads -> Rows] /\ base' \in [Threads -> Snapshot]
      /\ pc' = [t \in Threads |-> "idle"] /\ want' = [t \in Threads |-> "none"]
      /\ attempt' = [t \in Threads |-> 1] /\ lock' = NoThread /\ moved' = {}
      /\ errors' = {} /\ stateLock' = "free" /\ unheard' = {}
      /\ journal' = NoChange /\ pending' = NoChange
    BY BlankRowsType, BlankSnapshotType DEF Restart, Started
<1>3. recording' \in BOOLEAN
  <2>1. recording' = FALSE
      BY DEF Restart, Started
  <2>2. QED
      BY <2>1, Zenon
<1>4. /\ UNCHANGED <<db, orphaned, edits, faults>>
    BY DEF Restart
<1>5. TypeOK'
    BY <1>1, <1>2, <1>3, <1>4, NoChangeType DEF Typed, TypeOK
<1>6. Counted'
    BY <1>4, CountedUnchanged
<1>7. Called'
    BY <1>2 DEF Called, Rebuilding
<1>8. QED
    BY <1>5, <1>6, <1>7 DEF Typed

LEMMA NextTyped ==
    ASSUME Typed, [Next]_vars
    PROVE  Typed'
<1>0. Handlers \subseteq Threads
    BY DEF Threads
<1>1. CASE \E t \in Handlers : Administer(t)
    BY <1>1, AdministerTyped
<1>2. CASE \E t \in Handlers : FlushCommit(t)
    BY <1>0, <1>2, FlushCommitTyped
<1>3. CASE \E t \in Handlers : FlushCallback(t)
    BY <1>0, <1>3, FlushCallbackTyped
<1>4. CASE \E t \in Handlers : FlushFails(t)
    BY <1>0, <1>4, FlushFailsTyped
<1>5. CASE \E t \in Threads : Enter(t)
    BY <1>5, EnterTyped
<1>6. CASE \E t \in Threads : Rebuild(t)
    BY <1>6, RebuildTyped
<1>7. CASE \E t \in Threads : ReadFails(t)
    BY <1>7, ReadFailsTyped
<1>8. CASE RecoveryWakes
    BY <1>8, RecoveryWakesTyped
<1>9. CASE LearnName
    BY <1>9, LearnNameTyped
<1>10. CASE ManagerCallback
    BY <1>10, ManagerCallbackTyped
<1>11. CASE Restart
    BY <1>11, RestartTyped
<1>12. CASE UNCHANGED vars
    BY <1>12 DEF vars, engine, ptr, history, Typed, TypeOK, Counted, Called,
                 Rebuilding
<1>13. QED
    BY <1>1, <1>2, <1>3, <1>4, <1>5, <1>6, <1>7, <1>8, <1>9, <1>10, <1>11, <1>12
    DEF Next

\* The fields of the engine, the threads and the database keep their types,
\* whatever administrators, errors and restarts do.
THEOREM TypeCorrect == Spec => []TypeOK
<1>1. Spec => []Typed
    BY InitTyped, NextTyped, PTL DEF Spec
<1>2. Typed => TypeOK
    BY DEF Typed
<1>3. QED
    BY <1>1, <1>2, PTL

-----------------------------------------------------------------------------
(* Names.  A client's name in the snapshot is right up to what is pending.  *)
(* What keeps it right is that only the holder of the lock replaces the     *)
(* snapshot, that the journal is open whenever a full rebuild has read or   *)
(* may read, and that reload_scopes notices that its base was replaced.     *)

NamesInv ==
    /\ Exclusive /\ Handed /\ Journaling /\ Journaled /\ RebuildTracksNames
    /\ BaseIsCurrent /\ NamesTracked

LEMMA OverlayAt ==
    ASSUME NEW names, NEW changes, NEW c \in Clients
    PROVE  Overlay(names, changes)[c] =
               IF changes[c] = Untouched THEN names[c] ELSE changes[c]
BY DEF Overlay

LEMMA NoChangeAt == \A c \in Clients : NoChange[c] = Untouched
BY DEF NoChange

LEMMA NamedIsTouched ==
    ASSUME Typed
    PROVE  \A c \in Clients : db.names[c] # Untouched
BY DEF Typed, TypeOK, Rows

LEMMA InitNames == Init => NamesInv
<1> SUFFICES ASSUME Init PROVE NamesInv
    OBVIOUS
<1>1. Typed
    BY InitTyped
<1>2. /\ pc = [t \in Threads |-> "idle"] /\ lock = NoThread
      /\ pending = NoChange /\ journal = NoChange /\ stateLock = "free"
      /\ snap = FullSnapshot(db, NoChange) /\ recording = FALSE
    BY DEF Init
<1>3. Exclusive
    BY <1>2 DEF Exclusive, Inside
<1>4. Handed /\ Journaling /\ Journaled
    BY <1>2, NoChangeAt DEF Handed, Journaling, Journaled, Rebuilding
<1>5. RebuildTracksNames /\ BaseIsCurrent
    BY <1>2 DEF RebuildTracksNames, BaseIsCurrent, Rebuilding
<1>6. NamesTracked
    BY <1>2, NoChangeAt, OverlayAt DEF NamesTracked, FullSnapshot
<1>7. QED
    BY <1>3, <1>4, <1>5, <1>6 DEF NamesInv

\* Steps that neither touch a name nor a thread that holds the lock.
LEMMA NamesFrame ==
    ASSUME Typed, NamesInv, db'.names = db.names,
           UNCHANGED <<snap, lock, rows, base, moved, recording, journal,
                       stateLock, pending, unheard>>,
           \A t \in Threads :
               \/ pc'[t] = pc[t] /\ want'[t] = want[t] /\ attempt'[t] = attempt[t]
               \/ pc[t] \notin Inside /\ pc'[t] \notin Inside
    PROVE  NamesInv'
<1>1. \A t \in Threads : Rebuilding(t)' => /\ Rebuilding(t)
                                          /\ Running(t)' = Running(t)
                                          /\ pc'[t] = pc[t]
    BY DEF Rebuilding, Inside, Running
<1>2. Exclusive'
    BY DEF NamesInv, Exclusive
<1>3. Handed' /\ Journaled' /\ NamesTracked'
    BY DEF NamesInv, Handed, Journaled, NamesTracked
<1>4. Journaling'
    BY <1>1 DEF NamesInv, Journaling
<1>5. BaseIsCurrent'
    BY <1>1 DEF NamesInv, BaseIsCurrent
<1>6. RebuildTracksNames'
    BY <1>1 DEF NamesInv, RebuildTracksNames, Rebuilding
<1>7. QED
    BY <1>2, <1>3, <1>4, <1>5, <1>6 DEF NamesInv

LEMMA CommitNames ==
    ASSUME Typed, NamesInv, NEW t \in Threads, NEW m, NEW secs,
           NEW changed \in Rows, changed.names = db.names, NEW torn,
           Commit(t, m, secs, changed, torn)
    PROVE  NamesInv'
<1>1. db'.names = db.names
    BY DEF Commit, Rows
<1>2. \A u \in Threads :
          \/ pc'[u] = pc[u] /\ want'[u] = want[u] /\ attempt'[u] = attempt[u]
          \/ pc[u] \notin Inside /\ pc'[u] \notin Inside
    BY DEF Commit, Typed, TypeOK, Inside
<1>3. QED
    BY <1>1, <1>2, NamesFrame DEF Commit, ptr

LEMMA AdministerNames ==
    ASSUME Typed, NamesInv, NEW t \in Handlers, Administer(t)
    PROVE  NamesInv'
<1>0. t \in Threads
    BY DEF Threads
<1>1. CASE RequestFlush(t)
  <2>1. \A u \in Threads :
            \/ pc'[u] = pc[u] /\ want'[u] = want[u] /\ attempt'[u] = attempt[u]
            \/ pc[u] \notin Inside /\ pc'[u] \notin Inside
      BY <1>1 DEF RequestFlush, Typed, TypeOK, Inside
  <2>2. QED
      BY <1>1, <2>1, NamesFrame DEF RequestFlush, ptr, history
<1>2. CASE ~RequestFlush(t)
    BY <1>0, <1>2, AdministerCommits, CommitNames
<1>3. QED
    BY <1>1, <1>2

LEMMA EnterNames ==
    ASSUME Typed, NamesInv, NEW t \in Threads, Enter(t)
    PROVE  NamesInv'
<1>1. \A u \in Threads : pc[u] \notin Inside
    BY DEF Enter, NamesInv, Exclusive
<1>2. /\ pc[t] = "waiting" /\ lock' = t
      /\ pc' = [pc EXCEPT ![t] = IF want[t] = "flush" THEN "flushing"
                                                      ELSE "entered"]
      /\ UNCHANGED <<db, snap, want, attempt, rows, moved, stateLock, pending,
                     unheard>>
    BY DEF Enter, ptr, history
<1>3. \A u \in Threads \ {t} : pc'[u] \notin Inside /\ ~Rebuilding(u)'
    BY <1>1, <1>2 DEF Typed, TypeOK, Inside, Rebuilding
<1>4. pc'[t] \in Inside /\ pc'[t] # "built"
    BY <1>2 DEF Typed, TypeOK, Inside
<1>5. attempt[t] = 1 /\ Running(t)' = want[t]
    BY <1>2 DEF Typed, Called, Rebuilding, Running
<1>6. \/ want[t] = "reload" /\ recording' = TRUE /\ journal' = NoChange
      \/ want[t] # "reload" /\ UNCHANGED <<recording, journal>>
    BY DEF Enter, Journal
<1>7. Exclusive'
    BY <1>2, <1>3, <1>4 DEF Exclusive
<1>8. Handed' /\ NamesTracked'
    BY <1>2 DEF NamesInv, Handed, NamesTracked
<1>9. Journaling' /\ Journaled'
  <2>1. CASE want[t] = "reload"
      BY <1>2, <1>6, <2>1, NoChangeAt DEF Journaling, Journaled
  <2>2. CASE want[t] # "reload"
      BY <1>2, <1>3, <1>5, <1>6, <2>2 DEF NamesInv, Journaling, Journaled
  <2>3. QED
      BY <2>1, <2>2
<1>10. RebuildTracksNames'
    BY <1>3, <1>4 DEF RebuildTracksNames, Inside
<1>11. BaseIsCurrent'
  <2>1. want[t] = "reload_scopes" => base'[t] = snap
      BY DEF Enter, Typed, TypeOK
  <2>2. QED
      BY <1>2, <1>3, <1>5, <2>1 DEF BaseIsCurrent
<1>12. QED
    BY <1>7, <1>8, <1>9, <1>10, <1>11 DEF NamesInv

\* The names that have just been read are those of the database, and what the
\* journal holds already is among them.
LEMMA ReadNames ==
    ASSUME Typed, NamesInv, NEW t \in Threads, Read(t)
    PROVE  NamesInv'
<1>1. /\ pc[t] = "entered" /\ pc' = [pc EXCEPT ![t] = "built"]
      /\ rows' = [rows EXCEPT ![t] = db]
      /\ UNCHANGED <<db, snap, lock, want, attempt, base, moved, recording,
                     journal, stateLock, pending, unheard>>
    BY DEF Read, ptr, history
<1>2. \A u \in Threads : /\ pc'[u] \in Inside <=> pc[u] \in Inside
                         /\ Rebuilding(u)' <=> Rebuilding(u)
                         /\ Running(u)' = Running(u)
    BY <1>1 DEF Typed, TypeOK, Inside, Rebuilding, Running
<1>3. Exclusive' /\ Handed' /\ Journaling' /\ Journaled' /\ BaseIsCurrent'
      /\ NamesTracked'
    BY <1>1, <1>2 DEF NamesInv, Exclusive, Handed, Journaling, Journaled,
                      BaseIsCurrent, NamesTracked
<1>4. RebuildTracksNames'
  <2> SUFFICES ASSUME NEW u \in Threads, pc'[u] = "built",
                      Running(u)' = "reload", NEW c \in Clients \ unheard
               PROVE  Overlay(Overlay(rows'[u].names, journal), pending)[c]
                          = db.names[c]
      BY <1>1 DEF RebuildTracksNames
  <2>1. CASE u = t
    <3>1. rows'[u].names[c] = db.names[c]
        BY <1>1, <2>1 DEF Typed, TypeOK
    <3>2. \/ journal[c] \in {Untouched, db.names[c]}
          \/ pending[c] # Untouched
        BY DEF NamesInv, Journaled
    <3>3. pending[c] \in {Untouched, db.names[c]}
        BY DEF NamesInv, Handed
    <3>4. QED
        BY <3>1, <3>2, <3>3, OverlayAt
  <2>2. CASE u # t
      BY <1>1, <1>2, <2>2 DEF NamesInv, RebuildTracksNames, Typed, TypeOK
  <2>3. QED
      BY <2>1, <2>2
<1>5. QED
    BY <1>3, <1>4 DEF NamesInv

\* With nobody holding the lock there is no rebuild to speak of.
LEMMA Quiet ==
    ASSUME lock' = NoThread, \A u \in Threads : pc'[u] \notin Inside
    PROVE  /\ Exclusive' /\ RebuildTracksNames' /\ BaseIsCurrent'
           /\ \A u \in Threads : ~Rebuilding(u)'
<1>1. \A u \in Threads : ~Rebuilding(u)' /\ pc'[u] # "built"
    BY DEF Rebuilding, Inside
<1>2. Exclusive'
    BY DEF Exclusive
<1>3. RebuildTracksNames' /\ BaseIsCurrent'
    BY <1>1 DEF RebuildTracksNames, BaseIsCurrent
<1>4. QED
    BY <1>1, <1>2, <1>3

LEMMA ReleaseIsQuiet ==
    ASSUME Typed, NamesInv, NEW t \in Threads, pc[t] \in Inside, Release(t)
    PROVE  lock' = NoThread /\ \A u \in Threads : pc'[u] \notin Inside
<1>1. \A u \in Threads \ {t} : pc[u] \notin Inside
    BY DEF NamesInv, Exclusive
<1>2. lock' = NoThread /\ pc' = [pc EXCEPT ![t] = "idle"]
    BY DEF Release
<1>3. QED
    BY <1>1, <1>2 DEF Typed, TypeOK, Inside

LEMMA ReadFailsNames ==
    ASSUME Typed, NamesInv, NEW t \in Threads, ReadFails(t)
    PROVE  NamesInv'
<1>1. /\ pc[t] \in Inside /\ Release(t)
      /\ UNCHANGED <<db, snap, stateLock, pending, unheard>>
    BY DEF ReadFails, Inside, ptr, history
<1>2. /\ Exclusive' /\ RebuildTracksNames' /\ BaseIsCurrent'
      /\ \A u \in Threads : ~Rebuilding(u)'
    BY <1>1, ReleaseIsQuiet, Quiet
<1>3. Handed' /\ NamesTracked'
    BY <1>1 DEF NamesInv, Handed, NamesTracked
<1>4. journal' = NoChange \/ UNCHANGED <<recording, journal>>
    BY DEF ReadFails, Journal
<1>5. Journaling'
    BY <1>2, <1>4 DEF NamesInv, Journaling
<1>6. Journaled'
  <2>1. CASE journal' = NoChange
      BY <2>1, NoChangeAt DEF Journaled
  <2>2. CASE UNCHANGED <<recording, journal>>
      BY <1>1, <2>2 DEF NamesInv, Journaled
  <2>3. QED
      BY <1>4, <2>1, <2>2
<1>7. QED
    BY <1>2, <1>3, <1>5, <1>6 DEF NamesInv

\* The journal is applied to the names that were read and then closed.
LEMMA InstallFullNames ==
    ASSUME Typed, NamesInv, NEW t \in Threads, InstallFull(t)
    PROVE  NamesInv'
<1>1. /\ pc[t] = "built" /\ Running(t) = "reload" /\ Release(t)
      /\ snap' = FullSnapshot(rows[t], journal)
      /\ recording' = FALSE /\ journal' = NoChange
      /\ UNCHANGED <<db, stateLock, pending, unheard>>
    BY DEF InstallFull, Publish, Journal, ptr, history
<1>2. /\ Exclusive' /\ RebuildTracksNames' /\ BaseIsCurrent'
      /\ \A u \in Threads : ~Rebuilding(u)'
    BY <1>1, ReleaseIsQuiet, Quiet DEF Inside
<1>3. Handed' /\ Journaling' /\ Journaled'
    BY <1>1, <1>2, NoChangeAt DEF NamesInv, Handed, Journaling, Journaled
<1>4. NamesTracked'
    BY <1>1 DEF NamesInv, RebuildTracksNames, NamesTracked, FullSnapshot
<1>5. QED
    BY <1>2, <1>3, <1>4 DEF NamesInv

\* A partial rebuild keeps the names of the snapshot it replaces.
LEMMA InstallPartNames ==
    ASSUME Typed, NamesInv, NEW t \in Threads, NEW m, NEW s,
           s.names = snap.names, InstallPart(t, m, s)
    PROVE  NamesInv'
<1>1. /\ pc[t] = "built" /\ Release(t) /\ snap' = s
      /\ UNCHANGED <<db, recording, journal, stateLock, pending, unheard>>
    BY DEF InstallPart, Publish, ptr, history
<1>2. /\ Exclusive' /\ RebuildTracksNames' /\ BaseIsCurrent'
      /\ \A u \in Threads : ~Rebuilding(u)'
    BY <1>1, ReleaseIsQuiet, Quiet DEF Inside
<1>3. Handed' /\ Journaling' /\ Journaled'
    BY <1>1, <1>2 DEF NamesInv, Handed, Journaling, Journaled
<1>4. \A c \in Clients : Overlay(snap'.names, pending')[c]
                             = Overlay(snap.names, pending)[c]
    BY <1>1
<1>5. NamesTracked'
    BY <1>1, <1>4 DEF NamesInv, NamesTracked
<1>6. QED
    BY <1>2, <1>3, <1>5 DEF NamesInv

LEMMA PartialRebuildNames ==
    ASSUME Typed, NamesInv, NEW t \in Threads,
           InstallSettings(t) \/ InstallLists(t) \/ InstallScopes(t)
    PROVE  NamesInv'
<1>1. snap \in Snapshot /\ rows[t] \in Rows
    BY DEF Typed, TypeOK
<1>2. CASE InstallSettings(t)
  <2>1. WithSettings(snap, rows[t]).names = snap.names
      BY <1>1 DEF WithSettings, Snapshot
  <2>2. QED
      BY <1>2, <2>1, InstallPartNames DEF InstallSettings
<1>3. CASE InstallLists(t)
  <2>1. WithLists(snap, rows[t]).names = snap.names
      BY <1>1 DEF WithLists, Snapshot
  <2>2. QED
      BY <1>3, <2>1, InstallPartNames DEF InstallLists
<1>4. CASE InstallScopes(t)
  <2>1. t \notin moved /\ pc[t] = "built" /\ Running(t) = "reload_scopes"
      BY <1>4 DEF InstallScopes, InstallPart
  <2>2. base[t] = snap
      BY <2>1 DEF NamesInv, BaseIsCurrent, Rebuilding
  <2>3. WithScopes(base[t], rows[t]).names = snap.names
      BY <1>1, <2>2 DEF WithScopes, Snapshot
  <2>4. QED
      BY <1>4, <2>3, InstallPartNames DEF InstallScopes
<1>5. QED
    BY <1>2, <1>3, <1>4

\* The second attempt starts from the snapshot of the moment, the third is a
\* full rebuild that opens the journal.
LEMMA RetryScopesNames ==
    ASSUME Typed, NamesInv, NEW t \in Threads, RetryScopes(t)
    PROVE  NamesInv'
<1>1. /\ pc[t] = "built" /\ pc' = [pc EXCEPT ![t] = "entered"]
      /\ Running(t) = "reload_scopes"
      /\ attempt' = [attempt EXCEPT ![t] = @ + 1]
      /\ rows' = [rows EXCEPT ![t] = BlankRows]
      /\ UNCHANGED <<db, snap, lock, want, stateLock, pending, unheard>>
    BY DEF RetryScopes, ptr, history
<1>2. attempt[t] \in {1, 2} /\ want[t] = "reload_scopes"
    BY <1>1 DEF Running, Typed, TypeOK
<1>3. /\ pc'[t] = "entered" /\ attempt'[t] = attempt[t] + 1
      /\ \A u \in Threads \ {t} : pc'[u] = pc[u] /\ attempt'[u] = attempt[u]
    BY <1>1 DEF Typed, TypeOK
<1>4. lock = t /\ \A u \in Threads \ {t} : pc[u] \notin Inside
    BY <1>1 DEF NamesInv, Exclusive, Inside
<1>5. \A u \in Threads \ {t} : pc'[u] \notin Inside /\ ~Rebuilding(u)'
    BY <1>3, <1>4 DEF Inside, Rebuilding
<1>6. Exclusive'
    BY <1>1, <1>3, <1>4, <1>5 DEF Exclusive, Inside
<1>7. Handed' /\ NamesTracked'
    BY <1>1 DEF NamesInv, Handed, NamesTracked
<1>8. RebuildTracksNames'
    BY <1>3, <1>5 DEF RebuildTracksNames, Rebuilding
<1>9. CASE attempt[t] = 1
  <2>1. base'[t] = snap /\ UNCHANGED <<recording, journal>>
      BY <1>9 DEF RetryScopes, Typed, TypeOK
  <2>2. attempt'[t] # 3 /\ Running(t)' = "reload_scopes"
      BY <1>1, <1>2, <1>3, <1>9 DEF Running
  <2>3. Journaling' /\ Journaled'
      BY <1>1, <1>5, <2>1, <2>2 DEF NamesInv, Journaling, Journaled
  <2>4. BaseIsCurrent'
      BY <1>1, <1>5, <2>1 DEF BaseIsCurrent
  <2>5. QED
      BY <1>6, <1>7, <1>8, <2>3, <2>4 DEF NamesInv
<1>10. CASE attempt[t] = 2
  <2>1. recording' = TRUE /\ journal' = NoChange
      BY <1>10 DEF RetryScopes, Journal
  <2>2. Running(t)' = "reload"
      BY <1>3, <1>10 DEF Running
  <2>3. Journaling' /\ Journaled'
      BY <2>1, NoChangeAt DEF Journaling, Journaled
  <2>4. BaseIsCurrent'
      BY <1>5, <2>2 DEF BaseIsCurrent
  <2>5. QED
      BY <1>6, <1>7, <1>8, <2>3, <2>4 DEF NamesInv
<1>11. QED
    BY <1>2, <1>9, <1>10

\* The change is in the database before it is called back, and _state_lock is
\* free when it is made.
LEMMA LearnNameNames ==
    ASSUME Typed, NamesInv, LearnName
    PROVE  NamesInv'
<1>1. PICK c \in Clients, n \in NameOrNone :
          /\ stateLock = "free"
          /\ db' = [db EXCEPT !.names[c] = n]
          /\ \/ /\ stateLock' = "manager"
                /\ pending' = [NoChange EXCEPT ![c] = n]
                /\ unheard' = unheard
             \/ /\ unheard' = unheard \cup {c}
                /\ UNCHANGED <<stateLock, pending>>
          /\ UNCHANGED engine
    BY DEF LearnName
<1>2. UNCHANGED <<snap, lock, pc, want, attempt, rows, base, moved, recording,
                  journal>>
    BY <1>1 DEF engine
<1>3. pending = NoChange
    BY <1>1 DEF NamesInv, Handed
<1>4. /\ db'.names[c] = n /\ n # Untouched
      /\ \A d \in Clients \ {c} : db'.names[d] = db.names[d]
    BY <1>1 DEF Typed, TypeOK, Rows
<1>5. \A d \in Clients \ {c} : pending'[d] = Untouched
    BY <1>1, <1>3 DEF NoChange
<1>6. c \in unheard' \/ (pending'[c] = n /\ n # Untouched)
    BY <1>1, <1>4 DEF NoChange
<1>7. pending'[c] \in {Untouched, n}
    BY <1>1, <1>3 DEF NoChange
<1>8. \A d \in Clients \ unheard' : d \notin unheard
    BY <1>1
<1>9. \A d \in Clients : pending[d] = Untouched
    BY <1>3, NoChangeAt
<1>10. Handed'
  <2>1. stateLock' = "free" => pending' = NoChange
      BY <1>1, <1>3
  <2>2. QED
      BY <1>4, <1>5, <1>7, <2>1 DEF Handed
<1>11. Exclusive' /\ Journaling' /\ BaseIsCurrent'
    BY <1>2 DEF NamesInv, Exclusive, Journaling, BaseIsCurrent, Rebuilding,
                Running
<1>12. Journaled'
    BY <1>2, <1>4, <1>6, <1>8, <1>9 DEF NamesInv, Journaled
<1>13. NamesTracked'
  <2> SUFFICES ASSUME NEW d \in Clients \ unheard'
               PROVE  Overlay(snap.names, pending')[d] = db'.names[d]
      BY <1>2 DEF NamesTracked
  <2>1. CASE d = c
      BY <1>4, <1>6, <2>1, OverlayAt
  <2>2. CASE d # c
    <3>1. Overlay(snap.names, pending)[d] = db.names[d]
        BY <1>8 DEF NamesInv, NamesTracked
    <3>2. QED
        BY <1>4, <1>5, <1>9, <2>2, <3>1, OverlayAt
  <2>3. QED
      BY <2>1, <2>2
<1>14. RebuildTracksNames'
  <2> SUFFICES ASSUME NEW u \in Threads, pc[u] = "built",
                      Running(u) = "reload", NEW d \in Clients \ unheard'
               PROVE  Overlay(Overlay(rows[u].names, journal), pending')[d]
                          = db'.names[d]
      BY <1>2 DEF RebuildTracksNames, Running
  <2>1. CASE d = c
      BY <1>4, <1>6, <2>1, OverlayAt
  <2>2. CASE d # c
    <3>1. Overlay(Overlay(rows[u].names, journal), pending)[d] = db.names[d]
        BY <1>8 DEF NamesInv, RebuildTracksNames
    <3>2. QED
        BY <1>4, <1>5, <1>9, <2>2, <3>1, OverlayAt
  <2>3. QED
      BY <2>1, <2>2
<1>15. QED
    BY <1>10, <1>11, <1>12, <1>13, <1>14 DEF NamesInv

\* What the callback leaves right, whoever makes it.
LEMMA RememberNames ==
    ASSUME Typed, NamesInv, NEW by, RememberClientIdentities(by),
           UNCHANGED <<db, recording>>
    PROVE  /\ Handed' /\ Journaled' /\ NamesTracked'
           /\ ~recording' => journal' = NoChange
<1>1. /\ snap' = [snap EXCEPT !.names = Overlay(@, pending)]
      /\ journal' = IF recording THEN Overlay(journal, pending) ELSE journal
      /\ unheard' = {c \in unheard : pending[c] = Untouched}
      /\ stateLock' = "free" /\ pending' = NoChange
    BY DEF RememberClientIdentities, Publish
<1>2. snap'.names = Overlay(snap.names, pending)
    BY <1>1 DEF Typed, TypeOK, Snapshot
<1>3. ~recording' => journal' = NoChange
    BY <1>1 DEF NamesInv, Journaling
<1>4. Handed'
    BY <1>1, NoChangeAt DEF Handed
<1>5. ASSUME NEW c \in Clients \ unheard'
      PROVE  snap'.names[c] = db.names[c]
  <2>1. CASE pending[c] = Untouched
      BY <1>1, <1>2, <1>5, <2>1 DEF NamesInv, NamesTracked
  <2>2. CASE pending[c] # Untouched
    <3>1. pending[c] = db.names[c]
        BY <2>2 DEF NamesInv, Handed
    <3>2. QED
        BY <1>2, <2>2, <3>1, OverlayAt
  <2>3. QED
      BY <2>1, <2>2
<1>6. NamesTracked'
    BY <1>1, <1>5, NoChangeAt, OverlayAt DEF NamesTracked
<1>7. ASSUME NEW c \in Clients \ unheard'
      PROVE  journal'[c] \in {Untouched, db.names[c]}
  <2>1. CASE ~recording
      BY <1>1, <2>1, NoChangeAt DEF NamesInv, Journaling
  <2>2. CASE recording /\ pending[c] = Untouched
    <3>1. journal[c] \in {Untouched, db.names[c]}
        BY <1>1, <1>7, <2>2 DEF NamesInv, Journaled
    <3>2. QED
        BY <1>1, <2>2, <3>1, OverlayAt
  <2>3. CASE recording /\ pending[c] # Untouched
      BY <1>1, <2>3, OverlayAt DEF NamesInv, Handed
  <2>4. QED
      BY <2>1, <2>2, <2>3
<1>8. Journaled'
    BY <1>7 DEF Journaled
<1>9. QED
    BY <1>3, <1>4, <1>6, <1>8

\* The manager calls back while a rebuild may be anywhere: a full one finds the
\* change in its journal, reload_scopes finds its base replaced.
LEMMA ManagerCallbackNames ==
    ASSUME Typed, NamesInv, ManagerCallback
    PROVE  NamesInv'
<1>1. /\ RememberClientIdentities(NoThread)
      /\ UNCHANGED <<db, lock, pc, want, attempt, rows, base, recording>>
    BY DEF ManagerCallback
<1>2. /\ Handed' /\ Journaled' /\ NamesTracked'
      /\ ~recording' => journal' = NoChange
    BY <1>1, RememberNames
<1>3. /\ journal' = IF recording THEN Overlay(journal, pending) ELSE journal
      /\ unheard' = {c \in unheard : pending[c] = Untouched}
      /\ pending' = NoChange
      /\ moved' = {t \in Threads \ {NoThread} :
                      /\ want[t] = "reload_scopes" /\ attempt[t] < 3
                      /\ pc[t] \in {"entered", "built"}}
    BY <1>1 DEF RememberClientIdentities, Publish
<1>4. Exclusive'
    BY <1>1 DEF NamesInv, Exclusive
<1>5. Journaling'
    BY <1>1, <1>2 DEF NamesInv, Journaling, Rebuilding, Running
<1>6. BaseIsCurrent'
  <2>1. ASSUME NEW t \in Threads, Rebuilding(t), Running(t) = "reload_scopes"
        PROVE  t \in moved'
    <3>1. want[t] = "reload_scopes" /\ attempt[t] < 3
        BY <2>1 DEF Running, Typed, TypeOK
    <3>2. QED
        BY <1>3, <2>1, <3>1 DEF Rebuilding
  <2>2. QED
      BY <1>1, <2>1 DEF BaseIsCurrent, Rebuilding, Running
<1>7. RebuildTracksNames'
  <2> SUFFICES ASSUME NEW u \in Threads, pc[u] = "built",
                      Running(u) = "reload", NEW c \in Clients \ unheard'
               PROVE  Overlay(rows[u].names, journal')[c] = db.names[c]
      BY <1>1, <1>3, NoChangeAt, OverlayAt DEF RebuildTracksNames, Running
  <2>1. recording
      BY DEF NamesInv, Journaling, Rebuilding
  <2>2. CASE pending[c] = Untouched
    <3>1. Overlay(Overlay(rows[u].names, journal), pending)[c] = db.names[c]
        BY <1>3, <2>2 DEF NamesInv, RebuildTracksNames
    <3>2. Overlay(rows[u].names, journal)[c] = db.names[c]
        BY <2>2, <3>1, OverlayAt
    <3>3. journal'[c] = journal[c]
        BY <1>3, <2>1, <2>2, OverlayAt
    <3>4. QED
        BY <3>2, <3>3, OverlayAt
  <2>3. CASE pending[c] # Untouched
    <3>1. pending[c] = db.names[c]
        BY <2>3 DEF NamesInv, Handed
    <3>2. journal'[c] = pending[c]
        BY <1>3, <2>1, <2>3, OverlayAt
    <3>3. QED
        BY <2>3, <3>1, <3>2, OverlayAt
  <2>4. QED
      BY <2>2, <2>3
<1>8. QED
    BY <1>2, <1>4, <1>5, <1>6, <1>7 DEF NamesInv

LEMMA FlushCommitNames ==
    ASSUME Typed, NamesInv, NEW t \in Threads, FlushCommit(t)
    PROVE  NamesInv'
<1>1. /\ pc[t] = "flushing" /\ stateLock = "free" /\ stateLock' = "flush"
      /\ pc' = [pc EXCEPT ![t] = "flushed"]
      /\ pending' = [c \in Clients |-> IF c \in NamedClients THEN NoName
                                                             ELSE Untouched]
      /\ db' = [db EXCEPT !.names = [c \in Clients |-> NoName]]
      /\ UNCHANGED <<snap, lock, want, attempt, rows, base, moved, recording,
                     journal, unheard>>
    BY DEF FlushCommit, history
<1>2. \A c \in Clients : db'.names[c] = NoName
    BY <1>1 DEF Typed, TypeOK, Rows
<1>3. NoName # Untouched
    BY DEF NameOrNone
<1>4. \A u \in Threads \ {t} : pc[u] \notin Inside
    BY <1>1 DEF NamesInv, Exclusive, Inside
<1>5. \A u \in Threads : ~Rebuilding(u)'
    BY <1>1, <1>4 DEF Rebuilding, Inside, Typed, TypeOK
<1>6. Exclusive'
    BY <1>1 DEF NamesInv, Exclusive, Inside, Typed, TypeOK
<1>7. RebuildTracksNames' /\ BaseIsCurrent'
    BY <1>5 DEF RebuildTracksNames, BaseIsCurrent, Rebuilding
<1>8. Handed' /\ Journaling'
    BY <1>1, <1>2, <1>5 DEF Handed, NamesInv, Journaling
<1>9. \A c \in Clients : pending[c] = Untouched
    BY <1>1, NoChangeAt DEF NamesInv, Handed
<1>10. \A c \in Clients : c \notin NamedClients => db.names[c] = NoName
    BY DEF NamedClients
<1>11. Journaled'
    BY <1>1, <1>2, <1>3, <1>9, <1>10 DEF NamesInv, Journaled
<1>12. NamesTracked'
  <2> SUFFICES ASSUME NEW c \in Clients \ unheard
               PROVE  Overlay(snap.names, pending')[c] = NoName
      BY <1>1, <1>2 DEF NamesTracked
  <2>1. CASE c \in NamedClients
      BY <1>1, <1>3, <2>1, OverlayAt
  <2>2. CASE c \notin NamedClients
    <3>1. Overlay(snap.names, pending)[c] = NoName
        BY <1>10, <2>2 DEF NamesInv, NamesTracked
    <3>2. QED
        BY <1>1, <1>9, <2>2, <3>1, OverlayAt
  <2>3. QED
      BY <2>1, <2>2
<1>13. QED
    BY <1>6, <1>7, <1>8, <1>11, <1>12 DEF NamesInv

LEMMA FlushCallbackNames ==
    ASSUME Typed, NamesInv, NEW t \in Threads, FlushCallback(t)
    PROVE  NamesInv'
<1>1. /\ pc[t] \in Inside /\ Release(t) /\ RememberClientIdentities(t)
      /\ UNCHANGED <<db, recording>>
    BY DEF FlushCallback, Inside
<1>2. /\ Exclusive' /\ RebuildTracksNames' /\ BaseIsCurrent'
      /\ \A u \in Threads : ~Rebuilding(u)'
    BY <1>1, ReleaseIsQuiet, Quiet
<1>3. /\ Handed' /\ Journaled' /\ NamesTracked'
      /\ ~recording' => journal' = NoChange
    BY <1>1, RememberNames
<1>4. Journaling'
    BY <1>2, <1>3 DEF Journaling
<1>5. QED
    BY <1>2, <1>3, <1>4 DEF NamesInv

\* A flush that is rolled back changes nothing; one whose COMMIT was not
\* acknowledged leaves its clients unheard.
LEMMA FlushFailsNames ==
    ASSUME Typed, NamesInv, NEW t \in Threads, FlushFails(t)
    PROVE  NamesInv'
<1>1. /\ pc[t] \in Inside /\ stateLock = "free" /\ Release(t)
      /\ UNCHANGED <<snap, recording, journal, stateLock, pending>>
    BY DEF FlushFails, Inside, ptr
<1>2. /\ Exclusive' /\ RebuildTracksNames' /\ BaseIsCurrent'
      /\ \A u \in Threads : ~Rebuilding(u)'
    BY <1>1, ReleaseIsQuiet, Quiet
<1>3. pending = NoChange /\ \A c \in Clients : pending[c] = Untouched
    BY <1>1, NoChangeAt DEF NamesInv, Handed
<1>4. \A c \in Clients \ unheard' :
          c \notin unheard /\ db'.names[c] = db.names[c]
  <2>1. CASE UNCHANGED <<db, unheard>>
      BY <2>1
  <2>2. CASE /\ db' = [db EXCEPT !.names = [c \in Clients |-> NoName]]
             /\ unheard' = unheard \cup NamedClients
      BY <2>2 DEF NamedClients, Typed, TypeOK, Rows
  <2>3. QED
      BY <2>1, <2>2 DEF FlushFails
<1>5. Handed' /\ Journaling'
    BY <1>1, <1>2, <1>3 DEF NamesInv, Handed, Journaling
<1>6. Journaled' /\ NamesTracked'
    BY <1>1, <1>4 DEF NamesInv, Journaled, NamesTracked
<1>7. QED
    BY <1>2, <1>5, <1>6 DEF NamesInv

LEMMA RestartNames ==
    ASSUME Typed, NamesInv, Restart
    PROVE  NamesInv'
<1>1. /\ pc' = [t \in Threads |-> "idle"] /\ lock' = NoThread
      /\ pending' = NoChange /\ journal' = NoChange /\ stateLock' = "free"
      /\ snap' = FullSnapshot(db, NoChange) /\ db' = db
    BY DEF Restart, Started
<1>2. /\ Exclusive' /\ RebuildTracksNames' /\ BaseIsCurrent'
      /\ \A u \in Threads : ~Rebuilding(u)'
    BY <1>1, Quiet DEF Inside
<1>3. Handed' /\ Journaling' /\ Journaled'
    BY <1>1, <1>2, NoChangeAt DEF Handed, Journaling, Journaled
<1>4. NamesTracked'
    BY <1>1, NoChangeAt, OverlayAt DEF NamesTracked, FullSnapshot
<1>5. QED
    BY <1>2, <1>3, <1>4 DEF NamesInv

LEMMA RecoveryWakesNames ==
    ASSUME Typed, NamesInv, RecoveryWakes
    PROVE  NamesInv'
<1>1. \A u \in Threads :
          \/ pc'[u] = pc[u] /\ want'[u] = want[u] /\ attempt'[u] = attempt[u]
          \/ pc[u] \notin Inside /\ pc'[u] \notin Inside
    BY DEF RecoveryWakes, Typed, TypeOK, Inside
<1>2. QED
    BY <1>1, NamesFrame DEF RecoveryWakes, ptr, history

LEMMA RebuildNames ==
    ASSUME Typed, NamesInv, NEW t \in Threads, Rebuild(t)
    PROVE  NamesInv'
BY ReadNames, InstallFullNames, PartialRebuildNames, RetryScopesNames
DEF Rebuild

LEMMA NextNames ==
    ASSUME Typed, NamesInv, [Next]_vars
    PROVE  NamesInv'
<1>0. Handlers \subseteq Threads
    BY DEF Threads
<1>1. CASE \E t \in Handlers : Administer(t)
    BY <1>1, AdministerNames
<1>2. CASE \E t \in Handlers : FlushCommit(t)
    BY <1>0, <1>2, FlushCommitNames
<1>3. CASE \E t \in Handlers : FlushCallback(t)
    BY <1>0, <1>3, FlushCallbackNames
<1>4. CASE \E t \in Handlers : FlushFails(t)
    BY <1>0, <1>4, FlushFailsNames
<1>5. CASE \E t \in Threads : Enter(t)
    BY <1>5, EnterNames
<1>6. CASE \E t \in Threads : Rebuild(t)
    BY <1>6, RebuildNames
<1>7. CASE \E t \in Threads : ReadFails(t)
    BY <1>7, ReadFailsNames
<1>8. CASE RecoveryWakes
    BY <1>8, RecoveryWakesNames
<1>9. CASE LearnName
    BY <1>9, LearnNameNames
<1>10. CASE ManagerCallback
    BY <1>10, ManagerCallbackNames
<1>11. CASE Restart
    BY <1>11, RestartNames
<1>12. CASE UNCHANGED vars
    BY <1>12, NamesFrame DEF vars, engine, ptr, history
<1>13. QED
    BY <1>1, <1>2, <1>3, <1>4, <1>5, <1>6, <1>7, <1>8, <1>9, <1>10, <1>11, <1>12
    DEF Next

\* Whatever rebuilds run, fail or are retried while names are learnt, removed
\* and flushed, a client's name in the snapshot is the committed one once the
\* pending callbacks are made, unless a commit was never acknowledged.
THEOREM NamesAreTracked == Spec => []NamesTracked
<1>1. Init => Typed /\ NamesInv
    BY InitTyped, InitNames
<1>2. Typed /\ NamesInv /\ [Next]_vars => (Typed /\ NamesInv)'
    BY NextTyped, NextNames
<1>3. Typed /\ NamesInv => NamesTracked
    BY DEF NamesInv
<1>4. QED
    BY <1>1, <1>2, <1>3, PTL DEF Spec

-----------------------------------------------------------------------------
(* Versions.  A stale section is accounted for because a commit leaves its *)
(* handler waiting, a failure leaves its kind on record, and whatever was  *)
(* committed after a rebuild has read waits for the next one.              *)

VersionsInv == Ordered /\ Followed /\ StaleIsAccounted

LEMMA CoversAt ==
    /\ Covers("reload") = Sections /\ Covers("reload_settings") = {"settings"}
    /\ Covers("reload_lists") = {"lists"}
    /\ Covers("reload_scopes") = {"scopes"}
    /\ Covers("flush") = {} /\ Covers("none") = {}
BY DEF Covers

LEMMA VersionsAreNumbers ==
    ASSUME Typed, NEW s \in Sections
    PROVE  /\ snap.ver[s] \in Nat /\ db.ver[s] \in Nat /\ orphaned[s] \in Nat
           /\ \A t \in Threads : rows[t].ver[s] \in Nat
BY DEF Typed, TypeOK, Rows, Snapshot, Versions

LEMMA InitVersions == Init => VersionsInv
<1> SUFFICES ASSUME Init PROVE VersionsInv
    OBVIOUS
<1>1. /\ pc = [t \in Threads |-> "idle"] /\ snap.ver = db.ver
      /\ \A s \in Sections : db.ver[s] = 0
    BY DEF Init, FullSnapshot
<1>2. QED
    BY <1>1 DEF VersionsInv, Ordered, Followed, StaleIsAccounted

\* Steps that publish nothing, settle no failure and end no rebuild.
LEMMA VersionsFrame ==
    ASSUME Typed, VersionsInv,
           db'.ver = db.ver, snap'.ver = snap.ver, orphaned' = orphaned,
           errors \subseteq errors',
           \A t \in Threads : pc'[t] = "built" => /\ pc[t] = "built"
                                                  /\ rows'[t] = rows[t],
           \A t \in Threads : Covers(want[t]) \subseteq Covers(want'[t]),
           \/ \A t \in Threads : pc[t] = "waiting" => pc'[t] = "waiting"
           \/ \A t \in Threads : pc'[t] # "built"
    PROVE  VersionsInv'
<1>1. Ordered'
    BY DEF VersionsInv, Ordered
<1>2. Followed'
    BY DEF VersionsInv, Followed, Waiting
<1>3. StaleIsAccounted'
    BY DEF VersionsInv, StaleIsAccounted, BeingRebuilt
<1>4. QED
    BY <1>1, <1>2, <1>3 DEF VersionsInv

\* A commit either leaves its handler waiting or orphans the new version.
LEMMA CommitVersions ==
    ASSUME Typed, VersionsInv, NEW t \in Threads, NEW m, NEW secs,
           secs \subseteq Covers(m),
           NEW changed \in Rows, NEW torn,
           Commit(t, m, secs, changed, torn)
    PROVE  VersionsInv'
<1>1. /\ pc[t] = "idle" /\ want[t] = "none"
      /\ UNCHANGED <<snap, rows, errors>>
    BY DEF Commit, Typed, Called
<1>2. db'.ver = Bump(secs)
    BY DEF Commit, Rows
<1>3. \A s \in Sections : /\ s \in secs => db'.ver[s] = db.ver[s] + 1
                          /\ s \notin secs => db'.ver[s] = db.ver[s]
    BY <1>2, VersionsAreNumbers DEF Bump
<1>4. \A s \in Sections : db.ver[s] <= db'.ver[s]
    BY <1>3, VersionsAreNumbers
<1>6. CASE /\ pc' = [pc EXCEPT ![t] = "waiting"]
           /\ want' = [want EXCEPT ![t] = m]
           /\ orphaned' = orphaned
  <2>1. /\ pc'[t] = "waiting" /\ want'[t] = m
        /\ \A u \in Threads \ {t} : pc'[u] = pc[u] /\ want'[u] = want[u]
      BY <1>6 DEF Typed, TypeOK
  <2>2. Ordered'
      BY <1>1, <1>3, <1>4, <2>1, VersionsAreNumbers DEF VersionsInv, Ordered
  <2>3. \A s \in Sections : /\ s \in secs => Waiting(s)'
                            /\ Waiting(s) => Waiting(s)'
      BY <1>1, <2>1 DEF Waiting
  <2>4. Followed'
      BY <1>1, <1>3, <1>6, <2>1, <2>3 DEF VersionsInv, Followed
  <2>5. \A s \in Sections : s \in secs => BeingRebuilt(s)'
      BY <2>1 DEF BeingRebuilt
  <2>6. \A s \in Sections :
            s \notin secs /\ BeingRebuilt(s) => BeingRebuilt(s)'
      BY <1>1, <1>3, <2>1, CoversAt DEF BeingRebuilt
  <2>7. StaleIsAccounted'
      BY <1>1, <1>3, <1>6, <2>5, <2>6 DEF VersionsInv, StaleIsAccounted
  <2>8. QED
      BY <2>2, <2>4, <2>7 DEF VersionsInv
<1>7. CASE /\ orphaned' = [s \in Sections |->
                             IF s \in secs THEN Bump(secs)[s] ELSE orphaned[s]]
           /\ UNCHANGED <<pc, want>>
  <2>1. \A s \in Sections : /\ s \in secs => orphaned'[s] = db.ver[s] + 1
                            /\ s \notin secs => orphaned'[s] = orphaned[s]
      BY <1>2, <1>3, <1>7
  <2>2. Ordered'
      BY <1>1, <1>3, <1>4, <1>7, VersionsAreNumbers DEF VersionsInv, Ordered
  <2>3. Followed'
    <3> SUFFICES ASSUME NEW u \in Threads, NEW s \in Sections,
                        pc[u] = "built", rows[u].ver[s] # db'.ver[s]
                 PROVE  Waiting(s)' \/ rows[u].ver[s] < orphaned'[s]
        BY <1>1, <1>7 DEF Followed
    <3>1. CASE s \in secs
        BY <2>1, <3>1, VersionsAreNumbers DEF VersionsInv, Ordered
    <3>2. CASE s \notin secs
        BY <1>3, <1>7, <2>1, <3>2 DEF VersionsInv, Followed, Waiting
    <3>3. QED
        BY <3>1, <3>2
  <2>4. StaleIsAccounted'
    <3> SUFFICES ASSUME NEW s \in Sections, snap.ver[s] # db'.ver[s]
                 PROVE  \/ BeingRebuilt(s)'
                        \/ \E e \in errors : s \in Covers(e)
                        \/ snap.ver[s] < orphaned'[s]
        BY <1>1 DEF StaleIsAccounted
    <3>1. CASE s \in secs
        BY <2>1, <3>1, VersionsAreNumbers DEF VersionsInv, Ordered
    <3>2. CASE s \notin secs
      <4>1. BeingRebuilt(s) => BeingRebuilt(s)'
          BY <1>1, <1>3, <1>7, <3>2 DEF BeingRebuilt
      <4>2. QED
          BY <1>3, <2>1, <3>2, <4>1 DEF VersionsInv, StaleIsAccounted
    <3>3. QED
        BY <3>1, <3>2
  <2>5. QED
      BY <2>2, <2>3, <2>4 DEF VersionsInv
<1>8. QED
    BY <1>6, <1>7 DEF Commit

LEMMA AdministerVersions ==
    ASSUME Typed, VersionsInv, NEW t \in Handlers, Administer(t)
    PROVE  VersionsInv'
<1>0. t \in Threads
    BY DEF Threads
<1>1. CASE RequestFlush(t)
  <2>1. /\ pc[t] = "idle" /\ want[t] = "none"
        /\ pc' = [pc EXCEPT ![t] = "waiting"]
        /\ want' = [want EXCEPT ![t] = "flush"]
        /\ UNCHANGED <<db, snap, rows, errors, orphaned>>
      BY <1>0, <1>1 DEF RequestFlush, history, Typed, Called
  <2>2. \A u \in Threads \ {t} : pc'[u] = pc[u] /\ want'[u] = want[u]
      BY <2>1 DEF Typed, TypeOK
  <2>3. pc'[t] = "waiting"
      BY <1>0, <2>1 DEF Typed, TypeOK
  <2>4. QED
      BY <2>1, <2>2, <2>3, CoversAt, VersionsFrame
<1>2. CASE ~RequestFlush(t)
    BY <1>0, <1>2, AdministerCommits, CommitVersions
<1>3. QED
    BY <1>1, <1>2

LEMMA EnterVersions ==
    ASSUME Typed, NamesInv, VersionsInv, NEW t \in Threads, Enter(t)
    PROVE  VersionsInv'
<1>1. /\ \A u \in Threads : pc[u] \notin Inside
      /\ pc' = [pc EXCEPT ![t] = IF want[t] = "flush" THEN "flushing"
                                                      ELSE "entered"]
      /\ UNCHANGED <<db, snap, want, rows, errors, orphaned>>
    BY DEF Enter, history, NamesInv, Exclusive
<1>2. \A u \in Threads : pc'[u] # "built"
    BY <1>1 DEF Typed, TypeOK, Inside
<1>3. QED
    BY <1>1, <1>2, VersionsFrame

\* A rebuild that has just read is behind in nothing.
LEMMA ReadVersions ==
    ASSUME Typed, NamesInv, VersionsInv, NEW t \in Threads, Read(t)
    PROVE  VersionsInv'
<1>1. /\ pc[t] = "entered" /\ pc' = [pc EXCEPT ![t] = "built"]
      /\ rows' = [rows EXCEPT ![t] = db]
      /\ UNCHANGED <<db, snap, want, errors, orphaned>>
    BY DEF Read, history
<1>2. \A u \in Threads \ {t} : pc'[u] = pc[u] /\ pc[u] # "built"
    BY <1>1 DEF NamesInv, Exclusive, Inside, Typed, TypeOK
<1>3. rows'[t] = db
    BY <1>1 DEF Typed, TypeOK
<1>4. Ordered'
    BY <1>1, <1>2, <1>3, VersionsAreNumbers DEF VersionsInv, Ordered
<1>5. Followed'
    BY <1>1, <1>2, <1>3 DEF Followed
<1>6. StaleIsAccounted'
    BY <1>1, <1>2, <1>3 DEF VersionsInv, StaleIsAccounted, BeingRebuilt
<1>7. QED
    BY <1>4, <1>5, <1>6 DEF VersionsInv

\* The thread that fails leaves its kind on record in its stead.
LEMMA ReadFailsVersions ==
    ASSUME Typed, NamesInv, VersionsInv, NEW t \in Threads, ReadFails(t)
    PROVE  VersionsInv'
<1>1. /\ pc[t] = "entered" /\ Release(t)
      /\ errors' = errors \cup {Running(t), want[t]}
      /\ UNCHANGED <<db, snap, orphaned>>
    BY DEF ReadFails, history
<1>2. /\ \A u \in Threads : pc'[u] # "built"
      /\ \A u \in Threads \ {t} : want'[u] = want[u]
    BY <1>1, ReleaseIsQuiet DEF Inside, Release, Typed, TypeOK
<1>3. Ordered'
    BY <1>1, <1>2 DEF VersionsInv, Ordered
<1>4. Followed'
    BY <1>2 DEF Followed
<1>5. ASSUME NEW s \in Sections, BeingRebuilt(s)
      PROVE  BeingRebuilt(s)' \/ \E e \in errors' : s \in Covers(e)
    BY <1>1, <1>2, <1>5 DEF BeingRebuilt
<1>6. StaleIsAccounted'
    BY <1>1, <1>5 DEF VersionsInv, StaleIsAccounted
<1>7. QED
    BY <1>3, <1>4, <1>6 DEF VersionsInv

\* A rebuild that publishes section s as it has read it accounts for it.
LEMMA PublishedIsFollowed ==
    ASSUME Typed, NamesInv, VersionsInv, NEW t \in Threads, pc[t] = "built",
           Release(t), db' = db, orphaned' = orphaned, NEW s \in Sections,
           snap'.ver[s] = rows[t].ver[s], snap'.ver[s] # db.ver[s]
    PROVE  BeingRebuilt(s)' \/ snap'.ver[s] < orphaned'[s]
<1>1. Waiting(s) \/ snap'.ver[s] < orphaned'[s]
    BY DEF VersionsInv, Followed
<1>2. ASSUME Waiting(s)
      PROVE  BeingRebuilt(s)'
  <2>1. PICK u \in Threads : pc[u] = "waiting" /\ s \in Covers(want[u])
      BY <1>2 DEF Waiting
  <2>2. u # t /\ pc'[u] = "waiting" /\ want'[u] = want[u]
      BY <2>1 DEF Release, Typed, TypeOK
  <2>3. QED
      BY <2>1, <2>2 DEF BeingRebuilt
<1>3. QED
    BY <1>1, <1>2

LEMMA InstallFullVersions ==
    ASSUME Typed, NamesInv, VersionsInv, NEW t \in Threads, InstallFull(t)
    PROVE  VersionsInv'
<1>1. /\ pc[t] = "built" /\ Release(t) /\ snap'.ver = rows[t].ver
      /\ db' = db /\ orphaned' = orphaned
    BY DEF InstallFull, Publish, FullSnapshot, history
<1>2. \A u \in Threads : pc'[u] # "built"
    BY <1>1, ReleaseIsQuiet DEF Inside
<1>3. Ordered'
    BY <1>1, <1>2 DEF VersionsInv, Ordered
<1>4. Followed'
    BY <1>2 DEF Followed
<1>5. StaleIsAccounted'
    BY <1>1, PublishedIsFollowed DEF StaleIsAccounted
<1>6. QED
    BY <1>3, <1>4, <1>5 DEF VersionsInv

\* A partial rebuild accounts for its own section as a full one does; the
\* others keep the witnesses and the failures they had.
LEMMA InstallPartVersions ==
    ASSUME Typed, NamesInv, VersionsInv, NEW t \in Threads,
           NEW m \in Methods, NEW k \in Sections, Covers(m) = {k},
           m # "reload", NEW new, InstallPart(t, m, new),
           \A s \in Sections : new.ver[s] = IF s = k THEN rows[t].ver[k]
                                                     ELSE snap.ver[s]
    PROVE  VersionsInv'
<1>1. /\ pc[t] = "built" /\ Running(t) = m /\ Release(t) /\ snap' = new
      /\ errors' = errors \ {m} /\ db' = db /\ orphaned' = orphaned
    BY DEF InstallPart, Publish, history
<1>2. want[t] = m
    BY <1>1 DEF Running
<1>3. \A u \in Threads : pc'[u] # "built"
    BY <1>1, ReleaseIsQuiet DEF Inside
<1>4. \A u \in Threads \ {t} : want'[u] = want[u]
    BY <1>1 DEF Release, Typed, TypeOK
<1>5. Ordered'
    BY <1>1, <1>3 DEF VersionsInv, Ordered
<1>6. Followed'
    BY <1>3 DEF Followed
<1>7. StaleIsAccounted'
  <2> SUFFICES ASSUME NEW s \in Sections, snap'.ver[s] # db.ver[s]
               PROVE  \/ BeingRebuilt(s)'
                      \/ \E e \in errors' : s \in Covers(e)
                      \/ snap'.ver[s] < orphaned'[s]
      BY <1>1 DEF StaleIsAccounted
  <2>1. CASE s = k
      BY <1>1, <2>1, PublishedIsFollowed
  <2>2. CASE s # k
    <3>1. snap'.ver[s] = snap.ver[s]
        BY <1>1, <2>2
    <3>2. ASSUME BeingRebuilt(s)
          PROVE  BeingRebuilt(s)'
        BY <1>2, <1>3, <1>4, <2>2, <3>2 DEF BeingRebuilt
    <3>3. ASSUME NEW e \in errors, s \in Covers(e)
          PROVE  e \in errors'
        BY <1>1, <2>2, <3>3
    <3>4. QED
        BY <1>1, <3>1, <3>2, <3>3 DEF VersionsInv, StaleIsAccounted
  <2>3. QED
      BY <2>1, <2>2
<1>8. QED
    BY <1>5, <1>6, <1>7 DEF VersionsInv

LEMMA PartialRebuildVersions ==
    ASSUME Typed, NamesInv, VersionsInv, NEW t \in Threads,
           InstallSettings(t) \/ InstallLists(t) \/ InstallScopes(t)
    PROVE  VersionsInv'
<1> USE DEF Sections, Methods
<1>1. snap \in Snapshot /\ rows[t] \in Rows /\ base[t] \in Snapshot
    BY DEF Typed, TypeOK
<1>2. CASE InstallSettings(t)
  <2>1. \A s \in Sections :
            WithSettings(snap, rows[t]).ver[s]
                = IF s = "settings" THEN rows[t].ver["settings"]
                                    ELSE snap.ver[s]
      BY <1>1 DEF WithSettings, Snapshot, Versions
  <2>2. QED
      BY <1>2, <2>1, CoversAt, InstallPartVersions DEF InstallSettings
<1>3. CASE InstallLists(t)
  <2>1. \A s \in Sections :
            WithLists(snap, rows[t]).ver[s]
                = IF s = "lists" THEN rows[t].ver["lists"] ELSE snap.ver[s]
      BY <1>1 DEF WithLists, Snapshot, Versions
  <2>2. QED
      BY <1>3, <2>1, CoversAt, InstallPartVersions DEF InstallLists
<1>4. CASE InstallScopes(t)
  <2>1. base[t] = snap
      BY <1>4 DEF InstallScopes, InstallPart, NamesInv, BaseIsCurrent,
                  Rebuilding
  <2>2. \A s \in Sections :
            WithScopes(base[t], rows[t]).ver[s]
                = IF s = "scopes" THEN rows[t].ver["scopes"] ELSE snap.ver[s]
      BY <1>1, <2>1 DEF WithScopes, Snapshot, Versions
  <2>3. QED
      BY <1>4, <2>2, CoversAt, InstallPartVersions DEF InstallScopes
<1>5. QED
    BY <1>2, <1>3, <1>4

LEMMA RetryScopesVersions ==
    ASSUME Typed, NamesInv, VersionsInv, NEW t \in Threads, RetryScopes(t)
    PROVE  VersionsInv'
<1>1. /\ pc[t] = "built" /\ pc' = [pc EXCEPT ![t] = "entered"]
      /\ UNCHANGED <<db, snap, want, errors, orphaned>>
    BY DEF RetryScopes, history
<1>2. \A u \in Threads : pc'[u] # "built"
    BY <1>1 DEF NamesInv, Exclusive, Inside, Typed, TypeOK
<1>3. QED
    BY <1>1, <1>2, VersionsFrame

LEMMA RebuildVersions ==
    ASSUME Typed, NamesInv, VersionsInv, NEW t \in Threads, Rebuild(t)
    PROVE  VersionsInv'
BY ReadVersions, InstallFullVersions, PartialRebuildVersions,
   RetryScopesVersions
DEF Rebuild

\* Names come and go without a version.
LEMMA NameStepVersions ==
    ASSUME Typed, NamesInv, VersionsInv, LearnName \/ ManagerCallback
    PROVE  VersionsInv'
<1>1. CASE LearnName
  <2>1. db'.ver = db.ver /\ UNCHANGED <<snap, pc, want, rows, errors, orphaned>>
      BY <1>1 DEF LearnName, engine, Typed, TypeOK, Rows
  <2>2. QED
      BY <2>1, VersionsFrame
<1>2. CASE ManagerCallback
  <2>1. snap'.ver = snap.ver /\ UNCHANGED <<db, pc, want, rows, errors, orphaned>>
      BY <1>2 DEF ManagerCallback, RememberClientIdentities, Publish, Typed,
                  TypeOK, Snapshot
  <2>2. QED
      BY <2>1, VersionsFrame
<1>3. QED
    BY <1>1, <1>2

LEMMA FlushVersions ==
    ASSUME Typed, NamesInv, VersionsInv, NEW t \in Threads,
           FlushCommit(t) \/ FlushCallback(t) \/ FlushFails(t)
    PROVE  VersionsInv'
<1>1. pc[t] \in {"flushing", "flushed"} /\ want[t] = "flush"
    BY DEF FlushCommit, FlushCallback, FlushFails, Typed, Called
<1>2. \A u \in Threads : pc[u] # "built"
    BY <1>1 DEF NamesInv, Exclusive, Inside
<1>3. CASE FlushCommit(t)
  <2>1. /\ db'.ver = db.ver /\ pc' = [pc EXCEPT ![t] = "flushed"]
        /\ UNCHANGED <<snap, want, rows, errors, orphaned>>
      BY <1>3 DEF FlushCommit, history, Typed, TypeOK, Rows
  <2>2. \A u \in Threads : pc'[u] # "built"
      BY <1>2, <2>1 DEF Typed, TypeOK
  <2>3. QED
      BY <2>1, <2>2, VersionsFrame
<1>4. CASE FlushCallback(t) \/ FlushFails(t)
  <2>1. /\ db'.ver = db.ver /\ snap'.ver = snap.ver /\ Release(t)
        /\ UNCHANGED <<errors, orphaned>>
      BY <1>4 DEF FlushCallback, FlushFails, RememberClientIdentities, Publish,
                  Typed, TypeOK, Rows, Snapshot
  <2>2. \A u \in Threads : pc'[u] # "built"
      BY <1>1, <2>1, ReleaseIsQuiet DEF Inside
  <2>3. \A u \in Threads : Covers(want[u]) \subseteq Covers(want'[u])
      BY <1>1, <2>1, CoversAt DEF Release, Typed, TypeOK
  <2>4. QED
      BY <2>1, <2>2, <2>3, VersionsFrame
<1>5. QED
    BY <1>3, <1>4

LEMMA RestartVersions ==
    ASSUME Typed, VersionsInv, Restart
    PROVE  VersionsInv'
<1>1. /\ pc' = [t \in Threads |-> "idle"] /\ snap'.ver = db.ver
      /\ db' = db /\ orphaned' = orphaned
    BY DEF Restart, Started, FullSnapshot
<1>2. QED
    BY <1>1, VersionsAreNumbers
    DEF VersionsInv, Ordered, Followed, StaleIsAccounted

LEMMA RecoveryWakesVersions ==
    ASSUME Typed, VersionsInv, RecoveryWakes
    PROVE  VersionsInv'
<1>1. /\ pc[Recovery] = "idle" /\ want[Recovery] = "none"
      /\ pc' = [pc EXCEPT ![Recovery] = "waiting"]
      /\ want' = [want EXCEPT ![Recovery] = "reload"]
      /\ UNCHANGED <<db, snap, rows, errors, orphaned>>
    BY DEF RecoveryWakes, history, Typed, Called, Threads
<1>2. \A u \in Threads :
          \/ u = Recovery /\ pc'[u] = "waiting" /\ want[u] = "none"
          \/ pc'[u] = pc[u] /\ want'[u] = want[u]
    BY <1>1 DEF Typed, TypeOK
<1>3. QED
    BY <1>1, <1>2, CoversAt, VersionsFrame

LEMMA NextVersions ==
    ASSUME Typed, NamesInv, VersionsInv, [Next]_vars
    PROVE  VersionsInv'
<1>0. Handlers \subseteq Threads
    BY DEF Threads
<1>1. CASE \E t \in Handlers : Administer(t)
    BY <1>1, AdministerVersions
<1>2. CASE \E t \in Handlers : FlushCommit(t) \/ FlushCallback(t)
                               \/ FlushFails(t)
    BY <1>0, <1>2, FlushVersions
<1>3. CASE \E t \in Threads : Enter(t)
    BY <1>3, EnterVersions
<1>4. CASE \E t \in Threads : Rebuild(t)
    BY <1>4, RebuildVersions
<1>5. CASE \E t \in Threads : ReadFails(t)
    BY <1>5, ReadFailsVersions
<1>6. CASE RecoveryWakes
    BY <1>6, RecoveryWakesVersions
<1>7. CASE LearnName \/ ManagerCallback
    BY <1>7, NameStepVersions
<1>8. CASE Restart
    BY <1>8, RestartVersions
<1>9. CASE UNCHANGED vars
    BY <1>9, VersionsFrame DEF vars, engine, history
<1>10. QED
    BY <1>1, <1>2, <1>3, <1>4, <1>5, <1>6, <1>7, <1>8, <1>9 DEF Next

-----------------------------------------------------------------------------
(* Contents.  Sections at the newest version hold what the database holds: *)
(* whatever changes the contents of a section is a commit that counts up   *)
(* its version, save that deleting a list changes the targets it was       *)
(* assigned to without counting as a change of the targets.                *)

Contents == AssignedExist /\ ListsAreExact /\ TargetsAreExact

\* How the rows that a commit leaves relate to the sections it counts up.
Accurate(secs, changed) ==
    /\ \A s \in ScopeIds : changed.assign[s] \subseteq changed.present
    /\ "lists" \notin secs => changed.present = db.present
    /\ "scopes" \notin secs =>
          /\ changed.present \subseteq db.present
          /\ \A s \in ScopeIds :
                changed.assign[s] = db.assign[s] \cap changed.present

LEMMA InitContents == Init => Contents
<1> SUFFICES ASSUME Init PROVE Contents
    OBVIOUS
<1>1. \A t \in Threads : pc[t] # "built"
    BY DEF Init
<1>2. /\ snap.present = db.present /\ snap.ids = db.assign
      /\ \A s \in ScopeIds : db.assign[s] \subseteq db.present
    BY DEF Init, FullSnapshot
<1>3. QED
    BY <1>1, <1>2
    DEF Contents, AssignedExist, ListsAreExact, TargetsAreExact

\* Steps that leave lists and targets alone, in the database and the snapshot.
LEMMA ContentsFrame ==
    ASSUME Contents,
           db'.ver = db.ver, db'.present = db.present, db'.assign = db.assign,
           snap'.ver = snap.ver, snap'.present = snap.present,
           snap'.ids = snap.ids,
           \A t \in Threads : pc'[t] = "built" => /\ pc[t] = "built"
                                                  /\ rows'[t] = rows[t]
    PROVE  Contents'
<1>1. AssignedExist'
    BY DEF Contents, AssignedExist
<1>2. ListsAreExact'
    BY DEF Contents, ListsAreExact
<1>3. TargetsAreExact'
    BY DEF Contents, TargetsAreExact
<1>4. QED
    BY <1>1, <1>2, <1>3 DEF Contents

LEMMA AdministerIsAccurate ==
    ASSUME Typed, Contents, NEW t \in Handlers, Administer(t)
    PROVE  \/ RequestFlush(t)
           \/ \E m \in Methods, secs \in SUBSET Sections, changed \in Rows,
                torn \in BOOLEAN :
                 Accurate(secs, changed) /\ Commit(t, m, secs, changed, torn)
<1> USE DEF Methods, Sections
<1>0. /\ db \in Rows
      /\ \A s \in ScopeIds : db.assign[s] \subseteq db.present
    BY DEF Typed, TypeOK, Contents, AssignedExist
<1>1. \A secs \in SUBSET Sections : Accurate(secs, db)
    BY <1>0 DEF Accurate
<1>2. CASE SaveSettings(t)
    BY <1>0, <1>1, <1>2 DEF SaveSettings
<1>3. CASE ChangeList(t) \/ ChangeManualList(t)
    BY <1>0, <1>1, <1>3 DEF ChangeList, ChangeManualList
<1>4. CASE DeleteList(t)
  <2>1. PICK i \in db.present :
            Commit(t, "reload_lists", {"lists"},
                   [db EXCEPT !.present = @ \ {i},
                              !.assign = [s \in ScopeIds |-> @[s] \ {i}]],
                   TRUE)
      BY <1>4 DEF DeleteList
  <2> DEFINE d == [db EXCEPT !.present = @ \ {i},
                             !.assign = [s \in ScopeIds |-> @[s] \ {i}]]
  <2>2. /\ d \in Rows /\ d.present = db.present \ {i}
        /\ \A s \in ScopeIds : d.assign[s] = db.assign[s] \ {i}
      BY <1>0 DEF Rows
  <2>3. \A s \in ScopeIds : d.assign[s] = db.assign[s] \cap d.present
      BY <1>0, <2>2
  <2>4. Accurate({"lists"}, d)
      BY <2>2, <2>3 DEF Accurate
  <2>5. QED
      BY <2>1, <2>2, <2>4
<1>5. ASSUME NEW i \in ListIds, NEW targets \in SUBSET ScopeIds
      PROVE  /\ AssignedTo(i, targets) \in [ScopeIds -> SUBSET ListIds]
             /\ \A s \in ScopeIds :
                   AssignedTo(i, targets)[s] \subseteq db.present \cup {i}
    BY <1>0 DEF AssignedTo, Rows
<1>6. CASE AddList(t)
  <2>1. PICK targets \in SUBSET ScopeIds :
            Commit(t, "reload", {"lists", "scopes"},
                   [db EXCEPT !.present = @ \cup {db.nextId},
                              !.nextId = @ + 1,
                              !.assign = AssignedTo(db.nextId, targets)], FALSE)
      BY <1>6 DEF AddList
  <2>2. db.nextId \in ListIds /\ db.nextId + 1 \in 1..(MaxLists + 1)
      BY <1>0, <1>6 DEF AddList, Rows, ListIds
  <2> DEFINE d == [db EXCEPT !.present = @ \cup {db.nextId}, !.nextId = @ + 1,
                             !.assign = AssignedTo(db.nextId, targets)]
  <2>3. /\ d \in Rows /\ d.present = db.present \cup {db.nextId}
        /\ d.assign = AssignedTo(db.nextId, targets)
      BY <1>0, <1>5, <2>2 DEF Rows
  <2>4. Accurate({"lists", "scopes"}, d)
      BY <1>5, <2>2, <2>3 DEF Accurate
  <2>5. QED
      BY <2>1, <2>3, <2>4
<1>7. CASE EditList(t)
  <2>1. PICK i \in db.present, targets \in SUBSET ScopeIds :
            Commit(t, "reload", {"lists", "scopes"},
                   [db EXCEPT !.assign = AssignedTo(i, targets)], FALSE)
      BY <1>7 DEF EditList
  <2>2. i \in ListIds
      BY <1>0 DEF Rows
  <2> DEFINE d == [db EXCEPT !.assign = AssignedTo(i, targets)]
  <2>3. /\ d \in Rows /\ d.present = db.present
        /\ d.assign = AssignedTo(i, targets)
      BY <1>0, <1>5, <2>2 DEF Rows
  <2>4. Accurate({"lists", "scopes"}, d)
      BY <1>5, <2>2, <2>3 DEF Accurate
  <2>5. QED
      BY <2>1, <2>3, <2>4
<1>8. CASE SaveScope(t)
  <2>1. PICK s \in ScopeIds, ids \in SUBSET db.present :
            Commit(t, "reload_scopes", {"scopes"},
                   [db EXCEPT !.assign[s] = ids], FALSE)
      BY <1>8 DEF SaveScope
  <2> DEFINE d == [db EXCEPT !.assign[s] = ids]
  <2>2. /\ d \in Rows /\ d.present = db.present
        /\ \A u \in ScopeIds : d.assign[u] \in {ids, db.assign[u]}
      BY <1>0 DEF Rows
  <2>3. Accurate({"scopes"}, d)
      BY <1>0, <2>2 DEF Accurate
  <2>4. QED
      BY <2>1, <2>2, <2>3
<1>9. QED
    BY <1>2, <1>3, <1>4, <1>6, <1>7, <1>8 DEF Administer

\* A commit that changes what a section holds leaves it ahead of the snapshot
\* and of whatever a rebuild has read.
LEMMA CommitContents ==
    ASSUME Typed, VersionsInv, Contents, NEW t \in Threads, NEW m,
           NEW secs \in SUBSET Sections, NEW changed \in Rows, NEW torn,
           Accurate(secs, changed), Commit(t, m, secs, changed, torn)
    PROVE  Contents'
<1>1. /\ db'.ver = Bump(secs) /\ db'.present = changed.present
      /\ db'.assign = changed.assign /\ UNCHANGED <<snap, rows>>
    BY DEF Commit, Rows
<1>2. \A u \in Threads : pc'[u] = "built" => pc[u] = "built"
    BY DEF Commit, Typed, TypeOK
<1>3. \A s \in Sections : /\ s \in secs => db'.ver[s] = db.ver[s] + 1
                          /\ s \notin secs => db'.ver[s] = db.ver[s]
    BY <1>1, VersionsAreNumbers DEF Bump
<1>4. \A s \in secs : /\ snap.ver[s] # db'.ver[s]
                      /\ \A u \in Threads :
                            pc[u] = "built" => rows[u].ver[s] # db'.ver[s]
    BY <1>3, VersionsAreNumbers DEF VersionsInv, Ordered
<1>5. "lists" \in Sections /\ "scopes" \in Sections
    BY DEF Sections
<1>6. AssignedExist'
    BY <1>1, <1>2 DEF Contents, AssignedExist, Accurate
<1>7. ListsAreExact'
  <2>1. CASE "lists" \in secs
      BY <1>1, <1>2, <1>4, <2>1 DEF ListsAreExact
  <2>2. CASE "lists" \notin secs
      BY <1>1, <1>2, <1>3, <1>5, <2>2 DEF Contents, ListsAreExact, Accurate
  <2>3. QED
      BY <2>1, <2>2
<1>8. TargetsAreExact'
  <2>1. CASE "scopes" \in secs
      BY <1>1, <1>2, <1>4, <2>1 DEF TargetsAreExact
  <2>2. CASE "scopes" \notin secs
    <3>1. /\ changed.present \subseteq db.present
          /\ \A s \in ScopeIds :
                changed.assign[s] = db.assign[s] \cap changed.present
        BY <2>2 DEF Accurate
    <3>2. db'.ver["scopes"] = db.ver["scopes"]
        BY <1>3, <1>5, <2>2
    <3> SUFFICES ASSUME NEW s \in ScopeIds
                 PROVE  /\ snap.ver["scopes"] = db.ver["scopes"] =>
                            /\ snap.ids[s] \cap changed.present
                                   = changed.assign[s]
                            /\ \A u \in Threads : pc[u] = "built" =>
                                   changed.assign[s] \subseteq rows[u].present
                        /\ \A u \in Threads :
                              /\ pc[u] = "built"
                              /\ rows[u].ver["scopes"] = db.ver["scopes"]
                              => rows[u].assign[s] \cap changed.present
                                     = changed.assign[s]
        BY <1>1, <1>2, <3>2 DEF TargetsAreExact
    <3>3. QED
        BY <3>1 DEF Contents, TargetsAreExact
  <2>3. QED
      BY <2>1, <2>2
<1>9. QED
    BY <1>6, <1>7, <1>8 DEF Contents

LEMMA AdministerContents ==
    ASSUME Typed, VersionsInv, Contents, NEW t \in Handlers, Administer(t)
    PROVE  Contents'
<1>0. t \in Threads
    BY DEF Threads
<1>1. CASE RequestFlush(t)
  <2>1. \A u \in Threads : pc'[u] = "built" => pc[u] = "built"
      BY <1>0, <1>1 DEF RequestFlush, Typed, TypeOK
  <2>2. QED
      BY <1>1, <2>1, ContentsFrame DEF RequestFlush
<1>2. CASE ~RequestFlush(t)
    BY <1>0, <1>2, AdministerIsAccurate, CommitContents
<1>3. QED
    BY <1>1, <1>2

LEMMA ReadContents ==
    ASSUME Typed, NamesInv, Contents, NEW t \in Threads, Read(t)
    PROVE  Contents'
<1>1. /\ pc[t] = "entered" /\ rows' = [rows EXCEPT ![t] = db]
      /\ pc' = [pc EXCEPT ![t] = "built"] /\ UNCHANGED <<db, snap>>
    BY DEF Read
<1>2. \A u \in Threads : pc'[u] = "built" => rows'[u] = db
    BY <1>1 DEF NamesInv, Exclusive, Inside, Typed, TypeOK
<1>3. QED
    BY <1>1, <1>2
    DEF Contents, AssignedExist, ListsAreExact, TargetsAreExact

\* The end of a rebuild: nobody has read anything, so what was published is
\* all that matters.
LEMMA PublishedContents ==
    ASSUME Typed, NamesInv, Contents, NEW t \in Threads, pc[t] = "built",
           Release(t), UNCHANGED db,
           snap'.ver["lists"] = db.ver["lists"] =>
              /\ snap'.present = db.present
              /\ \A s \in ScopeIds : snap'.ids[s] \subseteq snap'.present,
           snap'.ver["scopes"] = db.ver["scopes"] =>
              \A s \in ScopeIds : snap'.ids[s] \cap db.present = db.assign[s]
    PROVE  Contents'
<1>1. \A u \in Threads : pc'[u] # "built"
    BY ReleaseIsQuiet DEF Inside
<1>2. QED
    BY <1>1 DEF Contents, AssignedExist, ListsAreExact, TargetsAreExact

LEMMA InstallFullContents ==
    ASSUME Typed, NamesInv, Contents, NEW t \in Threads, InstallFull(t)
    PROVE  Contents'
<1>1. /\ pc[t] = "built" /\ Release(t) /\ UNCHANGED db
      /\ snap' = FullSnapshot(rows[t], journal)
    BY DEF InstallFull, Publish
<1>2. /\ snap'.ver = rows[t].ver /\ snap'.present = rows[t].present
      /\ snap'.ids = rows[t].assign
    BY <1>1 DEF FullSnapshot
<1>3. QED
    BY <1>1, <1>2, PublishedContents
    DEF Contents, AssignedExist, ListsAreExact, TargetsAreExact

LEMMA InstallSettingsContents ==
    ASSUME Typed, NamesInv, Contents, NEW t \in Threads, InstallSettings(t)
    PROVE  Contents'
<1>1. /\ pc[t] = "built" /\ Release(t) /\ UNCHANGED db
      /\ snap' = WithSettings(snap, rows[t])
    BY DEF InstallSettings, InstallPart, Publish
<1>2. /\ snap'.ver["lists"] = snap.ver["lists"]
      /\ snap'.ver["scopes"] = snap.ver["scopes"]
      /\ snap'.present = snap.present /\ snap'.ids = snap.ids
    BY <1>1 DEF WithSettings, Typed, TypeOK, Snapshot, Versions, Sections
<1>3. QED
    BY <1>1, <1>2, PublishedContents
    DEF Contents, ListsAreExact, TargetsAreExact

\* A list that is assigned at the newest version of the targets is one that
\* the rebuild has read, so dropping the others loses no assignment.
LEMMA InstallListsContents ==
    ASSUME Typed, NamesInv, Contents, NEW t \in Threads, InstallLists(t)
    PROVE  Contents'
<1>1. /\ pc[t] = "built" /\ Release(t) /\ UNCHANGED db
      /\ snap' = WithLists(snap, rows[t])
    BY DEF InstallLists, InstallPart, Publish
<1>2. /\ snap'.ver["lists"] = rows[t].ver["lists"]
      /\ snap'.ver["scopes"] = snap.ver["scopes"]
      /\ snap'.present = rows[t].present
      /\ \A s \in ScopeIds : snap'.ids[s] = snap.ids[s] \cap rows[t].present
    BY <1>1 DEF WithLists, Typed, TypeOK, Snapshot, Versions, Sections
<1>3. snap.ver["scopes"] = db.ver["scopes"] =>
          \A s \in ScopeIds : /\ snap.ids[s] \cap db.present = db.assign[s]
                              /\ db.assign[s] \subseteq rows[t].present
    BY <1>1 DEF Contents, TargetsAreExact
<1>4. snap'.ver["scopes"] = db.ver["scopes"] =>
          \A s \in ScopeIds : snap'.ids[s] \cap db.present = db.assign[s]
    BY <1>2, <1>3
<1>5. snap'.ver["lists"] = db.ver["lists"] => snap'.present = db.present
    BY <1>1, <1>2 DEF Contents, ListsAreExact
<1>6. QED
    BY <1>1, <1>2, <1>4, <1>5, PublishedContents

\* If the lists of the snapshot are the newest ones, the rebuild has read the
\* same lists, and assigns none but them.
LEMMA InstallScopesContents ==
    ASSUME Typed, NamesInv, VersionsInv, Contents, NEW t \in Threads,
           InstallScopes(t)
    PROVE  Contents'
<1>1. /\ pc[t] = "built" /\ Release(t) /\ UNCHANGED db /\ base[t] = snap
      /\ snap' = WithScopes(snap, rows[t])
    BY DEF InstallScopes, InstallPart, Publish, NamesInv, BaseIsCurrent,
           Rebuilding
<1>2. /\ snap'.ver["lists"] = snap.ver["lists"]
      /\ snap'.ver["scopes"] = rows[t].ver["scopes"]
      /\ snap'.present = snap.present /\ snap'.ids = rows[t].assign
    BY <1>1 DEF WithScopes, Typed, TypeOK, Snapshot, Versions, Sections
<1>3. snap.ver["lists"] = db.ver["lists"] =>
          rows[t].ver["lists"] = db.ver["lists"]
    BY <1>1, VersionsAreNumbers DEF VersionsInv, Ordered, Sections
<1>4. snap'.ver["lists"] = db.ver["lists"] =>
          /\ snap'.present = db.present
          /\ \A s \in ScopeIds : snap'.ids[s] \subseteq snap'.present
    BY <1>1, <1>2, <1>3 DEF Contents, AssignedExist, ListsAreExact
<1>5. rows[t].ver["scopes"] = db.ver["scopes"] =>
          \A s \in ScopeIds : rows[t].assign[s] \cap db.present = db.assign[s]
    BY <1>1 DEF Contents, TargetsAreExact
<1>6. QED
    BY <1>1, <1>2, <1>4, <1>5, PublishedContents

\* Steps that only move threads, change names or give up the lock.
LEMMA OtherContents ==
    ASSUME Typed, NamesInv, Contents,
           \/ \E t \in Handlers : FlushCommit(t) \/ FlushCallback(t)
                                  \/ FlushFails(t)
           \/ \E t \in Threads : Enter(t) \/ RetryScopes(t) \/ ReadFails(t)
           \/ RecoveryWakes \/ LearnName \/ ManagerCallback \/ UNCHANGED vars
    PROVE  Contents'
<1>0. /\ db \in Rows /\ snap \in Snapshot /\ rows \in [Threads -> Rows]
      /\ pc \in [Threads -> {"idle", "waiting", "entered", "built",
                             "flushing", "flushed"}]
      /\ Handlers \subseteq Threads
    BY DEF Typed, TypeOK, Threads
<1>1. /\ db'.ver = db.ver /\ db'.present = db.present
      /\ db'.assign = db.assign
    BY <1>0 DEF FlushCommit, FlushCallback, FlushFails, Enter, RetryScopes,
                ReadFails, RecoveryWakes, LearnName, ManagerCallback, vars, Rows
<1>2. /\ snap'.ver = snap.ver /\ snap'.present = snap.present
      /\ snap'.ids = snap.ids
    BY <1>0 DEF FlushCommit, FlushCallback, FlushFails, Enter, RetryScopes,
                ReadFails, RecoveryWakes, LearnName, ManagerCallback, vars,
                engine, RememberClientIdentities, Publish, Snapshot
<1>3. ASSUME NEW u \in Threads, pc'[u] = "built"
      PROVE  pc[u] = "built" /\ rows'[u] = rows[u]
  <2>1. CASE \E t \in Threads : FlushCallback(t) \/ FlushFails(t)
                                \/ ReadFails(t)
    <3>1. PICK t \in Threads : Release(t)
        BY <2>1 DEF FlushCallback, FlushFails, ReadFails
    <3>2. QED
        BY <1>0, <1>3, <3>1 DEF Release
  <2>2. CASE \E t \in Threads : FlushCommit(t) \/ Enter(t) \/ RetryScopes(t)
    <3>1. PICK t \in Threads : FlushCommit(t) \/ Enter(t) \/ RetryScopes(t)
        BY <2>2
    <3>2. CASE FlushCommit(t) \/ Enter(t)
        BY <1>0, <1>3, <3>2 DEF FlushCommit, Enter
    <3>3. CASE RetryScopes(t)
        BY <1>0, <1>3, <3>3 DEF RetryScopes
    <3>4. QED
        BY <3>1, <3>2, <3>3
  <2>3. CASE RecoveryWakes
      BY <1>0, <1>3, <2>3 DEF RecoveryWakes
  <2>4. CASE LearnName \/ ManagerCallback \/ UNCHANGED vars
      BY <1>3, <2>4 DEF LearnName, ManagerCallback, vars, engine
  <2>5. QED
      BY <1>0, <2>1, <2>2, <2>3, <2>4
<1>4. QED
    BY <1>1, <1>2, <1>3, ContentsFrame

LEMMA NextContents ==
    ASSUME Typed, NamesInv, VersionsInv, Contents, [Next]_vars
    PROVE  Contents'
<1>1. CASE \E t \in Handlers : Administer(t)
    BY <1>1, AdministerContents
<1>2. CASE \E t \in Threads : Rebuild(t) /\ ~RetryScopes(t)
    BY <1>2, ReadContents, InstallFullContents, InstallSettingsContents,
       InstallListsContents, InstallScopesContents
    DEF Rebuild
<1>3. CASE Restart
  <2>1. /\ db' = db /\ pc' = [t \in Threads |-> "idle"]
        /\ snap'.present = db.present /\ snap'.ids = db.assign
      BY <1>3 DEF Restart, Started, FullSnapshot
  <2>2. QED
      BY <2>1 DEF Contents, AssignedExist, ListsAreExact, TargetsAreExact
<1>4. CASE \/ \E t \in Handlers : FlushCommit(t) \/ FlushCallback(t)
                                  \/ FlushFails(t)
           \/ \E t \in Threads : Enter(t) \/ RetryScopes(t) \/ ReadFails(t)
           \/ RecoveryWakes \/ LearnName \/ ManagerCallback \/ UNCHANGED vars
    BY <1>4, OtherContents
<1>5. QED
    BY <1>1, <1>2, <1>3, <1>4 DEF Next

-----------------------------------------------------------------------------
LEMMA InductiveInvariant ==
    Spec => [](Typed /\ NamesInv /\ VersionsInv /\ Contents)
<1>1. Init => Typed /\ NamesInv /\ VersionsInv /\ Contents
    BY InitTyped, InitNames, InitVersions, InitContents
<1>2. Typed /\ NamesInv /\ VersionsInv /\ Contents /\ [Next]_vars
          => (Typed /\ NamesInv /\ VersionsInv /\ Contents)'
    BY NextTyped, NextNames, NextVersions, NextContents
<1>3. QED
    BY <1>1, <1>2, PTL DEF Spec

\* The inductive invariant that the run checks holds for every instance.
THEOREM Invariance == Spec => []Inductive
<1>1. Typed /\ NamesInv /\ VersionsInv /\ Contents => Inductive
    BY DEF Typed, NamesInv, VersionsInv, Contents, Inductive
<1>2. QED
    BY <1>1, InductiveInvariant, PTL

\* A section of the snapshot that is behind the database is being rebuilt, has
\* a recorded failure that keeps the recovery thread at work, or was committed
\* by a handler that died before it called the engine.
THEOREM StalenessIsAccounted == Spec => []StaleIsAccounted
<1>1. VersionsInv => StaleIsAccounted
    BY DEF VersionsInv
<1>2. QED
    BY <1>1, InductiveInvariant, PTL

-----------------------------------------------------------------------------
(* What a step does to the snapshot, and what follows from it alone.       *)

Rebuilt(new) ==
    \/ \E r \in Rows, changes \in Changes : new = FullSnapshot(r, changes)
    \/ \E r \in Rows : new = WithSettings(snap, r) \/ new = WithLists(snap, r)
    \/ \E r \in Rows, from \in Snapshot : new = WithScopes(from, r)

LEMMA SnapshotSteps ==
    ASSUME Typed, [Next]_vars
    PROVE  \/ Rebuilt(snap')
           \/ snap' = snap
           \/ snap' = [snap EXCEPT !.names = Overlay(@, pending)]
<1>1. CASE \E t \in Handlers : Administer(t)
  <2>1. PICK t \in Handlers : Administer(t)
      BY <1>1
  <2>2. RequestFlush(t) => snap' = snap
      BY DEF RequestFlush
  <2>3. QED
      BY <2>1, <2>2, AdministerCommits DEF Commit
<1>2. CASE \E t \in Threads : Rebuild(t)
  <2>1. PICK t \in Threads : Rebuild(t)
      BY <1>2
  <2>2. rows[t] \in Rows /\ journal \in Changes /\ base[t] \in Snapshot
      BY DEF Typed, TypeOK
  <2>3. CASE Read(t) \/ RetryScopes(t)
      BY <2>3 DEF Read, RetryScopes
  <2>4. CASE InstallFull(t)
      BY <2>2, <2>4 DEF InstallFull, Publish, Rebuilt
  <2>5. CASE InstallSettings(t) \/ InstallLists(t)
      BY <2>2, <2>5 DEF InstallSettings, InstallLists, InstallPart, Publish,
                        Rebuilt
  <2>6. CASE InstallScopes(t)
      BY <2>2, <2>6 DEF InstallScopes, InstallPart, Publish, Rebuilt
  <2>7. QED
      BY <2>1, <2>3, <2>4, <2>5, <2>6 DEF Rebuild
<1>3. CASE Restart
    BY <1>3, NoChangeType DEF Restart, Started, Rebuilt, Typed, TypeOK
<1>4. CASE ManagerCallback \/ \E t \in Handlers : FlushCallback(t)
    BY <1>4 DEF ManagerCallback, FlushCallback, RememberClientIdentities,
                Publish
<1>5. CASE \/ \E t \in Handlers : FlushCommit(t) \/ FlushFails(t)
           \/ \E t \in Threads : Enter(t) \/ ReadFails(t)
           \/ RecoveryWakes \/ LearnName \/ UNCHANGED vars
    BY <1>5 DEF FlushCommit, FlushFails, Enter, ReadFails, RecoveryWakes,
                LearnName, engine, vars
<1>6. QED
    BY <1>1, <1>2, <1>3, <1>4, <1>5 DEF Next

LEMMA RebuiltMasks ==
    ASSUME Typed, MasksMatchOrder, NEW new, Rebuilt(new)
    PROVE  \A s \in ScopeIds : new.mask[s] = MaskOf(new.present, new.ids[s])
<1>1. snap \in Snapshot
    BY DEF Typed, TypeOK
<1>2. CASE \E r \in Rows, changes \in Changes : new = FullSnapshot(r, changes)
    BY <1>2 DEF FullSnapshot
<1>3. CASE \E r \in Rows : new = WithSettings(snap, r)
    BY <1>1, <1>3 DEF WithSettings, Snapshot, MasksMatchOrder
<1>4. CASE \E r \in Rows : new = WithLists(snap, r)
  <2>1. PICK r \in Rows : new = WithLists(snap, r)
      BY <1>4
  <2> DEFINE kept == [s \in ScopeIds |-> snap.ids[s] \cap r.present]
  <2>2. /\ new.present = r.present /\ new.ids = kept
        /\ new.mask = [s \in ScopeIds |-> MaskOf(r.present, kept[s])]
      BY <1>1, <2>1 DEF WithLists, Snapshot
  <2>3. QED
      BY <2>2
<1>5. CASE \E r \in Rows, from \in Snapshot : new = WithScopes(from, r)
    BY <1>5 DEF WithScopes, Snapshot
<1>6. QED
    BY <1>2, <1>3, <1>4, <1>5 DEF Rebuilt

\* Every snapshot that is ever published is usable by itself: the bits of a
\* target's mask are those the snapshot's own list order gives to its lists,
\* whichever rebuild put the snapshot together and whatever came before it.
THEOREM MasksAlwaysMatch == Spec => []MasksMatchOrder
<1>1. Init => MasksMatchOrder
    BY DEF Init, FullSnapshot, MasksMatchOrder
<1>2. ASSUME Typed, MasksMatchOrder, [Next]_vars
      PROVE  MasksMatchOrder'
  <2>1. CASE Rebuilt(snap')
      BY <1>2, <2>1, RebuiltMasks DEF MasksMatchOrder
  <2>2. CASE \/ snap' = snap
             \/ snap' = [snap EXCEPT !.names = Overlay(@, pending)]
      BY <1>2, <2>2 DEF MasksMatchOrder, Typed, TypeOK, Snapshot
  <2>3. QED
      BY <1>2, <2>1, <2>2, SnapshotSteps
<1>3. Spec => []Typed
    BY InitTyped, NextTyped, PTL DEF Spec
<1>4. QED
    BY <1>1, <1>2, <1>3, PTL DEF Spec

\* Partial rebuilds add up: once every section is at the newest version, the
\* lists, the targets' lists and their bits are those of one full rebuild,
\* however the sections got there.
THEOREM PartialRebuildsAddUp == Spec => []FreshIsExact
<1>1. ASSUME Typed, Contents, MasksMatchOrder
      PROVE  FreshIsExact
  <2> SUFFICES ASSUME snap.ver = db.ver
               PROVE  /\ snap.present = db.present
                      /\ snap.ids = db.assign
                      /\ snap.mask = [s \in ScopeIds |->
                                        MaskOf(db.present, db.assign[s])]
      BY DEF FreshIsExact, FullSnapshot
  <2>1. snap \in Snapshot /\ db \in Rows
      BY <1>1 DEF Typed, TypeOK
  <2>2. /\ snap.present = db.present
        /\ \A s \in ScopeIds : snap.ids[s] \subseteq db.present
      BY <1>1 DEF Contents, ListsAreExact
  <2>3. \A s \in ScopeIds : snap.ids[s] = db.assign[s]
      BY <1>1, <2>2 DEF Contents, TargetsAreExact
  <2>4. snap.ids = db.assign
      BY <2>1, <2>3 DEF Snapshot, Rows
  <2>5. \A s \in ScopeIds :
            snap.mask[s] = MaskOf(db.present, db.assign[s])
      BY <1>1, <2>2, <2>3 DEF MasksMatchOrder
  <2>6. QED
      BY <2>1, <2>2, <2>4, <2>5 DEF Snapshot
<1>2. QED
    BY <1>1, InductiveInvariant, MasksAlwaysMatch, PTL

-----------------------------------------------------------------------------
(* The engine implements PolicyActivation: a commit is a Save, publishing  *)
(* and restarting are an Activate, everything else is a stutter.           *)

LEMMA InitActivates == Init => Activation!Init
BY DEF Init, FullSnapshot, Activation!Init

LEMMA CommitSaves ==
    ASSUME Typed, NEW t \in Threads, NEW m, NEW secs \in SUBSET Sections,
           NEW changed \in Rows, NEW torn, Commit(t, m, secs, changed, torn),
           Typed'
    PROVE  Activation!Save
<1>1. db'.ver = Bump(secs) /\ snap' = snap
    BY DEF Commit, Rows
<1>2. db'.ver \in Activation!Versions
    BY DEF Typed, TypeOK, Rows, Versions, Activation!Versions
<1>3. QED
    BY <1>1, <1>2 DEF Activation!Save, Bump

LEMMA ForwardActivates ==
    ASSUME Typed', VersionsInv', db'.ver = db.ver,
           \A s \in Sections : snap.ver[s] <= snap'.ver[s]
    PROVE  Activation!Activate
<1>1. snap'.ver \in Activation!Versions
    BY DEF Typed, TypeOK, Snapshot, Versions, Activation!Versions
<1>2. \A s \in Sections : snap'.ver[s] <= db.ver[s]
    BY DEF VersionsInv, Ordered
<1>3. QED
    BY <1>1, <1>2 DEF Activation!Activate

LEMMA RebuildActivates ==
    ASSUME Typed, NamesInv, VersionsInv, NEW t \in Threads, Rebuild(t),
           Typed', VersionsInv'
    PROVE  Activation!Activate
<1> USE DEF Sections
<1>1. /\ snap \in Snapshot /\ rows[t] \in Rows
      /\ \A s \in Sections : snap.ver[s] <= snap.ver[s]
    BY VersionsAreNumbers DEF Typed, TypeOK
<1>2. db' = db
    BY DEF Rebuild, Read, InstallFull, InstallSettings, InstallLists,
           InstallScopes, InstallPart, RetryScopes
<1>3. CASE Read(t) \/ RetryScopes(t)
    BY <1>1, <1>2, <1>3, ForwardActivates DEF Read, RetryScopes
<1>4. pc[t] = "built" => \A s \in Sections : snap.ver[s] <= rows[t].ver[s]
    BY DEF VersionsInv, Ordered
<1>5. CASE InstallFull(t)
  <2>1. snap'.ver = rows[t].ver /\ pc[t] = "built"
      BY <1>5 DEF InstallFull, Publish, FullSnapshot
  <2>2. QED
      BY <1>2, <1>4, <2>1, ForwardActivates
<1>6. CASE InstallSettings(t)
  <2>1. snap' = WithSettings(snap, rows[t]) /\ pc[t] = "built"
      BY <1>6 DEF InstallSettings, InstallPart, Publish
  <2>2. \A s \in Sections : snap.ver[s] <= snap'.ver[s]
      BY <1>1, <1>4, <2>1 DEF WithSettings, Snapshot, Versions
  <2>3. QED
      BY <1>2, <2>2, ForwardActivates
<1>7. CASE InstallLists(t)
  <2>1. snap' = WithLists(snap, rows[t]) /\ pc[t] = "built"
      BY <1>7 DEF InstallLists, InstallPart, Publish
  <2>2. \A s \in Sections : snap.ver[s] <= snap'.ver[s]
      BY <1>1, <1>4, <2>1 DEF WithLists, Snapshot, Versions
  <2>3. QED
      BY <1>2, <2>2, ForwardActivates
<1>8. CASE InstallScopes(t)
  <2>1. /\ snap' = WithScopes(base[t], rows[t]) /\ pc[t] = "built"
        /\ base[t] = snap
      BY <1>8 DEF InstallScopes, InstallPart, Publish, NamesInv, BaseIsCurrent,
                  Rebuilding
  <2>2. \A s \in Sections : snap.ver[s] <= snap'.ver[s]
      BY <1>1, <1>4, <2>1 DEF WithScopes, Snapshot, Versions
  <2>3. QED
      BY <1>2, <2>2, ForwardActivates
<1>9. QED
    BY <1>3, <1>5, <1>6, <1>7, <1>8 DEF Rebuild

LEMMA NextActivates ==
    ASSUME Typed, NamesInv, VersionsInv, [Next]_vars, Typed', VersionsInv'
    PROVE  [Activation!Next]_<<db.ver, snap.ver>>
<1>0. Handlers \subseteq Threads
    BY DEF Threads
<1>1. CASE \E t \in Handlers : Administer(t)
  <2>1. PICK t \in Handlers : Administer(t)
      BY <1>1
  <2>2. CASE RequestFlush(t)
      BY <2>2 DEF RequestFlush
  <2>3. CASE ~RequestFlush(t)
      BY <1>0, <2>1, <2>3, AdministerCommits, CommitSaves DEF Activation!Next
  <2>4. QED
      BY <2>2, <2>3
<1>2. CASE \E t \in Threads : Rebuild(t)
    BY <1>2, RebuildActivates DEF Activation!Next
<1>3. CASE Restart
  <2>1. db' = db /\ snap'.ver = db.ver
      BY <1>3 DEF Restart, Started, FullSnapshot
  <2>2. \A s \in Sections : snap.ver[s] <= snap'.ver[s]
      BY <2>1 DEF VersionsInv, Ordered
  <2>3. QED
      BY <2>1, <2>2, ForwardActivates DEF Activation!Next
<1>4. CASE ManagerCallback \/ \E t \in Handlers : FlushCallback(t)
  <2>1. db' = db /\ snap'.ver = snap.ver
      BY <1>4 DEF ManagerCallback, FlushCallback, RememberClientIdentities,
                  Publish, Typed, TypeOK, Snapshot
  <2>2. QED
      BY <2>1
<1>5. CASE LearnName \/ \E t \in Handlers : FlushCommit(t) \/ FlushFails(t)
  <2>1. db'.ver = db.ver /\ snap' = snap
      BY <1>5 DEF LearnName, FlushCommit, FlushFails, engine, Typed, TypeOK,
                  Rows
  <2>2. QED
      BY <2>1
<1>6. CASE \/ \E t \in Threads : Enter(t) \/ ReadFails(t)
           \/ RecoveryWakes \/ UNCHANGED vars
  <2>1. db' = db /\ snap' = snap
      BY <1>6 DEF Enter, ReadFails, RecoveryWakes, engine, vars
  <2>2. QED
      BY <2>1
<1>7. QED
    BY <1>1, <1>2, <1>3, <1>4, <1>5, <1>6 DEF Next

\* No rebuild, however late, and no restart puts a section back to an older
\* version, and nothing is active that was not committed.
THEOREM Implementation == Spec => ImplementsActivation
<1>1. Typed /\ NamesInv /\ VersionsInv /\ [Next]_vars /\ (Typed /\ VersionsInv)'
          => [Activation!Next]_<<db.ver, snap.ver>>
    BY NextActivates
<1>2. QED
    BY <1>1, InitActivates, InductiveInvariant, PTL
    DEF Spec, ImplementsActivation, Activation!Spec

=============================================================================
