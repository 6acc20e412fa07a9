---------------------------- MODULE PolicyEngine ----------------------------
(***************************************************************************)
(* The activation machinery of app/policy.py: how an immutable             *)
(* PolicySnapshot follows the database while administrators commit         *)
(* changes, the PTR manager learns client names, rebuilds fail and the     *)
(* process restarts.                                                       *)
(*                                                                         *)
(* Every handler commits first and rebuilds afterwards, in its own thread. *)
(* Rebuilds are serialized by _reload_lock (`lock`); each one reads one    *)
(* consistent view of the database (`rows`) and publishes a new snapshot   *)
(* later, in a short critical section under _write_lock that is one step   *)
(* here.  Client names are published without _reload_lock: a full rebuild  *)
(* keeps them through the journal, reload_scopes by noticing that the      *)
(* snapshot it started from was replaced.                                  *)
(*                                                                         *)
(* The contents of a section of the policy (settings, list rows and their  *)
(* domains, target rows) are stood for by a version that every committed   *)
(* change increments; what the code computes from several sections is kept *)
(* in full: which lists exist, which lists a target is assigned, the bit   *)
(* positions of those lists, and the client names.                         *)
(***************************************************************************)
EXTENDS Integers, FiniteSets

CONSTANTS
    Handlers,     \* threads that run admin handlers and list refreshes
    Recovery,     \* the policy-recovery thread
    NoThread,     \* the value of `lock` when nobody holds _reload_lock
    ScopeIds,     \* policy targets
    Clients,      \* client addresses
    Names,        \* PTR host names
    NoName,       \* the absence of a name for a client
    Untouched,    \* an address that a map of identity changes does not hold
    AmbiguousCommits, \* whether a COMMIT may succeed without being acknowledged
    InitialLists, \* lists 1..InitialLists exist at the start
    MaxLists,     \* bound: list ids are 1..MaxLists
    MaxEdits,     \* bound: commits of any kind
    MaxFaults     \* bound: database errors

Threads == Handlers \cup {Recovery}
ListIds == 1..MaxLists
NameOrNone == Names \cup {NoName}
Changes == [Clients -> NameOrNone \cup {Untouched}]

Sections == {"settings", "lists", "scopes"}
Methods == {"reload", "reload_settings", "reload_lists", "reload_scopes"}

ASSUME ConstantsOK ==
    /\ Recovery \notin Handlers
    /\ NoThread \notin Threads
    /\ NoName \notin Names
    /\ Untouched \notin NameOrNone
    /\ AmbiguousCommits \in BOOLEAN
    /\ InitialLists \in Nat /\ MaxLists \in Nat /\ InitialLists <= MaxLists
    /\ MaxEdits \in Nat /\ MaxFaults \in Nat

VARIABLES
    db,        \* the committed rows
    snap,      \* PolicyEngine._snapshot
    lock,      \* the thread that holds _reload_lock
    pc,        \* where each thread is
    want,      \* the engine method a thread has called, or is about to call
    attempt,   \* reload_scopes: 1 or 2, and 3 in the fallback to reload()
    rows,      \* what the thread's rebuild has read from the database
    base,      \* reload_scopes: the snapshot the attempt started from
    moved,     \* threads whose base is no longer the published object
    recording, \* whether PolicyEngine._identity_journal is a dictionary
    journal,   \* its contents
    errors,    \* the keys of PolicyEngine._reload_errors
    stateLock, \* PtrResolutionManager._state_lock: who is inside it
    pending,   \* identity changes committed but not yet called back
    unheard,   \* history: clients whose committed change was never called back
    orphaned,  \* history: newest version whose handler died before rebuilding
    edits, faults

engine == <<snap, lock, pc, want, attempt, rows, base, moved, recording,
            journal, errors>>
ptr == <<stateLock, pending>>
history == <<unheard, orphaned>>
vars == <<db, engine, ptr, history, edits, faults>>

Versions == [Sections -> 0..MaxEdits]

Rows == [ver : Versions, present : SUBSET ListIds, nextId : 1..(MaxLists + 1),
         assign : [ScopeIds -> SUBSET ListIds], names : [Clients -> NameOrNone]]

Snapshot == [ver : Versions, present : SUBSET ListIds,
             ids : [ScopeIds -> SUBSET ListIds],
             mask : [ScopeIds -> SUBSET Nat], names : [Clients -> NameOrNone]]

-----------------------------------------------------------------------------
(* What the rebuilds compute.                                              *)

BlankRows == [ver |-> [s \in Sections |-> 0], present |-> {}, nextId |-> 1,
              assign |-> [s \in ScopeIds |-> {}],
              names |-> [c \in Clients |-> NoName]]

NoChange == [c \in Clients |-> Untouched]

Overlay(names, changes) ==
    [c \in Clients |-> IF changes[c] = Untouched THEN names[c] ELSE changes[c]]

\* Mutant: numbers the lists from minus one.
PositionOffByOne(present, i) == Cardinality({j \in present : j < i}) - 1

\* bit_for_list_id: lists are numbered from zero in the order of their ids.
Position(present, i) == Cardinality({j \in present : j < i})

\* A list without a bit contributes nothing to a target's mask.
MaskOf(present, ids) == {Position(present, i) : i \in ids \cap present}

Covers(m) ==
    CASE m = "reload" -> Sections
      [] m = "reload_settings" -> {"settings"}
      [] m = "reload_lists" -> {"lists"}
      [] m = "reload_scopes" -> {"scopes"}
      [] OTHER -> {}

\* Mutant: publishes the names that were read, without the journal.
FullSnapshotWithoutJournal(r, changes) ==
    [ver |-> r.ver, present |-> r.present, ids |-> r.assign,
     mask |-> [s \in ScopeIds |-> MaskOf(r.present, r.assign[s])],
     names |-> r.names]

FullSnapshot(r, changes) ==
    [ver |-> r.ver, present |-> r.present, ids |-> r.assign,
     mask |-> [s \in ScopeIds |-> MaskOf(r.present, r.assign[s])],
     names |-> Overlay(r.names, changes)]

BlankSnapshot == FullSnapshot(BlankRows, NoChange)

WithSettings(current, r) ==
    [current EXCEPT !.ver["settings"] = r.ver["settings"]]

\* Mutant: leaves the targets' masks in the numbering of the previous lists.
WithListsNotRemasked(current, r) ==
    [current EXCEPT !.ver["lists"] = r.ver["lists"], !.present = r.present,
                    !.ids = [s \in ScopeIds |-> @[s] \cap r.present]]

\* Mutant: renumbers the masks but keeps the ids of deleted lists.
WithListsKeepingIds(current, r) ==
    [current EXCEPT
        !.ver["lists"] = r.ver["lists"], !.present = r.present,
        !.mask = [s \in ScopeIds |-> MaskOf(r.present, current.ids[s])]]

\* _remask_scope drops the ids that no longer exist and renumbers the rest.
WithLists(current, r) ==
    LET kept == [s \in ScopeIds |-> current.ids[s] \cap r.present]
    IN  [current EXCEPT
            !.ver["lists"] = r.ver["lists"],
            !.present = r.present,
            !.ids = kept,
            !.mask = [s \in ScopeIds |-> MaskOf(r.present, kept[s])]]

\* The masks use the list numbering of the snapshot the attempt started from.
WithScopes(from, r) ==
    [from EXCEPT
        !.ver["scopes"] = r.ver["scopes"],
        !.ids = r.assign,
        !.mask = [s \in ScopeIds |-> MaskOf(from.present, r.assign[s])]]

-----------------------------------------------------------------------------
\* A process that has started: __init__ has run its first reload().
Started ==
    /\ snap' = FullSnapshot(db, NoChange)
    /\ lock' = NoThread
    /\ pc' = [t \in Threads |-> "idle"]
    /\ want' = [t \in Threads |-> "none"]
    /\ attempt' = [t \in Threads |-> 1]
    /\ rows' = [t \in Threads |-> BlankRows]
    /\ base' = [t \in Threads |-> BlankSnapshot]
    /\ moved' = {}
    /\ recording' = FALSE
    /\ journal' = NoChange
    /\ errors' = {}
    /\ stateLock' = "free"
    /\ pending' = NoChange
    /\ unheard' = {}

Init ==
    /\ \E a \in [ScopeIds -> SUBSET (1..InitialLists)],
          n \in [Clients -> NameOrNone] :
          db = [ver |-> [s \in Sections |-> 0], present |-> 1..InitialLists,
                nextId |-> InitialLists + 1, assign |-> a, names |-> n]
    /\ snap = FullSnapshot(db, NoChange)
    /\ lock = NoThread
    /\ pc = [t \in Threads |-> "idle"]
    /\ want = [t \in Threads |-> "none"]
    /\ attempt = [t \in Threads |-> 1]
    /\ rows = [t \in Threads |-> BlankRows]
    /\ base = [t \in Threads |-> BlankSnapshot]
    /\ moved = {}
    /\ recording = FALSE
    /\ journal = NoChange
    /\ errors = {}
    /\ stateLock = "free"
    /\ pending = NoChange
    /\ unheard = {}
    /\ orphaned = [s \in Sections |-> 0]
    /\ edits = 0
    /\ faults = 0

-----------------------------------------------------------------------------
(* Administrators and the refresher.  A handler commits and then calls the *)
(* engine.  The change may be in the database although the handler returns *)
(* an error without calling the engine: a later statement raises after an  *)
(* earlier one was autocommitted (`torn`), or a COMMIT that took effect is *)
(* not acknowledged, which a MySQL server that goes away can cause.        *)

Fault == faults < MaxFaults /\ faults' = faults + 1

Bump(secs) ==
    [s \in Sections |-> db.ver[s] + IF s \in secs THEN 1 ELSE 0]

Commit(t, m, secs, changed, torn) ==
    /\ pc[t] = "idle"
    /\ edits < MaxEdits
    /\ edits' = edits + 1
    /\ db' = [changed EXCEPT !.ver = Bump(secs)]
    /\ \/ /\ pc' = [pc EXCEPT ![t] = "waiting"]
          /\ want' = [want EXCEPT ![t] = m]
          /\ UNCHANGED <<faults, orphaned>>
       \/ /\ torn \/ AmbiguousCommits
          /\ Fault
          /\ orphaned' = [s \in Sections |->
                            IF s \in secs THEN Bump(secs)[s] ELSE orphaned[s]]
          /\ UNCHANGED <<pc, want>>
    /\ UNCHANGED <<snap, lock, attempt, rows, base, moved, recording, journal,
                   errors, ptr, unheard>>

\* global_toggle, save_settings, save_ignored_record_types
SaveSettings(t) == Commit(t, "reload_settings", {"settings"}, db, FALSE)

\* toggle_list, query_add_domain, and a list the refresher has replaced
ChangeList(t) ==
    db.present # {} /\ Commit(t, "reload_lists", {"lists"}, db, FALSE)

\* add_manual_list_domain, remove_manual_list_domain: autocommitted statements
\* that change the memberships, remove orphaned domains and count the entries
ChangeManualList(t) ==
    db.present # {} /\ Commit(t, "reload_lists", {"lists"}, db, TRUE)

\* delete_list: the assignments of the list go with it (ON DELETE CASCADE);
\* its orphaned domains are removed by autocommitted statements afterwards
DeleteList(t) ==
    \E i \in db.present :
        Commit(t, "reload_lists", {"lists"},
               [db EXCEPT !.present = @ \ {i},
                          !.assign = [s \in ScopeIds |-> @[s] \ {i}]],
               TRUE)

AssignedTo(i, targets) ==
    [s \in ScopeIds |-> IF s \in targets THEN db.assign[s] \cup {i}
                                         ELSE db.assign[s] \ {i}]

\* add_list: ids are AUTOINCREMENT, so a deleted id never comes back
AddList(t) ==
    /\ db.nextId <= MaxLists
    /\ \E targets \in SUBSET ScopeIds :
        Commit(t, "reload", {"lists", "scopes"},
               [db EXCEPT !.present = @ \cup {db.nextId},
                          !.nextId = @ + 1,
                          !.assign = AssignedTo(db.nextId, targets)], FALSE)

\* edit_list replaces the row and the assignments in one transaction
EditList(t) ==
    \E i \in db.present, targets \in SUBSET ScopeIds :
        Commit(t, "reload", {"lists", "scopes"},
               [db EXCEPT !.assign = AssignedTo(i, targets)], FALSE)

\* add_scope, edit_scope, toggle_scope, delete_scope
SaveScope(t) ==
    \E s \in ScopeIds, ids \in SUBSET db.present :
        Commit(t, "reload_scopes", {"scopes"}, [db EXCEPT !.assign[s] = ids],
               FALSE)

\* flush_ptr_cache: its commit happens later, under both locks
RequestFlush(t) ==
    /\ pc[t] = "idle"
    /\ edits < MaxEdits
    /\ edits' = edits + 1
    /\ pc' = [pc EXCEPT ![t] = "waiting"]
    /\ want' = [want EXCEPT ![t] = "flush"]
    /\ UNCHANGED <<db, snap, lock, attempt, rows, base, moved, recording,
                   journal, errors, ptr, history, faults>>

-----------------------------------------------------------------------------
(* Rebuilds.                                                               *)

\* reload_scopes falls back to the nested reload() after two attempts.
Running(t) == IF attempt[t] = 3 THEN "reload" ELSE want[t]

\* Publishing replaces the snapshot object under every reload_scopes attempt.
Publish(s, by) ==
    /\ snap' = s
    /\ moved' = {t \in Threads \ {by} : /\ want[t] = "reload_scopes"
                                        /\ attempt[t] < 3
                                        /\ pc[t] \in {"entered", "built"}}

Release(t) ==
    /\ lock' = NoThread
    /\ pc' = [pc EXCEPT ![t] = "idle"]
    /\ want' = [want EXCEPT ![t] = "none"]
    /\ attempt' = [attempt EXCEPT ![t] = 1]
    /\ rows' = [rows EXCEPT ![t] = BlankRows]
    /\ base' = [base EXCEPT ![t] = BlankSnapshot]

\* reload() opens the journal before it reads and closes it in `finally`.
Journal(open) == recording' = open /\ journal' = NoChange

\* Mutant: rebuilds are not serialized.
EnterUnlocked(t) ==
    /\ pc[t] = "waiting"
    /\ lock' = t
    /\ pc' = [pc EXCEPT ![t] = IF want[t] = "flush" THEN "flushing"
                                                    ELSE "entered"]
    /\ base' = IF want[t] = "reload_scopes" THEN [base EXCEPT ![t] = snap]
                                            ELSE base
    /\ IF want[t] = "reload" THEN Journal(TRUE)
                             ELSE UNCHANGED <<recording, journal>>
    /\ UNCHANGED <<db, snap, want, attempt, rows, moved, errors, ptr, history,
                   edits, faults>>

Enter(t) ==
    /\ pc[t] = "waiting"
    /\ lock = NoThread
    /\ lock' = t
    /\ pc' = [pc EXCEPT ![t] = IF want[t] = "flush" THEN "flushing"
                                                    ELSE "entered"]
    /\ base' = IF want[t] = "reload_scopes" THEN [base EXCEPT ![t] = snap]
                                            ELSE base
    /\ IF want[t] = "reload" THEN Journal(TRUE)
                             ELSE UNCHANGED <<recording, journal>>
    /\ UNCHANGED <<db, snap, want, attempt, rows, moved, errors, ptr, history,
                   edits, faults>>

\* One transaction reads everything the rebuild uses.
Read(t) ==
    /\ pc[t] = "entered"
    /\ rows' = [rows EXCEPT ![t] = db]
    /\ pc' = [pc EXCEPT ![t] = "built"]
    /\ UNCHANGED <<db, snap, lock, want, attempt, base, moved, recording,
                   journal, errors, ptr, history, edits, faults>>

\* Mutant: a failed rebuild is only raised to its caller.
ReadFailsUnrecorded(t) ==
    /\ pc[t] = "entered"
    /\ Fault
    /\ moved' = moved \ {t}
    /\ Release(t)
    /\ IF Running(t) = "reload" THEN Journal(FALSE)
                                ELSE UNCHANGED <<recording, journal>>
    /\ UNCHANGED <<db, snap, errors, ptr, history, edits>>

\* serialized_reload records the error and raises it again; a failure of the
\* nested reload() is recorded under both names.
ReadFails(t) ==
    /\ pc[t] = "entered"
    /\ Fault
    /\ errors' = errors \cup {Running(t), want[t]}
    /\ moved' = moved \ {t}
    /\ Release(t)
    /\ IF Running(t) = "reload" THEN Journal(FALSE)
                                ELSE UNCHANGED <<recording, journal>>
    /\ UNCHANGED <<db, snap, ptr, history, edits>>

\* A full rebuild settles every earlier failure.
InstallFull(t) ==
    /\ pc[t] = "built"
    /\ Running(t) = "reload"
    /\ Publish(FullSnapshot(rows[t], journal), t)
    /\ errors' = {}
    /\ Journal(FALSE)
    /\ Release(t)
    /\ UNCHANGED <<db, ptr, history, edits, faults>>

\* Mutant: any successful rebuild settles every failure.
InstallPartClearingAll(t, m, s) ==
    /\ pc[t] = "built"
    /\ Running(t) = m
    /\ Publish(s, t)
    /\ errors' = {}
    /\ Release(t)
    /\ UNCHANGED <<db, recording, journal, ptr, history, edits, faults>>

\* A partial rebuild settles the failures of its own kind only.
InstallPart(t, m, s) ==
    /\ pc[t] = "built"
    /\ Running(t) = m
    /\ Publish(s, t)
    /\ errors' = errors \ {m}
    /\ Release(t)
    /\ UNCHANGED <<db, recording, journal, ptr, history, edits, faults>>

InstallSettings(t) ==
    InstallPart(t, "reload_settings", WithSettings(snap, rows[t]))

InstallLists(t) == InstallPart(t, "reload_lists", WithLists(snap, rows[t]))

InstallScopes(t) ==
    /\ t \notin moved
    /\ InstallPart(t, "reload_scopes", WithScopes(base[t], rows[t]))

RetryScopes(t) ==
    /\ pc[t] = "built"
    /\ Running(t) = "reload_scopes"
    /\ t \in moved
    /\ attempt' = [attempt EXCEPT ![t] = @ + 1]
    /\ pc' = [pc EXCEPT ![t] = "entered"]
    /\ rows' = [rows EXCEPT ![t] = BlankRows]
    /\ moved' = moved \ {t}
    /\ IF attempt[t] = 1
       THEN /\ base' = [base EXCEPT ![t] = snap]
            /\ UNCHANGED <<recording, journal>>
       ELSE /\ base' = [base EXCEPT ![t] = BlankSnapshot]
            /\ Journal(TRUE)
    /\ UNCHANGED <<db, snap, lock, want, errors, ptr, history, edits, faults>>

\* _recover_policy: woken by a failure, or every two seconds.
RecoveryWakes ==
    /\ pc[Recovery] = "idle"
    /\ errors # {}
    /\ pc' = [pc EXCEPT ![Recovery] = "waiting"]
    /\ want' = [want EXCEPT ![Recovery] = "reload"]
    /\ UNCHANGED <<db, snap, lock, attempt, rows, base, moved, recording,
                   journal, errors, ptr, history, edits, faults>>

-----------------------------------------------------------------------------
(* Client names.  Every change is committed under _state_lock and then     *)
(* handed to _remember_client_identities under the same lock.              *)

\* _persist_result: an unchanged name is not called back, a missing one is.
LearnName ==
    \E c \in Clients, n \in NameOrNone :
        /\ stateLock = "free"
        /\ edits < MaxEdits
        /\ edits' = edits + 1
        /\ n = NoName \/ n # db.names[c]
        /\ db' = [db EXCEPT !.names[c] = n]
        /\ \/ /\ stateLock' = "manager"
              /\ pending' = [NoChange EXCEPT ![c] = n]
              /\ UNCHANGED <<unheard, faults>>
           \/ /\ AmbiguousCommits
              /\ Fault
              /\ unheard' = unheard \cup {c}
              /\ UNCHANGED <<stateLock, pending>>
        /\ UNCHANGED <<engine, orphaned>>

RememberClientIdentities(by) ==
    /\ Publish([snap EXCEPT !.names = Overlay(@, pending)], by)
    /\ journal' = IF recording THEN Overlay(journal, pending) ELSE journal
    /\ unheard' = {c \in unheard : pending[c] = Untouched}
    /\ stateLock' = "free"
    /\ pending' = NoChange

ManagerCallback ==
    /\ stateLock = "manager"
    /\ RememberClientIdentities(NoThread)
    /\ UNCHANGED <<db, lock, pc, want, attempt, rows, base, recording, errors,
                   orphaned, edits, faults>>

NamedClients == {c \in Clients : db.names[c] # NoName}

FlushCommit(t) ==
    /\ pc[t] = "flushing"
    /\ stateLock = "free"
    /\ stateLock' = "flush"
    /\ pending' = [c \in Clients |-> IF c \in NamedClients THEN NoName
                                                           ELSE Untouched]
    /\ db' = [db EXCEPT !.names = [c \in Clients |-> NoName]]
    /\ pc' = [pc EXCEPT ![t] = "flushed"]
    /\ UNCHANGED <<snap, lock, want, attempt, rows, base, moved, recording,
                   journal, errors, history, edits, faults>>

FlushCallback(t) ==
    /\ pc[t] = "flushed"
    /\ RememberClientIdentities(t)
    /\ Release(t)
    /\ UNCHANGED <<db, recording, errors, orphaned, edits, faults>>

FlushFails(t) ==
    /\ pc[t] = "flushing"
    /\ stateLock = "free"
    /\ Fault
    /\ \/ UNCHANGED <<db, unheard>>
       \/ /\ AmbiguousCommits
          /\ db' = [db EXCEPT !.names = [c \in Clients |-> NoName]]
          /\ unheard' = unheard \cup NamedClients
    /\ Release(t)
    /\ UNCHANGED <<snap, moved, recording, journal, errors, ptr, orphaned,
                   edits>>

\* The process ends at any point; a new one starts from the database.
Restart ==
    /\ Started
    /\ UNCHANGED <<db, orphaned, edits, faults>>

-----------------------------------------------------------------------------
Administer(t) ==
    \/ SaveSettings(t) \/ ChangeList(t) \/ ChangeManualList(t)
    \/ DeleteList(t) \/ AddList(t) \/ EditList(t) \/ SaveScope(t)
    \/ RequestFlush(t)

Rebuild(t) ==
    \/ Read(t) \/ InstallFull(t) \/ InstallSettings(t) \/ InstallLists(t)
    \/ InstallScopes(t) \/ RetryScopes(t)

Next ==
    \/ \E t \in Handlers : Administer(t) \/ FlushCommit(t) \/ FlushCallback(t)
                           \/ FlushFails(t)
    \/ \E t \in Threads : Enter(t) \/ Rebuild(t) \/ ReadFails(t)
    \/ RecoveryWakes
    \/ LearnName
    \/ ManagerCallback
    \/ Restart

Spec == Init /\ [][Next]_vars

\* Threads that hold a lock keep running, a free _reload_lock goes to some
\* waiting thread, and the recovery thread polls.  Nothing makes a user, a
\* DNS answer, an error or a restart happen.
Fairness ==
    /\ WF_vars(\E t \in Threads : Enter(t))
    /\ \A t \in Threads : WF_vars(Rebuild(t))
    /\ \A t \in Handlers : WF_vars(FlushCommit(t)) /\ WF_vars(FlushCallback(t))
    /\ WF_vars(ManagerCallback)
    /\ WF_vars(RecoveryWakes)

FairSpec == Spec /\ Fairness

-----------------------------------------------------------------------------
(* Properties.                                                             *)

\* Type invariant of the engine's fields, its threads and the database.
TypeOK ==
    /\ db \in Rows
    /\ snap \in Snapshot
    /\ lock \in Threads \cup {NoThread}
    /\ pc \in [Threads -> {"idle", "waiting", "entered", "built", "flushing",
                           "flushed"}]
    /\ want \in [Threads -> Methods \cup {"flush", "none"}]
    /\ attempt \in [Threads -> 1..3]
    /\ rows \in [Threads -> Rows]
    /\ base \in [Threads -> Snapshot]
    /\ moved \in SUBSET Threads
    /\ recording \in BOOLEAN
    /\ journal \in Changes
    /\ errors \in SUBSET Methods
    /\ stateLock \in {"free", "manager", "flush"}
    /\ pending \in Changes
    /\ unheard \in SUBSET Clients
    /\ orphaned \in Versions
    /\ edits \in 0..MaxEdits
    /\ faults \in 0..MaxFaults

\* Every published snapshot is usable by itself: a target's mask holds exactly
\* the bits that the snapshot's own list order gives to its assigned lists.
\* reload_lists renumbers lists under targets it does not read, reload_scopes
\* computes masks for lists it does not read.
MasksMatchOrder ==
    \A s \in ScopeIds : snap.mask[s] = MaskOf(snap.present, snap.ids[s])

\* Some thread will still read section s, or has read its newest version.
BeingRebuilt(s) ==
    \E t \in Threads :
        /\ s \in Covers(want[t])
        /\ pc[t] = "built" => rows[t].ver[s] = db.ver[s]

\* A section of the snapshot that is behind the database is accounted for: a
\* rebuild that will bring it up to date is under way, a recorded failure
\* keeps the recovery thread at work, or the handler that committed it died
\* before calling the engine.  A success of one kind of rebuild must not
\* clear the failure of another.
StaleIsAccounted ==
    \A s \in Sections :
        snap.ver[s] # db.ver[s] =>
            \/ BeingRebuilt(s)
            \/ \E m \in errors : s \in Covers(m)
            \/ snap.ver[s] < orphaned[s]

\* The names in the snapshot are the committed ones, save for the changes that
\* are about to be called back and those that never will be: neither a rebuild
\* that read the names earlier nor one that replaces the whole snapshot loses
\* an addition, a removal or a flush.
NamesTracked ==
    \A c \in Clients \ unheard :
        Overlay(snap.names, pending)[c] = db.names[c]

\* When every section is at the newest version, the snapshot, put together by
\* partial rebuilds in whatever order, is what one full rebuild would build.
FreshIsExact ==
    snap.ver = db.ver =>
        LET full == FullSnapshot(db, NoChange)
        IN  /\ snap.present = full.present
            /\ snap.ids = full.ids
            /\ snap.mask = full.mask

\* The engine implements the abstract activation: no rebuild publishes a
\* section older than the one in use.
Activation ==
    INSTANCE PolicyActivation WITH MaxVersion <- MaxEdits,
                                   saved <- db.ver, active <- snap.ver
ImplementsActivation == Activation!Spec

\* Once commits and errors stop, every change whose handler lived to call the
\* engine is active and no failure is left on record.
EventuallyActive ==
    <>[](/\ errors = {}
         /\ \A s \in Sections :
                snap.ver[s] = db.ver[s] \/ snap.ver[s] < orphaned[s])

\* docs/USER_GUIDE.md: when a save commits and its activation fails, a pending
\* rebuild is reported and retried.  Read strictly: whenever nothing is under
\* way and the snapshot is behind the database, a failure is on record.
StaleIsReported ==
    (\A t \in Threads : pc[t] = "idle") /\ snap.ver # db.ver => errors # {}

-----------------------------------------------------------------------------
(* The inductive invariant: TypeOK, NamesTracked and StaleIsAccounted with *)
(* what they and FreshIsExact rest on.                                     *)

Inside == {"entered", "built", "flushing", "flushed"}
Rebuilding(t) == pc[t] \in {"entered", "built"}
Waiting(s) == \E t \in Threads : pc[t] = "waiting" /\ s \in Covers(want[t])

\* No version was counted without a commit.
Counted == \A s \in Sections : db.ver[s] <= edits

\* A thread is where the method it called can be.
Called ==
    \A t \in Threads :
        /\ pc[t] = "idle" <=> want[t] = "none"
        /\ Rebuilding(t) => want[t] \in Methods
        /\ pc[t] \in {"flushing", "flushed"} => want[t] = "flush"
        /\ attempt[t] # 1 => Rebuilding(t) /\ want[t] = "reload_scopes"

\* _reload_lock is held by the thread that is past it.
Exclusive == \A t \in Threads : pc[t] \in Inside <=> lock = t

\* A change that is about to be called back is the committed one, and there is
\* none while _state_lock is free.
Handed ==
    /\ stateLock = "free" => pending = NoChange
    /\ \A c \in Clients : pending[c] \in {Untouched, db.names[c]}

\* The journal is open for as long as a full rebuild runs, and empty before.
Journaling ==
    /\ ~recording => journal = NoChange
    /\ \A t \in Threads : Rebuilding(t) /\ Running(t) = "reload" => recording

\* What the journal holds is committed, or about to be replaced.
Journaled ==
    \A c \in Clients \ unheard :
        journal[c] \in {Untouched, db.names[c]} \/ pending[c] # Untouched

\* The names a full rebuild has read are right once the journal is applied.
RebuildTracksNames ==
    \A t \in Threads :
        pc[t] = "built" /\ Running(t) = "reload" =>
            \A c \in Clients \ unheard :
                Overlay(Overlay(rows[t].names, journal), pending)[c]
                    = db.names[c]

\* An attempt of reload_scopes that nobody disturbed starts from _snapshot.
BaseIsCurrent ==
    \A t \in Threads \ moved :
        Rebuilding(t) /\ Running(t) = "reload_scopes" => base[t] = snap

\* The snapshot is never ahead of what a rebuild has read, nor that of the
\* database.
Ordered ==
    \A s \in Sections :
        /\ snap.ver[s] <= db.ver[s]
        /\ \A t \in Threads :
              pc[t] = "built" => /\ snap.ver[s] <= rows[t].ver[s]
                                 /\ rows[t].ver[s] <= db.ver[s]

\* Whatever was committed after a rebuild has read waits for the next one.
Followed ==
    \A t \in Threads, s \in Sections :
        pc[t] = "built" /\ rows[t].ver[s] # db.ver[s] =>
            Waiting(s) \/ rows[t].ver[s] < orphaned[s]

\* Only lists that exist are assigned, in the database and in what is read.
AssignedExist ==
    \A s \in ScopeIds :
        /\ db.assign[s] \subseteq db.present
        /\ \A t \in Threads :
              pc[t] = "built" => rows[t].assign[s] \subseteq rows[t].present

\* At the newest version of the lists a snapshot holds those lists and no
\* target of it refers to another one.
ListsAreExact ==
    /\ snap.ver["lists"] = db.ver["lists"] =>
          /\ snap.present = db.present
          /\ \A s \in ScopeIds : snap.ids[s] \subseteq snap.present
    /\ \A t \in Threads :
          pc[t] = "built" /\ rows[t].ver["lists"] = db.ver["lists"] =>
              rows[t].present = db.present

\* At the newest version of the targets a snapshot assigns the right lists,
\* besides deleted ones, and no rebuild has missed one of these lists.
TargetsAreExact ==
    \A s \in ScopeIds :
        /\ snap.ver["scopes"] = db.ver["scopes"] =>
              /\ snap.ids[s] \cap db.present = db.assign[s]
              /\ \A t \in Threads :
                    pc[t] = "built" => db.assign[s] \subseteq rows[t].present
        /\ \A t \in Threads :
              pc[t] = "built" /\ rows[t].ver["scopes"] = db.ver["scopes"] =>
                  rows[t].assign[s] \cap db.present = db.assign[s]

\* The inductive invariant of the engine.
Inductive ==
    /\ TypeOK /\ Counted /\ Called /\ Exclusive
    /\ Handed /\ Journaling /\ Journaled /\ RebuildTracksNames /\ BaseIsCurrent
    /\ NamesTracked
    /\ Ordered /\ Followed /\ StaleIsAccounted
    /\ AssignedExist /\ ListsAreExact /\ TargetsAreExact
=============================================================================
