------------------------------ MODULE MCStorage ------------------------------
(***************************************************************************)
(* The parts of the storage layer, each checked by itself on its own small *)
(* instance: which of them a behaviour is about is chosen at the start,    *)
(* and the others stay as they are.                                        *)
(***************************************************************************)
EXTENDS Naturals, Sequences, FiniteSets

CONSTANTS
    ManualLists, UrlLists, StoreDomains, StoreHandlers, MaxStoreOps,
    PoolThreads, PoolConnections, PoolSize, MaxUses, MaxTrouble,
    Minutes, MaxRows, MaxTransactions,
    OldLists, OldDomains, OldScopes, OldClients, MaxCrashes, MaxEdits,
    RowIds, Twins, Reordered, MaxRuns, MaxSourceChanges, MaxRunFaults

VARIABLES part,
    backend, lists, row, serial, members, entryCount, handler, ops,
    owed, lost, stray, crowded,
    slots, pool, open, broken, aged, pending, thread, uses, trouble,
    minute, lastId, statistics, marker, phase, tx, begun,
    engine, stage, blockEntries, legacyEntries, attached, counts,
    columns, hostnameKind, target, networks, assigned, flagged, oldStamps,
    logName, identity, markers, kept, crashes, changes,
    destinationKind, fits, source, destination, counted, position, table,
    verify, expected, snapshot, outcome, former, moments, disturbed,
    runs, writes, faults

storeVars == <<backend, lists, row, serial, members, entryCount, handler, ops,
               owed, lost, stray, crowded>>
poolVars == <<slots, pool, open, broken, aged, pending, thread, uses, trouble>>
rollupVars == <<minute, lastId, statistics, marker, phase, tx, begun>>
upgradeVars == <<engine, stage, blockEntries, legacyEntries, attached, counts,
                 columns, hostnameKind, target, networks, assigned, flagged,
                 oldStamps, logName, identity, markers, kept, crashes, changes>>
migrationVars == <<destinationKind, fits, source, destination, counted, position,
                   table, verify, expected, snapshot, outcome, former, moments,
                   disturbed, runs, writes, faults>>

Store == INSTANCE DomainStore WITH
            Domains <- StoreDomains, Handlers <- StoreHandlers, MaxOps <- MaxStoreOps
Pool == INSTANCE MySQLPool WITH
            Threads <- PoolThreads, Connections <- PoolConnections
Roll == INSTANCE Rollups
Upgrade == INSTANCE DatabaseUpgrade WITH
            Lists <- OldLists, Domains <- OldDomains, Scopes <- OldScopes,
            Clients <- OldClients, MaxChanges <- MaxEdits
Migrate == INSTANCE Migration WITH
            Ids <- RowIds, MaxChanges <- MaxSourceChanges, MaxFaults <- MaxRunFaults

\* Bounds are numbers; what stands for nobody is nobody's name.  Minutes are
\* numbered from 1.  There are lists, each of them manual or with an address,
\* and rows to migrate.
ASSUME StoreConstants ==
    /\ ManualLists \cap UrlLists = {} /\ Store!AllLists # {}
    /\ IsFiniteSet(StoreDomains)
ASSUME PoolConstants ==
    /\ IsFiniteSet(PoolThreads) /\ Pool!None \notin PoolThreads
    /\ Pool!None \notin PoolConnections
    /\ PoolSize \in Nat
ASSUME RollupConstants ==
    MaxRows \in Nat /\ Minutes \subseteq Nat \ {0} /\ IsFiniteSet(Minutes)
ASSUME MigrationConstants == RowIds # {}

storageVars == <<storeVars, poolVars, rollupVars, upgradeVars, migrationVars>>

StorageInit ==
    /\ IF part = "store" THEN Store!Init ELSE Store!Setup("sqlite")
    /\ Pool!Init
    /\ IF part = "rollups" THEN Roll!Init ELSE Roll!Setup(<<>>)
    /\ IF part = "upgrade" THEN Upgrade!Init ELSE Upgrade!Setup("mysql", 0, {}, {}, FALSE)
    /\ IF part = "migration" THEN Migrate!Init
                             ELSE Migrate!Setup("mysql", TRUE, Migrate!Empty, Migrate!Empty)

StorageNext ==
    \/ /\ part = "store" /\ Store!Next
       /\ UNCHANGED <<poolVars, rollupVars, upgradeVars, migrationVars>>
    \/ /\ part = "pool" /\ Pool!Next
       /\ UNCHANGED <<storeVars, rollupVars, upgradeVars, migrationVars>>
    \/ /\ part = "rollups" /\ Roll!Next
       /\ UNCHANGED <<storeVars, poolVars, upgradeVars, migrationVars>>
    \/ /\ part = "upgrade" /\ Upgrade!Next
       /\ UNCHANGED <<storeVars, poolVars, rollupVars, migrationVars>>
    \/ /\ part = "migration" /\ Migrate!Next
       /\ UNCHANGED <<storeVars, poolVars, rollupVars, upgradeVars>>

\* A list holds what was put on it and not taken off, whatever other lists that
\* share its domains lose meanwhile; a domain that no list uses any more is
\* deleted by the last handler that took it off one; the cached count of a list
\* that one handler at a time changed is right (app/db.py, app/main.py).
ListsAreKept ==
    part = "store" =>
        /\ Store!ListsKeepTheirDomains
        /\ Store!NoUnusedDomains
        /\ Store!CountsAgree

\* Every slot of the pool is free or held by one thread, through failed pings,
\* connections and rollbacks; no more connections are open than there are slots,
\* each idle or with one thread, which never finds another's uncommitted work on
\* it (app/mysql_backend.py).
PoolIsSound ==
    part = "pool" =>
        /\ Pool!SlotsConserved
        /\ Pool!ConnectionsBounded
        /\ Pool!WorkIsOwn

\* Every retained counter equals what the log holds, after any interleaving of
\* insertions, prunings, rollbacks and restarts; two log transactions wait for
\* each other only if one of them changes counters for the second time
\* (app/rollups.py).
StatisticsAreKept ==
    part = "rollups" =>
        /\ Roll!StatisticsMatchLog
        /\ Roll!DeadlocksNeedTwoRounds

\* However often an upgrade is interrupted and repeated, no statement of it needs
\* what a later one adds, and it neither loses nor brings back domains of lists,
\* settings of targets or names of clients that were changed since an earlier
\* start (app/db.py, app/mysql_backend.py).
UpgradesKeepData ==
    part = "upgrade" =>
        /\ Upgrade!EntriesSurvive
        /\ Upgrade!TargetsSurvive
        /\ Upgrade!NamesSurvive
        /\ Upgrade!RunsOnCurrentSchema

\* A migration that reports success has left a whole state of the source and
\* fitting counters; one that is refused, or whose lists cannot be taken by MySQL,
\* has taken nothing from the destination; and with a source that is offline it
\* fails by itself only over names that nobody compared, or in verifying contents
\* that it has copied whole, also after an interrupted one
\* (tools/migrate_database.py).
MigrationsAreWhole ==
    part = "migration" =>
        /\ Migrate!SuccessIsComplete
        /\ Migrate!RefusedKeepsData
        /\ Migrate!OfflineRunsSucceed
=============================================================================
