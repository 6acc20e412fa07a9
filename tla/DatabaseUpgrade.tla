--------------------------- MODULE DatabaseUpgrade ---------------------------
(***************************************************************************)
(* The upgrade of a database at every start: _initialize_sqlite of         *)
(* app/db.py and MySQLBackend.initialize of app/mysql_backend.py.  Tables  *)
(* and columns that an older release did not have are added, its domains   *)
(* moved to the normalised tables, its targets to a table that admits host *)
(* names, its log and client names converted once.  Each statement outside *)
(* of a transaction commits by itself, the process may end after any of    *)
(* them, and the next start goes through all of it again, as it does after *)
(* the application has run and changed what was converted.                 *)
(*                                                                         *)
(* One column stands for the columns of a table that one loop adds.  The   *)
(* default settings and the indexes have no stage: they are added when     *)
(* they are missing.  A target is a network, valid or not.                 *)
(***************************************************************************)
EXTENDS Naturals, FiniteSets

CONSTANTS
    Lists, Domains, Scopes, Clients,
    MaxCrashes,    \* bound: ends of the process
    MaxChanges     \* bound: changes while the application runs

Columns == {"lists.schedule", "lists.source", "lists.type", "scopes.schedule",
            "scopes.whitelisted", "log.client_name", "log.response_time"}
NoName == "none"

VARIABLES
    engine,        \* "sqlite" or "mysql"
    stage,         \* where initialize() is, "stopped" or "running"
    blockEntries,  \* what block_entries is: "table", "view", "none"
    legacyEntries, \* its rows while it is a table
    attached,      \* blocklist_domain_memberships
    counts,        \* blocklists.entry_count
    columns,       \* the columns that are there
    hostnameKind,  \* the table of targets admits host names
    target,        \* the network each target was created with, 0 if invalid
    networks,      \* scope_network_targets: rows of each target
    assigned,      \* scope_blocklists
    flagged,       \* targets with the whitelisted flag
    oldStamps,     \* log rows with the old form of timestamps
    logName,       \* the latest name in the log of each client
    identity,      \* client_identities
    markers,       \* settings: what has been converted once
    kept,          \* history: what the users of the database have put in it
    crashes, changes

upgradeVars == <<engine, stage, blockEntries, legacyEntries, attached, counts,
    columns, hostnameKind, target, networks, assigned, flagged, oldStamps,
    logName, identity, markers, kept, crashes, changes>>

Entries == Lists \X Domains
Names == [Clients -> {NoName, "old", "new"}]

\* An installation of release r: 1 has the tables of the first releases, 2 the
\* normalised domains, 3 every table; 0 is an empty database.
Setup(e, r, entries, scopes, named) ==
    /\ engine = e /\ stage = "stopped"
    /\ blockEntries = IF r = 1 THEN "table" ELSE IF r = 0 THEN "none" ELSE "view"
    /\ legacyEntries = IF r = 1 THEN entries ELSE {}
    /\ attached = IF r = 1 THEN {} ELSE entries
    /\ counts = [l \in Lists |-> IF e = "mysql"
                   THEN Cardinality({m \in entries : m[1] = l}) ELSE 0]
    /\ columns = IF r = 1 THEN {} ELSE IF r = 2 THEN {"scopes.schedule"} ELSE Columns
    /\ hostnameKind = (r \notin {1, 2})
    /\ target = [s \in Scopes |-> IF s \in scopes THEN 1 ELSE 0]
    /\ networks = [s \in Scopes |-> IF r = 3 THEN {target[s]} \ {0} ELSE {}]
    /\ assigned = Scopes \X Lists
    /\ flagged = {}
    /\ oldStamps = (r = 1)
    /\ logName = [c \in Clients |-> IF named /\ r # 1 THEN "old" ELSE NoName]
    /\ identity = [c \in Clients |-> NoName]
    /\ markers = {}
    /\ kept = [entries |-> entries, flagged |-> {}, networks |->
                  [s \in Scopes |-> {target[s]} \ {0}],
               names |-> IF e = "mysql" THEN identity ELSE logName]
    /\ crashes = 0 /\ changes = 0

Init ==
    \/ \E r \in {1, 2}, entries \in SUBSET Entries, scopes \in SUBSET Scopes,
          named \in BOOLEAN : Setup("sqlite", r, entries, scopes, named)
    \/ \E e \in {"sqlite", "mysql"} : Setup(e, 3, Entries, Scopes, TRUE)
    \/ \E e \in {"sqlite", "mysql"} : Setup(e, 0, {}, {}, FALSE)

-----------------------------------------------------------------------------
(* The stages.  Each reads what it is about to change when it begins.      *)

At(s) == stage = s
Goto(s) == stage' = s
Data == <<legacyEntries, attached, networks, flagged, oldStamps, identity>>
Steady == UNCHANGED <<engine, target, assigned, logName, kept, crashes, changes>>

\* CREATE TABLE IF NOT EXISTS: the tables of an empty database have all
\* columns but the one that is added after the targets were rebuilt.
CreateTables ==
    /\ At("stopped") /\ Goto(IF engine = "mysql" THEN "view" ELSE "move")
    /\ IF blockEntries = "none"
       THEN /\ columns' = Columns \ {"scopes.whitelisted"} /\ hostnameKind' = TRUE
       ELSE UNCHANGED <<columns, hostnameKind>>
    /\ UNCHANGED <<Data, blockEntries, counts, markers>> /\ Steady

\* Mutant: the old table is dropped before its rows are read.
MovedEntriesEmpty == attached

MovedEntries == attached \cup legacyEntries

\* One transaction: domains, memberships and the end of the old table.
MoveEntries ==
    /\ At("move") /\ Goto("view")
    /\ IF blockEntries = "table"
       THEN /\ attached' = MovedEntries
            /\ legacyEntries' = {} /\ blockEntries' = "none"
       ELSE UNCHANGED <<attached, legacyEntries, blockEntries>>
    /\ UNCHANGED <<columns, hostnameKind, counts, networks, flagged, oldStamps,
                   identity, markers>> /\ Steady

CreateView ==
    /\ At("view") /\ blockEntries' = "view"
    /\ Goto(IF engine = "mysql" THEN "listColumns" ELSE "counts")
    /\ UNCHANGED <<Data, columns, hostnameKind, counts, markers>> /\ Steady

OnList(l) == {m \in attached : m[1] = l}
SyncCounts ==
    /\ At("counts") /\ Goto("listColumns")
    /\ counts' = [l \in Lists |-> Cardinality(OnList(l))]
    /\ UNCHANGED <<Data, blockEntries, columns, hostnameKind, markers>> /\ Steady

\* Mutant: one column that is there is taken for all of them.
AddColumnsByFirst(s, wanted, next) ==
    /\ At(s)
    /\ IF wanted \cap columns # {}
       THEN Goto(next) /\ UNCHANGED columns
       ELSE /\ \E c \in wanted \ columns : columns' = columns \cup {c}
            /\ UNCHANGED stage
    /\ UNCHANGED <<Data, blockEntries, hostnameKind, counts, markers>> /\ Steady

\* ALTER TABLE, one missing column after the other.
AddColumns(s, wanted, next) ==
    /\ At(s)
    /\ IF wanted \subseteq columns
       THEN Goto(next) /\ UNCHANGED columns
       ELSE /\ \E c \in wanted \ columns : columns' = columns \cup {c}
            /\ UNCHANGED stage
    /\ UNCHANGED <<Data, blockEntries, hostnameKind, counts, markers>> /\ Steady

ListColumns ==
    AddColumns("listColumns", {"lists.schedule", "lists.source", "lists.type"},
               "scopeColumns")
ScopeColumns ==
    AddColumns("scopeColumns", {"scopes.schedule"},
               IF engine = "mysql" THEN "flagColumn" ELSE "rebuild")

\* Mutant: the table is rebuilt at every start.
OutdatedAlways == TRUE

\* The text of the table's definition does not mention host names.
Outdated == ~hostnameKind

\* One transaction; the new table has the columns that the statement names,
\* and is filled from the same columns of the old one.
RebuildScopes ==
    /\ At("rebuild")
    /\ IF ~Outdated THEN Goto("flagColumn") /\ UNCHANGED <<columns, hostnameKind, flagged>>
       ELSE IF "scopes.schedule" \notin columns
       THEN Goto("failed") /\ UNCHANGED <<columns, hostnameKind, flagged>>
       ELSE /\ Goto("flagColumn") /\ hostnameKind' = TRUE
            /\ columns' = columns \ {"scopes.whitelisted"} /\ flagged' = {}
    /\ UNCHANGED <<blockEntries, legacyEntries, attached, counts, networks,
                   oldStamps, identity, markers>> /\ Steady

FlagColumn ==
    AddColumns("flagColumn", {"scopes.whitelisted"},
               IF engine = "mysql" THEN "logColumns" ELSE "networks")

\* Mutant: the networks of every target are derived again.
WithoutNetworksAll == {s \in Scopes : target[s] # 0 /\ networks[s] # {target[s]}}

WithoutNetworks == {s \in Scopes : target[s] # 0 /\ networks[s] = {}}

\* One target after the other; what is no network is skipped.
BackfillNetworks ==
    /\ At("networks")
    /\ IF WithoutNetworks = {} THEN Goto("logColumns") /\ UNCHANGED networks
       ELSE /\ \E s \in WithoutNetworks :
                  networks' = [networks EXCEPT ![s] = {target[s]}]
            /\ UNCHANGED stage
    /\ UNCHANGED <<blockEntries, legacyEntries, attached, counts, columns,
                   hostnameKind, flagged, oldStamps, identity, markers>> /\ Steady

LogColumns ==
    AddColumns("logColumns", {"log.client_name", "log.response_time"},
               IF engine = "mysql" THEN "running" ELSE "stamps")

\* UPDATE, then the marker.
NormalizeStamps ==
    /\ At("stamps")
    /\ IF "stamps" \in markers THEN Goto("names") /\ UNCHANGED oldStamps
       ELSE oldStamps' = FALSE /\ Goto("stampsDone")
    /\ UNCHANGED <<blockEntries, legacyEntries, attached, counts, columns,
                   hostnameKind, networks, flagged, identity, markers>> /\ Steady
MarkStamps ==
    /\ At("stampsDone") /\ Goto("names") /\ markers' = markers \cup {"stamps"}
    /\ UNCHANGED <<Data, blockEntries, columns, hostnameKind, counts>> /\ Steady

\* Mutant: names are taken from the log at every start.
BackfilledNever == FALSE

Backfilled == "names" \in markers
Unlearned == {c \in Clients : logName[c] # NoName /\ identity[c] # logName[c]}

\* One client after the other, then the marker: repeating it on every start
\* would bring back names that were removed since.
BackfillNames ==
    /\ At("names")
    /\ IF Backfilled
       THEN Goto("running") /\ UNCHANGED <<identity, markers>>
       ELSE IF Unlearned # {}
       THEN /\ \E c \in Unlearned : identity' = [identity EXCEPT ![c] = logName[c]]
            /\ UNCHANGED <<stage, markers>>
       ELSE /\ markers' = markers \cup {"names"} /\ Goto("running")
            /\ UNCHANGED identity
    /\ UNCHANGED <<blockEntries, legacyEntries, attached, counts, columns,
                   hostnameKind, networks, flagged, oldStamps>> /\ Steady

-----------------------------------------------------------------------------
(* The application, and the end of the process.                            *)

Change ==
    /\ At("running") /\ changes < MaxChanges /\ changes' = changes + 1
    /\ UNCHANGED <<engine, stage, blockEntries, legacyEntries, columns,
                   hostnameKind, target, assigned, oldStamps, markers, crashes>>

EditEntries ==
    /\ Change
    /\ \E m \in Entries :
          /\ attached' = IF m \in attached THEN attached \ {m} ELSE attached \cup {m}
          /\ counts' = [counts EXCEPT ![m[1]] = Cardinality({x \in attached' :
                                                             x[1] = m[1]})]
    /\ kept' = [kept EXCEPT !.entries = attached']
    /\ UNCHANGED <<networks, flagged, logName, identity>>

EditScope ==
    /\ Change
    /\ \E s \in Scopes, nets \in {{1, 2}, {2}} :
          /\ networks' = [networks EXCEPT ![s] = nets]
          /\ flagged' \in {flagged \cup {s}, flagged \ {s}}
    /\ kept' = [kept EXCEPT !.networks = networks', !.flagged = flagged']
    /\ UNCHANGED <<attached, counts, logName, identity>>

\* A name is learned and written to the log, or all names are flushed.
LearnOrFlush ==
    /\ Change
    /\ \/ \E c \in Clients :
             /\ identity' = [identity EXCEPT ![c] = "new"]
             /\ logName' = [logName EXCEPT ![c] = "new"]
       \/ /\ identity' = [c \in Clients |-> NoName] /\ UNCHANGED logName
    /\ kept' = [kept EXCEPT !.names = identity']
    /\ UNCHANGED <<attached, counts, networks, flagged>>

Crash ==
    /\ stage # "stopped" /\ Goto("stopped")
    /\ crashes < MaxCrashes /\ crashes' = crashes + 1
    /\ UNCHANGED <<engine, blockEntries, legacyEntries, attached, counts, columns,
                   hostnameKind, target, networks, assigned, flagged, oldStamps,
                   logName, identity, markers, kept, changes>>

Initialize ==
    \/ CreateTables \/ MoveEntries \/ CreateView \/ SyncCounts \/ ListColumns
    \/ ScopeColumns \/ RebuildScopes \/ FlagColumn \/ BackfillNetworks
    \/ LogColumns \/ NormalizeStamps \/ MarkStamps \/ BackfillNames
Next == Initialize \/ EditEntries \/ EditScope \/ LearnOrFlush \/ Crash

Spec == Init /\ [][Next]_upgradeVars

-----------------------------------------------------------------------------
(* What is checked.                                                        *)

StoredEntries == IF blockEntries = "table" THEN legacyEntries ELSE attached

\* No step of an upgrade, interrupted and repeated as often as may be, loses a
\* domain of a list or brings back one that was taken off; counts are right
\* whenever the application runs.
EntriesSurvive ==
    /\ StoredEntries = kept.entries
    /\ stage = "running" =>
          \A l \in Lists : counts[l] = Cardinality(OnList(l))

\* Neither the rebuild of the table of targets nor the derivation of their
\* networks undoes what an administrator has set since.
TargetsSurvive ==
    stage = "running" =>
        flagged = kept.flagged /\ networks = kept.networks

\* Client names that the application has learned or flushed stay as they are
\* through every later start, though the log still holds older ones.
NamesSurvive == stage = "running" => identity = kept.names

\* No statement of an upgrade needs what a later one adds, and when the
\* application runs, every table and column it uses is there.
RunsOnCurrentSchema ==
    /\ stage # "failed"
    /\ stage = "running" => columns = Columns /\ hostnameKind
                            /\ blockEntries = "view" /\ ~oldStamps
=============================================================================
