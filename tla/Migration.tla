------------------------------ MODULE Migration ------------------------------
(***************************************************************************)
(* tools/migrate_database.py: the destination database is initialised,     *)
(* cleared, filled table by table from one snapshot of the source and      *)
(* compared with it.  Every table is copied in a transaction of its own,   *)
(* so a run that fails or is interrupted leaves the destination partly     *)
(* filled, and the next run starts by clearing it.  Nothing keeps the      *)
(* application from writing to the source meanwhile: the operator only     *)
(* confirms that it is stopped.                                            *)
(*                                                                         *)
(* Six of the thirteen tables stand for all: settings; a table others      *)
(* refer to, with names the tool compares (lists; so are scopes); one that *)
(* refers to it; the log with its statistics; one whose key is an address  *)
(* (client_identities; so is client_ptr_status); and one with names nobody *)
(* compares (api_keys; so are administrators, any text longer than its     *)
(* column on MySQL, and a name that MySQL compares otherwise than the      *)
(* tool).  Timestamps are those the program writes; one from elsewhere     *)
(* that cannot be read ends a run like a Fault.                            *)
(***************************************************************************)
EXTENDS Naturals, Sequences, FiniteSets, Functions

CONSTANTS
    Ids,           \* ids of rows (strings)
    Twins,         \* ids of rows whose names MySQL takes for the same
    Reordered,     \* ids of clients whose addresses MySQL orders otherwise
    MaxRuns,       \* bound: runs of the tool
    MaxChanges,    \* bound: changes of the source, one fewer with every later run
    MaxFaults      \* bound: errors and interrupts, none in the last run

TableOrder == <<"settings", "blocklists", "memberships", "query_log",
                "client_identities", "api_keys">>
Tables == Range(TableOrder)
Themes == {"dark", "light"}              \* values of a setting
Marker == "statistics_rollups_v1"
Empty == [t \in Tables |-> {}]

VARIABLES
    destinationKind,   \* "mysql" or "sqlite"; the source is the other
    fits,              \* the tables of both have the same columns
    source, destination,
    counted,           \* query_statistics of the destination: rows of the log
    position, table,   \* where the run is; "idle" between runs
    verify,            \* without --skip-content-verification
    expected,          \* source_counts
    snapshot,          \* what the transaction on the source sees
    outcome,
    former, moments, disturbed,    \* ghosts, of the current or last run
    runs, writes, faults

migrationVars == <<destinationKind, fits, source, destination, counted, position, table,
                   verify, expected, snapshot, outcome, former, moments, disturbed,
                   runs, writes, faults>>
runVars == <<destinationKind, fits, verify, former, moments, disturbed, runs,
             writes, faults>>

Consistent(db) == db["memberships"] \subseteq db["blocklists"]

\* Names of lists are compared before anything is cleared, others are not.
Conflicts(db) == Twins \subseteq db["blocklists"]
Unforeseen(db) == Twins \subseteq db["api_keys"]
TakenBy(db, kind) == kind = "mysql" => ~Conflicts(db) /\ ~Unforeseen(db)

\* The addresses are text: SQLite orders ":" after digits, MySQL before them.
OrdersDiffer(t, rows) == t = "client_identities" /\ Reordered \subseteq rows

Setup(kind, same, from, to) ==
    /\ destinationKind = kind /\ fits = same
    /\ source = from /\ destination = to
    /\ counted = Cardinality(to["query_log"])
    /\ position = "idle" /\ table = 1 /\ verify = TRUE
    /\ expected = [t \in Tables |-> 0] /\ snapshot = Empty /\ outcome = "none"
    /\ former = to /\ moments = {from} /\ disturbed = FALSE
    /\ runs = 0 /\ writes = 0 /\ faults = 0

Other(kind) == IF kind = "mysql" THEN "sqlite" ELSE "mysql"

First == CHOOSE i \in Ids : TRUE

Database(setting, lists, members, log, clients, keys) ==
    [settings |-> {setting, Marker}, blocklists |-> lists, memberships |-> members,
     query_log |-> log, client_identities |-> clients, api_keys |-> keys]

OneOrAll == {{First}, Ids}
InUse == Database("light", {First}, {First}, Ids, {First}, {First})

\* A source in use; a destination that is new or in use.
Init ==
    \E kind \in {"mysql", "sqlite"}, lists \in OneOrAll, clients \in OneOrAll, keys \in OneOrAll,
      same \in BOOLEAN, to \in {Empty, InUse} :
        LET from == Database("dark", lists, {First}, {First}, clients, keys) IN
        /\ TakenBy(from, Other(kind)) /\ (~same => to # Empty) /\ (lists = {First} \/ keys = {First})
        /\ Setup(kind, same, from, to)

End(result) == position' = "idle" /\ outcome' = result
Goto(p) == position' = p /\ UNCHANGED outcome

\* main: a dry run and a run without confirmation end here.
Start ==
    /\ position = "idle" /\ runs < MaxRuns
    /\ \E content \in BOOLEAN, proceed \in BOOLEAN :
          /\ verify' = content
          /\ IF proceed THEN position' = "initialize" /\ outcome' = "none"
                        ELSE End("refused")
    /\ former' = destination /\ moments' = {source} /\ disturbed' = FALSE
    /\ table' = 1 /\ expected' = [t \in Tables |-> 0] /\ snapshot' = Empty
    /\ runs' = runs + 1
    /\ UNCHANGED <<destinationKind, fits, source, destination, counted, writes, faults>>

\* initialize_destination: the schema, defaults for missing settings, and on
\* SQLite the counters, which its triggers then maintain.
Initialize ==
    /\ position = "initialize" /\ Goto("validate")
    /\ LET themed == IF destination["settings"] \cap Themes = {} THEN {"light"} ELSE {}
           marked == IF destinationKind = "sqlite" THEN {Marker} ELSE {}
       IN  destination' = [destination EXCEPT !["settings"] = @ \cup themed \cup marked]
    /\ counted' = IF destinationKind = "sqlite" /\ Marker \notin destination["settings"]
                  THEN Cardinality(destination["query_log"]) ELSE counted
    /\ UNCHANGED <<source, table, expected, snapshot>> /\ UNCHANGED runVars

\* Mutant: names are compared by MySQL alone, when they are inserted.
RefusedLate == ~fits

Refused == ~fits \/ (destinationKind = "mysql" /\ Conflicts(source))

\* validate_schema and find_mysql_name_conflicts.  A MySQL source reads from
\* here on what was committed at this point.
Validate ==
    /\ position = "validate"
    /\ IF Refused THEN End("refused") ELSE Goto("count")
    /\ table' = 1 /\ snapshot' = source
    /\ UNCHANGED <<source, destination, counted, expected>> /\ UNCHANGED runVars

\* What the connection to the source reads: SQLite has a snapshot only between
\* begin_consistent_read and rollback.
Seen(t) ==
    IF destinationKind = "sqlite" \/ position = "copy" THEN snapshot[t] ELSE source[t]

Count ==
    /\ position = "count"
    /\ expected' = [expected EXCEPT ![TableOrder[table]] = Cardinality(Seen(TableOrder[table]))]
    /\ IF table < Len(TableOrder) THEN table' = table + 1 /\ Goto("count")
                                  ELSE table' = 1 /\ Goto("clear")
    /\ UNCHANGED <<source, destination, counted, snapshot>> /\ UNCHANGED runVars

\* SQLite's triggers count the rows of the log that come and go.
Triggered(rows) ==
    IF destinationKind = "sqlite"
    THEN counted + Cardinality(rows) - Cardinality(destination["query_log"])
    ELSE counted

Clear ==
    /\ position = "clear" /\ Goto("begin")
    /\ destination' = Empty /\ counted' = Triggered({})
    /\ UNCHANGED <<source, table, expected, snapshot>> /\ UNCHANGED runVars

BeginConsistentRead ==
    /\ position = "begin" /\ Goto("copy") /\ snapshot' = source
    /\ UNCHANGED <<source, destination, counted, table, expected>> /\ UNCHANGED runVars

\* Mutant: the tables are read without a transaction around them.
CopiedRowsUnisolated == source[TableOrder[table]]

CopiedRows == Seen(TableOrder[table])

\* Mutant: the tables are filled in the order they are cleared in.
FilledTableReversed == TableOrder[Len(TableOrder) + 1 - table]

FilledTable == TableOrder[table]

\* insert_batches: all of a table or nothing; parents must be there already,
\* and MySQL refuses names it takes for the same, compared before or not.
Copy ==
    LET t == FilledTable
        rows == IF t = TableOrder[table] THEN CopiedRows ELSE Seen(t)
        filled == [destination EXCEPT ![t] = rows]
        accepted == Consistent(filled) /\ TakenBy(filled, destinationKind)
    IN
    /\ position = "copy"
    /\ IF accepted
       THEN /\ destination' = filled
            /\ counted' = IF t = "query_log" THEN Triggered(rows) ELSE counted
       ELSE UNCHANGED <<destination, counted>>
    /\ IF ~accepted \/ Cardinality(rows) # expected[t] THEN End("failed") /\ UNCHANGED table
       ELSE IF table < Len(TableOrder) THEN table' = table + 1 /\ Goto("copy")
       ELSE table' = 1 /\ Goto("compare")
    /\ UNCHANGED <<source, expected, snapshot>> /\ UNCHANGED runVars

\* The source's transaction ends, sequences, foreign keys and counts are checked;
\* a MySQL source begins another transaction with its next read.
Compare ==
    /\ position = "compare"
    /\ IF ~Consistent(destination) \/ \E t \in Tables : Cardinality(destination[t]) # expected[t]
       THEN End("failed")
       ELSE Goto(IF verify THEN "verify" ELSE "rebuild")
    /\ snapshot' = source
    /\ UNCHANGED <<source, destination, counted, table, expected>> /\ UNCHANGED runVars

\* table_digest of both sides: of the rows in the order of each side's keys.
Verify ==
    LET t == TableOrder[table] IN
    /\ position = "verify"
    /\ IF Seen(t) # destination[t] \/ OrdersDiffer(t, destination[t])
       THEN End("failed") /\ UNCHANGED table
       ELSE IF table < Len(TableOrder) THEN table' = table + 1 /\ Goto("verify")
       ELSE table' = 1 /\ Goto("rebuild")
    /\ UNCHANGED <<source, destination, counted, expected, snapshot>> /\ UNCHANGED runVars

\* Mutant: only what initialize_rollups does.
RecountedOnce ==
    IF Marker \in destination["settings"] THEN counted
    ELSE Cardinality(destination["query_log"])

\* rebuild_rollups, "even if the copied settings include a marker".
Recounted == Cardinality(destination["query_log"])

Rebuild ==
    /\ position = "rebuild" /\ End("success")
    /\ counted' = Recounted
    /\ destination' = [destination EXCEPT !["settings"] = @ \cup {Marker}]
    /\ UNCHANGED <<source, table, expected, snapshot>> /\ UNCHANGED runVars

\* A statement fails, the process is interrupted or killed: what is not
\* committed is rolled back.
Fault ==
    /\ position # "idle" /\ runs < MaxRuns /\ faults < MaxFaults /\ faults' = faults + 1
    /\ End("failed") /\ disturbed' = TRUE
    /\ UNCHANGED <<destinationKind, fits, source, destination, counted, table, verify, expected,
                   snapshot, former, moments, runs, writes>>

\* Somebody has not stopped the application that uses the source: a setting is
\* changed, a list deleted or filled, a row of the log pruned and another one
\* written, a client seen.
Change ==
    /\ position # "idle" /\ runs + writes <= MaxChanges /\ writes' = writes + 1
    /\ source' \in
         {[source EXCEPT !["settings"] = {"light", Marker}]}
         \cup {[source EXCEPT !["blocklists"] = @ \ {i}, !["memberships"] = @ \ {i}] : i \in Ids}
         \cup {[source EXCEPT !["memberships"] = @ \cup {i}] : i \in source["blocklists"]}
         \cup {[source EXCEPT !["query_log"] = {j}] : j \in Ids}
         \cup {[source EXCEPT !["client_identities"] = @ \cup {i}] : i \in Ids}
    /\ source' # source
    /\ moments' = moments \cup {source'} /\ disturbed' = TRUE
    /\ UNCHANGED <<destinationKind, fits, destination, counted, position, table, verify, expected,
                   snapshot, outcome, former, runs, faults>>

Next ==
    \/ Start \/ Initialize \/ Validate \/ Count \/ Clear \/ BeginConsistentRead
    \/ Copy \/ Compare \/ Verify \/ Rebuild \/ Fault \/ Change

Spec == Init /\ [][Next]_migrationVars

-----------------------------------------------------------------------------
(* What is checked.                                                        *)

Data(db) == [t \in Tables |-> db[t] \ {Marker}]

\* A run that reports success has left a whole state that the source had at one
\* moment of the run, nothing of what was there before or of an interrupted
\* run, and counters that fit the copied log.
SuccessIsComplete ==
    outcome = "success" =>
        /\ Data(destination) \in {Data(db) : db \in moments}
        /\ counted = Cardinality(destination["query_log"])

\* A run that is refused, or whose source had, at every moment of it, names of
\* lists that MySQL takes for the same, has not taken anything from the destination.
RefusedKeepsData ==
    \/ outcome = "refused"
    \/ destinationKind = "mysql" /\ \A db \in moments : Conflicts(db)
    => \A t \in Tables : former[t] \subseteq destination[t]

\* With a source that nobody changes the tool fails by itself in two cases only:
\* MySQL refuses names or texts that nobody compared, or the contents are
\* verified though both sides order addresses of clients differently, and then
\* the destination holds the source nevertheless.  Neither the order of the
\* tables nor what an interrupted predecessor left stands in its way.
OfflineRunsSucceed ==
    outcome = "failed" /\ ~disturbed =>
        \/ destinationKind = "mysql" /\ Unforeseen(source)
        \/ /\ verify /\ OrdersDiffer("client_identities", source["client_identities"])
           /\ destination = source
=============================================================================
