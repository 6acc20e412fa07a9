# Blockinator in TLA+

TLA+ specifications of Blockinator, the policy server that a DNS resolver asks
whether to answer a query. The modules are written from the Python code under
`app/`; TLC checks them on small instances, and TLAPS proves the main safety
results, about nineteen of the modules, for instances of any size.

## 1. The system

One process serves two kinds of callers. Resolvers post DNS questions to
`/api/v1/decision` and get *allow* or *block*; administrators edit lists,
targets and settings in a web console. A database (SQLite or MySQL) holds the
configuration, the learned client names and the query log. Decisions never touch
the database: they read an immutable `PolicySnapshot` in memory.

```
 resolver ──► decide_with_log_row ──► QueryLogger.submit ──► writer ──► query_log
                   │ reads                                               ▲
                   ▼                                                     │ prune
             PolicyEngine._snapshot ◄── reload / reload_lists /          │
                   ▲                    reload_scopes / reload_settings  │
                   │ identities              ▲            ▲              │
        PtrResolutionManager            admin handlers  refresher     save_settings
                   │                         │            │
                   └────────────► database ◄─┴────────────┘
```

| Component | State | Operations | What is hard | What makes it correct |
|---|---|---|---|---|
| Policy engine, activation (`policy.py`, handlers in `main.py`) | `_snapshot`, `_reload_lock`, `_write_lock`, `_identity_journal`, `_reload_errors`, recovery thread | four rebuilds, name callback, flush, recovery | commit and rebuild are separate steps; partial rebuilds combine sections read at different times; names are published without the rebuild lock; failures | snapshots never go back, agree with themselves, end up equal to the database, lose no name; no failure is forgotten |
| Decision procedure (`policy.py`) | none (reads one snapshot) | compile, match targets, match lists, decide | indexes, masks, search orders and fall-through outside schedules implement an order of precedence | the documented target, list and domain decide |
| Policy requests (`policy.py`, `main.py`) | `_active_list_cache`, per-request locals | filter, decide each question, report, log | no locks; a request spans snapshots; a shared cache | every answer is exact for a snapshot in use; nothing is skipped |
| Query logger (`policy.py`, `rollups.py`) | queue, pending batch, counters, retention timer, table | submit, batch, commit, retry, prune, close | ambiguous commits, shutdown race, retries with topped-up batches | no duplicate, nothing lost uncounted, retention removes only what it should, and eventually all of it |
| PTR manager (`ptr_resolver.py`, `rdns.py`) | observation set, futures, `client_ptr_status`, `client_identities`, log cursor, name jobs | observe, schedule, collect, persist, flush, backfill | answers after a flush, unacknowledged commits, two tables that can disagree, progress in chunks | the snapshot follows the stored names, no client stays pending, no log row is left behind |
| Refresher and list editing (`refresher.py`, `edit_list` in `main.py`) | run lock, validators in `blocklists`, forms on their way | due lists, conditional fetch, guarded replace, edit, delete | the source is edited during a download; two editors | content and validators belong to the same source, changes are loaded, a list ends up with what its URL serves |
| Domain store (`db.py`) | `domains`, memberships, counts | add, remove, replace, delete | autocommit; shared domains and their clean-up; two backends | no membership lost, no unused domain kept, counts right |
| Schedules, inspector (`policy.py`, `schedules.py`, `inspector.py`) | none | `is_active`, `next_transition` | midnight, days, several windows, clocks that change | active as documented; the next transition is the next change (where clocks are put forward: of the days tried) |
| TLS manager (`tls.py`) | files, settings, Caddy, applied hash, two caches | `configure`, the reconcile thread | failure after each step, also of undoing; Caddy restarts, and ignores a configuration equal to the one it runs | settings fit the files; drift is noticed, and Caddy comes to run what is saved, but for files it did not read again |
| Authentication (`auth.py`) | key table and its copy, accepted and rejected keys, credentials, sessions | create, rotate, enable, disable, delete, verify; sign in and out, change credentials | commit and reload are two steps without a common lock; every statement commits by itself | one key stays enabled, revoked means refused, sessions belong to the current credentials |
| MySQL backend (`mysql_backend.py`) | slots, idle connections | acquire, use, release | failures at every call | slots are conserved, nobody sees another's transaction |
| Console admission (`admin.py`) | two pools, login limiter | admit, run, cancel; check | callers that leave while their work is queued or runs | slots are what runs, forms outlive handlers, limits hold |
| Statistics rollups (`rollups.py`) | counters, marker | insert, delete, rebuild | concurrent log transactions, restarts | counters equal the log |
| Console caches (`rdns.py`, `query_cache.py`, `statistics.py`) | entries with expiry | get, put, clear | answers that come after a clear | nothing from before a clear, limits, no wasted computation |
| Schema upgrades (`db.py`, `mysql_backend.py`) | tables of older versions | conversion, statement by statement | interruption anywhere, repetition, changes in between | nothing lost or brought back |
| Migration tool (`migrate_database.py`) | source, destination | check, clear, copy, verify, rebuild | interruption, a source in use, two backends that compare and order texts differently | success is complete, refusal takes nothing, failure has a reason that can be named |

The background threads share little: `QueryLogger` and the PTR manager meet in
`query_log`, the PTR manager and the handlers in the snapshot's names, the refresher
and `edit_list` in a list's row, `configure()` and the reconciler in `_lock`.

`PROJECT.json` lists every component with its status, and every hazard of the code
at its line with the properties that cover it.

## 2. The modules

| Module | Models | Composes |
|---|---|---|
| `PolicyEngine` | activation: commits, rebuilds, names, failures, restart | implements `PolicyActivation` |
| `PolicyActivation` | what activation promises: per section, forward only, never past what is saved | |
| `PolicyEngineProofs` | theorems about `PolicyEngine` | |
| `PolicyDecision` | `_reload_full`'s compilation and `decide()`, and the documented precedence | |
| `PolicyRequest` | `decide_with_log_row` with concurrent publications | EXTENDS `PolicyDecision` |
| `QueryLogger` | queue, writer, retention, shutdown | |
| `PtrResolver` | the PTR manager's tick, lookups, transactions, flush | |
| `ListRefresher` | the refresher's cycle beside `edit_list` and `delete_list` | |
| `Schedules` | windows, `is_active()`, `next_transition()`, and the guide's meaning of both | |
| `TlsManager` | `configure()` and the reconcile thread, with database, files and Caddy | |
| `DomainStore` | shared domains under autocommitted edits | |
| `MySQLPool` | the connection pool | |
| `Rollups` | log transactions and their counters | |
| `DatabaseUpgrade` | the upgrades of old schemas | |
| `Migration` | the migration tool | |
| `ApiKeys`, `AdminSessions` | `AuthManager` and its handlers | |
| `Admission`, `LoginLimiter` | the bounded pools, the limits of sign-in | |
| `RdnsCache`, `ViewCache` | the caches | |
| `Selections` | what is at some places of a sequence | |
| `QueryLoggerProofs`, `PtrResolverProofs`, `ListRefresherProofs`, `TlsManagerProofs` | theorems about the modules they are named for | each EXTENDS its module |
| `StorageProofs` | theorems about `ApiKeys`; lemmas about `MySQLPool`, `Rollups`, `DomainStore`, `DatabaseUpgrade` and `Migration` | EXTENDS `MCStorage`, `ApiKeys` |
| `ConsoleProofs` | theorems about `AdminSessions`, `Admission`, `LoginLimiter`, `RdnsCache`, `ViewCache`, and about all parts of `MCConsole` | EXTENDS `MCConsole`, `StorageProofs` |
| `PolicyProofs` | theorems about `PolicyDecision`, `PolicyRequest` and `Schedules` | EXTENDS `MCPolicy` |
| `MCPolicyDecision` | configurations for `PolicyDecision`, and what the database admits as one | EXTENDS `PolicyDecision` |
| `MCPolicy` | | `MCPolicyDecision`, `PolicyRequest`, `Schedules` |
| `MCRecovery` | | EXTENDS `TlsManager`; `PolicyEngine` |
| `MCStorage` | | `DomainStore`, `MySQLPool`, `Rollups`, `DatabaseUpgrade`, `Migration` |
| `MCConsole` | | EXTENDS `MCStorage`, `ApiKeys`; the other console modules |
| `MCPolicyEngine`, `MCListRefresher` | symmetry, documents | |
| `MCPtrResolver` | the two situations of the run `ptr` | EXTENDS `PtrResolver` |

Three of the MC modules hold several components that do not interact, in one
state space: the variable `part` says which of them a behaviour is about, the
others stay in one initial state, and a property that needs it begins with
`part = ...`. The state space is the sum of theirs, not the product, and one run
answers what would take five.

Operators whose comment begins with *Mutant* are deliberately wrong variants of
the operator that follows them. `PROJECT.json` pairs each property with one: the
property must fail when the variant takes the operator's place, which shows that
the run can tell the two apart.

### 2.1 PolicyEngine

*State.* `db` is the committed rows: a version per section (`settings`, `lists`,
`scopes`) that every commit touching it increments, the ids of the existing lists
(`present`), the next AUTOINCREMENT id, the assignments of lists to targets, and
the client names. `snap` is `_snapshot`: a version per section, and in full what is
computed across sections (list ids, each target's ids and mask of bit positions,
names). `lock` is `_reload_lock`; `_write_lock` guards one short block wherever it
is taken, which is one step here. `pc`, `want`, `attempt`, `rows`, `base` are each
thread's progress through a rebuild. `moved` holds the threads whose `base` is no
longer the published object, because `reload_scopes` compares object identities
and not values. `recording` and `journal` are `_identity_journal`, `errors` the keys
of `_reload_errors`, `stateLock` and `pending` the PTR manager between its commit
and its callback. `unheard` and `orphaned` are history.

*Actions.* Handlers: `SaveSettings`, `ChangeList`, `ChangeManualList`, `DeleteList`,
`AddList`, `EditList`, `SaveScope`, `RequestFlush`. Each is one commit followed by
a call of the engine method its handler calls, or by the handler's death after the
commit took effect: a statement after an autocommitted one raises, or COMMIT is
not acknowledged. Rebuilds: `Enter` (lock, journal, base), `Read` (one
transaction), `InstallFull`/`InstallSettings`/`InstallLists`/`InstallScopes`
(publish and clear errors), `RetryScopes` (second attempt, then the nested
`reload()`), `ReadFails`. `RecoveryWakes` is the recovery thread. Names: `LearnName`
and `ManagerCallback`, `FlushCommit`, `FlushCallback`, `FlushFails`. `Restart` ends
the process at any point and starts a new one from the database.

*Abstractions.* The content of a section is its version. The list ids, assignments
and names are concrete, because the masks and the journal depend on them.
`LearnName` commits a new name, or the absence of one, for any client; the status
rows and their backoff are not modelled. A rebuild fails in its transaction;
the code after it only computes.

### 2.2 PolicyDecision

A configuration is a record of list rows, target rows, names and settings;
`Compile` builds the snapshot's indexes as `_reload_full` does, and `Decide` follows
`decide()` over them. Bits are positions in list order, masks are sets of bits.
An address is a family and a number of `Width4` or `Width6` bits, a name or
domain a sequence of labels, a schedule the set of instants at which it is active.

The second half defines `Documented` from docs/USER_GUIDE.md on the rows: which
target wins is a comparison of pairs (`Specificity`, `Beats`), which list decides
a set (`Applicable`, `Covering`), without indexes, masks or loops.

### 2.3 PolicyRequest

Snapshots are numbered by publication. A thread filters its questions one at a time
against whatever snapshot is current (so a request may be bypassed although no single snapshot
ignores all of its types, which `AllowedMeansExamined` grants), reads the clock, and for each question
captures the snapshot, decides early or consults `_active_list_cache`, may compute
and store the mask, and goes on or stops. `Publish` and `ResetCache` are separate
steps, since readers take no lock. `Reply` builds the log row.

### 2.4 QueryLogger

`Submit` and `Put` are the two halves of `submit()` under `_metrics_lock`.
The writer's `pc` is *connect* (`_run`), *gather* (`_run_connected`), *write* and
*commit* (its transaction). `Write` stages inserts and the deletes of a due
pruning; `Commit` applies them; `WriteFails` is a failure before COMMIT, with
confirmed or unconfirmed rollback; `CommitFails` raises with or without effect.
`PruneNow` is the console's pruning on its own connection. A row is its place in
the order of submission; row ids are separate, and `IdGaps` says whether a rolled
back insert uses them up (MySQL) or not (SQLite). `_batch_attempts` keeps its last
value while the queue is empty: the code resets it then, the model when the next
batch begins, which is where it is read next.

### 2.5 PtrResolver

*State.* The tables are `status` (`client_ptr_status`), `identities`, `log`
(`query_log`, a row's place being its id), `cursor` (`ptr_log_cursor`) and `jobs`
(the settings `ptr_backfill:<client>`). In memory are `observed`, `futures` (a client
with a future is in `_inflight`; a cancelled or stale one is in `_stale_futures`),
the tick's `phase` with what is left of its loop (`todo`), and `told`, the names
the policy snapshot has. `epoch` and `unheard` are history.

*Actions.* A tick is `FlushObserved`, `Collect` per finished future, `Collected`,
`Seed`, `Walk`, `Schedule`, `Collect` again, `NameJob` per job, `EndTick`. Each
write is one transaction that takes effect, fails, or takes effect without being
acknowledged (`Write`); an exception ends the tick (`Abort`). The tick holds
`_state_lock`, so `Flush` and `FlushFails` need `phase = "idle"`. `Observe`, `LogRow`,
`FinishLookup`, `Tick` (a `next_attempt_at` comes), `Reload` (a full rebuild of the
policy) and `Restart` fall anywhere.

*Abstractions.* The 30 seconds in which an observation is not repeated make some
observations stutters, as the address may have been drained already. The answer of a
lookup is chosen when it is collected, since nobody reads it before. Attempt counts
and the delays they select are left out: every delay passes at some time. The four
jobs a tick takes are all of them. `Reload` reads and publishes in one step; what
happens between the two is the subject of `PolicyEngine`. `close()` collects once more
before the process ends, which is a tick that ends early followed by `Restart`.
`_persist_result` for a client without a status row is unreachable: rows are never
deleted. Rows that retention deletes are left out.

### 2.6 ListRefresher

*State.* `row` is a list's row in `blocklists` with its memberships: source (type,
URL, format), `etag`, `hash`, domains, and whether it is due. `server` is the document
each URL serves. `task` is `_refresh_list` for each list of the cycle, up to its
`RefreshResult`; `edit` what each `edit_list` has read and is about to commit. `active`,
`failed` are the policy engine, reduced to "loaded" and "to be tried again". `raced`
and `unheard` are history.

*Actions.* `StartCycle` takes the due lists under `_run_lock`. Per list: `ReadSource`
(the row, and the check that it is still a URL list), `Fetch` (304, equal hash, no
domains, new content, failure), `Unchanged` (`_metadata_update_with_retry`), `Replace` (the
transaction guarded by the source that was read, and by an equal hash), `RecordFailure`.
`EndCycle` reloads the policy if any list changed. Editors: `Open` (reads the row,
parses the form), `Commit`, `ReloadEdited`, `Delete`. `PublishDocument`, `DueComes`,
`Recover` and `Restart` fall anywhere.

*Abstractions.* ETag and Last-Modified are one validator that names the document; a
server may send none. A retried write is no step: it
either had no effect, or finds its own document and ends without a reload, as a failure does. `entry_count` and `last_error` are only displayed. An upload is pasted text. The
domains of a document in a format are a constant operator: in the instance one document
is empty in the wrong format, the other has domains that are not meant.

### 2.7 Schedules

Time is counted in ticks. `WindowIsActive` is the code with its three cases,
`Covered` the guide's set of instants of the week; `NextTransition` tries the code's
candidates (boundaries and full hours of nine days, both folds of a repeated time),
`TransitionIsNext` looks at every instant of two weeks, or of the days that are tried if
the clock is put forward on one of them. The guide makes no such exception:
`TransitionIsAnnounced` does not either, and fails (run `skipped`). A zone changes its
distance from UTC once, forward or back, by whole hours and on the hour: the hourly
candidates are made for that, and the one zone that shifts by half an hour is left out.

### 2.8 TlsManager

*State.* `saved`, `shownError` and `files` are what lasts; `loaded` is what Caddy runs,
together with the files as they were when it read them; `memory` the manager's fields;
`call` one call of `configure()` with its backups; `cycle` the reconcile thread. A
file is the number of the request that wrote it: a certificate and a key match if
they came together; a host name stands for all else that a form puts into the
configuration. `lapses` is history: what `configure()` could not undo, and files that
Caddy has not read (`"unread"`).

*Actions.* `Begin` (lock, backups, the previous configuration), `WriteSecret` per file
in the code's order, `Check`, `Activate`, `Record`; from each of them `restore`, `report`,
`rollback`, of which every one can fail again. A request to Caddy that raises may
have been carried out. The thread is `Probe`, `Note`, `Sync` under the lock, `Apply`,
`ApplyRecorded`, and `Tell`, which writes an error down outside of the lock and of any
`try`: if the database fails there, the thread ends (`dead`) and nobody starts it
again before the process. `CaddyIsServed` makes an exception of this state; the
promise of docs/OPERATIONS.md ("A background reconciler restores the desired
configuration after Caddy restarts") does not. Database, Caddy and the process stop
and start anywhere.

*Caddy* is external. It reads the certificate files when it loads a configuration, and
answers a configuration that equals the one it runs as a success without loading it,
unless the request says `Cache-Control: must-revalidate`, which `_load()` (tls.py:582)
does not (`AfterLoad`). The rendered configuration names the files by constant paths, so
an upload for the host name that is already served, or another root for the CA, is
checked, stored, recorded and reported as applied while Caddy keeps the old
certificate; and as the hash is equal, the reconciler has nothing to do until Caddy
restarts. In the same way a rollback after an upload restores the files but leaves Caddy
on what it read, when it had read the new ones in between. The properties name this
case (`Unread`) and claim nothing for the contents of files then; they still claim that
Caddy runs the saved configuration.

*Abstractions.* Addresses and the redirect are part of the configuration like the
host name. `apply_saved()` is called by tests only and is left out, and with it
`_managed_config_present`, which nothing else reads.

### 2.9 The storage layer

`DomainStore` runs each autocommitted statement of `add_list_domain`,
`remove_list_domain` and `delete_blocklist` as a step, for both backends, with the
clean-up of unused domains (a trigger on SQLite). `MySQLPool` runs `_acquire_raw` and
`_release_raw` call by call, with pings, connections and rollbacks that fail. `Rollups`
interleaves insertions and deletions of log rows with their counters, whose row locks
are taken in a fixed order, on MySQL (SQLite's transactions follow each other, and its
triggers do the same arithmetic). `DatabaseUpgrade` runs `initialize()`
statement by statement on a database of an older version, which an interruption stops
anywhere; between starts the application changes lists, targets and names.
`Migration` runs the tool over six tables that stand for all thirteen, from a source that
may be in use: the settings; a table others refer to (lists), one that refers to it; the
log, whose counters are rebuilt; the names of clients, whose key is an address; and the
API keys. MySQL's collation compares and orders texts in its own way. The tool compares
names of lists and targets before it clears the destination
(`find_mysql_name_conflicts`, migrate_database.py:571), but no others: keys named José
and Jose, which SQLite tells apart, fail in the copy, after the destination was cleared
(`Unforeseen`). Digests are taken over the rows in the order of each side's keys (`OrdersDiffer`):
of the clients 2001:db8::5 and 2001:db8:1::5 the first comes second on SQLite and
first on MySQL, so the verification of equal contents fails. A row is its id; what
`transform_value` makes of it is the same row, as the program writes timestamps that
`_parse_datetime` reads; one from elsewhere that raises ends a run like `Fault`.

### 2.10 The console

`ApiKeys`: `keys` is the table, `keyTable` what `reload_api_keys()` has loaded of it,
`verified` and `rejected` the two caches in their order. A handler counts the enabled
keys under a lock (`CountKeys`), changes them (`ModifyKey`, `CreateKey`, `RotateKey`), then
reads and installs in two steps; `verify_api_key()` is `LookUp`, `Find`, and `Accept` or
`Forget` and `Reject`, each under the lock by itself. A secret stands for its digest, and
times of last use are left out. `version`, `shown`, `due` and `raced` are history. A
check that looked a key up before it was loaded may remember the refusal after: the
key is then refused until the next reload (`raced`), which `RejectedAreUnknown` grants.
A table installed by the reload that read earlier and ended later stays until the
next change (`shown < due`), which `TableIsCurrent` grants.

`AdminSessions` interleaves sign-ins, changes of credentials and sign-outs statement by
statement. A sign-in that was let in before a change gets its session after it; this
session survives although it was opened under the old password (`late`).

`Admission` is one of the two pools (they are the same code twice): a semaphore, the
executor's queue, and the coroutines, which are cancelled when their callers leave.
`admin_action` awaits its handler behind a shield, once: a caller that is cancelled a
second time closes the form under a running handler, which `FormsOutliveWork` grants.
`LoginLimiter` has a clock, two limits and a bounded memory of peers. `RdnsCache` and
`ViewCache` are the caches with clock, capacity and, for names, `clear_cache()`.

## 3. The runs

| Run | Question | Result |
|---|---|---|
| `activation` | do snapshots stay consistent, current, and complete under any interleaving? | yes |
| `recovery` | does every committed change become active? do settings and files stay together, and does Caddy follow? | yes, but for files that Caddy did not read again; the first and last under fairness |
| `reported` | is a pending change always reported? (docs/USER_GUIDE.md:384) | violated |
| `policy` | does `decide()` follow the documented precedence? are answers exact, complete and logged under the right question? do schedules hold? | yes |
| `skipped` | is the next change always found? (docs/USER_GUIDE.md:380) | violated |
| `logger` | duplicates, losses, shutdown, attempts; is exactly the excess pruned in the end? | correct; the end under fairness |
| `gaps` | and with gaps in the ids? (docs/USER_GUIDE.md:348, :350) | violated |
| `ptr` | do answers outlive a flush, names miss the policy, log rows stay behind? is every observed client tracked, if its write does not fail, and looked up? | no; yes; what happens eventually under fairness |
| `ptr_learned` | does every stored name reach the policy? (docs/USER_GUIDE.md:221) | violated |
| `lists` | do validators belong to their content, and does a list follow its URL? | yes; the second under fairness |
| `console` | does the storage layer lose, miscount or misreport anything? do keys, sessions, pools, limits and caches hold? | no, a migration may fail though; yes |
| `clears` | does every change of the source clear the validators? (docs/OPERATIONS.md:262) | violated |

### The violated statements

* **reported.** `delete_list` deletes the list in one autocommitted statement and
  cleans up domains in later ones. If a later one raises, the handler ends
  without `reload_lists()`; `_reload_errors` stays empty, so the console shows no
  warning and the recovery thread does nothing. The manual-list handlers have
  the same shape. The run sets `AmbiguousCommits = FALSE`: the violation needs no
  misbehaving database server. `StaleIsAccounted` states what remains true.
* **skipped.** `next_transition()` tries today and the eight dates after it. A window that
  lies in the hour which is skipped when clocks are put forward does not come on that
  day, and if it is the only one of its week, its next change falls after the last date: for
  Sundays from 2:00 to 3:00 in New York, looked at on Friday, 6 March 2026, the dates
  end with 14 March, the next change is on the 15th, and the card shows none.
  `TransitionIsNext` states what remains true.
* **gaps.** Retention by count deletes `id <= MAX(id) - max_rows`. Ids that a rolled
  back insert used up are counted as rows, so that a row goes although fewer newer ones
  than the limit remain. `logger` has the same property without gaps.
* **ptr_learned.** When the COMMIT of a resolved name takes effect without being
  acknowledged, the callback is skipped. Every later lookup finds the name equal
  to the one in the status row and skips it too. `NamesAreHandedOn` (in `NamesArrive`) states
  what remains true: the policy has the name of every client whose last change was
  acknowledged.
* **clears.** `edit_list` decides whether the source changed by a row it read before its
  transaction. A save that overlaps another one can put an old format back as
  "unchanged" after the refresher has stored the validators of the other format; the
  next refresh then skips the document. `ValidatorsMatchContent` states what remains
  true, and its comment the cases it leaves out (`raced`).

### What the properties leave out

Some documented statements fail in a case that a property of a passing run names and
exempts, so that the rest of it can be checked.

* *Renewed certificates.* `save_tls_settings` reports "Caddy reloaded without restarting
  Blockinator" (main.py:3891), and docs/OPERATIONS.md:139 says "If activation fails, the
  previous configuration is restored". Neither holds of the contents of files while the
  configuration is equal (section 2.8). `ConfigurationsAgree`, `ReconcilesCurrent` and
  `CaddyIsServed` exempt it as `"unread"`.
* *Migration.* "Fail before clearing the destination rather than mid-copy"
  (migrate_database.py:602) holds of names of lists and targets only, and the
  verification "with row counts and SHA-256 table-content digests" (docs/OPERATIONS.md:57)
  refuses contents that were copied whole if addresses of clients are ordered differently.
  `OfflineRunsSucceed` names both.
* *Addresses of a failed transaction* (ptr_resolver.py:267) are tracked when they are
  observed again; `ObservedIsTracked` begins where the write succeeds.
* *Keys and sessions.* A table of keys that was read earlier and installed later, and a
  refusal remembered by a check that began too early, stay until the next reload
  (`shown < due`, `raced`); the session of a sign-in let in before a change of credentials
  survives it (`late`); section 2.10.

### Bounds, and why they are enough

* `activation`: two handlers and the recovery thread are three rebuilds in
  contention; a commit that overtakes a rebuild needs two handlers, the fallback
  of `reload_scopes` needs two publications under it. Three commits allow list
  creation, deletion and reassignment in one behaviour, and renumbering needs two
  lists, of which the one with the lower id goes. One fault is enough for a failed
  rebuild to be followed by a successful one of another kind. Handlers are
  symmetric. With one target and one client all masks and names are independent
  of those of others.
* `recovery`: the threads of `activation` with one list less and no symmetry; two
  TLS requests out of six forms and two host names, so that a second one meets what the
  first has left, from each of the three modes, and changes the certificate with the
  configuration or without, and one fault, which may be an outage that
  lasts while several steps fail.
* `policy`: two and three targets that can all match one client, two prefix lengths
  per family, nested wildcard suffixes; two lists of every type, state
  and schedule, assigned or global, with names of one to three labels; two threads with two questions
  each, two snapshots, two minutes; every window in a week of three days of three
  hours of two ticks, alone or with further ones, looked at in two of its days, while the
  clock is put forward (by night, by day, or before midnight) or back by an hour. `skipped` has the same constants.
* `logger`: three rows, a queue of two and batches of two, so that the queue fills, a
  batch is topped up, and rows remain at shutdown; two attempts per batch and two
  faults, so that attempts run out or an ambiguous commit follows a failed write. One
  or two rows are kept, so that there is something to prune. `gaps` uses three attempts.
* `ptr`: a behaviour is in one of two situations. Either there is one client with two
  names, so that a name can change, vanish and come back, and two log rows with chunks
  and batches of one, so that cursor and job can be at different rows. Or there are two
  clients, which interact only in the observation set and the schedule, with one worker,
  one name and no rows. One flush and one fault come before or after any other step.
  `ptr_learned` needs no more.
* `lists`: one list, as a cycle joins lists only at its end (`ChangesAreLoaded` is about
  that end, and the mutant for it needs one list too); one editor whose three
  edits can fall within one download, forth and back; two documents, two formats.
  `clears` has a second editor with a form that is open meanwhile.
* `console`: two handlers and four operations on two lists that share two domains;
  three threads for two slots, three uses and two failures; three log rows and three
  transactions; two interruptions of an upgrade and two changes between starts; two
  runs of the migration with a fault in the first, and two changes of the source in the first
  or one in the second, of rows in pairs that MySQL orders or compares otherwise; two handlers
  and one check of a key, two operations on two or three keys with one fault, where the first
  key has one and the same secret or an old digest, as secrets are interchangeable; three
  requests with two changes of credentials and two tokens; three requests for two slots and
  one worker; three peers with room for two; caches with room for two of three keys.

`QueryLogger` runs do not check deadlock: the writer stops at shutdown. `recovery`
does not, as a reconciler that has died and commits that are used up are an end, nor
`console`, where bounded operations come to one.

### Fairness

`PolicyEngine`: a thread inside a critical section keeps running; a free
`_reload_lock` goes to some waiting thread (an `RLock` is not a queue, so no
particular thread is promised it, and none is needed: commits are bounded); the
recovery thread polls every two seconds. Administrators, DNS answers, errors and
restarts are never forced to happen. `QueryLogger`: the writer runs, a submitter
inside `submit()` leaves it, a minute passes, the shutdown deadline passes, and
`save_settings` proceeds to its pruning. Nobody has to submit. `PtrResolver`: the
thread runs, a lookup ends (`lookup_timeout`), and ticks that skip the backfill pass
do not go on for ever (ten seconds pass; strong fairness, because most ticks in
between skip it). `ptr_learned` also assumes that names are looked up again and again.
No client has to ask, and `RowsGetTheirNames` assumes in its premise that a client is
not looked up again before its job is through: each answer starts the job over, and
a refresh is at least 60 seconds away while a tick comes every second.
`ListRefresher`: the
refresher and its workers run, handlers end, lists come due again, and the recovery
thread reloads after a failure. Nobody has to edit, no server has to change, and
`EventuallyMirrored` is about lists that stay what they are from some moment on.
`TlsManager`: a call of `configure()` and the reconciler go on, the database and Caddy
come back (their containers are restarted); nobody has to submit a form.

## 4. The proofs

Each theorem holds for every value of the constants that satisfies the named
assumption of its module, and each rests on an inductive invariant (`Inductive` in the
module of the proofs) which is shown step by step, one lemma per action or per form
that several actions share.

| Module | Assumption | Theorem | States, as an invariant if not said otherwise |
|---|---|---|---|
| `PolicyEngineProofs` | `ConstantsOK` | seven, see below | |
| `QueryLoggerProofs` | `BoundsOK` | `TypeCorrect` | `TypeOK` |
| | | `NoneIsReplayed` | `LoggedOnce` |
| | | `NothingIsLostUncounted` | `Conservation` |
| | | `PruningIsExact` | `RemovesOnlyExcess`, of steps, if ids have no gaps |
| `PtrResolverProofs` | `ParametersOK` | `TypeCorrect` | `TypeOK` |
| | | `FlushesAreFinal` | `AnswersPostdateFlush` |
| | | `NamesAreOnTheirWay` | `NamesArrive` |
| `ListRefresherProofs` | `ParametersOK` | `TypeCorrect` | `TypeOK` |
| | | `ValidatorsAreHonest` | `ValidatorsMatchContent` |
| | | `StoredIsLoaded` | `ChangesAreLoaded` |
| | | `RefreshesAreConfigured` | `RefreshesWhatIsConfigured`, of steps |
| `TlsManagerProofs` | `RequestsOK` | `Agreement` | `ConfigurationsAgree` |
| | | `NothingOutdated` | `ReconcilesCurrent`, of steps |
| `StorageProofs` | `KeyConstants` | `AccessStaysCurrent` | `AccessIsCurrent` |
| | | `AlwaysOneEnabled` | `OneEnabledRemains` |
| | | `TableFollows` | `TableIsCurrent` |
| | | `AcceptedWasLoaded` | `RevokedIsRefused` |
| | `PoolConstants` | `PoolNoSlotIsLost` | `SlotsConserved` |
| | | `PoolOpenConnectionsAreBounded` | `ConnectionsBounded` |
| | | `PoolWorkIsSeparate` | `WorkIsOwn` |
| | `RollupConstants` | `RollStatisticsAreRight` | `StatisticsMatchLog` |
| `PolicyProofs` | `WidthsOK`, `CasesOK`, `NobodyIsNothing` | `AnswersStayDocumented` | `AnsweredAsDocumented` |
| | `RequestConstants`, `NobodyIsNoRow` | `AnswersStayExact` | `AnswersAreExact` |
| | | `RequestsStayWhole` | `RequestsAreWhole` |
| | `ScheduleConstants` | `SchedulesStaySound` | `SchedulesHold` |
| `ConsoleProofs` | those of `StorageProofs` | `PoolStaysSound` | `PoolIsSound` |
| | | `StatisticsStayExact` | `StatisticsAreKept` |
| | `StoreConstants` | `ListsStayKept` | `ListsAreKept` |
| | none | `UpgradesStaySafe` | `UpgradesKeepData` |
| | `MigrationConstants` | `MigrationsStayWhole` | `MigrationsAreWhole` |
| | `SessionConstants` | `SessionsStayCurrent` | `SessionsAreCurrent` |
| | `AdmissionConstants`, `LimiterConstants` | `AdmissionStaysBounded` | `AdmissionIsBounded` |
| | `RdnsConstants`, `ViewConstants` | `CachesStaySound` | `CachesAreSound` |

The assumptions say that sentinels differ from what they stand beside, that bounds are
naturals (those by which something is divided or into which something must fit, not
zero) and that sets of threads and clients are finite. Those of `StorageProofs` and
`ConsoleProofs` stand in `MCStorage`, `MCConsole` and `ApiKeys`, which declare the
constants, and TLC evaluates them in the run `console`. The theorems of `ConsoleProofs`
are about `ConsoleSpec`, the specification that this run checks, and those of
`PolicyProofs` about `PolicySpec`, which the run `policy` checks.

`CasesOK` says of the configurations what the tables and forms guarantee: ids are keys
and there are finitely many rows, host names and questions have a label, networks are
masked to their prefix. `WidthsOK` adds that the powers of two which count addresses
are positive: that is arithmetic, but no prover is told of `2 ^ n`, so TLC evaluates it.
Addresses, labels, instants, lists and targets are otherwise arbitrary.

`StoreConstants` says that there are lists, each kept by hand or filled from an address,
and finitely many domains. `ScheduleConstants` says that a week has three days at least, that
a day is made of whole hours, and that a zone's clock changes on the hour, by whole hours
and by a day at most, and is not put back into a day that was over. Zones of today satisfy
this, those included that go back from midnight to 23:00, except the one in section 2.7.

### 4.1 PolicyEngine

`PolicyEngineProofs` is checked by TLAPS for every number of threads, targets,
clients, names, lists, commits and faults, under `ConstantsOK` (the sentinels are
distinct from what they stand beside, the bounds are naturals). `ScopeIds`,
`Clients` and `Handlers` are arbitrary sets.

| Theorem | States |
|---|---|
| `TypeCorrect` | `Spec => []TypeOK` |
| `NamesAreTracked` | `Spec => []NamesTracked` |
| `StalenessIsAccounted` | `Spec => []StaleIsAccounted` |
| `Invariance` | `Spec => []Inductive` |
| `PartialRebuildsAddUp` | `Spec => []FreshIsExact` |
| `MasksAlwaysMatch` | `Spec => []MasksMatchOrder` |
| `Implementation` | `Spec => ImplementsActivation` |

The invariant is built in four layers, each proved with one lemma per action.

1. *Types* (`TypeOK`, `Counted`, `Called`). `Counted` bounds versions by the number of
   commits, without which `db` could leave its type; `Called` says which `pc` goes
   with which method. `AdministerCommits` reduces all handlers to one form: a
   commit that bumps only sections which the called method covers.
2. *Names* (`Exclusive`, `Handed`, `Journaling`, `Journaled`, `RebuildTracksNames`,
   `BaseIsCurrent`, `NamesTracked`). `NamesTracked` is not inductive: a full rebuild
   publishes names it read earlier, so the invariant says that those names with the
   journal and the pending change over them are the committed ones
   (`RebuildTracksNames`), that the journal is open exactly while a full rebuild
   runs, and that what it holds is committed. `reload_scopes` publishes its base,
   so an attempt that was not disturbed still has the current snapshot as base.
3. *Versions* (`Ordered`, `Followed`, `StaleIsAccounted`). A snapshot may be behind as
   long as somebody will read the newest version. When a rebuild that read an
   older version publishes, someone must still be waiting (`Followed`): the handler
   of the later commit, which cannot have entered while the lock was held.

4. *Contents* (`AssignedExist`, `ListsAreExact`, `TargetsAreExact`). At the newest
   version of the lists a snapshot has the lists of the database and no target
   refers to another one. At the newest version of the targets each target has the
   assigned lists, besides deleted ones: deleting a list takes it from its targets
   without a rebuild of the targets, and `reload_lists` drops its id from targets
   it does not read. Neither part is enough alone, and the targets also need that
   no rebuild under way has read the lists before one of the assigned ones existed.

`MasksAlwaysMatch` follows from the type and name layers, because every published
snapshot is built by one of five operators (`SnapshotSteps`). `Implementation`
rests on `Ordered`: every step leaves versions alone, saves, or activates forward.

### 4.2 PolicyDecision

The code and the guide answer by different means, and the proof goes from one to the
other index by index (`DecidesAsDocumented`).

1. *Orders.* `Ranked` counts: in a finite set with a strict total order, the numbers of
   predecessors are the places. So `ById` is the order of the ids (`IdsInOrder`), and
   `Descending` has some order to choose (`SortedOrder`).
2. *Indexes.* What an index has at a key is what was compiled from the rows with that key
   (`ClientIndex` to `NetworkIndex`). A host name ends with a suffix if the suffix is
   one of its parents (`EndsWithIsParent`), and a network contains an address if it is
   the address's network of that length (`ContainsIsAt`), which is a division.
3. *Targets.* Per index, the target found is the oldest of those at the first key that
   has one on schedule (`ClientFound`, `HostnameFound`, `NetworkFound`). Keys descend, so
   it beats every other matching target by the guide's comparison of pairs, and only one
   target can do that (`WinnerIsBest`, `ScopeIsWinner`). This holds for all targets and
   for those that exempt.
4. *Lists.* The bits that remain are the lists that apply, are of the type and cover the
   domain; the lowest is the oldest list, and the first suffix at which its bit is
   set is its closest entry (`MatchIsOldest`).
5. *Answers.* The cases of `decide()` are those of the guide in the same order.

### 4.3 PolicyRequest

A cached mask is that of the snapshot and minute it is filed under, whoever stored it and
whatever was published since (`CacheIsOfItsSnapshot`); serial numbers grow, so a mask
is never taken for another snapshot's. For each thread the invariant says what its
place in the code implies (`PlaceIsSound`), that every question so far was ignored by a
snapshot in use or is to be decided (`FilterIsSound`), and that the answers are exact, in
order, and at most the last one blocks (`AnswersAreSound`). A step of one thread leaves the
others sound because snapshots are only added (`WorkerStays`).

### 4.4 QueryLogger

`LoggedOnce` counts occurrences in four places, which is not inductive; the invariant
orders them. Rows keep the order of submission, so that committed rows come before those of
the batch, these before the queue, and these before the row that is being put in
(`InOrder`). The attempts of the batch bound those of each of its rows, also of rows
that joined it late (`AttemptsAreCounted`). What a transaction has staged is the batch
(`BatchIsStaged`), every row is in one place or counted in one counter
(`EachIsAccounted`), and a stopped logger holds nothing (`StoppedIsQuiet`). Twelve
actions leave all of that alone (`QuietStep`), and every way a transaction can end is one
lemma (`BatchEnds`).

`PruningIsExact` adds `TableHasNoGaps`: the ids of the table are consecutive and end where the
batch begins, and what a transaction is about to remove is a lower end of them. The
two chunks of a pruning are taken from that end one after the other
(`RemovedAreLowermost`), so the limit, which the code subtracts from the highest id, is a
number of rows, and as many newer ones stay (`PruningLeavesEnough`). The hypothesis
`~IdGaps` is SQLite; the run `gaps` shows that it is needed.

### 4.5 PtrResolver

Four parts: what the tables hold (`Stored`), the types of what is in memory, that
lookups under way began after the last flush or are known to be outdated
(`LookupsAreCurrent`), and `NamesAreHandedOn`. There is one lemma for every
transaction, whose uncommitted rows may be lost or kept. The walk over the log needs
that the rows which a full chunk does not reach are behind its last row
(`ChunkIsFirst`), which follows as every set of numbers has a least member.

### 4.6 ListRefresher

Between the answer of the server and the write, a download carries validators, content and
format of one moment (`AnswerIsSound`), and what it has read of the row still agrees
with the row or the guarded UPDATE will notice (`ReadIsCurrent`). All
actions of the refresher have one of two forms, a step of one download
(`DownloadStep`) or a change by an editor (`EditorStores`). The parser is an arbitrary
function.

### 4.7 TlsManager

A call that has not been decided can go back to files that fit the saved settings, a
candidate that was checked is what Caddy gets, and at a rollback the files are the
backups (`CallIsSound`). What a reconciliation has rendered stays what is saved, because
the lock keeps `configure()` out (`CycleIsSound`). The remembered hash equals what is
saved only if Caddy has been restarted since or runs that configuration, with the
files that are there unless `"unread"` is on record (`HashIsSound`, `Loaded`). After a
load Caddy runs the configuration, with the files that are there or, if the configuration was
equal, with what it had read before (`LoadedNow`); the latter is what goes on record
(`UnreadIsKnown`). Faults may happen at every step, and the process may
end at every step.

### 4.8 ApiKeys

What a handler has counted under the lock still bounds the number of enabled keys when it
changes them (`KeysCounted`). The latest change is loaded, or some handler has yet to read
it, or has read it and has yet to install it (`KeysFollowed`). What a check relies on was
loaded while it ran (`KeysSeen`). The two caches hold no secret twice and stay within
their limit, and no rejected secret is loaded, beyond the refusals of checks that began
too early (`KeysRemembered`).

### 4.9 MySQLPool and Rollups

A thread opens a connection only after it found none idle, so idle connections and
threads that have or are about to open one never exceed the slots (`PoolHasRoom`);
each open connection is idle or with one thread (`PoolEachHasOnePlace`), and what is idle or
closed has no uncommitted work (`PoolClosedAndIdleAreClean`). The pool's steps are moves of a
few forms (`PoolMovesWithout`, `PoolMovesWith`, `PoolMovesAfterClose`, `PoolThreadGets`,
`PoolThreadReturns`, `PoolOldIsClosed`, `PoolOutsideMoves`).

In `Rollups`, rows are added under new numbers (`RollAddedAreNew`) and removed once, by
the transaction that holds their locks (`RollRemovedAreLocked`), so the counters each
transaction carries are exactly its change of the log (`RollDeltasAreExact`), and the
marker says that the table of counters is right (`RollMarkedIsRight`). `RollCommitCounts`
is the counting argument: the log after a commit has in each bucket what it had, more what
was added, less what was removed. That two transactions wait for each other only if one
changes counters for the second time follows from the order in which a first round
takes its locks (`RollRoundsAreSound`): of two that wait, each would hold a bucket
before the one it wants.

### 4.10 DomainStore

A domain that no list uses is about to be used or deleted by some handler
(`StoreUnusedAreSeen`); the exception is a domain that was added to a list while this list,
or the domain's row, was deleted (`stray`). No other list's membership is lost,
because a row that is in use is never deleted (`ListsKeepTheirDomains` is inductive with
the places of the handlers). A handler that is alone with its list has
counted what is there when it stores the count (`StoreAloneCounts`), and a list on which no
two handlers ever met has the right count or a handler that will store it
(`StoreUncrowded`). `StoreTransaction` is the one lemma for what replaces the domains of a list.

### 4.11 DatabaseUpgrade and Migration

An upgrade is a sequence of stages, so the invariant says of each stage what the ones before
it have done (`UpgradeColumns`), and of what has not been reached that it can still be
done from what is there: entries are in the old table or moved (`UpgradeEntries`),
networks are derived or the target still has the one they are derived from
(`UpgradeTargets`), names are stored or still those of the log (`UpgradeNames`). An
interruption leaves the stage and nothing else, which is why repeating is safe.

A run of the migration copies from one moment of the source: what has been copied is that
moment's, table by table, and the rest is empty (`MigrateMoments`). Without disturbance it
counts what it finds, and fails only over names that were not compared or digests in two
orders, the latter with the whole source in the destination (`MigrateUndisturbed`). Before it
has seen that the names of lists can be migrated it only adds to the destination
(`MigrateRefusals`).

### 4.12 Schedules

1. *Weeks.* A tick's place in the week is its weekday and its time of day (`PlaceInWeek`), so
   the guide's set of instants, counted from the start of a window, is what the three cases
   of the code say (`WindowAsDocumented`): both are about one division.
2. *Changes.* By local time a schedule repeats every week (`Weekly`) and changes only at a
   boundary (`QuietTime`); by UTC it also may where the clock changes, which is on the hour
   (`ChangeAtBoundary`). Dates go on, forward or back (`DatesGoOn`), so every change on
   a date that is tried is a candidate (`ChangeIsTried`).
3. *Nothing is missed.* If no date tried shows a change, every time of the week has come on them
   and the schedule was the same at each (`QuietDays`, `TimesCome`), so it is the same in the
   second week (`NothingMissed`). A time that is skipped has not come. This is where the
   proof of the unrestricted statement stopped, and it was false: see `skipped` in section 3.
4. *First.* A skipped time is tried as an instant that may have a later date than the last
   one tried. A change found there has come a week before, too, so it is not the earliest
   (`SkippedIsNotFirst`).

### 4.13 AdminSessions

Between changes every session is of the current credentials, or was opened by a
sign-in let in before them; while the deletion of the older sessions is pending, or has
failed, nothing is claimed (`DeletionPending`, `NoneIsOld`).

### 4.14 Admission and LoginLimiter

The free slots and the functions that are queued or run are all the slots
(`SlotsCounted`); what is queued is in the executor's queue (`QueuedAreWaiting`), and the
coroutine of a handler waits for it unless it was cancelled twice (`HandlersAreAwaited`),
for which the invariant says at which place a coroutine has which function
(`CallersHaveWork`).

In `LoginLimiter`, `granted` is history: what each peer was granted within the window.
What is remembered of a peer is the end of that sequence, and all of it unless the peer
was forgotten (`MemoryIsOfGrants`); times ascend, so that leaving out what is before the
window is taking the end (`Recent`). The global limit bounds the grants of all peers
together because each has its own place among the attempts of everyone: `EveryoneCounts`
states this as an injection, which survives the loss of old times on either side.

### 4.15 RdnsCache and ViewCache

The resolver's cache has one entry for an address, and each was asked for since the
cache was cleared last: a thread that asked before has another generation in hand, which
is compared under the lock that guards the insertion (`RdnsInductive`).

The cache of the counts holds the keys that were used last, as many as it may, in the
order of their use (`AreLastUsed`); that of the statistics holds every key that is
current; and an entry expires when its computation said (`EntriesExpire`). A computation
is therefore wasted only if the entry was pushed out or is over. The one thread that
computes is the one that found neither (`ViewsTyped`).

`Kept` and `KeptEnd` say what the selection of places of a sequence yields, by counting:
the places have as many ranks as there are places, so each rank has one.

### 4.16 The parts side by side

A step of `ConsoleNext` is one of the part that the behaviour is about, and leaves the
variables of the others alone (`StoragePartsMove`, `ConsolePartsMove`), so the invariant of the
composition is that of the chosen part.

### 4.17 What is only model-checked

Every safety property of a passing run has a theorem. What stays with TLC is liveness,
as fairness and ENABLED are outside the prover's reach: `EventuallyActive`, `CaddyIsServed`,
`EventuallyDrained`, `EventuallyWithinLimit`, `RowsGetTheirNames`, `NobodyStaysPending`,
`ObservedIsTracked`, `EventuallyMirrored`; and the statements that are violated.

## 5. Not modelled

Blocklist parsing (text, no state), HTML and forms, formatting, logging, tables and
indexes that are only created if missing, the translation of SQL between backends,
the size limit of request bodies (a count of one request), times of last use of API
keys, deployment. A process that fails to start (its first `reload()` raises)
has no behaviour to describe. `close()` of the engine is the end of the process,
which `Restart` covers at every point.

A refresh whose COMMIT takes effect and raises is not loaded before another change
or a restart; no property claims otherwise. A batch of log rows with one that cannot be
written fails as a whole; the model has no such row.
