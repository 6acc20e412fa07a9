----------------------------- MODULE TlsManager -----------------------------
(***************************************************************************)
(* TlsManager of app/tls.py: configure(), which an administrator's request *)
(* runs under the manager's lock, beside the reconcile thread, which takes *)
(* the lock for part of its cycle.  Both bring three things into line: the *)
(* settings in the database, the secret files, and the configuration Caddy *)
(* has loaded.  The database, the disk and Caddy fail, and Caddy restarts  *)
(* with its bootstrap configuration.                                       *)
(*                                                                         *)
(* A host name stands for all that a form puts into the configuration      *)
(* besides the mode: addresses, the redirect.  A file is the number of the *)
(* request that wrote it, 0 when it is absent; a certificate and a key     *)
(* match when they come from the same request.  Caddy is external.  It     *)
(* reads the files when it loads a configuration, and does not load one    *)
(* that equals what it runs: _load() sends no Cache-Control header that    *)
(* would make it, and the configuration has the paths of the files only.   *)
(***************************************************************************)
EXTENDS Naturals, FiniteSets

CONSTANTS
    Hosts,         \* host names
    Requests,      \* the forms that are submitted: what they set and upload
    MaxRequests,   \* bound: calls of configure()
    MaxFaults      \* bound: outages, errors and restarts

Secrets == {"cert", "key", "ca", "eab"}
Absent == 0
NoHost == ""
Http == [mode |-> "http", host |-> NoHost, keyId |-> FALSE]
Settings == {Http} \cup [mode : {"upload"}, host : Hosts, keyId : {FALSE}]
                  \cup [mode : {"acme"}, host : Hosts, keyId : BOOLEAN]

ASSUME RequestsOK ==
    /\ Requests \subseteq [settings : Settings, upload : SUBSET Secrets,
                           remove : SUBSET Secrets]
    /\ MaxRequests \in Nat /\ MaxFaults \in Nat

VARIABLES
    dbUp,        \* the database answers
    saved,       \* the settings in the database
    shownError,  \* tls_last_error
    files,       \* the files under tls_dir
    caddyUp,
    loaded,      \* what Caddy runs
    tlsLock,
    memory,      \* _last_applied_hash, _caddy_reachable, _last_error_cache
    call,        \* the call of configure()
    cycle,       \* the reconcile thread
    lapses,      \* history: what could not be undone, or Caddy has not read
    requested, tlsFaults

stored == <<saved, shownError, files>>
caddy == <<caddyUp, loaded>>
counters == <<requested, tlsFaults>>
tlsVars == <<dbUp, stored, caddy, tlsLock, memory, call, cycle, lapses,
             counters>>

-----------------------------------------------------------------------------
(* Configurations.                                                         *)

\* Whether render_caddy_json() returns for these settings.
Renders(s, f) ==
    /\ s.mode = "upload" => f["cert"] # Absent /\ f["key"] # Absent
    /\ s.keyId => f["eab"] # Absent

\* The text that is hashed and sent: paths of certificates, not their content.
Rendered(s, f) ==
    [mode |-> s.mode, host |-> s.host,
     root |-> s.mode = "acme" /\ f["ca"] # Absent,
     eab  |-> IF s.keyId THEN f["eab"] ELSE Absent]

\* What Caddy runs after it has loaded a configuration and read the files.
Effect(config, f) ==
    [config |-> config,
     cert   |-> IF config.mode = "upload" THEN f["cert"] ELSE Absent,
     ca     |-> IF config.root THEN f["ca"] ELSE Absent]
NoConfig == [mode |-> "none", host |-> NoHost, root |-> FALSE, eab |-> Absent]
Bootstrap == Effect([NoConfig EXCEPT !.mode = "bootstrap"],
                    [s \in Secrets |-> Absent])

\* The checks of configure() on the candidate and the files it has written.
Valid(s, f) ==
    /\ s.mode = "upload" => f["cert"] # Absent /\ f["cert"] = f["key"]
    /\ s.mode = "acme" => (s.keyId <=> f["eab"] # Absent)

NoCall == [pc |-> "idle", todo |-> {}, request |-> [settings |-> Http,
           upload |-> {}, remove |-> {}], backups |-> [s \in Secrets |-> Absent],
           previous |-> NoConfig]
NoCycle == [pc |-> "probe", up |-> FALSE, was |-> FALSE, managed |-> FALSE,
            config |-> NoConfig, text |-> ""]
FreshMemory(error) == [hash |-> NoConfig, reachable |-> FALSE, error |-> error]

\* A process that has just been started, on what an earlier one has saved.
Start(s, f) ==
    /\ dbUp = TRUE /\ saved = s /\ shownError = "" /\ files = f
    /\ caddyUp = TRUE /\ loaded = Bootstrap
    /\ tlsLock = "free" /\ memory = FreshMemory("")
    /\ call = NoCall /\ cycle = NoCycle
    /\ lapses = {} /\ requested = 0 /\ tlsFaults = 0

Earlier(present) == [s \in Secrets |-> IF s \in present THEN 1 ELSE Absent]
Init ==
    \/ Start(Http, Earlier({}))
    \/ \E h \in Hosts :
          \/ Start([mode |-> "upload", host |-> h, keyId |-> FALSE],
                   Earlier({"cert", "key"}))
          \/ Start([mode |-> "acme", host |-> h, keyId |-> TRUE],
                   Earlier({"ca", "eab"}))

Fault == tlsFaults < MaxFaults /\ tlsFaults' = tlsFaults + 1

-----------------------------------------------------------------------------
(* The admin API of Caddy.  A request that raises may have been carried    *)
(* out; one that Caddy refuses leaves it as it was.  One for the           *)
(* configuration that runs already is answered as a success and ignored.   *)

Accepts(config) ==
    \/ config = loaded.config
    \/ config.mode = "upload" => files["cert"] = files["key"]

AfterLoad(config) ==
    IF config = loaded.config THEN loaded ELSE Effect(config, files)

LoadSucceeds(config) ==
    /\ caddyUp /\ Accepts(config)
    /\ loaded' = AfterLoad(config)
    /\ UNCHANGED <<caddyUp, tlsFaults>>

LoadFails(config) ==
    \/ /\ ~caddyUp \/ ~Accepts(config)
       /\ UNCHANGED <<caddy, tlsFaults>>
    \/ /\ caddyUp /\ Fault
       /\ loaded' \in {loaded} \cup
             (IF Accepts(config) THEN {AfterLoad(config)} ELSE {})
       /\ UNCHANGED caddyUp

Applied(config) == [memory EXCEPT !.hash = config, !.reachable = TRUE]

\* Caddy runs the configuration, with files that have been replaced since.
Unread(runs, config) ==
    IF runs.config = config /\ runs # Effect(config, files) THEN {"unread"} ELSE {}

\* A rollback is missing when Caddy is left with a configuration that neither
\* the settings call for nor a later cycle will notice.
RollbackMissing(runs) ==
    IF runs = Bootstrap \/ runs.config = Rendered(saved, files)
    THEN Unread(runs, Rendered(saved, files)) ELSE {"rollback"}

-----------------------------------------------------------------------------
(* configure().                                                            *)

CallOnly == UNCHANGED <<dbUp, caddyUp, cycle>>
\* Mutant: an exception leaves the lock taken.
DoneHolding(missed) ==
    /\ call' = NoCall /\ UNCHANGED tlsLock
    /\ lapses' = (lapses \ {"unread"}) \cup missed

Done(missed) ==
    /\ call' = NoCall /\ tlsLock' = "free"
    /\ lapses' = (lapses \ {"unread"}) \cup missed

\* The files are read into memory, and the saved settings are rendered, or the
\* HTTP configuration when they cannot be: an administrator must be able to
\* save a working one.
PreviousConfig ==
    Rendered(IF Renders(saved, files) THEN saved ELSE Http, files)

Begin(r) ==
    /\ call.pc = "idle" /\ tlsLock = "free" /\ dbUp
    /\ requested < MaxRequests /\ requested' = requested + 1
    /\ tlsLock' = "configure"
    /\ call' = [pc |-> "write", todo |-> r.upload \cup r.remove, request |-> r,
                backups |-> files, previous |-> PreviousConfig]
    /\ UNCHANGED <<stored, loaded, memory, lapses, tlsFaults>> /\ CallOnly

\* The order of the statements: certificate, key, CA root, EAB key.
NextSecret(todo) ==
    IF "cert" \in todo THEN "cert" ELSE
    IF "key" \in todo THEN "key" ELSE
    IF "ca" \in todo THEN "ca" ELSE "eab"

\* os.replace() puts a complete file in place; an upload may be refused before.
WriteSecret ==
    /\ call.pc = "write" /\ call.todo # {}
    /\ LET s == NextSecret(call.todo)
       IN  /\ files' = [files EXCEPT ![s] = IF s \in call.request.remove
                                            THEN Absent ELSE requested + 1]
           /\ call' = [call EXCEPT !.todo = @ \ {s}]
    /\ UNCHANGED <<saved, shownError, loaded, tlsLock, memory, lapses, counters>>
    /\ CallOnly

CallFails(pc) ==
    /\ call.pc = pc
    /\ call' = [call EXCEPT !.pc = "restore"]
    /\ UNCHANGED <<tlsLock, memory, requested>> /\ CallOnly

WriteFails ==
    /\ CallFails("write") /\ Fault
    /\ UNCHANGED <<stored, loaded, lapses>>

Check ==
    /\ call.pc = "write" /\ call.todo = {} /\ Valid(call.request.settings, files)
    /\ call' = [call EXCEPT !.pc = "load"]
    /\ UNCHANGED <<stored, loaded, tlsLock, memory, lapses, counters>> /\ CallOnly

CheckFails ==
    /\ CallFails("write")
    /\ call.todo = {} /\ ~Valid(call.request.settings, files)
    /\ UNCHANGED <<stored, loaded, lapses, tlsFaults>>

Candidate == Rendered(call.request.settings, files)

Activate ==
    /\ call.pc = "load" /\ LoadSucceeds(Candidate)
    /\ call' = [call EXCEPT !.pc = "record"]
    /\ UNCHANGED <<dbUp, stored, tlsLock, memory, cycle, lapses, requested>>

ActivateFails ==
    /\ call.pc = "load" /\ LoadFails(Candidate)
    /\ call' = [call EXCEPT !.pc = "restore"]
    /\ UNCHANGED <<dbUp, stored, tlsLock, memory, cycle, lapses, requested>>

\* _record_success(): settings, time and an empty error in one transaction.
Record ==
    /\ call.pc = "record" /\ dbUp
    /\ saved' = call.request.settings /\ shownError' = ""
    /\ memory' = [Applied(Candidate) EXCEPT !.error = ""]
    /\ call' = NoCall /\ tlsLock' = "free" /\ lapses' = Unread(loaded, Candidate)
    /\ UNCHANGED <<files, loaded, counters>> /\ CallOnly

RecordFails ==
    /\ CallFails("record") /\ UNCHANGED <<files, loaded>>
    /\ \/ ~dbUp /\ UNCHANGED <<saved, shownError, lapses, tlsFaults>>
       \/ /\ dbUp /\ Fault       \* the COMMIT takes effect and raises
          /\ saved' = call.request.settings /\ shownError' = ""
          /\ lapses' = lapses \cup {"commit"}

\* Mutant: the backups are made after the files were written.
RestoredLate == files

Restored == call.backups
Restore ==
    /\ call.pc = "restore" /\ files' = Restored
    /\ call' = [call EXCEPT !.pc = "report"]
    /\ UNCHANGED <<saved, shownError, loaded, tlsLock, memory, lapses, counters>>
    /\ CallOnly

\* An error in the handler for errors ends the call: no rollback is loaded.
RestoreFails ==
    /\ call.pc = "restore" /\ Fault
    /\ Done({"restore", "rollback"})
    /\ UNCHANGED <<stored, loaded, memory, requested>> /\ CallOnly

Report ==
    /\ call.pc = "report"
    /\ \/ memory.error = "failed" /\ UNCHANGED <<shownError, memory>>
       \/ /\ memory.error # "failed" /\ dbUp
          /\ shownError' = "failed"
          /\ memory' = [memory EXCEPT !.error = "failed"]
    /\ call' = [call EXCEPT !.pc = "rollback"]
    /\ UNCHANGED <<saved, files, loaded, tlsLock, lapses, counters>> /\ CallOnly

ReportFails ==
    /\ call.pc = "report" /\ memory.error # "failed" /\ ~dbUp
    /\ Done(RollbackMissing(loaded))
    /\ UNCHANGED <<stored, loaded, memory, counters>> /\ CallOnly

\* Mutant: the previous configuration is taken for loaded without a load.
RollbackAssumed ==
    /\ call.pc = "rollback"
    /\ memory' = Applied(call.previous)
    /\ Done({})
    /\ UNCHANGED <<dbUp, stored, caddy, cycle, counters>>

Rollback ==
    /\ call.pc = "rollback" /\ LoadSucceeds(call.previous)
    /\ memory' = Applied(call.previous)
    /\ Done(Unread(loaded', call.previous))
    /\ UNCHANGED <<dbUp, stored, cycle, requested>>

\* The failure of the second load is swallowed.
RollbackFails ==
    /\ call.pc = "rollback" /\ LoadFails(call.previous)
    /\ Done(RollbackMissing(loaded'))
    /\ UNCHANGED <<dbUp, stored, memory, cycle, requested>>

-----------------------------------------------------------------------------
(* The reconcile thread, _run().                                           *)

CycleOnly == UNCHANGED <<dbUp, caddyUp, call, saved, files, requested>>
Again == cycle' = NoCycle
To(pc) == cycle' = [cycle EXCEPT !.pc = pc]

\* _probe_caddy_state(), which may time out; its result is noted without the
\* lock.
Probe ==
    /\ cycle.pc = "probe"
    /\ \E answered \in BOOLEAN :
          /\ IF answered THEN caddyUp /\ UNCHANGED tlsFaults
             ELSE IF caddyUp THEN Fault ELSE UNCHANGED tlsFaults
          /\ cycle' = [cycle EXCEPT !.pc = "note", !.up = answered,
                           !.was = memory.reachable,
                           !.managed = answered /\ loaded # Bootstrap]
    /\ UNCHANGED <<shownError, loaded, tlsLock, memory, lapses>> /\ CycleOnly

Note ==
    /\ cycle.pc = "note"
    /\ memory' = [memory EXCEPT !.reachable = cycle.up]
    /\ cycle' = IF cycle.up THEN [cycle EXCEPT !.pc = "sync"]
                ELSE [NoCycle EXCEPT !.pc = "tell", !.text = "unreachable"]
    /\ UNCHANGED <<shownError, loaded, tlsLock, lapses, tlsFaults>> /\ CycleOnly

SyncFails == [NoCycle EXCEPT !.pc = "tell", !.text = "failed"]

\* Mutant: a Caddy that restarted between two probes is not noticed.
ShouldApplyOnChange(was, managed, config) == ~was \/ config # memory.hash

ShouldApply(was, managed, config) ==
    ~was \/ ~managed \/ config # memory.hash

\* Mutant: the settings are read and rendered before the lock is taken.
SyncUnlocked ==
    /\ cycle.pc = "sync" /\ dbUp /\ Renders(saved, files)
    /\ LET config == Rendered(saved, files)
       IN  IF ShouldApply(cycle.was, cycle.managed, config)
           THEN cycle' = [NoCycle EXCEPT !.pc = "apply", !.config = config]
           ELSE Again
    /\ UNCHANGED <<shownError, loaded, tlsLock, memory, lapses, tlsFaults>>
    /\ CycleOnly

\* Under the lock: the settings are read and rendered.
Sync ==
    /\ cycle.pc = "sync" /\ tlsLock = "free"
    /\ LET config == Rendered(saved, files)
       IN  IF ~dbUp \/ ~Renders(saved, files)
           THEN cycle' = SyncFails /\ UNCHANGED tlsLock
           ELSE IF ShouldApply(cycle.was, cycle.managed, config)
                THEN /\ cycle' = [NoCycle EXCEPT !.pc = "apply", !.config = config]
                     /\ tlsLock' = "reconcile"
                ELSE Again /\ UNCHANGED tlsLock
    /\ UNCHANGED <<shownError, loaded, memory, lapses, tlsFaults>> /\ CycleOnly

Apply ==
    /\ cycle.pc = "apply"
    /\ \/ LoadSucceeds(cycle.config) /\ To("record") /\ UNCHANGED tlsLock
       \/ LoadFails(cycle.config) /\ cycle' = SyncFails /\ tlsLock' = "free"
    /\ UNCHANGED <<dbUp, stored, memory, call, lapses, requested>>

ApplyRecorded ==
    /\ cycle.pc = "record" /\ tlsLock' = "free"
    /\ \/ /\ dbUp /\ Again /\ shownError' = ""
          /\ memory' = [Applied(cycle.config) EXCEPT !.error = ""]
          /\ lapses' = (lapses \ {"rollback", "unread"}) \cup Unread(loaded, cycle.config)
          /\ UNCHANGED tlsFaults
       \/ /\ ~dbUp /\ cycle' = SyncFails
          /\ UNCHANGED <<shownError, memory, lapses, tlsFaults>>
       \/ /\ dbUp /\ Fault /\ cycle' = SyncFails /\ shownError' = ""
          /\ UNCHANGED <<memory, lapses>>
    /\ UNCHANGED loaded /\ CycleOnly

\* _set_last_error() outside of the lock; what it raises ends the thread.
Tell ==
    /\ cycle.pc = "tell"
    /\ IF memory.error = cycle.text THEN Again /\ UNCHANGED shownError
       ELSE IF dbUp THEN To("told") /\ shownError' = cycle.text
       ELSE To("dead") /\ UNCHANGED shownError
    /\ UNCHANGED <<loaded, tlsLock, memory, lapses, tlsFaults>> /\ CycleOnly

Told ==
    /\ cycle.pc = "told" /\ Again
    /\ memory' = [memory EXCEPT !.error = cycle.text]
    /\ UNCHANGED <<shownError, loaded, tlsLock, lapses, tlsFaults>> /\ CycleOnly

-----------------------------------------------------------------------------
(* The surroundings.                                                       *)

DbStops ==
    /\ dbUp /\ dbUp' = FALSE /\ Fault
    /\ UNCHANGED <<stored, caddy, tlsLock, memory, call, cycle, lapses, requested>>
DbReturns ==
    /\ ~dbUp /\ dbUp' = TRUE
    /\ UNCHANGED <<stored, caddy, tlsLock, memory, call, cycle, lapses, counters>>

\* Caddy keeps nothing (admin.config.persist is false): it starts with its
\* bootstrap configuration.
CaddyStops ==
    /\ caddyUp /\ caddyUp' = FALSE /\ loaded' = Bootstrap /\ Fault
    /\ lapses' = lapses \ {"unread"}
    /\ UNCHANGED <<dbUp, stored, tlsLock, memory, call, cycle, requested>>
CaddyStarts ==
    /\ ~caddyUp /\ caddyUp' = TRUE
    /\ UNCHANGED <<dbUp, stored, loaded, tlsLock, memory, call, cycle, lapses,
                   counters>>

\* The process ends anywhere and is started again, which starts a new thread.
Restart ==
    /\ Fault /\ dbUp
    /\ tlsLock' = "free" /\ memory' = FreshMemory(shownError)
    /\ call' = NoCall /\ cycle' = NoCycle
    /\ lapses' = (lapses \ {"rollback", "unread"})
                 \cup (IF call.pc = "idle" THEN {} ELSE {"restart"})
    /\ UNCHANGED <<dbUp, stored, caddy, requested>>

Configure ==
    \/ \E r \in Requests : Begin(r)
    \/ WriteSecret \/ WriteFails \/ Check \/ CheckFails
    \/ Activate \/ ActivateFails \/ Record \/ RecordFails
    \/ Restore \/ RestoreFails \/ Report \/ ReportFails
    \/ Rollback \/ RollbackFails
Reconcile == Probe \/ Note \/ Sync \/ Apply \/ ApplyRecorded \/ Tell \/ Told
Surroundings == DbStops \/ DbReturns \/ CaddyStops \/ CaddyStarts \/ Restart

Next == Configure \/ Reconcile \/ Surroundings
Spec == Init /\ [][Next]_tlsVars

\* A call and the thread go on; the database and Caddy come back, as their
\* containers are restarted.  Faults are bounded, so loads succeed at last.
Returns == DbReturns \/ CaddyStarts
Proceeds == call.pc # "idle" /\ Configure
FairSpec ==
    /\ Spec /\ WF_tlsVars(Proceeds) /\ WF_tlsVars(Reconcile)
    /\ WF_tlsVars(Returns)

-----------------------------------------------------------------------------
(* What is checked.                                                        *)

Contents == 0..(MaxRequests + 1)
Configs == [mode : {"none", "bootstrap", "http", "upload", "acme"},
            host : Hosts \cup {NoHost}, root : BOOLEAN, eab : Contents]
TypeOK ==
    /\ dbUp \in BOOLEAN /\ caddyUp \in BOOLEAN
    /\ saved \in Settings /\ shownError \in {"", "failed", "unreachable"}
    /\ files \in [Secrets -> Contents]
    /\ loaded \in [config : Configs, cert : Contents, ca : Contents]
    /\ tlsLock = "configure" <=> call.pc # "idle"
    /\ tlsLock = "reconcile" <=> cycle.pc \in {"apply", "record"}
    /\ memory.hash \in Configs /\ memory.error \in {"", "failed", "unreachable"}
    /\ cycle.text \in {"", "failed", "unreachable"}
    /\ lapses \subseteq {"rollback", "restore", "commit", "restart", "unread"}

\* Between calls of configure() the saved settings go with the secret files:
\* whatever step of a call failed, the settings can be rendered and the
\* certificate belongs to the key.  Only a restart inside a call, a restore
\* that fails, or a COMMIT that raised after taking effect leave more to do.
SavedFitsFiles ==
    call.pc = "idle" /\ lapses \subseteq {"rollback", "unread"} =>
        Renders(saved, files) /\ Valid(saved, files)

\* When Caddy runs anything but what is saved, the next cycle of the reconciler
\* loads it, since Caddy is seen not to run the manager's configuration or the
\* hash of the last one differs.  There are two exceptions: a rollback that
\* configure() could not make, and files that were replaced while the
\* configuration stayed equal, which Caddy was sent and did not read.
DriftIsNoticed ==
    tlsLock = "free" /\ caddyUp /\ "rollback" \notin lapses
    /\ Renders(saved, files)
    /\ loaded # Effect(Rendered(saved, files), files) =>
        \/ ShouldApply(TRUE, loaded # Bootstrap, Rendered(saved, files))
        \/ loaded.config = Rendered(saved, files) /\ "unread" \in lapses

\* Settings, files and Caddy go together, as the last two say.
ConfigurationsAgree == TypeOK /\ SavedFitsFiles /\ DriftIsNoticed

\* A cycle that read the settings before an administrator's change never loads
\* them after it; what it makes Caddy read are the files that belong to them.
ReconcilesCurrent ==
    [][cycle.pc = "apply" /\ cycle'.pc = "record" =>
          /\ loaded'.config = Rendered(saved, files)
          /\ loaded' # loaded => loaded' = Effect(Rendered(saved, files), files)]_tlsVars

Served ==
    /\ caddyUp /\ loaded.config = Rendered(saved, files)
    /\ loaded = Effect(loaded.config, files) \/ "unread" \in lapses

\* Caddy comes to run what is saved, through restarts of Caddy and outages of
\* the database (docs/OPERATIONS.md: "A background reconciler restores the
\* desired configuration after Caddy restarts"), but for files it has ignored as
\* above: unless configure() could not undo a failure of its own, or the database
\* failed while the reconciler wrote an error down, which ends its thread until
\* the process is restarted.
EventuallyServed ==
    []<>(Served \/ cycle.pc = "dead" \/ lapses \ {"unread"} # {})
=============================================================================
