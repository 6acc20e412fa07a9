-------------------------- MODULE TlsManagerProofs --------------------------
(***************************************************************************)
(* Theorems about TlsManager, for every set of forms and every bound: the  *)
(* settings, the secret files and what Caddy runs agree as                 *)
(* ConfigurationsAgree says, and the reconciler loads nothing that a       *)
(* change has overtaken.  Agreement follows from Inductive, whose parts    *)
(* say what a call of configure() and a cycle of the reconciler may rely   *)
(* on at each of their steps.                                              *)
(***************************************************************************)
EXTENDS TlsManager, TLAPS

USE RequestsOK

Texts == {"", "failed", "unreachable"}
FileSets == [Secrets -> Contents]
Forms == [settings : Settings, upload : SUBSET Secrets, remove : SUBSET Secrets]
Calls == [pc : {"idle", "write", "load", "record", "restore", "report", "rollback"},
          todo : SUBSET Secrets, request : Forms, backups : FileSets,
          previous : Configs]
Cycles == [pc : {"probe", "note", "sync", "apply", "record", "tell", "told", "dead"},
           up : BOOLEAN, was : BOOLEAN, managed : BOOLEAN, config : Configs,
           text : Texts]
Memories == [hash : Configs, reachable : BOOLEAN, error : Texts]

Lapses == {"rollback", "restore", "commit", "restart", "unread"}
LoadedType == [config : Configs, cert : Contents, ca : Contents]

\* TypeOK, with the types of the records.
Typed ==
    /\ dbUp \in BOOLEAN /\ caddyUp \in BOOLEAN
    /\ saved \in Settings /\ shownError \in Texts
    /\ files \in FileSets /\ loaded \in LoadedType
    /\ tlsLock = "configure" <=> call.pc # "idle"
    /\ tlsLock = "reconcile" <=> cycle.pc \in {"apply", "record"}
    /\ lapses \subseteq Lapses
    /\ memory \in Memories /\ call \in Calls /\ cycle \in Cycles
    /\ requested \in 0..MaxRequests

Fits(f) == Renders(saved, f) /\ Valid(saved, f)
Runs(config) == loaded = Bootstrap \/ loaded.config = config

\* Caddy runs a configuration with the files that there are, or has ignored
\* some, or has been restarted since.
Loaded(config) ==
    \/ loaded \in {Bootstrap, Effect(config, files)}
    \/ loaded.config = config /\ "unread" \in lapses

\* A call can go back to files that fit the settings, and only goes on with
\* files that it has checked.
CallIsSound ==
    /\ lapses \subseteq {"rollback", "unread"} =>
          Fits(IF call.pc = "idle" THEN files ELSE call.backups)
    /\ call.pc \in {"load", "record"} => Valid(call.request.settings, files)
    /\ call.pc = "record" => Runs(Candidate)
    /\ call.pc \in {"report", "rollback"} => files = call.backups

\* What a cycle has rendered stays what is saved until it is loaded.
CycleIsSound ==
    /\ cycle.pc \in {"apply", "record"} => cycle.config = Rendered(saved, files)
    /\ cycle.pc = "record" => Runs(cycle.config)

\* The hash of what is saved is remembered only if it is loaded.
HashIsSound ==
    call.pc = "idle" /\ "rollback" \notin lapses
    /\ memory.hash = Rendered(saved, files)
        => Loaded(memory.hash)

Inductive == Typed /\ CallIsSound /\ CycleIsSound /\ HashIsSound

-----------------------------------------------------------------------------
(* Types.                                                                  *)

LEMMA SettingsType ==
    ASSUME NEW s \in Settings
    PROVE  /\ s.mode \in {"http", "upload", "acme"} /\ s.keyId \in BOOLEAN
           /\ s.host \in Hosts \cup {NoHost}
           /\ s.keyId => s.mode = "acme"
<1>1. CASE s = Http
    BY <1>1 DEF Http
<1>2. CASE s \in [mode : {"upload"}, host : Hosts, keyId : {FALSE}]
    BY <1>2
<1>3. CASE s \in [mode : {"acme"}, host : Hosts, keyId : BOOLEAN]
    BY <1>3
<1>4. QED
    BY <1>1, <1>2, <1>3 DEF Settings

LEMMA RenderedType ==
    ASSUME NEW s \in Settings, NEW f \in FileSets
    PROVE  Rendered(s, f) \in Configs /\ Rendered(s, f).mode = s.mode
<1>1. /\ s.mode \in {"none", "bootstrap", "http", "upload", "acme"}
      /\ s.keyId \in BOOLEAN /\ s.host \in Hosts \cup {NoHost}
    BY SettingsType
<1>2. (IF s.keyId THEN f["eab"] ELSE Absent) \in Contents
    BY DEF FileSets, Secrets, Contents, Absent
<1>3. (s.mode = "acme" /\ f["ca"] # Absent) \in BOOLEAN
    OBVIOUS
<1>4. QED
    BY <1>1, <1>2, <1>3 DEF Rendered, Configs

LEMMA EffectType ==
    ASSUME NEW c \in Configs, NEW f \in FileSets
    PROVE  Effect(c, f) \in [config : Configs, cert : Contents, ca : Contents]
BY DEF Effect, Configs, FileSets, Secrets, Contents, Absent

LEMMA ConstantTypes ==
    /\ Http \in Settings
    /\ NoConfig \in Configs
    /\ NoCall \in Calls
    /\ NoCycle \in Cycles
    /\ Bootstrap \in [config : Configs, cert : Contents, ca : Contents]
<1>1. Http \in Settings
    BY DEF Http, Settings
<1>2. NoConfig \in Configs
    BY DEF NoConfig, Configs, Contents, Absent
<1>3. [s \in Secrets |-> Absent] \in FileSets
    BY DEF FileSets, Contents, Absent
<1>4. NoCall \in Calls
    BY <1>1, <1>2, <1>3 DEF NoCall, Calls, Forms
<1>5. NoCycle \in Cycles
    BY <1>2 DEF NoCycle, Cycles, Texts
<1>6. [NoConfig EXCEPT !.mode = "bootstrap"] \in Configs
    BY <1>2 DEF Configs
<1>7. Bootstrap \in [config : Configs, cert : Contents, ca : Contents]
    BY <1>3, <1>6, EffectType DEF Bootstrap
<1>8. QED
    BY <1>1, <1>2, <1>4, <1>5, <1>7

LEMMA MemoryType ==
    ASSUME NEW error \in Texts
    PROVE  FreshMemory(error) \in Memories
BY ConstantTypes DEF FreshMemory, Memories

LEMMA StartTyped ==
    ASSUME NEW s \in Settings, NEW f \in FileSets, Start(s, f)
    PROVE  Typed
<1>1. requested = 0
    BY DEF Start
<1>2. requested \in 0..MaxRequests
    BY <1>1, RequestsOK
<1>3. /\ dbUp \in BOOLEAN /\ caddyUp \in BOOLEAN /\ saved \in Settings
      /\ shownError \in Texts /\ files \in FileSets
      /\ lapses \subseteq Lapses
    BY DEF Start, Texts
<1>4. loaded \in [config : Configs, cert : Contents, ca : Contents]
    BY ConstantTypes DEF Start
<1>5. call \in Calls /\ cycle \in Cycles
    BY ConstantTypes DEF Start
<1>6. /\ call.pc = "idle" /\ cycle.pc = "probe" /\ tlsLock = "free"
    BY DEF Start, NoCall, NoCycle
<1>7. memory \in Memories
    BY MemoryType DEF Start, Texts
<1>8. QED
    BY <1>2, <1>3, <1>4, <1>5, <1>6, <1>7 DEF Typed, LoadedType

LEMMA EarlierType == \A present : Earlier(present) \in FileSets
BY DEF Earlier, FileSets, Contents, Absent

LEMMA InitTyped == Init => Typed
<1>1. \A h \in Hosts : [mode |-> "upload", host |-> h, keyId |-> FALSE] \in Settings
    BY DEF Settings
<1>2. \A h \in Hosts : [mode |-> "acme", host |-> h, keyId |-> TRUE] \in Settings
    BY DEF Settings
<1>3. QED
    BY <1>1, <1>2, StartTyped, EarlierType, ConstantTypes DEF Init

LEMMA AppliedType ==
    ASSUME NEW c \in Configs, memory \in Memories
    PROVE  /\ Applied(c) \in Memories
           /\ Applied(c).hash = c /\ Applied(c).error = memory.error
           /\ [Applied(c) EXCEPT !.error = ""] \in Memories
           /\ [Applied(c) EXCEPT !.error = ""].hash = c
           /\ [Applied(c) EXCEPT !.error = ""].error = ""
BY DEF Applied, Memories, Texts

LEMMA PreviousType ==
    ASSUME saved \in Settings, files \in FileSets
    PROVE  PreviousConfig \in Configs
BY RenderedType, ConstantTypes DEF PreviousConfig

LEMMA LoadsKeepTypes ==
    ASSUME NEW c \in Configs, files \in FileSets, loaded \in LoadedType,
           caddyUp \in BOOLEAN, LoadSucceeds(c) \/ LoadFails(c)
    PROVE  loaded' \in LoadedType /\ caddyUp' \in BOOLEAN
BY EffectType DEF LoadSucceeds, LoadFails, AfterLoad, LoadedType, caddy

LEMMA TypesAreRight == Typed => TypeOK
<1>1. memory \in Memories => memory.hash \in Configs /\ memory.error \in Texts
    BY DEF Memories
<1>2. cycle \in Cycles => cycle.text \in Texts
    BY DEF Cycles
<1>3. QED
    BY <1>1, <1>2 DEF Typed, TypeOK, Texts, FileSets, LoadedType, Lapses

LEMMA BeginTyped ==
    ASSUME Typed, NEW r \in Requests, Begin(r)
    PROVE  Typed'
<1>1. r \in Forms
    BY RequestsOK DEF Forms
<1>2. call' \in Calls /\ call'.pc = "write"
    BY <1>1, PreviousType DEF Begin, Calls, Forms, Typed
<1>3. requested' \in 0..MaxRequests
    BY RequestsOK DEF Begin, Typed
<1>4. QED
    BY <1>2, <1>3 DEF Begin, stored, CallOnly, Typed

\* A call that goes on: only its pc changes, not to or from "idle".
LEMMA CallGoesOn ==
    ASSUME call \in Calls,
           NEW pc \in {"write", "load", "record", "restore", "report", "rollback"}
    PROVE  LET next == [call EXCEPT !.pc = pc]
           IN  /\ next \in Calls /\ next.pc = pc
               /\ next.backups = call.backups /\ next.request = call.request
BY DEF Calls

LEMMA WriteTyped ==
    ASSUME Typed, WriteSecret \/ WriteFails \/ Check \/ CheckFails
    PROVE  Typed'
<1>1. CASE WriteSecret
    <2>1. NextSecret(call.todo) \in Secrets
        BY DEF NextSecret, Secrets
    <2>2. requested + 1 \in Contents /\ Absent \in Contents
        BY RequestsOK DEF Typed, Contents, Absent
    <2>3. files' \in FileSets
        BY <1>1, <2>1, <2>2 DEF WriteSecret, Typed, FileSets
    <2>4. call' \in Calls /\ call'.pc = "write"
        BY <1>1 DEF WriteSecret, Typed, Calls
    <2>5. QED
        BY <1>1, <2>3, <2>4 DEF WriteSecret, CallOnly, counters, Typed
<1>2. CASE WriteFails \/ CheckFails
    <2>1. call' \in Calls /\ call'.pc = "restore"
        BY <1>2, CallGoesOn DEF WriteFails, CheckFails, CallFails, Typed
    <2>2. QED
        BY <1>2, <2>1 DEF WriteFails, CheckFails, CallFails, CallOnly, stored, Typed
<1>3. CASE Check
    <2>1. call' \in Calls /\ call'.pc = "load"
        BY <1>3, CallGoesOn DEF Check, Typed
    <2>2. QED
        BY <1>3, <2>1 DEF Check, CallOnly, stored, counters, Typed
<1>4. QED
    BY <1>1, <1>2, <1>3

LEMMA CandidateType == Typed => Candidate \in Configs
BY RenderedType DEF Typed, Candidate, Calls, Forms

LEMMA ActivateTyped ==
    ASSUME Typed, Activate \/ ActivateFails
    PROVE  Typed'
<1>1. loaded' \in LoadedType /\ caddyUp' \in BOOLEAN
    BY CandidateType, LoadsKeepTypes DEF Activate, ActivateFails, Typed
<1>2. call' \in Calls /\ call'.pc \in {"record", "restore"}
    BY CallGoesOn DEF Activate, ActivateFails, Typed
<1>3. call.pc = "load"
    BY DEF Activate, ActivateFails
<1>4. QED
    BY <1>1, <1>2, <1>3 DEF Activate, ActivateFails, stored, Typed

LEMMA RecordTyped ==
    ASSUME Typed, Record \/ RecordFails
    PROVE  Typed'
<1>1. call.request.settings \in Settings
    BY DEF Typed, Calls, Forms
<1>2. CASE Record
    <2>1. memory' \in Memories
        BY <1>2, CandidateType, AppliedType DEF Record, Typed
    <2>2. call' \in Calls /\ call'.pc = "idle"
        BY <1>2, ConstantTypes DEF Record, NoCall
    <2>3. cycle.pc \notin {"apply", "record"}
        BY <1>2 DEF Record, Typed
    <2>4. lapses' \subseteq Lapses
        BY <1>2 DEF Record, Unread, Lapses
    <2>5. QED
        BY <1>1, <1>2, <2>1, <2>2, <2>3, <2>4
        DEF Record, CallOnly, counters, Typed, Texts
<1>3. CASE RecordFails
    <2>1. call' \in Calls /\ call'.pc = "restore"
        BY <1>3, CallGoesOn DEF RecordFails, CallFails, Typed
    <2>2. saved' \in Settings /\ shownError' \in Texts
        BY <1>1, <1>3 DEF RecordFails, Typed, Texts
    <2>3. QED
        BY <1>3, <2>1, <2>2 DEF RecordFails, CallFails, CallOnly, Typed, Lapses
<1>4. QED
    BY <1>2, <1>3

\* The end of a call, which gives the lock back.
LEMMA DoneTyped ==
    ASSUME Typed, NEW missed \in SUBSET {"restore", "rollback", "unread"}, Done(missed),
           call.pc # "idle"
    PROVE  /\ call' \in Calls /\ call'.pc = "idle" /\ tlsLock' = "free"
           /\ lapses' \subseteq Lapses
           /\ cycle.pc \notin {"apply", "record"}
BY ConstantTypes DEF Done, Typed, NoCall, Lapses

LEMMA RestoreTyped ==
    ASSUME Typed, Restore \/ RestoreFails
    PROVE  Typed'
<1>1. CASE Restore
    <2>1. call' \in Calls /\ call'.pc = "report"
        BY <1>1, CallGoesOn DEF Restore, Typed
    <2>2. files' \in FileSets
        BY <1>1 DEF Restore, Restored, Typed, Calls
    <2>3. QED
        BY <1>1, <2>1, <2>2 DEF Restore, CallOnly, counters, Typed
<1>2. CASE RestoreFails
    <2>1. call.pc # "idle" /\ Done({"restore", "rollback"})
        BY <1>2 DEF RestoreFails
    <2>2. QED
        BY <1>2, <2>1, DoneTyped DEF RestoreFails, CallOnly, stored, Typed
<1>3. QED
    BY <1>1, <1>2

LEMMA ReportTyped ==
    ASSUME Typed, Report \/ ReportFails
    PROVE  Typed'
<1>1. CASE Report
    <2>1. call' \in Calls /\ call'.pc = "rollback"
        BY <1>1, CallGoesOn DEF Report, Typed
    <2>2. memory' \in Memories /\ shownError' \in Texts
        BY <1>1 DEF Report, Typed, Memories, Texts
    <2>3. QED
        BY <1>1, <2>1, <2>2 DEF Report, CallOnly, counters, Typed
<1>2. CASE ReportFails
    <2>1. RollbackMissing(loaded) \in SUBSET {"restore", "rollback", "unread"}
        BY DEF RollbackMissing, Unread
    <2>2. call.pc # "idle" /\ Done(RollbackMissing(loaded))
        BY <1>2 DEF ReportFails
    <2>3. QED
        BY <1>2, <2>1, <2>2, DoneTyped DEF ReportFails, CallOnly, stored, counters, Typed
<1>3. QED
    BY <1>1, <1>2

LEMMA RollbackTyped ==
    ASSUME Typed, Rollback \/ RollbackFails
    PROVE  Typed'
<1>1. call.previous \in Configs
    BY DEF Typed, Calls
<1>2. loaded' \in LoadedType /\ caddyUp' \in BOOLEAN
    BY <1>1, LoadsKeepTypes DEF Rollback, RollbackFails, Typed
<1>3. memory' \in Memories
    <2>1. memory' = memory \/ memory' = Applied(call.previous)
        BY DEF Rollback, RollbackFails
    <2>2. memory \in Memories
        BY DEF Typed
    <2>3. Applied(call.previous) \in Memories
        BY <1>1, <2>2, AppliedType
    <2>4. QED
        BY <2>1, <2>2, <2>3
<1>4. PICK missed \in SUBSET {"restore", "rollback", "unread"} : Done(missed)
    BY DEF Rollback, RollbackFails, RollbackMissing, Unread
<1>5. call.pc # "idle"
    BY DEF Rollback, RollbackFails
<1>6. QED
    BY <1>2, <1>3, <1>4, <1>5, DoneTyped DEF Rollback, RollbackFails, stored, Typed

\* A cycle that goes on.
LEMMA CycleGoesOn ==
    ASSUME cycle \in Cycles,
           NEW pc \in {"note", "sync", "record", "told", "dead"}
    PROVE  /\ [cycle EXCEPT !.pc = pc] \in Cycles
           /\ [cycle EXCEPT !.pc = pc].pc = pc
           /\ [cycle EXCEPT !.pc = pc].config = cycle.config
BY DEF Cycles

LEMMA FreshCycles ==
    /\ SyncFails \in Cycles /\ SyncFails.pc = "tell"
    /\ NoCycle \in Cycles /\ NoCycle.pc = "probe"
    /\ [NoCycle EXCEPT !.pc = "tell", !.text = "unreachable"] \in Cycles
    /\ [NoCycle EXCEPT !.pc = "tell", !.text = "unreachable"].pc = "tell"
    /\ \A c \in Configs :
          /\ [NoCycle EXCEPT !.pc = "apply", !.config = c] \in Cycles
          /\ [NoCycle EXCEPT !.pc = "apply", !.config = c].pc = "apply"
          /\ [NoCycle EXCEPT !.pc = "apply", !.config = c].config = c
<1>1. NoCycle \in Cycles /\ NoCycle.pc = "probe"
    BY ConstantTypes DEF NoCycle
<1>2. QED
    BY <1>1 DEF SyncFails, Cycles, Texts

LEMMA ProbeTyped ==
    ASSUME Typed, Probe \/ Note
    PROVE  Typed'
<1>1. CASE Probe
    <2>1. cycle' \in Cycles /\ cycle'.pc = "note"
        BY <1>1 DEF Probe, Typed, Cycles, Memories
    <2>2. QED
        BY <1>1, <2>1 DEF Probe, CycleOnly, Typed
<1>2. CASE Note
    <2>1. memory' \in Memories
        BY <1>2 DEF Note, Typed, Memories, Cycles
    <2>2. cycle' \in Cycles /\ cycle'.pc \in {"sync", "tell"}
        BY <1>2, CycleGoesOn, FreshCycles DEF Note, Typed
    <2>3. QED
        BY <1>2, <2>1, <2>2 DEF Note, CycleOnly, Typed
<1>3. QED
    BY <1>1, <1>2

LEMMA SyncTyped ==
    ASSUME Typed, Sync
    PROVE  Typed'
<1>1. Rendered(saved, files) \in Configs
    BY RenderedType DEF Typed
<1>2. \/ cycle' \in Cycles /\ cycle'.pc \in {"tell", "probe"} /\ tlsLock' = "free"
      \/ cycle' \in Cycles /\ cycle'.pc = "apply" /\ tlsLock' = "reconcile"
    BY <1>1, FreshCycles DEF Sync, Again
<1>3. tlsLock = "free" /\ cycle.pc = "sync"
    BY DEF Sync
<1>4. QED
    BY <1>2, <1>3 DEF Sync, CycleOnly, Typed

LEMMA ApplyTyped ==
    ASSUME Typed, Apply \/ ApplyRecorded
    PROVE  Typed'
<1>1. cycle.config \in Configs
    BY DEF Typed, Cycles
<1>2. CASE Apply
    <2>1. loaded' \in LoadedType /\ caddyUp' \in BOOLEAN
        BY <1>1, <1>2, LoadsKeepTypes DEF Apply, Typed
    <2>2. \/ /\ cycle' \in Cycles /\ cycle'.pc = "record" /\ UNCHANGED tlsLock
          \/ /\ cycle' \in Cycles /\ cycle'.pc = "tell" /\ tlsLock' = "free"
        BY <1>2, CycleGoesOn, FreshCycles DEF Apply, To, Typed
    <2>3. cycle.pc = "apply"
        BY <1>2 DEF Apply
    <2>4. QED
        BY <1>2, <2>1, <2>2, <2>3 DEF Apply, stored, Typed
<1>3. CASE ApplyRecorded
    <2>1. /\ cycle' \in Cycles /\ cycle'.pc \in {"probe", "tell"}
          /\ tlsLock' = "free" /\ cycle.pc = "record"
        BY <1>3, FreshCycles DEF ApplyRecorded, Again
    <2>2. \/ memory' = memory
          \/ memory' = [Applied(cycle.config) EXCEPT !.error = ""]
        BY <1>3 DEF ApplyRecorded
    <2>3. memory' \in Memories
        <3>1. memory \in Memories
            BY DEF Typed
        <3>2. [Applied(cycle.config) EXCEPT !.error = ""] \in Memories
            BY <1>1, <3>1, AppliedType
        <3>3. QED
            BY <2>2, <3>1, <3>2
    <2>4. shownError' \in Texts /\ lapses' \subseteq Lapses
        BY <1>3 DEF ApplyRecorded, Typed, Texts, Lapses, Unread
    <2>5. QED
        BY <1>3, <2>1, <2>3, <2>4 DEF ApplyRecorded, CycleOnly, Typed
<1>4. QED
    BY <1>2, <1>3

LEMMA TellTyped ==
    ASSUME Typed, Tell \/ Told
    PROVE  Typed'
<1>1. cycle.text \in Texts /\ cycle.pc \notin {"apply", "record"}
    BY DEF Typed, Cycles, Tell, Told
<1>2. CASE Tell
    <2>1. cycle' \in Cycles /\ cycle'.pc \notin {"apply", "record"}
        BY <1>2, CycleGoesOn, FreshCycles DEF Tell, To, Again, Typed
    <2>2. QED
        BY <1>1, <1>2, <2>1 DEF Tell, CycleOnly, Typed
<1>3. CASE Told
    <2>1. memory' \in Memories
        BY <1>1, <1>3 DEF Told, Typed, Memories
    <2>2. cycle' \in Cycles /\ cycle'.pc = "probe"
        BY <1>3, FreshCycles DEF Told, Again
    <2>3. QED
        BY <1>1, <1>3, <2>1, <2>2 DEF Told, CycleOnly, Typed
<1>4. QED
    BY <1>2, <1>3

LEMMA SurroundingsTyped ==
    ASSUME Typed, Surroundings
    PROVE  Typed'
<1>1. CASE DbStops \/ DbReturns
    BY <1>1 DEF DbStops, DbReturns, stored, caddy, counters, Typed
<1>2. CASE CaddyStops \/ CaddyStarts
    BY <1>2, ConstantTypes DEF CaddyStops, CaddyStarts, stored, counters, Typed, LoadedType
<1>3. CASE Restart
    <2>1. memory' \in Memories
        BY <1>3, MemoryType DEF Restart, Typed
    <2>2. call' \in Calls /\ call'.pc = "idle" /\ cycle' \in Cycles /\ cycle'.pc = "probe"
        BY <1>3, ConstantTypes DEF Restart, NoCall, NoCycle
    <2>3. lapses' \subseteq Lapses
        BY <1>3 DEF Restart, Typed, Lapses
    <2>4. QED
        BY <1>3, <2>1, <2>2, <2>3 DEF Restart, stored, caddy, Typed
<1>4. QED
    BY <1>1, <1>2, <1>3 DEF Surroundings

LEMMA NextTyped ==
    ASSUME Typed, [Next]_tlsVars
    PROVE  Typed'
<1>1. CASE Configure
    BY <1>1, BeginTyped, WriteTyped, ActivateTyped, RecordTyped, RestoreTyped,
       ReportTyped, RollbackTyped DEF Configure
<1>2. CASE Reconcile
    BY <1>2, ProbeTyped, SyncTyped, ApplyTyped, TellTyped DEF Reconcile
<1>3. CASE Surroundings
    BY <1>3, SurroundingsTyped
<1>4. CASE UNCHANGED tlsVars
    BY <1>4 DEF tlsVars, stored, caddy, counters, Typed
<1>5. QED
    BY <1>1, <1>2, <1>3, <1>4 DEF Next

-----------------------------------------------------------------------------
(* What calls and cycles rely on.                                          *)

Sound == CallIsSound /\ CycleIsSound /\ HashIsSound

LEMMA ValidFits ==
    ASSUME NEW s \in Settings, NEW f \in FileSets, Valid(s, f)
    PROVE  Renders(s, f)
BY SettingsType DEF Valid, Renders, Absent

LEMMA InitSound == Init => Sound
<1>1. ASSUME NEW s \in Settings, NEW f \in FileSets, Start(s, f), Valid(s, f)
      PROVE  Sound
    <2>1. /\ saved = s /\ files = f /\ call.pc = "idle" /\ cycle.pc = "probe"
          /\ loaded = Bootstrap
        BY <1>1 DEF Start, NoCall, NoCycle
    <2>2. Fits(files)
        BY <1>1, <2>1, ValidFits DEF Fits
    <2>3. QED
        BY <2>1, <2>2 DEF Sound, CallIsSound, CycleIsSound, HashIsSound, Loaded
<1>2. Valid(Http, Earlier({}))
    BY DEF Valid, Http
<1>3. \A h \in Hosts :
          /\ [mode |-> "upload", host |-> h, keyId |-> FALSE] \in Settings
          /\ Valid([mode |-> "upload", host |-> h, keyId |-> FALSE],
                   Earlier({"cert", "key"}))
    BY DEF Settings, Valid, Earlier, Secrets, Absent
<1>4. \A h \in Hosts :
          /\ [mode |-> "acme", host |-> h, keyId |-> TRUE] \in Settings
          /\ Valid([mode |-> "acme", host |-> h, keyId |-> TRUE],
                   Earlier({"ca", "eab"}))
    BY DEF Settings, Valid, Earlier, Secrets, Absent
<1>5. QED
    BY <1>1, <1>2, <1>3, <1>4, EarlierType, ConstantTypes DEF Init

\* A step inside a call leaves nothing to show but what the call relies on:
\* the reconciler has no cycle under the lock, and the hash is not in use.
LEMMA InsideCall ==
    ASSUME Typed, call.pc # "idle", call'.pc # "idle", UNCHANGED cycle,
           CallIsSound'
    PROVE  Sound'
<1>1. cycle'.pc \notin {"apply", "record"}
    BY DEF Typed
<1>2. QED
    BY <1>1 DEF Sound, CycleIsSound, HashIsSound

LEMMA BeginSound ==
    ASSUME Typed, Sound, NEW r \in Requests, Begin(r)
    PROVE  Sound'
<1>1. /\ call.pc = "idle" /\ call'.pc = "write" /\ call'.backups = files
      /\ UNCHANGED <<saved, files, loaded, lapses, cycle>>
    BY DEF Begin, stored, CallOnly
<1>2. CallIsSound'
    BY <1>1 DEF Sound, CallIsSound, Fits
<1>3. CycleIsSound'
    BY <1>1 DEF Sound, CycleIsSound, Runs
<1>4. QED
    BY <1>1, <1>2, <1>3 DEF Sound, HashIsSound

LEMMA WriteSound ==
    ASSUME Typed, Sound, WriteSecret \/ WriteFails \/ Check \/ CheckFails
    PROVE  Sound'
<1>1. UNCHANGED <<saved, cycle, lapses>> /\ call.pc = "write"
    BY DEF WriteSecret, WriteFails, Check, CheckFails, CallFails, CallOnly, stored
<1>2. CASE WriteSecret
    <2>1. call'.pc = "write" /\ call'.backups = call.backups
        BY <1>2 DEF WriteSecret, Typed, Calls
    <2>2. CallIsSound'
        BY <1>1, <2>1 DEF Sound, CallIsSound, Fits
    <2>3. QED
        BY <1>1, <2>1, <2>2, InsideCall
<1>3. CASE WriteFails \/ CheckFails
    <2>1. call'.pc = "restore" /\ call'.backups = call.backups
        BY <1>3, CallGoesOn DEF WriteFails, CheckFails, CallFails, Typed
    <2>2. CallIsSound'
        BY <1>1, <2>1 DEF Sound, CallIsSound, Fits
    <2>3. QED
        BY <1>1, <2>1, <2>2, InsideCall
<1>4. CASE Check
    <2>1. /\ call'.pc = "load" /\ call'.backups = call.backups
          /\ call'.request = call.request
        BY <1>4, CallGoesOn DEF Check, Typed
    <2>2. Valid(call.request.settings, files) /\ UNCHANGED files
        BY <1>4 DEF Check, stored
    <2>3. CallIsSound'
        BY <1>1, <2>1, <2>2 DEF Sound, CallIsSound, Fits
    <2>4. QED
        BY <1>1, <2>1, <2>3, InsideCall
<1>5. QED
    BY <1>2, <1>3, <1>4

\* After a load Caddy runs the configuration, whether it has read the files or
\* ran it before.
LEMMA LoadedNow ==
    ASSUME NEW c, LoadSucceeds(c)
    PROVE  loaded'.config = c /\ loaded' \in {loaded, Effect(c, files)}
BY DEF LoadSucceeds, AfterLoad, Effect

LEMMA UnreadIsKnown ==
    ASSUME NEW c, Runs(c)
    PROVE  \/ loaded \in {Bootstrap, Effect(c, files)}
           \/ loaded.config = c /\ Unread(loaded, c) = {"unread"}
BY DEF Runs, Unread

LEMMA ActivateSound ==
    ASSUME Typed, Sound, Activate \/ ActivateFails
    PROVE  Sound'
<1>1. UNCHANGED <<saved, files, cycle, lapses>> /\ call.pc = "load"
    BY DEF Activate, ActivateFails, stored
<1>2. CASE Activate
    <2>1. /\ call'.pc = "record" /\ call'.backups = call.backups
          /\ call'.request = call.request
        BY <1>2, CallGoesOn DEF Activate, Typed
    <2>2. loaded'.config = Candidate
        BY <1>2, LoadedNow DEF Activate
    <2>3. Candidate' = Candidate
        BY <1>1, <2>1 DEF Candidate
    <2>4. CallIsSound'
        BY <1>1, <2>1, <2>2, <2>3 DEF Sound, CallIsSound, Fits, Runs
    <2>5. QED
        BY <1>1, <2>1, <2>4, InsideCall
<1>3. CASE ActivateFails
    <2>1. call'.pc = "restore" /\ call'.backups = call.backups
        BY <1>3, CallGoesOn DEF ActivateFails, Typed
    <2>2. CallIsSound'
        BY <1>1, <2>1 DEF Sound, CallIsSound, Fits
    <2>3. QED
        BY <1>1, <2>1, <2>2, InsideCall
<1>4. QED
    BY <1>2, <1>3

LEMMA RecordSound ==
    ASSUME Typed, Sound, Record \/ RecordFails
    PROVE  Sound'
<1>1. UNCHANGED <<files, cycle, loaded>> /\ call.pc = "record"
    BY DEF Record, RecordFails, CallFails, CallOnly
<1>2. CASE Record
    <2>1. /\ call'.pc = "idle" /\ saved' = call.request.settings
        BY <1>2 DEF Record, NoCall
    <2>2. Valid(saved', files') /\ Renders(saved', files')
        BY <1>1, <2>1, ValidFits DEF Sound, CallIsSound, Typed, Calls, Forms
    <2>3. CallIsSound'
        BY <2>1, <2>2 DEF CallIsSound, Fits
    <2>4. CycleIsSound'
        BY <1>1 DEF Typed, CycleIsSound
    <2>5. memory'.hash = Candidate
        BY <1>2, CandidateType, AppliedType DEF Record, Typed
    <2>6. HashIsSound'
        <3>1. Runs(Candidate) /\ lapses' = Unread(loaded, Candidate)
            BY <1>1, <1>2 DEF Record, Sound, CallIsSound
        <3>2. QED
            BY <1>1, <2>5, <3>1, UnreadIsKnown DEF HashIsSound, Loaded
    <2>7. QED
        BY <2>3, <2>4, <2>6 DEF Sound
<1>3. CASE RecordFails
    <2>1. call'.pc = "restore" /\ call'.backups = call.backups
        BY <1>3, CallGoesOn DEF RecordFails, CallFails, Typed
    <2>2. UNCHANGED <<saved, lapses>> \/ "commit" \in lapses'
        BY <1>3 DEF RecordFails
    <2>3. CallIsSound'
        BY <1>1, <2>1, <2>2 DEF Sound, CallIsSound, Fits
    <2>4. QED
        BY <1>1, <2>1, <2>3, InsideCall
<1>4. QED
    BY <1>2, <1>3

\* What is left when a call ends without a change: the settings, and files
\* that fit them if they were put back.
LEMMA EndSound ==
    ASSUME Typed, Sound, call.pc # "idle", call'.pc = "idle",
           UNCHANGED <<saved, files, cycle>>,
           lapses' \subseteq {"rollback", "unread"} =>
               lapses \subseteq {"rollback", "unread"} /\ files = call.backups,
           HashIsSound'
    PROVE  Sound'
<1>1. CallIsSound'
    BY DEF Sound, CallIsSound, Fits
<1>2. CycleIsSound'
    BY DEF Typed, CycleIsSound
<1>3. QED
    BY <1>1, <1>2 DEF Sound

LEMMA RestoreSound ==
    ASSUME Typed, Sound, Restore \/ RestoreFails
    PROVE  Sound'
<1>1. UNCHANGED <<saved, cycle>> /\ call.pc = "restore"
    BY DEF Restore, RestoreFails, CallOnly, stored
<1>2. CASE Restore
    <2>1. /\ call'.pc = "report" /\ call'.backups = call.backups
          /\ files' = call.backups /\ UNCHANGED lapses
        BY <1>2, CallGoesOn DEF Restore, Restored, Typed
    <2>2. CallIsSound'
        BY <1>1, <2>1 DEF Sound, CallIsSound, Fits
    <2>3. QED
        BY <1>1, <2>1, <2>2, InsideCall
<1>3. CASE RestoreFails
    <2>1. /\ call'.pc = "idle" /\ UNCHANGED files
          /\ "restore" \in lapses' /\ "rollback" \in lapses'
        BY <1>3 DEF RestoreFails, Done, NoCall, stored
    <2>2. HashIsSound'
        BY <2>1 DEF HashIsSound
    <2>3. QED
        BY <1>1, <2>1, <2>2, EndSound
<1>4. QED
    BY <1>2, <1>3

LEMMA ReportSound ==
    ASSUME Typed, Sound, Report \/ ReportFails
    PROVE  Sound'
<1>1. /\ UNCHANGED <<saved, files, loaded, cycle>>
      /\ call.pc = "report" /\ files = call.backups
    BY DEF Report, ReportFails, CallOnly, stored, Sound, CallIsSound
<1>2. CASE Report
    <2>1. /\ call'.pc = "rollback" /\ call'.backups = call.backups
          /\ UNCHANGED lapses
        BY <1>2, CallGoesOn DEF Report, Typed
    <2>2. CallIsSound'
        BY <1>1, <2>1 DEF Sound, CallIsSound, Fits
    <2>3. QED
        BY <1>1, <2>1, <2>2, InsideCall
<1>3. CASE ReportFails
    <2>1. /\ call'.pc = "idle"
          /\ lapses' = (lapses \ {"unread"}) \cup RollbackMissing(loaded)
        BY <1>3 DEF ReportFails, Done, NoCall
    <2>2. HashIsSound'
        BY <1>1, <2>1, UnreadIsKnown DEF HashIsSound, RollbackMissing, Runs, Loaded
    <2>3. QED
        BY <1>1, <2>1, <2>2, EndSound
<1>4. QED
    BY <1>2, <1>3

LEMMA RollbackSound ==
    ASSUME Typed, Sound, Rollback \/ RollbackFails
    PROVE  Sound'
<1>1. /\ UNCHANGED <<saved, files, cycle>>
      /\ call.pc = "rollback" /\ files = call.backups
      /\ call'.pc = "idle" /\ lapses \subseteq lapses' \cup {"unread"}
    BY DEF Rollback, RollbackFails, Done, NoCall, stored, Sound, CallIsSound
<1>2. HashIsSound'
    <2>1. CASE Rollback
        <3>1. call.previous \in Configs
            BY DEF Typed, Calls
        <3>2. memory'.hash = call.previous
            BY <2>1, <3>1, AppliedType DEF Rollback, Typed
        <3>3. /\ loaded'.config = call.previous
              /\ Unread(loaded', call.previous) \subseteq lapses'
            BY <2>1, LoadedNow DEF Rollback, Done
        <3>4. QED
            BY <1>1, <3>2, <3>3 DEF HashIsSound, Loaded, Unread
    <2>2. CASE RollbackFails
        <3>1. RollbackMissing(loaded') \subseteq lapses'
            BY <2>2 DEF RollbackFails, Done
        <3>2. QED
            BY <1>1, <3>1 DEF HashIsSound, RollbackMissing, Unread, Loaded
    <2>3. QED
        BY <2>1, <2>2
<1>3. QED
    BY <1>1, <1>2, EndSound

\* A step of the reconciler between its sections under the lock.
LEMMA CycleKeepsSound ==
    ASSUME Typed, Sound, Probe \/ Note \/ Tell \/ Told
    PROVE  Sound'
<1>1. UNCHANGED <<saved, files, loaded, call, lapses>>
    BY DEF Probe, Note, Tell, Told, CycleOnly
<1>2. memory'.hash = memory.hash
    BY DEF Probe, Note, Tell, Told, Typed, Memories
<1>3. cycle'.pc \notin {"apply", "record"}
    BY CycleGoesOn, FreshCycles DEF Probe, Note, Tell, Told, To, Again, Typed, Cycles
<1>4. CallIsSound'
    BY <1>1 DEF Sound, CallIsSound, Fits, Runs, Candidate
<1>5. HashIsSound'
    BY <1>1, <1>2 DEF Sound, HashIsSound, Loaded
<1>6. QED
    BY <1>3, <1>4, <1>5 DEF Sound, CycleIsSound

LEMMA SyncSound ==
    ASSUME Typed, Sound, Sync
    PROVE  Sound'
<1>1. UNCHANGED <<saved, files, loaded, call, lapses, memory>>
    BY DEF Sync, CycleOnly
<1>2. Rendered(saved, files) \in Configs
    BY RenderedType DEF Typed
<1>3. \/ cycle'.pc \in {"tell", "probe"}
      \/ cycle'.pc = "apply" /\ cycle'.config = Rendered(saved, files)
    BY <1>2, FreshCycles DEF Sync, Again
<1>4. CallIsSound'
    BY <1>1 DEF Sound, CallIsSound, Fits, Runs, Candidate
<1>5. HashIsSound'
    BY <1>1 DEF Sound, HashIsSound, Loaded
<1>6. CycleIsSound'
    BY <1>1, <1>3 DEF CycleIsSound
<1>7. QED
    BY <1>4, <1>5, <1>6 DEF Sound

LEMMA ApplySound ==
    ASSUME Typed, Sound, Apply \/ ApplyRecorded
    PROVE  Sound'
<1>1. /\ UNCHANGED <<saved, files, call>>
      /\ cycle.pc \in {"apply", "record"} /\ cycle.config = Rendered(saved, files)
      /\ lapses \subseteq lapses' \cup {"rollback", "unread"}
    BY DEF Apply, ApplyRecorded, CycleOnly, stored, Sound, CycleIsSound
<1>2. call.pc = "idle"
    BY <1>1 DEF Typed
<1>3. CallIsSound'
    BY <1>1, <1>2 DEF Sound, CallIsSound, Fits
<1>4. CASE Apply
    <2>1. loaded' \in {loaded, Effect(cycle.config, files)} /\ UNCHANGED <<memory, lapses>>
        BY <1>4 DEF Apply, LoadSucceeds, LoadFails, AfterLoad, caddy
    <2>2. \/ /\ cycle'.pc = "record" /\ cycle'.config = cycle.config
             /\ loaded'.config = cycle.config
          \/ cycle'.pc = "tell"
        <3>1. LoadSucceeds(cycle.config) => loaded'.config = cycle.config
            BY LoadedNow
        <3>2. QED
            BY <1>4, <3>1, CycleGoesOn, FreshCycles DEF Apply, To, Typed
    <2>3. CycleIsSound'
        BY <1>1, <2>2 DEF CycleIsSound, Runs
    <2>4. HashIsSound'
        BY <1>1, <1>2, <2>1 DEF Sound, HashIsSound, Loaded
    <2>5. QED
        BY <1>3, <2>3, <2>4 DEF Sound
<1>5. CASE ApplyRecorded
    <2>1. UNCHANGED loaded /\ cycle'.pc \in {"probe", "tell"} /\ cycle.pc = "record"
        BY <1>5, FreshCycles DEF ApplyRecorded, Again
    <2>2. cycle.config \in Configs
        BY DEF Typed, Cycles
    <2>3. \/ UNCHANGED <<memory, lapses>>
          \/ /\ memory'.hash = cycle.config
             /\ Unread(loaded, cycle.config) \subseteq lapses'
        BY <1>5, <2>2, AppliedType DEF ApplyRecorded, Typed
    <2>4. HashIsSound'
        <3>1. CASE UNCHANGED <<memory, lapses>>
            BY <1>1, <1>2, <2>1, <3>1 DEF Sound, HashIsSound, Loaded
        <3>2. CASE /\ memory'.hash = cycle.config
                   /\ Unread(loaded, cycle.config) \subseteq lapses'
            BY <1>1, <2>1, <3>2, UnreadIsKnown
            DEF Sound, HashIsSound, CycleIsSound, Loaded
        <3>3. QED
            BY <2>3, <3>1, <3>2
    <2>5. QED
        BY <1>3, <2>1, <2>4 DEF Sound, CycleIsSound
<1>6. QED
    BY <1>4, <1>5

LEMMA SurroundingsSound ==
    ASSUME Typed, Sound, Surroundings
    PROVE  Sound'
<1>1. CASE DbStops \/ DbReturns \/ CaddyStarts \/ CaddyStops
    <2>1. /\ UNCHANGED <<saved, files, call, cycle, memory>>
          /\ \/ UNCHANGED <<loaded, lapses>>
             \/ loaded' = Bootstrap /\ lapses' = lapses \ {"unread"}
        BY <1>1 DEF DbStops, DbReturns, CaddyStarts, CaddyStops, stored, caddy
    <2>2. CallIsSound'
        BY <2>1 DEF Sound, CallIsSound, Fits, Runs, Candidate
    <2>3. CycleIsSound' /\ HashIsSound'
        BY <2>1 DEF Sound, CycleIsSound, HashIsSound, Runs, Loaded
    <2>4. QED
        BY <2>2, <2>3 DEF Sound
<1>2. CASE Restart
    <2>1. /\ UNCHANGED <<saved, files>> /\ call'.pc = "idle" /\ cycle'.pc = "probe"
          /\ memory'.hash = NoConfig
          /\ lapses' \subseteq {"rollback", "unread"} =>
                 call.pc = "idle" /\ lapses \subseteq {"rollback", "unread"}
        BY <1>2 DEF Restart, NoCall, NoCycle, FreshMemory, stored
    <2>2. CallIsSound' /\ CycleIsSound'
        BY <2>1 DEF Sound, CallIsSound, CycleIsSound, Fits
    <2>3. NoConfig # Rendered(saved, files)
        <3>1. Rendered(saved, files).mode = saved.mode /\ saved.mode # "none"
            BY RenderedType, SettingsType DEF Typed
        <3>2. NoConfig.mode = "none"
            BY DEF NoConfig
        <3>3. QED
            BY <3>1, <3>2
    <2>4. HashIsSound'
        BY <2>1, <2>3 DEF HashIsSound
    <2>5. QED
        BY <2>2, <2>4 DEF Sound
<1>3. QED
    BY <1>1, <1>2 DEF Surroundings

LEMMA NextSound ==
    ASSUME Typed, Sound, [Next]_tlsVars
    PROVE  Sound'
<1>1. CASE Configure
    BY <1>1, BeginSound, WriteSound, ActivateSound, RecordSound, RestoreSound,
       ReportSound, RollbackSound DEF Configure
<1>2. CASE Reconcile
    BY <1>2, CycleKeepsSound, SyncSound, ApplySound DEF Reconcile
<1>3. CASE Surroundings
    BY <1>3, SurroundingsSound
<1>4. CASE UNCHANGED tlsVars
    BY <1>4 DEF tlsVars, stored, caddy, Sound, CallIsSound, CycleIsSound,
                HashIsSound, Fits, Runs, Loaded, Candidate
<1>5. QED
    BY <1>1, <1>2, <1>3, <1>4 DEF Next

-----------------------------------------------------------------------------
(* The theorems.                                                           *)

\* The invariant of the manager (app/tls.py): at every step, what a call can
\* still undo and what a cycle has rendered go with the settings and files.
THEOREM Invariance == Spec => []Inductive
<1>1. Init => Inductive
    BY InitTyped, InitSound DEF Inductive, Sound
<1>2. Inductive /\ [Next]_tlsVars => Inductive'
    BY NextTyped, NextSound DEF Inductive, Sound
<1>3. QED
    BY <1>1, <1>2, PTL DEF Spec

\* Between calls of configure() the saved settings go with the secret files,
\* and when Caddy runs anything else the next cycle of the reconciler notices,
\* except for files that were replaced under an equal configuration, which Caddy
\* does not read, and rollbacks that failed (app/tls.py, configure and _run).
THEOREM Agreement == Spec => []ConfigurationsAgree
<1>1. Inductive => TypeOK
    BY TypesAreRight DEF Inductive
<1>2. Inductive => SavedFitsFiles
    BY DEF Inductive, CallIsSound, SavedFitsFiles, Fits
<1>3. Inductive => DriftIsNoticed
    BY DEF Inductive, Typed, HashIsSound, DriftIsNoticed, ShouldApply, Loaded
<1>4. QED
    BY <1>1, <1>2, <1>3, Invariance, PTL DEF ConfigurationsAgree

\* The reconciler never loads settings it read before a change that has been
\* saved meanwhile, nor files that do not belong to them (app/tls.py, _run).
THEOREM NothingOutdated == Spec => ReconcilesCurrent
<1>1. Inductive /\ [Next]_tlsVars =>
          [cycle.pc = "apply" /\ cycle'.pc = "record" =>
              /\ loaded'.config = Rendered(saved, files)
              /\ loaded' # loaded =>
                     loaded' = Effect(Rendered(saved, files), files)]_tlsVars
    <2>1. SUFFICES ASSUME Inductive, Next, cycle.pc = "apply", cycle'.pc = "record"
                   PROVE  /\ loaded'.config = Rendered(saved, files)
                          /\ loaded' \in {loaded, Effect(Rendered(saved, files), files)}
        OBVIOUS
    <2>2. cycle.config = Rendered(saved, files) /\ call.pc = "idle"
        BY <2>1 DEF Inductive, CycleIsSound, Typed
    <2>3. ~Configure
        BY <2>1 DEF Configure, Begin, WriteSecret, WriteFails, Check, CheckFails,
            Activate, ActivateFails, Record, RecordFails, Restore, RestoreFails,
            Report, ReportFails, Rollback, RollbackFails, CallFails, CallOnly
    <2>4. ~Surroundings
        <3>1. ~(DbStops \/ DbReturns \/ CaddyStops \/ CaddyStarts)
            BY <2>1 DEF DbStops, DbReturns, CaddyStops, CaddyStarts
        <3>2. Restart => cycle'.pc = "probe"
            BY FreshCycles DEF Restart
        <3>3. QED
            BY <2>1, <3>1, <3>2 DEF Surroundings
    <2>5. Apply
        BY <2>1, <2>3, <2>4 DEF Next, Reconcile, Probe, Note, Sync, ApplyRecorded,
            Tell, Told
    <2>6. QED
        <3>1. LoadSucceeds(cycle.config)
            BY <2>1, <2>5, FreshCycles DEF Apply
        <3>2. QED
            BY <2>2, <3>1, LoadedNow
<1>2. QED
    BY <1>1, Invariance, PTL DEF Spec, ReconcilesCurrent
=============================================================================
