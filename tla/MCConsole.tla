----------------------------- MODULE MCConsole -----------------------------
(***************************************************************************)
(* The console and the storage under it: the parts of MCStorage, and those *)
(* of the console, API keys (ApiKeys), credentials and sessions            *)
(* (AdminSessions), the bounded pools (Admission), the limits of sign-in   *)
(* (LoginLimiter), and the caches of the pages (RdnsCache, ViewCache).  A  *)
(* behaviour is about one of them, which is chosen at the start.           *)
(***************************************************************************)
EXTENDS MCStorage, ApiKeys

CONSTANTS
    Visitors, MaxTokens, MaxCredentials, MaxSessionFaults,
    Plain, Posts, Slots, Workers, MaxAdmissionFaults,
    Peers, Window, PeerLimit, GlobalLimit, Capacity, MaxClock,
    Resolvers, Addresses, PositiveTtl, NegativeTtl, Limit, ExpiredBatch,
    OldestBatch, MaxRdnsTime, MaxClears,
    Viewers, Keys, Ttl, CacheSize, MaxViewTime

ASSUME SessionConstants == MaxTokens \in Nat /\ MaxCredentials \in Nat
ASSUME AdmissionConstants ==
    Slots \in Nat /\ IsFiniteSet(Plain) /\ IsFiniteSet(Posts)
ASSUME LimiterConstants ==
    /\ {Window, Capacity} \subseteq Nat \ {0}
    /\ {PeerLimit, GlobalLimit, MaxClock} \subseteq Nat
ASSUME RdnsConstants ==
    /\ Addresses # {} /\ OldestBatch \in Nat \ {0}
    /\ {PositiveTtl, NegativeTtl, Limit, ExpiredBatch} \subseteq Nat
ASSUME ViewConstants ==
    /\ "none" \notin Viewers \cup Keys
    /\ CacheSize \in Nat \ {0} /\ {Ttl, MaxViewTime} \subseteq Nat

VARIABLES
    credentials, sessions, visitor, issued, undeleted, sessionFaults,
    free, waiting, work, caller, formOpen, cancelled, admissionFaults,
    clock, peers, attempts, everyone, granted, forgotten,
    rdnsTime, cached, generation, resolver,
    kind, viewTime, entries, computing, viewer, used, expiry, wasted

sessionVars == <<credentials, sessions, visitor, issued, undeleted, sessionFaults>>
admissionVars == <<free, waiting, work, caller, formOpen, cancelled,
                   admissionFaults>>
limiterVars == <<clock, peers, attempts, everyone, granted, forgotten>>
rdnsVars == <<rdnsTime, cached, generation, resolver>>
viewVars == <<kind, viewTime, entries, computing, viewer, used, expiry, wasted>>

Sessions == INSTANCE AdminSessions WITH
    MaxChanges <- MaxCredentials, MaxFaults <- MaxSessionFaults
Pages == INSTANCE Admission WITH MaxFaults <- MaxAdmissionFaults
SignIns == INSTANCE LoginLimiter WITH MaxTime <- MaxClock
Rdns == INSTANCE RdnsCache WITH MaxTime <- MaxRdnsTime
Views == INSTANCE ViewCache WITH MaxTime <- MaxViewTime

consoleVars == <<sessionVars, admissionVars, limiterVars, rdnsVars, viewVars>>

\* Two rows that the parts without keys have besides.
SomeKeys == CHOOSE rows \in [1..2 -> KeyRows] :
    Enabled(rows) = {1, 2} /\ rows[1].secret # rows[2].secret

\* Secrets are interchangeable: the first row has a certain one, or an old digest.
FirstSecret == CHOOSE s \in Secrets : TRUE

ConsoleInit ==
    /\ part \in {"store", "pool", "rollups", "upgrade", "migration", "keys",
                 "sessions", "pages", "sign-ins", "rdns", "views"}
    /\ StorageInit
    /\ IF part = "keys" THEN Init /\ keys[1].secret \in {FirstSecret, Legacy}
                        ELSE Setup(SomeKeys)
    /\ Sessions!Init /\ Pages!Init /\ SignIns!Init /\ Rdns!Init
    /\ Views!Init /\ (part # "views" => kind = "counts")

OnlyConsole(A) == A /\ UNCHANGED <<storageVars, keyVars>>
ConsoleNext ==
    /\ part' = part
    /\ \/ StorageNext /\ UNCHANGED <<keyVars, consoleVars>>
       \/ part = "keys" /\ Next /\ UNCHANGED <<storageVars, consoleVars>>
       \/ OnlyConsole(/\ part = "sessions" /\ Sessions!Next
                      /\ UNCHANGED <<admissionVars, limiterVars, rdnsVars, viewVars>>)
       \/ OnlyConsole(/\ part = "pages" /\ Pages!Next
                      /\ UNCHANGED <<sessionVars, limiterVars, rdnsVars, viewVars>>)
       \/ OnlyConsole(/\ part = "sign-ins" /\ SignIns!Next
                      /\ UNCHANGED <<sessionVars, admissionVars, rdnsVars, viewVars>>)
       \/ OnlyConsole(/\ part = "rdns" /\ Rdns!Next
                      /\ UNCHANGED <<sessionVars, admissionVars, limiterVars, viewVars>>)
       \/ OnlyConsole(/\ part = "views" /\ Views!Next
                      /\ UNCHANGED <<sessionVars, admissionVars, limiterVars, rdnsVars>>)
ConsoleSpec == ConsoleInit /\ [][ConsoleNext]_<<part, storageVars, keyVars, consoleVars>>

-----------------------------------------------------------------------------

\* Between changes every session was opened under the current credentials,
\* whatever sign-ins, other changes and restarts come in between (app/auth.py).
SessionsAreCurrent ==
    part = "sessions" => Sessions!SessionsTypeOK /\ Sessions!SessionsAreCurrent

\* Every slot of a pool is free or belongs to a function that is queued or runs,
\* whatever became of its caller, and a handler that runs finds its form open;
\* sign-ins are refused if and only if the limits say so (app/admin.py).
AdmissionIsBounded ==
    /\ part = "pages" =>
          Pages!AdmissionTypeOK /\ Pages!SlotsAreWork /\ Pages!FormsOutliveWork
    /\ part = "sign-ins" =>
          SignIns!LimiterTypeOK /\ SignIns!LimitsHold /\ SignIns!RefusalsAreDue

\* The caches stay within their limits; that of names holds nothing that was
\* asked for before it was cleared, and those of pages compute nothing twice
\* while it is current (app/rdns.py, app/query_cache.py, app/statistics.py).
CachesAreSound ==
    /\ part = "rdns" => Rdns!RdnsTypeOK /\ Rdns!NothingFromBeforeClear
    /\ part = "views" => Views!ViewTypeOK /\ Views!ComputedOnce
=============================================================================
