------------------------------ MODULE ApiKeys ------------------------------
(***************************************************************************)
(* The API keys of AuthManager in app/auth.py.  Handlers of the console    *)
(* change the table api_keys and then load the enabled keys into memory,   *)
(* in two steps without a common lock; request threads look keys up in     *)
(* what is loaded, and remember which they have accepted and refused.      *)
(*                                                                         *)
(* A secret stands for its digest too.  Times of last use are left out:    *)
(* they are written at leisure, and nothing reads them but the page.       *)
(***************************************************************************)
EXTENDS Naturals, FiniteSets, Sequences, SequencesExt

CONSTANTS
    Handlers,     \* threads that run handlers of the console
    Requesters,   \* threads that check keys
    Secrets,
    Legacy,       \* a digest from before version 1.20.17: no secret has it
    CacheLimit,   \* _API_KEY_CACHE_LIMIT
    MaxId,        \* bound: keys that are ever created
    MaxOps,       \* bound: calls of handlers
    MaxFaults     \* bound: statements that fail, restarts

ASSUME KeyConstants ==
    /\ Legacy \notin Secrets /\ "nobody" \notin Handlers
    /\ CacheLimit \in Nat \ {0} /\ MaxId \in Nat \ {0, 1}
    /\ MaxOps \in Nat /\ MaxFaults \in Nat

VARIABLES
    keys,       \* the rows of api_keys by their ids
    writer,     \* who has counted the enabled keys in an open transaction
    keyHandler, \* the handlers
    keyTable, verified, rejected, \* _api_keys and the two caches
    request,    \* the threads in verify_api_key()
    version,    \* history: changes of the enabled keys so far
    shown, due, \* history: of which change the table is, and should be
    raced,      \* history: secrets refused by a check that began too early
    keyOps, keyFaults

memory == <<keyTable, verified, rejected, shown, raced>>
keyVars == <<keys, writer, keyHandler, memory, request, version, due, keyOps,
             keyFaults>>

Nobody == "nobody"
Enabled(rows) == {i \in DOMAIN rows : rows[i].enabled}

\* What reload_api_keys() takes into its table: old digests are left out.
Usable(rows) == {rows[i].secret : i \in Enabled(rows)} \ {Legacy}

KeyRows == [secret : Secrets \cup {Legacy}, enabled : BOOLEAN]
IdleHandler == [pc |-> "idle", op |-> "none", id |-> 0, active |-> 0,
                since |-> 0, rows |-> {}, at |-> 0]
IdleRequest == [pc |-> "idle", secret |-> Legacy, valid |-> FALSE]

\* __init__ on what an earlier process has left.
Setup(rows) ==
    /\ keys = rows /\ writer = Nobody
    /\ keyHandler = [h \in Handlers |-> IdleHandler]
    /\ keyTable = Usable(rows) /\ verified = <<>> /\ rejected = <<>>
    /\ request = [r \in Requesters |-> IdleRequest]
    /\ version = 0 /\ shown = 0 /\ due = 0 /\ raced = {}
    /\ keyOps = 0 /\ keyFaults = 0

Init ==
    \E rows \in [1..2 -> KeyRows] :
        /\ Enabled(rows) # {} /\ rows[1].secret # rows[2].secret
        /\ Setup(rows)

Fault == keyFaults < MaxFaults /\ keyFaults' = keyFaults + 1
Later(v) == due' = IF v > due THEN v ELSE due

-----------------------------------------------------------------------------
(* Changes of the table.                                                   *)

Called(h) ==
    /\ keyHandler[h].pc = "idle" /\ keyOps < MaxOps /\ keyOps' = keyOps + 1

\* Mutant: a change that is committed is not followed by a reload.
GoesOnWithoutReload(h) == keyHandler' = [keyHandler EXCEPT ![h] = IdleHandler]

GoesOn(h) ==
    keyHandler' = [keyHandler EXCEPT ![h] =
        [IdleHandler EXCEPT !.pc = "read", !.since = version']]

\* A change is committed: the handler goes on to the reload.  If the commit is
\* not acknowledged it ends here instead.
Changed(h, rows) ==
    /\ keys' = rows /\ version' = version + 1
    /\ \/ GoesOn(h) /\ UNCHANGED <<due, keyFaults>>
       \/ /\ keyHandler' = [keyHandler EXCEPT ![h] = IdleHandler]
          /\ Fault /\ Later(version')

New(s) == s \in Secrets /\ \A i \in DOMAIN keys : keys[i].secret # s

\* Insertion and rotation are single autocommitted statements.  With SQLite
\* they wait for an open transaction, with MySQL they need not.
CreateKey(h, s) ==
    /\ Called(h) /\ New(s)
    /\ \E i \in (1..MaxId) \ DOMAIN keys :
          /\ \A j \in DOMAIN keys : j < i
          /\ Changed(h, [j \in DOMAIN keys \cup {i} |->
                 IF j = i THEN [secret |-> s, enabled |-> TRUE] ELSE keys[j]])
    /\ UNCHANGED <<writer, memory, request>>

RotateKey(h, i, s) ==
    /\ Called(h) /\ New(s) /\ i \in DOMAIN keys
    /\ Changed(h, [keys EXCEPT ![i].secret = s])
    /\ UNCHANGED <<writer, memory, request>>

\* Mutant: the count is an ordinary SELECT of its own.
CountUnlocked(h) == UNCHANGED writer

\* _lock_enabled_api_keys(): BEGIN IMMEDIATE, or the locking read of MySQL.
CountLocks(h) == writer = Nobody /\ writer' = h

CountKeys(h, op, i) ==
    /\ Called(h) /\ CountLocks(h)
    /\ keyHandler' = [keyHandler EXCEPT ![h] =
           [IdleHandler EXCEPT !.pc = "modify", !.op = op, !.id = i,
                               !.active = Cardinality(Enabled(keys))]]
    /\ UNCHANGED <<keys, memory, request, version, due, keyFaults>>

Refused(c) ==
    \/ c.id \notin DOMAIN keys
    \/ c.op # "enable" /\ c.active <= 1 /\ keys[c.id].enabled

ModifyKey(h) ==
    LET c == keyHandler[h]
    IN  /\ c.pc = "modify" /\ ~Refused(c)
        /\ Changed(h, IF c.op = "delete"
                      THEN [j \in DOMAIN keys \ {c.id} |-> keys[j]]
                      ELSE [keys EXCEPT ![c.id].enabled = c.op = "enable"])
        /\ writer' = IF writer = h THEN Nobody ELSE writer
        /\ UNCHANGED <<memory, request, keyOps>>

\* The guards and failing statements roll back and end the handler.
AbandonKey(h) ==
    /\ keyHandler[h].pc = "modify"
    /\ IF Refused(keyHandler[h]) THEN UNCHANGED keyFaults ELSE Fault
    /\ keyHandler' = [keyHandler EXCEPT ![h] = IdleHandler]
    /\ writer' = IF writer = h THEN Nobody ELSE writer
    /\ UNCHANGED <<keys, memory, request, version, due, keyOps>>

-----------------------------------------------------------------------------
(* reload_api_keys().                                                      *)

ReadKeys(h) ==
    /\ keyHandler[h].pc = "read"
    /\ keyHandler' = [keyHandler EXCEPT ![h].pc = "install",
                          ![h].rows = Usable(keys), ![h].at = version]
    /\ UNCHANGED <<keys, writer, memory, request, version, due, keyOps, keyFaults>>

ReadKeysFails(h) ==
    /\ keyHandler[h].pc = "read" /\ Fault /\ Later(keyHandler[h].since)
    /\ keyHandler' = [keyHandler EXCEPT ![h] = IdleHandler]
    /\ UNCHANGED <<keys, writer, memory, request, version, keyOps>>

\* Mutant: only keys that disappear change the cache of rejected keys.
ClearedNever == rejected
Cleared == <<>>

\* A check that is under way may meet the new table.
InstallKeys(h) ==
    LET c == keyHandler[h]
    IN  /\ c.pc = "install"
        /\ keyTable' = c.rows /\ shown' = c.at /\ Later(c.at)
        /\ rejected' = Cleared /\ raced' = {}
        /\ request' = [r \in Requesters |->
               [request[r] EXCEPT !.valid = @ \/ request[r].secret \in c.rows]]
        /\ keyHandler' = [keyHandler EXCEPT ![h] = IdleHandler]
        /\ UNCHANGED <<keys, writer, verified, version, keyOps, keyFaults>>

-----------------------------------------------------------------------------
(* verify_api_key(), each step under the lock.                             *)

ChecksOnly == UNCHANGED <<keys, writer, keyHandler, keyTable, version, shown, due,
                          keyOps, keyFaults>>
Step(r, pc) == request' = [request EXCEPT ![r].pc = pc]
Holds(cache, s) == Contains(cache, s)

\* _remember_api_key(): a full dictionary loses its oldest entry first, even
\* if the key is there already.
Remembered(cache, s) ==
    LET kept == IF Len(cache) >= CacheLimit THEN Tail(cache) ELSE cache
    IN  IF Holds(kept, s) THEN kept ELSE Append(kept, s)

\* A key that was rejected, and not accepted since, is refused at once.
LookUp(r, s) ==
    /\ request[r].pc = "idle"
    /\ ~(Holds(rejected, s) /\ ~Holds(verified, s))
    /\ request' = [request EXCEPT ![r] =
           [pc |-> "find", secret |-> s, valid |-> s \in keyTable]]
    /\ UNCHANGED <<verified, rejected, raced>> /\ ChecksOnly

\* Mutant: a key that was accepted once is not looked up again.
KnownOnce(s) == s \in keyTable \/ Holds(verified, s)
Known(s) == s \in keyTable

Find(r) ==
    /\ request[r].pc = "find"
    /\ Step(r, IF Known(request[r].secret) THEN "accept" ELSE "forget")
    /\ UNCHANGED <<verified, rejected, raced>> /\ ChecksOnly

Accept(r) ==
    /\ request[r].pc = "accept"
    /\ verified' = Remembered(verified, request[r].secret)
    /\ request' = [request EXCEPT ![r] = IdleRequest]
    /\ UNCHANGED <<rejected, raced>> /\ ChecksOnly

Forget(r) ==
    /\ request[r].pc = "forget"
    /\ verified' = RemoveFirst(verified, request[r].secret)
    /\ Step(r, "reject")
    /\ UNCHANGED <<rejected, raced>> /\ ChecksOnly

Reject(r) ==
    LET s == request[r].secret
    IN  /\ request[r].pc = "reject"
        /\ rejected' = Remembered(rejected, s)
        /\ raced' = raced \cup ({s} \cap keyTable)
        /\ request' = [request EXCEPT ![r] = IdleRequest]
        /\ UNCHANGED verified /\ ChecksOnly

-----------------------------------------------------------------------------

\* The process ends anywhere, its open transaction is rolled back.
RestartKeys ==
    /\ Fault
    /\ writer' = Nobody /\ keyHandler' = [h \in Handlers |-> IdleHandler]
    /\ keyTable' = Usable(keys) /\ verified' = <<>> /\ rejected' = <<>>
    /\ request' = [r \in Requesters |-> IdleRequest]
    /\ shown' = version /\ due' = version /\ raced' = {}
    /\ UNCHANGED <<keys, version, keyOps>>

Handle(h) ==
    \/ \E s \in Secrets : CreateKey(h, s) \/ \E i \in 1..MaxId : RotateKey(h, i, s)
    \/ \E op \in {"enable", "disable", "delete"}, i \in 1..MaxId : CountKeys(h, op, i)
    \/ ModifyKey(h) \/ AbandonKey(h)
    \/ ReadKeys(h) \/ ReadKeysFails(h) \/ InstallKeys(h)
Verify(r) ==
    \/ \E s \in Secrets : LookUp(r, s)
    \/ Find(r) \/ Accept(r) \/ Forget(r) \/ Reject(r)

Next == (\E h \in Handlers : Handle(h)) \/ (\E r \in Requesters : Verify(r))
        \/ RestartKeys
Spec == Init /\ [][Next]_keyVars

-----------------------------------------------------------------------------
(* What is checked.                                                        *)

Caches == {c \in BoundedSeq(Secrets, CacheLimit) : IsInjective(c)}
KeysTypeOK ==
    /\ DOMAIN keys \subseteq 1..MaxId
    /\ \A i \in DOMAIN keys : keys[i] \in KeyRows
    /\ \A i, j \in DOMAIN keys : keys[i].secret = keys[j].secret => i = j
    /\ keyTable \subseteq Secrets
    /\ verified \in Caches /\ rejected \in Caches
    /\ shown <= due /\ due <= version
    /\ \A h \in Handlers : writer = h <=> keyHandler[h].pc = "modify"

\* Whatever two handlers disable and delete at the same time, one key stays
\* enabled (auth.py: "otherwise two concurrent disable/delete requests can each
\* see two enabled keys and together leave none").
OneEnabledRemains == Enabled(keys) # {}

\* When the handlers are done, exactly the enabled keys are accepted, unless a
\* reload failed or one that had read earlier ended later than another; the
\* next change of any key puts that right.
TableIsCurrent ==
    (\A h \in Handlers : keyHandler[h].pc \in {"idle", "modify"}) /\ shown = due
        => keyTable = Usable(keys)

\* A check that accepts a key has seen it loaded at some time between its begin
\* and its end, whatever was accepted before.
RevokedIsRefused ==
    \A r \in Requesters : request[r].pc = "accept" => request[r].valid

\* A loaded key is refused out of the cache only if a check had looked for it
\* before it was loaded and remembered the refusal after (auth.py: "A rejected
\* key may since have been created; re-derive on next use").
RejectedAreUnknown ==
    \A s \in keyTable : Holds(rejected, s) => s \in raced

\* The table, what is loaded of it and what is remembered go together.
AccessIsCurrent ==
    /\ KeysTypeOK /\ OneEnabledRemains /\ TableIsCurrent
    /\ RevokedIsRefused /\ RejectedAreUnknown
=============================================================================
