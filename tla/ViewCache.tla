----------------------------- MODULE ViewCache -----------------------------
(***************************************************************************)
(* The short-lived caches behind the pages of the console: QueryCountCache *)
(* of app/query_cache.py and StatisticsCache of app/statistics.py.  Both   *)
(* hold a lock while a missing value is computed, so that viewers share    *)
(* one computation.  They differ in what they forget: the first keeps the  *)
(* keys used last, the second drops what has expired.                      *)
(***************************************************************************)
EXTENDS Naturals, Sequences, FiniteSets, SequencesExt, Selections

CONSTANTS
    Viewers, Keys,
    Ttl,
    CacheSize,   \* capacity of QueryCountCache
    MaxTime      \* bound: the clock

VARIABLES
    kind,       \* which of the two it is
    viewTime,
    entries,    \* the dictionary in its order
    computing,  \* who holds the lock and computes, and since when
    viewer,     \* what each viewer waits for
    used,       \* history: keys by their last use
    expiry,     \* history: when the value last computed for a key expires
    wasted      \* history: a computation that was not due

viewVars == <<kind, viewTime, entries, computing, viewer, used, expiry, wasted>>

None == "none"
EntryType == [key : Keys, expires : 0..(MaxTime + Ttl)]
NotComputing == [by |-> None, now |-> 0]

Setup(k) ==
    /\ kind = k /\ viewTime = 0 /\ entries = <<>> /\ computing = NotComputing
    /\ viewer = [v \in Viewers |-> None] /\ used = <<>>
    /\ expiry = [x \in Keys |-> 0] /\ wasted = FALSE
Init == \E k \in {"counts", "statistics"} : Setup(k)

OtherEntries(x) == RemoveFirstMatch(entries, LAMBDA e : e.key = x)
UsedNow(x) == Append(RemoveFirst(used, x), x)
Found(x) == {e \in ToSet(entries) : e.key = x /\ e.expires > viewTime}

Request(v, x) ==
    /\ viewer[v] = None /\ viewer' = [viewer EXCEPT ![v] = x]
    /\ UNCHANGED <<kind, viewTime, entries, computing, used, expiry, wasted>>

\* Mutant: a hit does not count as use.
AfterHitUnmoved(x) == entries

\* QueryCountCache moves a key that is used to the end.
AfterHit(x) ==
    IF kind = "statistics" THEN entries
    ELSE Append(OtherEntries(x), CHOOSE e \in ToSet(entries) : e.key = x)

Hit(v) ==
    /\ viewer[v] # None /\ computing.by = None /\ Found(viewer[v]) # {}
    /\ entries' = AfterHit(viewer[v])
    /\ used' = UsedNow(viewer[v])
    /\ viewer' = [viewer EXCEPT ![v] = None]
    /\ UNCHANGED <<kind, viewTime, computing, expiry, wasted>>

\* A value that has not expired should be there: among the keys used last, as
\* many as the capacity, or whatever its use.
Kept(x) ==
    /\ expiry[x] > viewTime
    /\ kind = "counts" => x \in ToSet(SubSeq(Reverse(used), 1,
                              IF Len(used) < CacheSize THEN Len(used) ELSE CacheSize))

Miss(v) ==
    /\ viewer[v] # None /\ computing.by = None /\ Found(viewer[v]) = {}
    /\ computing' = [by |-> v, now |-> viewTime]
    /\ wasted' = (wasted \/ Kept(viewer[v]))
    /\ UNCHANGED <<kind, viewTime, entries, viewer, used, expiry>>

\* The value is stored with the time at which it was there.
StoredEntries(x) ==
    LET e == [key |-> x, expires |-> viewTime + Ttl]
        all == Append(OtherEntries(x), e)
        current == {i \in DOMAIN entries :
                       entries[i].key # x /\ entries[i].expires > computing.now}
    IN  IF kind = "statistics" THEN Append(Keep(entries, current), e)
        ELSE IF Len(all) > CacheSize THEN Tail(all) ELSE all

Computed(v) ==
    LET key == viewer[v]
    IN  /\ computing.by = v /\ computing' = NotComputing
        /\ entries' = StoredEntries(key)
        /\ expiry' = [expiry EXCEPT ![key] = viewTime + Ttl]
        /\ used' = UsedNow(key)
        /\ viewer' = [viewer EXCEPT ![v] = None]
        /\ UNCHANGED <<kind, viewTime, wasted>>

\* The query raises: nothing is stored, and the lock is released.
ComputeFails(v) ==
    /\ computing.by = v /\ computing' = NotComputing
    /\ viewer' = [viewer EXCEPT ![v] = None]
    /\ UNCHANGED <<kind, viewTime, entries, used, expiry, wasted>>

ViewTick ==
    /\ viewTime < MaxTime /\ viewTime' = viewTime + 1
    /\ UNCHANGED <<kind, entries, computing, viewer, used, expiry, wasted>>

Next ==
    \/ \E v \in Viewers : (\E x \in Keys : Request(v, x)) \/ Hit(v) \/ Miss(v)
                          \/ Computed(v) \/ ComputeFails(v)
    \/ ViewTick
Spec == Init /\ [][Next]_viewVars

-----------------------------------------------------------------------------

ViewTypeOK ==
    /\ \A i \in DOMAIN entries : entries[i] \in EntryType
    /\ \A i, j \in DOMAIN entries : entries[i].key = entries[j].key => i = j
    /\ kind = "counts" => Len(entries) <= CacheSize

\* Viewers share: a value is computed again only after it has expired, or, for
\* the counts, after as many other keys were used since as the cache holds.
ComputedOnce == ~wasted
=============================================================================
