----------------------------- MODULE RdnsCache -----------------------------
(***************************************************************************)
(* The cache of ReverseDnsResolver in app/rdns.py: resolve(), which        *)
(* resolve_many() also runs in worker threads that may outlast the page,   *)
(* beside clear_cache(), which a flush of the PTR cache calls.             *)
(*                                                                         *)
(* Names are not told apart from each other: what matters is whether there *)
(* is one, which decides how long an entry lives, and how old it is.       *)
(***************************************************************************)
EXTENDS Naturals, Sequences, FiniteSets, SequencesExt, Selections

CONSTANTS
    Resolvers,                 \* threads
    Addresses,
    PositiveTtl, NegativeTtl,
    Limit,                     \* 4096 entries
    ExpiredBatch, OldestBatch, \* 2048 and 1024: how many go when there are more
    MaxTime, MaxClears         \* bounds

VARIABLES
    rdnsTime,
    cached,      \* _cache in the order of insertion, with the time of the question
    generation,  \* _cache_generation
    resolver     \* the threads in resolve()

rdnsVars == <<rdnsTime, cached, generation, resolver>>

Entry == [address : Addresses, named : BOOLEAN, expires : Nat,
          asked : Nat]
AtRest == [pc |-> "idle", address |-> CHOOSE a \in Addresses : TRUE,
           generation |-> 0, named |-> FALSE, asked |-> 0]

Init ==
    /\ rdnsTime = 0 /\ cached = <<>> /\ generation = 0
    /\ resolver = [r \in Resolvers |-> AtRest]

Live(e) == e.expires > rdnsTime
EntryOf(a) == {e \in ToSet(cached) : e.address = a}
Without(a) == RemoveFirstMatch(cached, LAMBDA e : e.address = a)

\* Under the lock: the generation is read, and the cache; an expired entry goes.
Consult(r, a) ==
    /\ resolver[r].pc = "idle"
    /\ ~\E e \in EntryOf(a) : Live(e)
    /\ cached' = Without(a)
    /\ resolver' = [resolver EXCEPT ![r] = [AtRest EXCEPT !.pc = "ask", !.address = a,
                                            !.generation = generation]]
    /\ UNCHANGED <<rdnsTime, generation>>

\* The lookup, without the lock.  Failures and missing names are no name.
Ask(r) ==
    /\ resolver[r].pc = "ask"
    /\ \E named \in BOOLEAN :
          resolver' = [resolver EXCEPT ![r].pc = "put", ![r].named = named,
                                       ![r].asked = generation]
    /\ UNCHANGED <<rdnsTime, cached, generation>>

Put(r) ==
    [address |-> resolver[r].address, named |-> resolver[r].named,
     expires |-> rdnsTime + (IF resolver[r].named THEN PositiveTtl ELSE NegativeTtl),
     asked |-> resolver[r].asked]

\* A new value takes the place of an old one in the dictionary.
Inserted(e) ==
    IF EntryOf(e.address) = {} THEN Append(cached, e)
    ELSE [i \in DOMAIN cached |-> IF cached[i].address = e.address THEN e ELSE cached[i]]

\* Mutant: only what has expired makes room.
TrimmedExpired(c) ==
    LET expired == {i \in DOMAIN c : ~Live(c[i])}
        first   == {i \in expired :
                       Cardinality({j \in expired : j <= i}) <= ExpiredBatch}
    IN  IF Len(c) <= Limit THEN c ELSE Keep(c, DOMAIN c \ first)

\* Room is made of expired entries, and of the oldest if there are too few.
Trimmed(c) ==
    LET rest == TrimmedExpired(c)
    IN  IF Len(rest) <= Limit THEN rest ELSE SubSeq(rest, OldestBatch + 1, Len(rest))

\* Mutant: an answer is stored whenever it comes.
CurrentAlways(r) == TRUE
Current(r) == resolver[r].generation = generation

Store(r) ==
    /\ resolver[r].pc = "put"
    /\ resolver' = [resolver EXCEPT ![r] = AtRest]
    /\ cached' = IF Current(r) THEN Trimmed(Inserted(Put(r))) ELSE cached
    /\ UNCHANGED <<rdnsTime, generation>>

ClearCache ==
    /\ generation < MaxClears /\ generation' = generation + 1 /\ cached' = <<>>
    /\ UNCHANGED <<rdnsTime, resolver>>

RdnsTick ==
    /\ rdnsTime < MaxTime /\ rdnsTime' = rdnsTime + 1
    /\ UNCHANGED <<cached, generation, resolver>>

Next ==
    \/ \E r \in Resolvers : (\E a \in Addresses : Consult(r, a)) \/ Ask(r) \/ Store(r)
    \/ ClearCache \/ RdnsTick
Spec == Init /\ [][Next]_rdnsVars

-----------------------------------------------------------------------------

\* The cache stays within its limit, with one entry for an address.
RdnsTypeOK ==
    /\ \A i \in DOMAIN cached : cached[i] \in Entry
    /\ \A i, j \in DOMAIN cached : cached[i].address = cached[j].address => i = j
    /\ Len(cached) <= Limit

\* Nothing in the cache was asked for before it was last cleared, however long
\* the answer took (rdns.py: "Invalidate positive/negative answers, including
\* in-progress lookups").
NothingFromBeforeClear == \A e \in ToSet(cached) : e.asked = generation
=============================================================================
