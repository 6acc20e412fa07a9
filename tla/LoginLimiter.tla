--------------------------- MODULE LoginLimiter ---------------------------
(***************************************************************************)
(* LoginLimiter of app/admin.py: sign-in attempts within a sliding window, *)
(* per peer and for all peers together.  Of the peers the least recent is  *)
(* forgotten when there are too many.  A check runs under a lock.          *)
(***************************************************************************)
EXTENDS Naturals, Sequences, FiniteSets, SequencesExt, Selections

CONSTANTS
    Peers,
    Window,      \* 60 seconds
    PeerLimit,   \* 10
    GlobalLimit, \* 100
    Capacity,    \* 4096 peers
    MaxTime      \* bound: the clock

VARIABLES
    clock,
    peers,      \* the OrderedDict: the peers, least recent first
    attempts,   \* its values
    everyone,   \* global_attempts
    granted,    \* history: the attempts that were let through in the window
    forgotten   \* history: peers forgotten with attempts in the window

limiterVars == <<clock, peers, attempts, everyone, granted, forgotten>>

Init ==
    /\ clock = 0 /\ peers = <<>> /\ everyone = <<>> /\ forgotten = {}
    /\ attempts = [p \in Peers |-> <<>>] /\ granted = [p \in Peers |-> <<>>]

\* t > now - 60
Recent(times, now) == Keep(times, {i \in DOMAIN times : times[i] + Window > now})

\* Mutant: one attempt too many.
OverLimit(mine, all) == Len(mine) > PeerLimit \/ Len(all) > GlobalLimit

AtLimit(mine, all) == Len(mine) >= PeerLimit \/ Len(all) >= GlobalLimit

\* Mutant: a refused attempt counts as well.
NotedAlways(times, refused) == Append(times, clock)
Noted(times, refused) == IF refused THEN times ELSE Append(times, clock)

Check(p) ==
    LET mine == Recent(attempts[p], clock)
        all  == Recent(everyone, clock)
        refused == AtLimit(mine, all)
        seated == Append(RemoveFirst(peers, p), p)
        kept == IF Len(seated) > Capacity THEN Tail(seated) ELSE seated
        gone == ToSet(seated) \ ToSet(kept)
    IN  /\ peers' = kept
        /\ attempts' = [q \in Peers |-> IF q = p THEN Noted(mine, refused)
                                        ELSE IF q \in gone THEN <<>> ELSE attempts[q]]
        /\ everyone' = Noted(all, refused)
        /\ granted' = IF refused THEN granted
                      ELSE [granted EXCEPT ![p] = Append(@, clock)]
        /\ forgotten' = forgotten \cup {q \in gone : granted[q] # <<>>}
        /\ UNCHANGED clock

Tick ==
    /\ clock < MaxTime /\ clock' = clock + 1
    /\ granted' = [p \in Peers |-> Recent(granted[p], clock')]
    /\ forgotten' = {p \in forgotten : granted'[p] # <<>>}
    /\ UNCHANGED <<peers, attempts, everyone>>

Next == Tick \/ \E p \in Peers : Check(p)
Spec == Init /\ [][Next]_limiterVars

-----------------------------------------------------------------------------

\* The limiter's memory stays within its capacity.
LimiterTypeOK ==
    /\ clock \in 0..MaxTime /\ Len(peers) <= Capacity /\ IsInjective(peers)
    /\ \A p \in Peers : Contains(peers, p) \/ attempts[p] = <<>>
    /\ Len(everyone) <= GlobalLimit

\* In any window no more attempts are let through than the limits, for a peer
\* as long as it is remembered (docs/OPERATIONS.md: "Sign-in attempts are
\* limited to 10 per peer and 100 globally per minute").
LimitsHold ==
    /\ Cardinality(UNION {{<<p, i>> : i \in DOMAIN granted[p]} : p \in Peers})
          <= GlobalLimit
    /\ \A p \in Peers \ forgotten : Len(granted[p]) <= PeerLimit

\* An attempt is refused only for others that were let through in the window:
\* what is remembered is what was granted, and refusals do not prolong a limit.
RefusalsAreDue ==
    \A p \in Peers \ forgotten : Recent(attempts[p], clock) = granted[p]
=============================================================================
