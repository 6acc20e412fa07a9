--------------------------- MODULE PolicyDecision ---------------------------
(***************************************************************************)
(* The decision procedure of app/policy.py for one question, from the rows *)
(* an administrator saved to the answer: _reload_full compiles the rows    *)
(* into the indexes and bit masks of a PolicySnapshot, and decide() looks  *)
(* the client and the domain up in them.  The second half of the module    *)
(* states the order of precedence of docs/USER_GUIDE.md directly on the    *)
(* rows, without indexes, masks or iteration orders.                       *)
(*                                                                         *)
(* An address is a family and a number; a host name, a domain or a         *)
(* wildcard suffix is a sequence of labels; a schedule is the set of       *)
(* instants at which it is active.  A mask is the set of its bits.         *)
(***************************************************************************)
EXTENDS Integers, Sequences, FiniteSets

CONSTANTS
    Width4, Width6, \* bits of an IPv4 and of an IPv6 address
    Nobody          \* no target, no list, no name

Width(family) == IF family = 4 THEN Width4 ELSE Width6

\* Powers of two are positive, which is arithmetic that no prover is told of.
ASSUME WidthsOK ==
    /\ Width4 \in Nat /\ Width6 \in Nat
    /\ \A n \in 0..Width4 \cup 0..Width6 : 2 ^ n \in Nat \ {0}

-----------------------------------------------------------------------------
(* Rows.  A configuration is [lists, scopes, identities, global_blocking,  *)
(* unmatched, reach].  Targets of kind network have a set of networks      *)
(* [family, prefix, base], those of kind hostname a pattern [wild, name],  *)
(* those of kind client an address [family, value].                        *)

\* The item of a set of rows with the lowest id.
Oldest(rows) == CHOOSE r \in rows : \A other \in rows : r.id <= other.id

\* Rows in the order of their ids (ORDER BY id).
ById(rows) ==
    [k \in 1..Cardinality(rows) |->
        CHOOSE r \in rows :
            Cardinality({other \in rows : other.id < r.id}) = k - 1]

\* The items of a set of sequences or numbers, in decreasing order of Key.
Descending(items, Key(_)) ==
    CHOOSE order \in [1..Cardinality(items) -> items] :
        /\ {order[k] : k \in DOMAIN order} = items
        /\ \A j, k \in DOMAIN order : j < k => Key(order[j]) >= Key(order[k])

-----------------------------------------------------------------------------
(* The snapshot.                                                           *)

\* Mutant: memberships are read in another order than the bits are dealt.
BitsInReverse(order, ids) ==
    {Len(order) + 1 - k : k \in {j \in DOMAIN order : order[j].id \in ids}}

Bits(order, ids) == {k \in DOMAIN order : order[k].id \in ids}

DomainMask(order, domain) ==
    {k \in DOMAIN order : order[k].enabled /\ domain \in order[k].domains}

CompileScope(order, row) ==
    [id |-> row.id, kind |-> row.kind, target |-> row.target,
     state |-> row.state, whitelisted |-> row.whitelisted,
     hours |-> row.hours, mask |-> Bits(order, row.lists)]

Compile(config) ==
    LET order == ById(config.lists)
        enabled == {k \in DOMAIN order : order[k].enabled}
        scopes == {CompileScope(order, r) : r \in config.scopes}
        ofKind(kind) == {s \in scopes : s.kind = kind}
        wildcards == {s \in ofKind("hostname") : s.target.wild}
        prefixes(family) ==
            {n.prefix : n \in {m \in UNION {s.target : s \in ofKind("network")} :
                                  m.family = family}}
    IN  [order |-> order,
         global_list_mask |-> {k \in enabled : order[k].use_globally},
         whitelist_mask |-> {k \in enabled : order[k].type = "whitelist"},
         block_mask |-> {k \in enabled : order[k].type = "block"},
         client_scopes |-> ofKind("client"),
         exact_hostname_scopes |-> ofKind("hostname") \ wildcards,
         wildcard_hostname_scopes |-> wildcards,
         wildcard_suffixes |-> Descending({s.target.name : s \in wildcards}, Len),
         network_scopes |-> ofKind("network"),
         network_prefixes |-> [family \in {4, 6} |->
                                  Descending(prefixes(family), LAMBDA p : p)],
         identities |-> config.identities,
         global_blocking |-> config.global_blocking,
         unmatched |-> config.unmatched,
         reach |-> config.reach]

-----------------------------------------------------------------------------
(* Target lookup.                                                          *)

Suffix(name, from) == SubSeq(name, from, Len(name))

\* client_name.endswith("." + suffix)
EndsWith(name, suffix) ==
    /\ Len(suffix) < Len(name)
    /\ Suffix(name, Len(name) - Len(suffix) + 1) = suffix

\* Mutant: looks only at the oldest target of the key, active or not.
FirstScheduledScopeOldestOnly(scopes, now, whitelist_only) ==
    LET eligible == {s \in scopes : whitelist_only => s.whitelisted}
    IN  IF eligible = {} THEN Nobody
        ELSE IF now \in Oldest(eligible).hours THEN Oldest(eligible)
        ELSE Nobody

FirstScheduledScope(scopes, now, whitelist_only) ==
    LET eligible == {s \in scopes : /\ whitelist_only => s.whitelisted
                                    /\ now \in s.hours}
    IN  IF eligible = {} THEN Nobody ELSE Oldest(eligible)

\* The first answer that a loop over `keys` finds.
FirstAnswer(keys, Answer(_)) ==
    LET hits == {k \in DOMAIN keys : Answer(keys[k]) # Nobody}
    IN  IF hits = {} THEN Nobody
        ELSE Answer(keys[CHOOSE k \in hits : \A j \in hits : k <= j])

ClientScope(snapshot, ip, now, whitelist_only) ==
    FirstScheduledScope({s \in snapshot.client_scopes : s.target = ip},
                        now, whitelist_only)

HostnameScope(snapshot, ip, now, whitelist_only) ==
    LET name == snapshot.identities[ip]
        exact == FirstScheduledScope(
                    {s \in snapshot.exact_hostname_scopes :
                        s.target.name = name}, now, whitelist_only)
        under(suffix) ==
            IF EndsWith(name, suffix)
            THEN FirstScheduledScope(
                    {s \in snapshot.wildcard_hostname_scopes :
                        s.target.name = suffix}, now, whitelist_only)
            ELSE Nobody
    IN  IF name = Nobody THEN Nobody
        ELSE IF exact # Nobody THEN exact
        ELSE FirstAnswer(snapshot.wildcard_suffixes, under)

NetworkValue(ip, prefix) ==
    LET size == 2 ^ (Width(ip.family) - prefix)
    IN  (ip.value \div size) * size

NetworkScope(snapshot, ip, now, whitelist_only) ==
    LET at(prefix) ==
            FirstScheduledScope(
                {s \in snapshot.network_scopes :
                    [family |-> ip.family, prefix |-> prefix,
                     base |-> NetworkValue(ip, prefix)] \in s.target},
                now, whitelist_only)
    IN  FirstAnswer(snapshot.network_prefixes[ip.family], at)

MatchingScopes(snapshot, ip, now, whitelist_only) ==
    <<ClientScope(snapshot, ip, now, whitelist_only),
      HostnameScope(snapshot, ip, now, whitelist_only),
      NetworkScope(snapshot, ip, now, whitelist_only)>>

FirstScope(scopes) == FirstAnswer(scopes, LAMBDA s : s)

-----------------------------------------------------------------------------
(* List lookup.                                                            *)

\* Mutant: without a target of its own a client never gets the global lists.
CandidateListMaskTargetsOnly(snapshot, scope) ==
    IF scope = Nobody THEN {} ELSE scope.mask \cup snapshot.global_list_mask

CandidateListMask(snapshot, scope) ==
    (IF scope = Nobody THEN {} ELSE scope.mask)
    \cup (IF snapshot.reach = "all_clients" \/ scope # Nobody
          THEN snapshot.global_list_mask ELSE {})

ActiveListMask(snapshot, now) ==
    {k \in DOMAIN snapshot.order : /\ snapshot.order[k].enabled
                                   /\ now \in snapshot.order[k].hours}

\* suffixes(): the name and its parents, down to two labels.
Suffixes(qname) ==
    [k \in 1..(IF Len(qname) > 2 THEN Len(qname) - 1 ELSE 1) |->
        Suffix(qname, k)]

MatchedList(snapshot, qname, active, type_mask) ==
    LET masks == [k \in DOMAIN Suffixes(qname) |->
                     DomainMask(snapshot.order, Suffixes(qname)[k])]
        matches == (UNION {masks[k] : k \in DOMAIN masks})
                   \cap active \cap type_mask
        lowest == CHOOSE b \in matches : \A other \in matches : b <= other
    IN  IF matches = {} THEN Nobody
        ELSE [list |-> snapshot.order[lowest].id,
              domain |-> FirstAnswer(Suffixes(qname),
                            LAMBDA d : IF lowest \in DomainMask(snapshot.order, d)
                                       THEN d ELSE Nobody)]

-----------------------------------------------------------------------------
(* decide().                                                               *)

Answer(block, reason, scope, match) ==
    [block |-> block, reason |-> reason,
     matched_scope |-> IF scope = Nobody THEN Nobody ELSE scope.id,
     matched_list |-> IF match = Nobody THEN Nobody ELSE match.list,
     matched_domain |-> IF match = Nobody THEN Nobody ELSE match.domain]

PausedReason(kind) ==
    CASE kind = "client" -> "client_paused"
      [] kind = "hostname" -> "hostname_paused"
      [] kind = "network" -> "network_paused"

WhitelistReason(kind) ==
    IF kind = "client" THEN "endpoint_whitelisted" ELSE "scope_whitelisted"

\* What is left when no list decides.
Unlisted(snapshot, scope, reason) ==
    IF scope = Nobody /\ snapshot.unmatched = "deny"
    THEN Answer(TRUE, "no_scope_default_deny", Nobody, Nobody)
    ELSE Answer(FALSE, reason, scope, Nobody)

ListDecision(snapshot, scope, qname, scheduled) ==
    LET active == CandidateListMask(snapshot, scope) \cap scheduled
        allowed == MatchedList(snapshot, qname, active, snapshot.whitelist_mask)
        blocked == MatchedList(snapshot, qname, active, snapshot.block_mask)
    IN  IF active = {} THEN Unlisted(snapshot, scope, "no_active_lists")
        ELSE IF allowed # Nobody
             THEN Answer(FALSE, "whitelist_match", scope, allowed)
        ELSE IF blocked # Nobody
             THEN Answer(TRUE, "blocklist_match", scope, blocked)
        ELSE Unlisted(snapshot, scope, "not_listed")

\* The answers that no list can change, or Nobody.
BeforeLists(snapshot, ip, now) ==
    LET white == FirstScope(MatchingScopes(snapshot, ip, now, TRUE))
        scope == FirstScope(MatchingScopes(snapshot, ip, now, FALSE))
    IN  IF ~snapshot.global_blocking
             THEN Answer(FALSE, "global_paused", Nobody, Nobody)
        ELSE IF white # Nobody
             THEN Answer(FALSE, WhitelistReason(white.kind), white, Nobody)
        ELSE IF scope # Nobody /\ scope.state = "paused"
             THEN Answer(FALSE, PausedReason(scope.kind), scope, Nobody)
        ELSE Nobody

\* `scheduled` is the mask of _active_list_mask, which caches it.
DecideWith(snapshot, ip, qname, now, scheduled) ==
    LET early == BeforeLists(snapshot, ip, now)
        scope == FirstScope(MatchingScopes(snapshot, ip, now, FALSE))
    IN  IF early # Nobody THEN early
        ELSE ListDecision(snapshot, scope, qname, scheduled)

Decide(snapshot, ip, qname, now) ==
    DecideWith(snapshot, ip, qname, now, ActiveListMask(snapshot, now))

-----------------------------------------------------------------------------
(* The documented precedence, on the rows.                                 *)

Contains(network, ip) ==
    /\ network.family = ip.family
    /\ \E host \in 0..(2 ^ (Width(ip.family) - network.prefix) - 1) :
          ip.value = network.base + host

\* How specifically a target names a client, as a pair: its place in "exact
\* client IP, then exact or most specific PTR hostname, then most specific
\* network", and the size of what matched; Nobody when it does not apply.
Specificity(config, row, ip, now) ==
    LET name == config.identities[ip]
    IN  IF now \notin row.hours THEN Nobody ELSE
        CASE row.kind = "client" /\ row.target = ip -> <<4, 0>>
          [] /\ row.kind = "hostname" /\ name # Nobody
             /\ ~row.target.wild /\ row.target.name = name -> <<3, 0>>
          [] /\ row.kind = "hostname" /\ name # Nobody /\ row.target.wild
             /\ \E n \in 1..(Len(name) - 1) :
                   Suffix(name, n + 1) = row.target.name ->
                <<2, Len(row.target.name)>>
          [] /\ row.kind = "network"
             /\ \E n \in row.target : Contains(n, ip) ->
                <<1, CHOOSE p \in 0..Width(ip.family) :
                        /\ \E n \in row.target : Contains(n, ip) /\ n.prefix = p
                        /\ \A n \in row.target : Contains(n, ip) => n.prefix <= p>>
          [] OTHER -> Nobody

Beats(config, r, other, ip, now) ==
    LET a == Specificity(config, r, ip, now)
        b == Specificity(config, other, ip, now)
    IN  \/ a[1] > b[1]
        \/ a[1] = b[1] /\ a[2] > b[2]
        \/ a = b /\ r.id <= other.id

\* The target that applies to the client, among `candidates`.
Winner(config, candidates, ip, now) ==
    LET matching == {r \in candidates : Specificity(config, r, ip, now) # Nobody}
    IN  IF matching = {} THEN Nobody
        ELSE CHOOSE r \in matching :
                \A other \in matching : Beats(config, r, other, ip, now)

\* A list covers a name by an entry for it or for a parent of two labels or
\* more; the entry closest to the name is the one reported.
Covering(list, qname) ==
    {k \in DOMAIN qname : /\ k = 1 \/ k < Len(qname)
                          /\ Suffix(qname, k) \in list.domains}

Covered(list, qname) == Covering(list, qname) # {}

Closest(list, qname) ==
    Suffix(qname, CHOOSE k \in Covering(list, qname) :
                      \A j \in Covering(list, qname) : k <= j)

\* The lists that may decide: enabled, on schedule, and either assigned to
\* the winning target or global with a reach that includes the client.
Applicable(config, winner, now) ==
    {l \in config.lists :
        /\ l.enabled
        /\ now \in l.hours
        /\ \/ winner # Nobody /\ l.id \in winner.lists
           \/ l.use_globally /\ (winner # Nobody \/ config.reach = "all_clients")}

Documented(config, ip, qname, now) ==
    LET exempt == Winner(config, {r \in config.scopes : r.whitelisted}, ip, now)
        winner == Winner(config, config.scopes, ip, now)
        deciding(type) == {l \in Applicable(config, winner, now) :
                              l.type = type /\ Covered(l, qname)}
        verdict(block, by, lists) ==
            [block |-> block,
             matched_scope |-> IF by = Nobody THEN Nobody ELSE by.id,
             matched_list |-> IF lists = {} THEN Nobody ELSE Oldest(lists).id,
             matched_domain |-> IF lists = {} THEN Nobody
                                ELSE Closest(Oldest(lists), qname)]
    IN  IF ~config.global_blocking THEN verdict(FALSE, Nobody, {})
        ELSE IF exempt # Nobody THEN verdict(FALSE, exempt, {})
        ELSE IF winner # Nobody /\ winner.state = "paused"
             THEN verdict(FALSE, winner, {})
        ELSE IF deciding("whitelist") # {}
             THEN verdict(FALSE, winner, deciding("whitelist"))
        ELSE IF deciding("block") # {}
             THEN verdict(TRUE, winner, deciding("block"))
        ELSE verdict(winner = Nobody /\ config.unmatched = "deny", winner, {})

Verdict(answer) ==
    [block |-> answer.block, matched_scope |-> answer.matched_scope,
     matched_list |-> answer.matched_list,
     matched_domain |-> answer.matched_domain]
=============================================================================
