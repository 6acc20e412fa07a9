-------------------------- MODULE MCPolicyDecision --------------------------
(***************************************************************************)
(* Asks a policy engine that was started on some configuration any         *)
(* question, and compares its answer with the documented precedence.  The  *)
(* two families of configurations of SmallCases vary the targets and the   *)
(* lists.                                                                  *)
(***************************************************************************)
EXTENDS PolicyDecision

CONSTANTS
    Instants,
    Labels,  \* of names
    Ips,     \* clients
    Cases    \* records [configs, asked]: configurations, names to ask for

VARIABLES
    config, asked,
    question, answer

\* One client of each family; only the IPv4 one has a PTR name.
OneOfEach == {[family |-> 4, value |-> 2], [family |-> 6, value |-> 1]}

Host == <<"h", "b", "a">>

TargetDomains == {<<"b", "a">>}
ListDomains == {Host, <<"b", "a">>, <<"a">>}

Identities(name) ==
    [ip \in Ips |-> IF ip.family = 4 THEN name ELSE Nobody]

Config(lists, scopes, name, global_blocking, unmatched, reach) ==
    [lists |-> lists, scopes |-> scopes, identities |-> Identities(name),
     global_blocking |-> global_blocking, unmatched |-> unmatched,
     reach |-> reach]

-----------------------------------------------------------------------------
(* Two or three targets of every kind, in every state, some scheduled.     *)

Targets ==
    {[kind |-> "client", target |-> [family |-> 4, value |-> 2]]}
    \cup {[kind |-> "hostname", target |-> [wild |-> wild, name |-> Host]] :
              wild \in BOOLEAN}
    \cup {[kind |-> "hostname", target |-> [wild |-> TRUE, name |-> name]] :
              name \in {<<"a">>, <<"b", "a">>}}
    \cup {[kind |-> "network",
           target |-> {[family |-> 4, prefix |-> n[1], base |-> n[2]]}] :
              n \in {<<0, 0>>, <<1, 2>>, <<2, 2>>}}
    \cup {[kind |-> "network",
           target |-> {[family |-> 6, prefix |-> 1, base |-> 0],
                       [family |-> 4, prefix |-> 1, base |-> 0]}]}

Postures == {[state |-> "active", whitelisted |-> FALSE],
             [state |-> "paused", whitelisted |-> FALSE],
             [state |-> "active", whitelisted |-> TRUE]}

Target(id, t, posture, hours) ==
    [id |-> id, kind |-> t.kind, target |-> t.target, state |-> posture.state,
     whitelisted |-> posture.whitelisted, hours |-> hours, lists |-> {id}]

TargetRows(id) ==
    {Target(id, t, posture, hours) :
        t \in Targets, posture \in Postures,
        hours \in {Instants, {CHOOSE n \in Instants : TRUE}}}

OneListEach ==
    {[id |-> id, type |-> "block", enabled |-> TRUE, use_globally |-> FALSE,
      hours |-> Instants, domains |-> {<<"b", "a">>}] : id \in {1, 2, 3}}

TwoTargetConfigs ==
    {Config(OneListEach, {r, s}, name, TRUE, "deny", "all_clients") :
        r \in TargetRows(1), s \in TargetRows(2), name \in {Nobody, Host}}

ThreeTargetConfigs ==
    {Config(OneListEach, {r, s, t}, Host, TRUE, "deny", "all_clients") :
        r \in {u \in TargetRows(1) : u.state = "active" /\ ~u.whitelisted},
        s \in {u \in TargetRows(2) : u.hours = Instants},
        t \in {u \in TargetRows(3) : u.state = "active" /\ ~u.whitelisted}}

Paused ==
    Config(OneListEach, {}, Nobody, FALSE, "deny", "all_clients")

-----------------------------------------------------------------------------
(* Two lists in every state that makes a difference, under no target, or   *)
(* under one that has some of them.                                        *)

ListRows(id) ==
    {[id |-> id, type |-> type, enabled |-> use[1],
      use_globally |-> use[2], hours |-> hours, domains |-> domains] :
        type \in {"block", "whitelist"},
        use \in {<<TRUE, TRUE>>, <<TRUE, FALSE>>, <<FALSE, TRUE>>},
        hours \in {Instants, {CHOOSE n \in Instants : TRUE}},
        domains \in {{<<"a">>}, {<<"b", "a">>}, {Host, <<"b", "a">>}, {Host}}}

AssignedRows ==
    {{}} \cup {{[Target(1, [kind |-> "client",
                            target |-> [family |-> 4, value |-> 2]],
                        [state |-> "active", whitelisted |-> FALSE], Instants)
                 EXCEPT !.lists = lists]} : lists \in SUBSET {1, 2}}

TwoListConfigs ==
    {Config({k, l}, scopes, Nobody, TRUE, d[1], d[2]) :
        k \in {r \in ListRows(1) : r.domains # {Host}}, l \in ListRows(2),
        scopes \in AssignedRows,
        d \in {<<"allow", "all_clients">>, <<"allow", "matched_scopes">>,
               <<"deny", "matched_scopes">>}}

-----------------------------------------------------------------------------
SmallCases ==
    {[configs |-> {Paused}, asked |-> TargetDomains],
     [configs |-> TwoTargetConfigs, asked |-> TargetDomains],
     [configs |-> ThreeTargetConfigs, asked |-> TargetDomains],
     [configs |-> TwoListConfigs, asked |-> ListDomains]}

\* What the database and the forms that fill it admit: ids are keys, names are
\* not empty, networks are masked.
NetworkOK(n) ==
    /\ n \in [family : {4, 6}, prefix : Nat, base : Nat]
    /\ n.prefix <= Width(n.family)
    /\ n.base % 2 ^ (Width(n.family) - n.prefix) = 0

TargetOK(row) ==
    CASE row.kind = "client" -> TRUE
      [] row.kind = "hostname" ->
            row.target.wild \in BOOLEAN /\ row.target.name \in Seq(Labels) \ {<<>>}
      [] row.kind = "network" -> \A n \in row.target : NetworkOK(n)
      [] OTHER -> FALSE

IdsAreKeys(rows) ==
    /\ IsFiniteSet(rows)
    /\ \A r \in rows : r.id \in Nat /\ \A other \in rows : r.id = other.id => r = other

ConfigOK(c) ==
    /\ IdsAreKeys(c.lists) /\ IdsAreKeys(c.scopes)
    /\ \A r \in c.scopes : TargetOK(r)
    /\ \A ip \in Ips : c.identities[ip] \in Seq(Labels) \cup {Nobody}

ASSUME CasesOK ==
    /\ \A ip \in Ips : ip \in [family : {4, 6}, value : Nat]
    /\ \A c \in Cases : c.asked \subseteq Seq(Labels) \ {<<>>} /\ \A x \in c.configs : ConfigOK(x)

\* The reasons of an answer that no list decides.
Reasons == {"global_paused", "endpoint_whitelisted", "scope_whitelisted",
            "client_paused", "hostname_paused", "network_paused",
            "no_scope_default_deny", "no_active_lists", "not_listed"}

\* Nobody is no target, list, name, answer or place in the order.
ASSUME NobodyIsNothing ==
    /\ Nobody \notin Seq(Labels) /\ Nobody \notin Nat \X Nat
    /\ \A c \in Cases : \A x \in c.configs : \A r \in x.scopes :
          Nobody # r /\ Nobody # CompileScope(ById(x.lists), r)
    /\ Nobody \notin [list : Nat, domain : Seq(Labels)]
    /\ Nobody \notin [block : BOOLEAN, reason : Reasons, matched_scope : Nat \cup {Nobody},
                     matched_list : Nat \cup {Nobody},
                     matched_domain : Seq(Labels) \cup {Nobody}]

-----------------------------------------------------------------------------
Init ==
    /\ \E c \in Cases : config \in c.configs /\ asked = c.asked
    /\ question = Nobody
    /\ answer = Nobody

Ask ==
    /\ question = Nobody
    /\ \E ip \in Ips, qname \in asked, now \in Instants :
        /\ question' = [ip |-> ip, qname |-> qname, now |-> now]
        /\ answer' = Decide(Compile(config), ip, qname, now)
    /\ UNCHANGED <<config, asked>>

Next ==
    \/ Ask
    \/ question' = Nobody /\ answer' = Nobody /\ UNCHANGED <<config, asked>>

Spec == Init /\ [][Next]_<<config, asked, question, answer>>

\* docs/USER_GUIDE.md, "How decisions are made": an active exemption wins
\* wherever it is, then the most specific active target, oldest first, then
\* allow lists before block lists among those assigned or global, then the
\* action for unmatched clients.  The indexes, masks, bit numbers and search
\* orders of the snapshot decide, name and match the same.
AnsweredAsDocumented ==
    answer # Nobody =>
        Verdict(answer) = Documented(config, question.ip, question.qname,
                                     question.now)
=============================================================================
