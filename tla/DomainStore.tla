----------------------------- MODULE DomainStore -----------------------------
(***************************************************************************)
(* The normalised domains of app/db.py: one row per domain, one membership *)
(* per list and domain, and a cached count per list.  add_list_domain,     *)
(* remove_list_domain and delete_blocklist run on autocommit connections,  *)
(* so that statements of several handlers interleave; refreshes and        *)
(* query_add_domain are transactions and one step here.  Domain rows that  *)
(* no list uses any more are deleted by whoever took them off a list.      *)
(*                                                                         *)
(* The backends differ: SQLite deletes an unused domain in the statement   *)
(* that removes its last membership, by a trigger, and raises when a       *)
(* foreign key is missing; MySQL's INSERT IGNORE drops such a row.         *)
(* Ids are never used twice (AUTOINCREMENT): rows of one domain are        *)
(* numbered, 0 stands for no row.                                          *)
(***************************************************************************)
EXTENDS Naturals, FiniteSets

CONSTANTS
    ManualLists, UrlLists, Domains, Handlers,
    MaxOps         \* bound: handlers and refreshes that are started

AllLists == ManualLists \cup UrlLists

VARIABLES
    backend,       \* "sqlite" or "mysql"
    lists,         \* the rows of blocklists
    row,           \* the row of each domain
    serial,        \* the last id that was given out
    members,       \* blocklist_domain_memberships
    entryCount,    \* blocklists.entry_count
    handler,       \* the statements each handler has still to run
    ops,
    owed,          \* history: domains put on a list and not taken off
    lost,          \* history: memberships that were not written
    stray,         \* history: domains left behind by a deletion of a list
    crowded        \* history: lists with two handlers at once

tables == <<lists, row, serial, members, entryCount>>
history == <<owed, lost, stray, crowded>>
storeVars == <<backend, tables, handler, ops, history>>

Idle == [pc |-> "idle", list |-> 0, domain |-> 0, row |-> 0, ids |-> {},
         count |-> 0, alone |-> FALSE]

Setup(b) ==
    /\ backend = b /\ lists = AllLists
    /\ row = [d \in Domains |-> 1] /\ serial = 1
    /\ members = AllLists \X Domains
    /\ entryCount = [l \in AllLists |-> Cardinality(Domains)]
    /\ handler = [h \in Handlers |-> Idle]
    /\ ops = 0 /\ owed = members /\ lost = {} /\ stray = {} /\ crowded = {}
Init == \E b \in {"sqlite", "mysql"} : Setup(b)

On(l, m) == {d \in Domains : <<l, d>> \in m}
Used(m) == {d \in Domains : \E l \in AllLists : <<l, d>> \in m}

Insert(ds) ==
    LET new == {d \in ds : row[d] = 0} IN
    /\ row' = [d \in Domains |-> IF d \in new THEN serial + 1 ELSE row[d]]
    /\ serial' = IF new = {} THEN serial ELSE serial + 1

\* Mutant: the search for other lists is forgotten.
UnusedAnyway(ds, m) == ds

\* The domains among ds that a clean-up deletes; its WHERE looks at the
\* memberships as they are when the statement runs.
Unused(ds, m) == ds \ Used(m)

DeleteRows(ds) ==
    /\ row' = [d \in Domains |-> IF d \in ds THEN 0 ELSE row[d]]
    /\ members' = {m \in members : m[2] \notin ds}

\* Memberships become m.  On SQLite the trigger deletes the domains that
\* thereby lose their last list, whether the rows went one by one or with
\* their list.
RemoveMembers(m) ==
    /\ members' = m
    /\ row' = [d \in Domains |->
                 IF backend = "sqlite" /\ d \in Used(members) \ Used(m)
                 THEN 0 ELSE row[d]]

Working(h) == handler[h].pc # "idle"
Go(h, pc) == handler' = [handler EXCEPT ![h].pc = pc]
Return(h) == handler' = [handler EXCEPT ![h] = Idle]
Busy(l) == {h \in Handlers : Working(h) /\ handler[h].list = l}

Disturbed(l) ==
    [h \in Handlers |-> IF h \in Busy(l) THEN [handler[h] EXCEPT !.alone = FALSE]
                        ELSE handler[h]]

Call(h, pc, l, d) ==
    /\ ~Working(h) /\ ops < MaxOps /\ ops' = ops + 1
    /\ handler' = [Disturbed(l) EXCEPT ![h] =
                      [Idle EXCEPT !.pc = pc, !.list = l, !.domain = d,
                                   !.alone = Busy(l) = {}]]
    /\ crowded' = IF Busy(l) = {} THEN crowded ELSE crowded \cup {l}

\* _get_manual_blocklist() has found a manual list, on another connection.
Start ==
    \E h \in Handlers : \E l \in lists :
        /\ \/ \E d \in Domains :
                 l \in ManualLists /\ \E pc \in {"add", "remove"} : Call(h, pc, l, d)
           \/ Call(h, "delete", l, 0)
        /\ UNCHANGED <<backend, tables, owed, lost, stray>>

-----------------------------------------------------------------------------
(* add_list_domain, _insert_domain_memberships.                            *)

LookUp(h) ==
    LET t == handler[h] IN
    /\ t.pc = "add"
    /\ Go(h, IF <<t.list, t.domain>> \in members THEN "count" ELSE "insert")
    /\ UNCHANGED <<backend, tables, ops, history>>

InsertDomain(h) ==
    LET t == handler[h] IN
    /\ t.pc = "insert" /\ Go(h, "select")
    /\ Insert({t.domain})
    /\ UNCHANGED <<backend, lists, members, entryCount, ops, history>>

\* Without a row there is nothing to insert, and the domain counts as added.
SelectRow(h) ==
    LET t == handler[h] IN
    /\ t.pc = "select"
    /\ handler' = [handler EXCEPT ![h].pc = IF row[t.domain] = 0 THEN "count"
                                            ELSE "attach",
                                  ![h].row = row[t.domain]]
    /\ lost' = IF row[t.domain] = 0 THEN lost \cup {<<t.list, t.domain>>} ELSE lost
    /\ owed' = owed
    /\ UNCHANGED <<backend, tables, ops, stray, crowded>>

Attach(h) ==
    LET t == handler[h]
        m == <<t.list, t.domain>>
    IN
    /\ t.pc = "attach"
    /\ IF t.list \in lists /\ row[t.domain] = t.row
       THEN /\ members' = members \cup {m} /\ owed' = owed \cup {m}
            /\ lost' = lost \ {m} /\ Go(h, "count") /\ UNCHANGED stray
       ELSE /\ IF backend = "sqlite" THEN Return(h) ELSE Go(h, "count")
            /\ lost' = lost \cup {m}
            /\ stray' = stray \cup {t.domain}
            /\ UNCHANGED <<members, owed>>
    /\ UNCHANGED <<backend, lists, row, serial, entryCount, ops, crowded>>

-----------------------------------------------------------------------------
(* remove_list_domain and delete_blocklist.                                *)

SelectMember(h) ==
    LET t == handler[h] IN
    /\ t.pc = "remove"
    /\ IF <<t.list, t.domain>> \in members
       THEN handler' = [handler EXCEPT ![h].pc = "detach",
                                       ![h].ids = {<<t.domain, row[t.domain]>>}]
       ELSE Go(h, "count")
    /\ UNCHANGED <<backend, tables, ops, history>>

Detach(h) ==
    LET t == handler[h] IN
    /\ t.pc = "detach" /\ Go(h, "cleanup")
    /\ RemoveMembers({m \in members :
                        ~(m[1] = t.list /\ <<m[2], row[m[2]]>> \in t.ids)})
    /\ owed' = owed \ (members \ members')
    /\ UNCHANGED <<backend, lists, serial, entryCount, ops, lost, stray, crowded>>

SelectIds(h) ==
    LET t == handler[h] IN
    /\ t.pc = "delete"
    /\ handler' = [handler EXCEPT
          ![h].pc = "drop",
          ![h].ids = {<<d, row[d]>> : d \in On(t.list, members)}]
    /\ UNCHANGED <<backend, tables, ops, history>>

\* The memberships go with their list; those that came since the ids were
\* read are nobody's to clean up.
DropList(h) ==
    LET t == handler[h]
        late == {d \in On(t.list, members) : <<d, row[d]>> \notin t.ids}
    IN
    /\ t.pc = "drop" /\ Go(h, "cleanup")
    /\ lists' = lists \ {t.list}
    /\ RemoveMembers({m \in members : m[1] # t.list})
    /\ owed' = {m \in owed : m[1] # t.list}
    /\ lost' = {m \in lost : m[1] # t.list}
    /\ stray' = IF backend = "mysql" THEN stray \cup late ELSE stray
    /\ UNCHANGED <<backend, serial, entryCount, ops, crowded>>

\* _cleanup_domain_ids deletes by id; the cascade takes what is still attached.
CleanUp(h) ==
    LET t == handler[h]
        present == {d \in Domains : row[d] # 0 /\ <<d, row[d]>> \in t.ids}
    IN
    /\ t.pc = "cleanup"
    /\ DeleteRows(Unused(present, members))
    /\ IF t.list \in lists THEN Go(h, "count") ELSE Return(h)
    /\ UNCHANGED <<backend, lists, serial, entryCount, ops, history>>

-----------------------------------------------------------------------------
(* _refresh_manual_list_count, after every addition and removal.           *)

\* Mutant: the count of the last time is taken over.
CountedBefore(l) == entryCount[l]

Counted(l) == Cardinality(On(l, members))

Count(h) ==
    LET t == handler[h] IN
    /\ t.pc = "count"
    /\ handler' = [handler EXCEPT ![h].pc = "store", ![h].count = Counted(t.list)]
    /\ UNCHANGED <<backend, tables, ops, history>>

StoreCount(h) ==
    LET t == handler[h] IN
    /\ t.pc = "store" /\ Return(h)
    /\ entryCount' = IF t.list \in lists
                     THEN [entryCount EXCEPT ![t.list] = t.count] ELSE entryCount
    /\ crowded' = IF t.alone THEN crowded \ {t.list} ELSE crowded
    /\ UNCHANGED <<backend, lists, row, serial, members, ops, owed, lost, stray>>

-----------------------------------------------------------------------------
(* Transactions.                                                           *)

\* Mutant: only the memberships are replaced.
DroppedNone(old, m) == {}

\* What replace_list_domains deletes after it has changed the memberships.
Dropped(old, m) == Unused(old, m)

\* A refresh or an upload replaces the domains of a list and its count.
Replace ==
    \E l \in lists \cap UrlLists, ds \in (SUBSET Domains) \ {{}} :
        LET m == {x \in members : x[1] # l} \cup ({l} \X ds)
            gone == Dropped(On(l, members) \ ds, m)
        IN
        /\ ops < MaxOps /\ ops' = ops + 1
        /\ members' = m
        /\ LET new == {d \in ds : row[d] = 0}
           IN  /\ row' = [d \in Domains |-> IF d \in gone THEN 0 ELSE
                                IF d \in new THEN serial + 1 ELSE row[d]]
               /\ serial' = IF new = {} THEN serial ELSE serial + 1
        /\ entryCount' = [entryCount EXCEPT ![l] = Cardinality(ds)]
        /\ owed' = {x \in owed : x[1] # l} \cup ({l} \X ds)
        /\ UNCHANGED <<backend, lists, handler, lost, stray, crowded>>

\* query_add_domain, under BEGIN IMMEDIATE.
QueryAdd ==
    \E l \in lists \cap ManualLists, d \in Domains :
        /\ ops < MaxOps /\ ops' = ops + 1
        /\ Insert({d})
        /\ members' = members \cup {<<l, d>>}
        /\ entryCount' = [entryCount EXCEPT ![l] = Cardinality(On(l, members'))]
        /\ owed' = owed \cup {<<l, d>>} /\ lost' = lost \ {<<l, d>>}
        /\ crowded' = IF Busy(l) = {} THEN crowded \ {l} ELSE crowded \cup {l}
        /\ handler' = Disturbed(l)
        /\ UNCHANGED <<backend, lists, stray>>

Next ==
    \/ Start \/ Replace \/ QueryAdd
    \/ \E h \in Handlers :
          \/ LookUp(h) \/ InsertDomain(h) \/ SelectRow(h) \/ Attach(h)
          \/ SelectMember(h) \/ Detach(h) \/ SelectIds(h) \/ DropList(h)
          \/ CleanUp(h) \/ Count(h) \/ StoreCount(h)

Spec == Init /\ [][Next]_storeVars

-----------------------------------------------------------------------------
(* What is checked.                                                        *)

Quiet == \A h \in Handlers : ~Working(h)

\* A list holds what was put on it and not taken off, whatever other lists
\* lose meanwhile: the clean-up after a removal never takes a domain from
\* another list.  What an addition finds deleted under its hands before it has
\* attached it is the only loss.
ListsKeepTheirDomains == members \ lost = owed \ lost

\* A domain that no list uses is deleted by the last handler that took it off
\* one, on either backend, unless its list was deleted while it was added.
NoUnusedDomains == Quiet => \A d \in Domains \ stray : row[d] # 0 => d \in Used(members)

\* The count of a list that one handler at a time has changed is right,
\* although other lists, and the domains they share with it, changed too.
CountsAgree ==
    Quiet => \A l \in lists \ crowded : entryCount[l] = Cardinality(On(l, members))
=============================================================================
