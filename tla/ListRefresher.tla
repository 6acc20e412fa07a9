---------------------------- MODULE ListRefresher ----------------------------
(***************************************************************************)
(* BlocklistRefresher of app/refresher.py beside the handlers that edit    *)
(* and delete lists (edit_list and delete_list of app/main.py).            *)
(*                                                                         *)
(* A cycle downloads all due lists in parallel.  Each download reads the   *)
(* list's source, asks the server with the validators of the last one, and *)
(* ends in one write that is guarded by the source it read.  Editors read  *)
(* a list, fetch or parse, and commit later; nothing stops them meanwhile. *)
(* The policy is reloaded after the cycle, or by the editor.               *)
(*                                                                         *)
(* The domains of a list are what parsing a document in a format yields.   *)
(* ETag and Last-Modified are one validator.  A retried write is no step:  *)
(* either it had no effect, or it finds the document stored by itself and  *)
(* ends, like a failure, without a reload.  entry_count and last_error are *)
(* only displayed and left out; uploads are pasted text.                   *)
(***************************************************************************)
EXTENDS Integers, FiniteSets

CONSTANTS
    Lists, Editors, Urls, Formats, Docs,
    Serves,        \* the documents a URL may serve
    Parse(_, _),   \* the domains of a document in a format
    Null,
    MaxEdits,      \* bound: commits of editors
    MaxPublished,  \* bound: changes of documents
    MaxFaults      \* bound: downloads, writes and reloads that fail, restarts

Sources == [type : {"url"}, url : Urls, format : Formats]
           \cup [type : {"local"}, url : {Null}, format : Formats]
Deleted == [type |-> "deleted", url |-> Null, format |-> Null]
Validators == [url : Urls, doc : Docs]
DomainSets == {Parse(d, f) : d \in Docs, f \in Formats} \cup {{}}

ASSUME ParametersOK ==
    /\ Serves \in [Urls -> SUBSET Docs]
    /\ Null \notin Urls \cup Docs \cup Validators
    /\ MaxEdits \in Nat /\ MaxPublished \in Nat /\ MaxFaults \in Nat

VARIABLES
    row,        \* blocklists and the memberships of each list
    server,     \* the document each URL serves
    task,       \* the download of each list in the current cycle
    edit,       \* what each editor is about to commit
    active,     \* the domains of each list in the policy snapshot
    failed,     \* a reload failed and is retried by the engine
    unheard,    \* history: lists changed by a writer that reloaded nothing
    raced,      \* history: lists whose validators may be another content's
    edits, published, faults

bounds == <<edits, published, faults>>
policy == <<active, failed, unheard>>
vars == <<row, server, task, edit, policy, raced, bounds>>

NoTask == [pc |-> "none", source |-> Deleted, etag |-> Null, hash |-> Null,
           doc |-> Null, touched |-> FALSE, changed |-> FALSE]
NoEdit == [pc |-> "none", list |-> Null, read |-> Deleted,
           source |-> Deleted, domains |-> Null]

\* add_list stores a list with its content and without validators.
Init ==
    /\ server \in {s \in [Urls -> Docs] : \A u \in Urls : s[u] \in Serves[u]}
    /\ \E source \in [Lists -> Sources], doc \in [Lists -> Docs] :
          /\ \A l \in Lists :
                /\ source[l].type = "url" => doc[l] = server[source[l].url]
                /\ Parse(doc[l], source[l].format) # {}
          /\ row = [l \in Lists |->
                       [source |-> source[l], etag |-> Null, hash |-> Null,
                        domains |-> Parse(doc[l], source[l].format),
                        due |-> FALSE]]
    /\ task = [l \in Lists |-> NoTask]
    /\ edit = [e \in Editors |-> NoEdit]
    /\ active = [l \in Lists |-> row[l].domains]
    /\ failed = FALSE /\ unheard = {} /\ raced = {}
    /\ edits = 0 /\ published = 0 /\ faults = 0

Fault == faults < MaxFaults /\ faults' = faults + 1

-----------------------------------------------------------------------------
(* The policy engine, whose rebuilds are the subject of PolicyEngine.      *)

Load ==
    /\ active' = [l \in Lists |-> row[l].domains]
    /\ failed' = FALSE
    /\ unheard' = {}

\* reload() and reload_lists(): a failure is recorded and raised.
Reload ==
    \/ Load /\ UNCHANGED faults
    \/ failed' = TRUE /\ Fault /\ UNCHANGED <<active, unheard>>

Recover ==
    /\ failed
    /\ Load
    /\ UNCHANGED <<row, server, task, edit, raced, bounds>>

-----------------------------------------------------------------------------
(* The refresher.                                                          *)

IsUrl(l) == row[l].source.type = "url"
InCycle == {l \in Lists : task[l].pc # "none"}

\* refresh_due_once; _run_lock admits one cycle at a time.  Without due lists
\* nothing happens.
StartCycle ==
    /\ InCycle = {}
    /\ task' = [l \in Lists |-> IF IsUrl(l) /\ row[l].due
                                THEN [NoTask EXCEPT !.pc = "read"] ELSE NoTask]
    /\ UNCHANGED <<row, server, edit, policy, raced, bounds>>

Finished(changed) == [NoTask EXCEPT !.pc = "done", !.changed = changed]

\* Mutant: a list that is still there is taken for one with a URL.
SourceThere(l) == row[l].source # Deleted

ValidSource(l) == IsUrl(l)

ReadSource(l) ==
    /\ task[l].pc = "read"
    /\ \/ /\ ValidSource(l)
          /\ task' = [task EXCEPT ![l] =
                 [NoTask EXCEPT !.pc = "fetch", !.source = row[l].source,
                                !.etag = row[l].etag, !.hash = row[l].hash]]
          /\ UNCHANGED faults
       \/ /\ ~ValidSource(l)
          /\ task' = [task EXCEPT ![l] = Finished(FALSE)]
          /\ UNCHANGED faults
       \/ task' = [task EXCEPT ![l] = Finished(FALSE)] /\ Fault
    /\ UNCHANGED <<row, server, edit, policy, raced, edits, published>>

Answer(l, pc, etag, doc) ==
    task' = [task EXCEPT ![l].pc = pc, ![l].etag = etag, ![l].doc = doc]

\* Servers need not send validators, nor answer 304 to one that is current.
Fetch(l) ==
    /\ task[l].pc = "fetch"
    /\ LET source == task[l].source
           doc == server[source.url]
           current == [url |-> source.url, doc |-> doc]
       IN  \/ /\ task[l].etag = current
              /\ Answer(l, "unmodified", current, Null)
              /\ UNCHANGED faults
           \/ /\ \E etag \in {Null, current} :
                    Answer(l, CASE task[l].hash = doc -> "same"
                                [] task[l].hash # doc
                                   /\ Parse(doc, source.format) = {} -> "fail"
                                [] OTHER -> "write",
                           etag, doc)
              /\ UNCHANGED faults
           \/ Answer(l, "fail", Null, Null) /\ Fault
    /\ UNCHANGED <<row, server, edit, policy, raced, edits, published>>

\* Mutant: the list only has to be one that is refreshed from a URL.
MatchesUrl(l) == IsUrl(l)

\* The guard of every write: the source is the one that was read.
Matches(l) == row[l].source = task[l].source

Fails(l) == task' = [task EXCEPT ![l].pc = "fail"] /\ Fault

\* A write that raises may have taken effect; the refresh ends as a failure.
Write(l, effect, changed) ==
    \/ /\ effect
       /\ task' = [task EXCEPT ![l] = Finished(changed)]
       /\ UNCHANGED <<unheard, faults>>
    \/ /\ effect
       /\ Fails(l)
       /\ unheard' = IF changed THEN unheard \cup {l} ELSE unheard
    \/ /\ Fails(l)
       /\ UNCHANGED <<row, raced, unheard>>

\* _metadata_update_with_retry; a validator that did not come is kept.
Unchanged(l) ==
    /\ task[l].pc \in {"unmodified", "same"}
    /\ Write(l,
          IF Matches(l)
          THEN /\ row' = [row EXCEPT
                    ![l].etag = IF task[l].etag = Null THEN @ ELSE task[l].etag,
                    ![l].hash = IF task[l].pc = "same" THEN task[l].doc ELSE @,
                    ![l].due = FALSE]
               /\ raced' = IF task[l].touched /\ row[l].source = task[l].source
                           THEN raced \cup {l} ELSE raced
          ELSE UNCHANGED <<row, raced>>,
          FALSE)
    /\ UNCHANGED <<server, edit, active, failed, edits, published>>

\* Mutant: a list counts as changed when its number of domains changes.
ChangedByCount(old, new) == Cardinality(old) # Cardinality(new)

\* What replace_list_domains returns.
Changed(old, new) == old # new

Stored(l) ==
    [row[l] EXCEPT !.domains = Parse(task[l].doc, task[l].source.format),
                   !.etag = task[l].etag, !.hash = task[l].doc, !.due = FALSE]

\* The transaction that replaces the list, if its source is still the one that
\* was read and nobody has stored the same document since.
Replace(l) ==
    /\ task[l].pc = "write"
    /\ \/ /\ ~Matches(l)
          /\ task' = [task EXCEPT ![l] = Finished(FALSE)]
          /\ UNCHANGED <<row, raced, unheard, faults>>
       \/ /\ Matches(l) /\ row[l].hash = task[l].doc
          /\ Write(l, /\ row' = [row EXCEPT ![l].etag = task[l].etag,
                                            ![l].due = FALSE]
                      /\ UNCHANGED raced,
                   FALSE)
       \/ /\ Matches(l) /\ row[l].hash # task[l].doc
          /\ Write(l, /\ row' = [row EXCEPT ![l] = Stored(l)]
                      /\ raced' = raced \ {l},
                   Changed(row[l].domains, Stored(l).domains))
    /\ UNCHANGED <<server, edit, active, failed, edits, published>>

\* last_refresh_attempt is set; that this may fail too, the list then being
\* due again, is the second disjunct.
RecordFailure(l) ==
    /\ task[l].pc = "fail"
    /\ task' = [task EXCEPT ![l] = Finished(FALSE)]
    /\ \/ /\ row' = IF Matches(l) THEN [row EXCEPT ![l].due = FALSE] ELSE row
          /\ UNCHANGED faults
       \/ Fault /\ UNCHANGED row
    /\ UNCHANGED <<server, edit, policy, raced, edits, published>>

EndCycle ==
    /\ InCycle # {} /\ \A l \in InCycle : task[l].pc = "done"
    /\ task' = [l \in Lists |-> NoTask]
    /\ IF \E l \in InCycle : task[l].changed THEN Reload
                                             ELSE UNCHANGED <<policy, faults>>
    /\ UNCHANGED <<row, server, edit, raced, edits, published>>

-----------------------------------------------------------------------------
(* edit_list and delete_list.                                              *)

\* What the form and the list it is about come to: a refresh of the content,
\* new content that detaches the list from its URL, or other fields.
Forms ==
    {[source |-> s, domains |-> Parse(server[s.url], s.format)] :
        s \in {s \in Sources : s.type = "url"}}
    \cup {[source |-> s, domains |-> Parse(d, s.format)] :
        s \in {s \in Sources : s.type = "local"}, d \in Docs}
    \cup {[source |-> s, domains |-> Null] : s \in Sources}

Open(e) ==
    /\ edit[e].pc = "none" /\ edits < MaxEdits
    /\ edits' = edits + 1
    /\ \E l \in Lists, form \in Forms :
          /\ row[l].source # Deleted
          /\ form.domains # {}
          /\ edit' = [edit EXCEPT ![e] = [pc |-> "commit", list |-> l,
                          read |-> row[l].source, source |-> form.source,
                          domains |-> form.domains]]
    /\ UNCHANGED <<row, server, task, policy, raced, published, faults>>

\* Mutant: a new format leaves the validators alone.
InvalidatesUrl(e) ==
    edit[e].domains # Null \/ edit[e].source.url # edit[e].read.url

\* invalidate_source compares with the list as it was when it was opened.
Invalidates(e) == edit[e].domains # Null \/ edit[e].source # edit[e].read

\* Without an attempt on record a list is due by its last update.
Edited(e, old) ==
    LET keep == edit[e].domains = Null
        dues == CASE ~Invalidates(e) -> {old.due}
                  [] Invalidates(e) /\ keep -> BOOLEAN
                  [] OTHER -> {FALSE}
    IN  {[source |-> edit[e].source,
          etag |-> IF Invalidates(e) THEN Null ELSE old.etag,
          hash |-> IF Invalidates(e) THEN Null ELSE old.hash,
          domains |-> IF keep THEN old.domains ELSE edit[e].domains,
          due |-> due] : due \in dues}

Touch(l) ==
    task' = [task EXCEPT ![l].touched = @ \/ task[l].pc \notin {"none", "done"}]

\* The editor answers with an error, without a reload.
GiveUp(e) == edit' = [edit EXCEPT ![e] = NoEdit]

Commit(e) ==
    /\ edit[e].pc = "commit"
    /\ LET l == edit[e].list
       IN  \/ /\ row[l].source # Deleted
              /\ \E new \in Edited(e, row[l]) : row' = [row EXCEPT ![l] = new]
              /\ Touch(l)
              /\ raced' = CASE Invalidates(e) -> raced \ {l}
                            [] ~Invalidates(e) /\ edit[e].read # row[l].source ->
                                   raced \cup {l}
                            [] OTHER -> raced
              /\ \/ /\ edit' = [edit EXCEPT ![e].pc = "reload"]
                    /\ UNCHANGED <<unheard, faults>>
                 \/ \* COMMIT raises after it took effect.
                    /\ GiveUp(e)
                    /\ unheard' = unheard \cup {l}
                    /\ Fault
           \/ /\ row[l].source = Deleted
              /\ \/ edit' = [edit EXCEPT ![e].pc = "reload"]
                 \/ GiveUp(e)
              /\ UNCHANGED <<row, task, raced, unheard, faults>>
           \/ /\ GiveUp(e) /\ Fault
              /\ UNCHANGED <<row, task, raced, unheard>>
    /\ UNCHANGED <<server, active, failed, edits, published>>

\* delete_list; statements after the first one may raise.
Delete(e) ==
    /\ edit[e].pc = "none" /\ edits < MaxEdits
    /\ edits' = edits + 1
    /\ \E l \in Lists :
          /\ row[l].source # Deleted
          /\ row' = [row EXCEPT ![l] = [source |-> Deleted, etag |-> Null,
                                        hash |-> Null, domains |-> {},
                                        due |-> FALSE]]
          /\ raced' = raced \ {l}
          /\ \/ /\ edit' = [edit EXCEPT ![e] = [NoEdit EXCEPT !.pc = "reload"]]
                /\ UNCHANGED <<unheard, faults>>
             \/ unheard' = unheard \cup {l} /\ Fault /\ UNCHANGED edit
    /\ UNCHANGED <<server, task, active, failed, published>>

ReloadEdited(e) ==
    /\ edit[e].pc = "reload"
    /\ Reload
    /\ GiveUp(e)
    /\ UNCHANGED <<row, server, task, raced, edits, published>>

-----------------------------------------------------------------------------
(* Time, servers, and the end of the process.                              *)

DueComes(l) ==
    /\ IsUrl(l) /\ ~row[l].due
    /\ row' = [row EXCEPT ![l].due = TRUE]
    /\ UNCHANGED <<server, task, edit, policy, raced, bounds>>

PublishDocument(u) ==
    /\ published < MaxPublished
    /\ published' = published + 1
    /\ \E d \in Serves[u] \ {server[u]} : server' = [server EXCEPT ![u] = d]
    /\ UNCHANGED <<row, task, edit, policy, raced, edits, faults>>

Restart ==
    /\ Fault
    /\ task' = [l \in Lists |-> NoTask]
    /\ edit' = [e \in Editors |-> NoEdit]
    /\ Load
    /\ UNCHANGED <<row, server, raced, edits, published>>

-----------------------------------------------------------------------------
Refresh ==
    \/ StartCycle \/ EndCycle
    \/ \E l \in Lists : \/ ReadSource(l) \/ Fetch(l) \/ Unchanged(l)
                        \/ Replace(l) \/ RecordFailure(l)

Next ==
    \/ Refresh \/ Recover
    \/ \E e \in Editors : Open(e) \/ Commit(e) \/ Delete(e) \/ ReloadEdited(e)
    \/ \E l \in Lists : DueComes(l)
    \/ \E u \in Urls : PublishDocument(u)
    \/ Restart

Spec == Init /\ [][Next]_vars

\* The refresher's thread and its workers run, handlers end, lists come due,
\* and the engine's recovery thread tries again.
Fairness ==
    /\ WF_vars(Refresh) /\ WF_vars(Recover)
    /\ \A e \in Editors : WF_vars(Commit(e) \/ ReloadEdited(e))
    /\ \A l \in Lists : WF_vars(DueComes(l))

FairSpec == Spec /\ Fairness

-----------------------------------------------------------------------------
(* Properties.                                                             *)

\* Type invariant of the lists, downloads, editors and the policy.
TypeOK ==
    /\ row \in [Lists -> [source : Sources \cup {Deleted},
                          etag : Validators \cup {Null}, hash : Docs \cup {Null},
                          domains : DomainSets, due : BOOLEAN]]
    /\ server \in [Urls -> Docs]
    /\ task \in [Lists -> [pc : {"none", "read", "fetch", "unmodified", "same",
                                 "write", "fail", "done"},
                           source : Sources \cup {Deleted},
                           etag : Validators \cup {Null},
                           hash : Docs \cup {Null}, doc : Docs \cup {Null},
                           touched : BOOLEAN, changed : BOOLEAN]]
    /\ \A l \in InCycle : task[l].pc \in {"read", "done"} \/ task[l].source.type = "url"
    /\ edit \in [Editors -> [pc : {"none", "commit", "reload"},
                             list : Lists \cup {Null},
                             read : Sources \cup {Deleted},
                             source : Sources \cup {Deleted},
                             domains : DomainSets \cup {Null}]]
    /\ active \in [Lists -> DomainSets] /\ failed \in BOOLEAN
    /\ unheard \subseteq Lists /\ raced \subseteq Lists
    /\ edits \in 0..MaxEdits /\ published \in 0..MaxPublished
    /\ faults \in 0..MaxFaults

\* What the validators of a list say is what it contains.
Honest(l) ==
    LET r == row[l]
    IN  /\ r.etag # Null => /\ r.etag.url = r.source.url
                            /\ r.domains = Parse(r.etag.doc, r.source.format)
        /\ r.hash # Null => r.domains = Parse(r.hash, r.source.format)

\* The validators of a list belong to its content, source and format, through
\* any refreshes and edits, but for two cases: a form that was opened before
\* another edit and takes back its source, and edits that come back to the
\* same source, or replace the content, within one download.
ValidatorsMatchContent == \A l \in Lists \ raced : Honest(l)

\* A download that began before its list got another source, or none, never
\* overwrites what an administrator put there: what a refresh stores comes
\* from the configured URL in the configured format, and is not empty.
RefreshesWhatIsConfigured ==
    [][\A l \in Lists :
          task'[l] # task[l] /\ row'[l].domains # row[l].domains
          /\ edit' = edit =>
              /\ IsUrl(l)
              /\ row'[l].domains \in
                    {Parse(d, row[l].source.format) :
                        d \in Serves[row[l].source.url]} \ {{}}]_vars

\* Whatever is in the database and not in the policy is about to be loaded: by
\* the cycle in which it was stored, although other lists of it failed, by its
\* editor, or by the engine, unless its writer raised after the commit.
ChangesAreLoaded ==
    \A l \in Lists \ unheard :
        active[l] # row[l].domains =>
            \/ failed
            \/ \E k \in Lists : task[k].changed
            \/ \E e \in Editors : edit[e].pc = "reload"

\* When documents, forms and errors have settled, a list holds what its URL
\* serves, if that has any domains, unless its validators were mixed up.
EventuallyMirrored ==
    \A l \in Lists :
        <>[](/\ IsUrl(l) /\ l \notin raced
             /\ Parse(server[row[l].source.url], row[l].source.format) # {}) =>
            <>[](IsUrl(l) => row[l].domains =
                    Parse(server[row[l].source.url], row[l].source.format))

\* docs/OPERATIONS.md: "Changing source URL/format clears conditional-download
\* validators so the next refresh reparses the source."  The code compares with
\* the list as the editor saw it, not as it is.
ChangeClearsValidators ==
    [][\A l \in Lists :
          row'[l].source # row[l].source /\ row'[l].source.type = "url" =>
              row'[l].etag = Null /\ row'[l].hash = Null]_vars
=============================================================================
