------------------------- MODULE ListRefresherProofs -------------------------
(***************************************************************************)
(* Theorems about ListRefresher, for every set of lists, editors, URLs,    *)
(* formats and documents, every parser and every bound: the validators of  *)
(* a list belong to its content, a refresh stores what is configured, and  *)
(* what is stored gets loaded.  DownloadsAreSound says what a download     *)
(* knows of the list it is about as long as nobody has edited it.          *)
(***************************************************************************)
EXTENDS ListRefresher, TLAPS

USE ParametersOK

RowStates == [source : Sources \cup {Deleted}, etag : Validators \cup {Null},
              hash : Docs \cup {Null}, domains : DomainSets, due : BOOLEAN]
TaskStates == [pc : {"none", "read", "fetch", "unmodified", "same", "write",
                     "fail", "done"},
               source : Sources \cup {Deleted}, etag : Validators \cup {Null},
               hash : Docs \cup {Null}, doc : Docs \cup {Null},
               touched : BOOLEAN, changed : BOOLEAN]
EditStates == [pc : {"none", "commit", "reload"}, list : Lists \cup {Null},
               read : Sources \cup {Deleted}, source : Sources \cup {Deleted},
               domains : DomainSets \cup {Null}]

Typed ==
    /\ row \in [Lists -> RowStates]
    /\ server \in [Urls -> Docs] /\ \A u \in Urls : server[u] \in Serves[u]
    /\ task \in [Lists -> TaskStates]
    /\ edit \in [Editors -> EditStates]
    /\ active \in [Lists -> DomainSets] /\ failed \in BOOLEAN
    /\ unheard \subseteq Lists /\ raced \subseteq Lists
    /\ edits \in 0..MaxEdits /\ published \in 0..MaxPublished
    /\ faults \in 0..MaxFaults
    /\ \A e \in Editors : edit[e].pc = "commit" => edit[e].list \in Lists

\* What a download that has got an answer holds.
AnswerIsSound(t) ==
    /\ t.pc \in {"fetch", "unmodified", "same", "write"} =>
          t.source \in Sources /\ t.source.type = "url"
    /\ t.pc = "fail" => t.source.type = "url"
    /\ t.pc = "unmodified" => t.etag # Null
    /\ t.pc \in {"unmodified", "same", "write"} /\ t.etag # Null =>
          t.etag.url = t.source.url
    /\ t.pc \in {"same", "write"} =>
          t.doc \in Serves[t.source.url] /\ (t.etag # Null => t.etag.doc = t.doc)
    /\ t.pc = "same" => t.hash = t.doc
    /\ t.pc = "write" => Parse(t.doc, t.source.format) # {}
    /\ t.changed => t.pc = "done"

\* The validators that a download has read are those of the list, unless the
\* list was edited.
ReadIsCurrent(l) ==
    task[l].pc \in {"fetch", "unmodified", "same"} /\ ~task[l].touched /\ Matches(l) =>
        /\ task[l].hash = row[l].hash
        /\ task[l].pc # "same" => task[l].etag = row[l].etag

DownloadsAreSound == \A l \in Lists : AnswerIsSound(task[l]) /\ ReadIsCurrent(l)

Inductive == Typed /\ DownloadsAreSound /\ ValidatorsMatchContent /\ ChangesAreLoaded

-----------------------------------------------------------------------------
(* Types.                                                                  *)

LEMMA FixedTypes ==
    /\ NoTask \in TaskStates /\ NoTask.pc = "none"
    /\ NoEdit \in EditStates /\ NoEdit.pc = "none"
    /\ AnswerIsSound(NoTask)
<1>1. NoTask \in TaskStates /\ NoTask.pc = "none" /\ NoTask.changed = FALSE
    BY DEF NoTask, TaskStates
<1>2. NoEdit \in EditStates /\ NoEdit.pc = "none"
    BY DEF NoEdit, EditStates
<1>3. AnswerIsSound(NoTask)
    BY <1>1 DEF AnswerIsSound
<1>4. QED
    BY <1>1, <1>2, <1>3

LEMMA FinishedType ==
    ASSUME NEW b \in BOOLEAN
    PROVE  /\ Finished(b) \in TaskStates /\ Finished(b).pc = "done"
           /\ Finished(b).changed = b /\ AnswerIsSound(Finished(b))
<1>1. /\ Finished(b) \in TaskStates /\ Finished(b).pc = "done"
      /\ Finished(b).changed = b
    BY DEF Finished, NoTask, TaskStates
<1>2. QED
    BY <1>1 DEF AnswerIsSound

LEMMA UrlSource ==
    ASSUME NEW s \in Sources \cup {Deleted}, s.type = "url"
    PROVE  s \in Sources /\ s.url \in Urls /\ s.format \in Formats
BY DEF Sources, Deleted

LEMMA SourceFormat ==
    ASSUME NEW s \in Sources
    PROVE  s.format \in Formats /\ s # Deleted /\ s.type \in {"url", "local"}
BY DEF Sources, Deleted

LEMMA FaultType ==
    ASSUME Typed, Fault \/ UNCHANGED faults
    PROVE  faults' \in 0..MaxFaults
BY DEF Typed, Fault

\* A download that changes, the others staying as they are.
LEMMA OneTask ==
    ASSUME Typed, NEW l \in Lists, NEW t \in TaskStates,
           task' = [task EXCEPT ![l] = t]
    PROVE  /\ task' \in [Lists -> TaskStates] /\ task'[l] = t
           /\ \A k \in Lists \ {l} : task'[k] = task[k]
BY DEF Typed

LEMMA OneRow ==
    ASSUME Typed, NEW l \in Lists, NEW r \in RowStates,
           row' = [row EXCEPT ![l] = r]
    PROVE  /\ row' \in [Lists -> RowStates] /\ row'[l] = r
           /\ \A k \in Lists \ {l} : row'[k] = row[k]
BY DEF Typed

-----------------------------------------------------------------------------
(* The steps of a download.                                                *)

\* A step that is about one list: r is what it stores and t how far it got.
LEMMA DownloadStep ==
    ASSUME Inductive, NEW l \in Lists, NEW t \in TaskStates, NEW r \in RowStates,
           task' = [task EXCEPT ![l] = t], row' = [row EXCEPT ![l] = r],
           UNCHANGED <<server, edit, active, failed, edits, published>>,
           AnswerIsSound(t), ReadIsCurrent(l)', l \notin raced' => Honest(l)',
           raced \ {l} \subseteq raced', raced' \subseteq raced \cup {l},
           unheard \subseteq unheard', unheard' \subseteq Lists,
           faults' \in 0..MaxFaults, task[l].changed => t.changed,
           r.domains # row[l].domains => t.changed \/ l \in unheard'
    PROVE  Inductive'
<1>1. /\ task' \in [Lists -> TaskStates] /\ task'[l] = t
      /\ \A k \in Lists \ {l} : task'[k] = task[k]
    BY OneTask DEF Inductive
<1>2. /\ row' \in [Lists -> RowStates] /\ row'[l] = r
      /\ \A k \in Lists \ {l} : row'[k] = row[k]
    BY OneRow DEF Inductive
<1>3. Typed'
    BY <1>1, <1>2 DEF Inductive, Typed
<1>4. DownloadsAreSound'
    <2>1. ASSUME NEW k \in Lists \ {l}
          PROVE  (AnswerIsSound(task[k]) /\ ReadIsCurrent(k))'
        BY <1>1, <1>2 DEF Inductive, DownloadsAreSound, ReadIsCurrent, Matches
    <2>2. AnswerIsSound(task[l])'
        BY <1>1
    <2>3. QED
        BY <2>1, <2>2 DEF DownloadsAreSound
<1>5. ValidatorsMatchContent'
    <2>1. ASSUME NEW k \in Lists \ raced', k # l
          PROVE  Honest(k)'
        BY <1>2, <2>1 DEF Inductive, ValidatorsMatchContent, Honest
    <2>2. QED
        BY <2>1 DEF ValidatorsMatchContent
<1>6. ChangesAreLoaded'
    <2>1. ASSUME NEW k \in Lists \ unheard', active'[k] # row'[k].domains
          PROVE  \/ failed'
                 \/ \E j \in Lists : task'[j].changed
                 \/ \E e \in Editors : edit'[e].pc = "reload"
        <3>1. CASE k = l /\ r.domains # row[l].domains
            BY <1>1, <2>1, <3>1
        <3>2. CASE k # l \/ r.domains = row[l].domains
            <4>1. active[k] # row[k].domains /\ k \notin unheard
                BY <1>2, <2>1, <3>2
            <4>2. \/ failed
                  \/ \E j \in Lists : task[j].changed
                  \/ \E e \in Editors : edit[e].pc = "reload"
                BY <4>1 DEF Inductive, ChangesAreLoaded
            <4>3. \A j \in Lists : task[j].changed => task'[j].changed
                BY <1>1
            <4>4. QED
                BY <4>2, <4>3
        <3>3. QED
            BY <3>1, <3>2
    <2>2. QED
        BY <2>1 DEF ChangesAreLoaded
<1>7. QED
    BY <1>3, <1>4, <1>5, <1>6 DEF Inductive

\* One that leaves the lists alone.
LEMMA QuietStep ==
    ASSUME Inductive, NEW l \in Lists, NEW t \in TaskStates,
           task' = [task EXCEPT ![l] = t],
           UNCHANGED <<row, server, edit, policy, raced, edits, published>>,
           AnswerIsSound(t), ~task[l].changed,
           t.pc \in {"fetch", "unmodified", "same"} /\ ~t.touched
               /\ row[l].source = t.source =>
                   /\ t.hash = row[l].hash
                   /\ t.pc # "same" => t.etag = row[l].etag,
           faults' \in 0..MaxFaults
    PROVE  Inductive'
<1>1. row' = [row EXCEPT ![l] = row[l]] /\ row[l] \in RowStates
    BY DEF Inductive, Typed
<1>2. task'[l] = t
    BY OneTask DEF Inductive
<1>3. ReadIsCurrent(l)'
    BY <1>2 DEF ReadIsCurrent, Matches
<1>4. l \notin raced' => Honest(l)'
    BY DEF Inductive, ValidatorsMatchContent, Honest
<1>5. UNCHANGED <<active, failed, unheard>> /\ unheard' \subseteq Lists
    BY DEF policy, Inductive, Typed
<1>6. QED
    BY <1>1, <1>3, <1>4, <1>5, DownloadStep

LEMMA ReadSourceKeeps ==
    ASSUME Inductive, NEW l \in Lists, ReadSource(l)
    PROVE  Inductive'
<1>1. /\ task[l].pc = "read" /\ task[l] \in TaskStates
      /\ AnswerIsSound(task[l]) /\ row[l] \in RowStates
      /\ UNCHANGED <<row, server, edit, policy, raced, edits, published>>
      /\ faults' \in 0..MaxFaults
    BY FaultType DEF ReadSource, Inductive, Typed, DownloadsAreSound
<1>2. ~task[l].changed
    BY <1>1 DEF AnswerIsSound
<1>3. CASE task' = [task EXCEPT ![l] = Finished(FALSE)]
    BY <1>1, <1>2, <1>3, FinishedType, QuietStep
<1>4. CASE /\ ValidSource(l)
           /\ task' = [task EXCEPT ![l] =
                  [NoTask EXCEPT !.pc = "fetch", !.source = row[l].source,
                                 !.etag = row[l].etag, !.hash = row[l].hash]]
    <2>1. DEFINE t == [NoTask EXCEPT !.pc = "fetch", !.source = row[l].source,
                                     !.etag = row[l].etag, !.hash = row[l].hash]
    <2>2. /\ row[l].source \in Sources \cup {Deleted} /\ row[l].source.type = "url"
          /\ row[l].etag \in Validators \cup {Null} /\ row[l].hash \in Docs \cup {Null}
        BY <1>1, <1>4 DEF RowStates, ValidSource, IsUrl
    <2>3. /\ t \in TaskStates /\ t.pc = "fetch" /\ t.source = row[l].source
          /\ t.etag = row[l].etag /\ t.hash = row[l].hash /\ t.changed = FALSE
        BY <2>2 DEF NoTask, TaskStates
    <2> HIDE DEF t
    <2>4. AnswerIsSound(t)
        BY <2>2, <2>3, UrlSource DEF AnswerIsSound
    <2>5. QED
        BY <1>1, <1>2, <1>4, <2>3, <2>4, QuietStep DEF t
<1>5. QED
    BY <1>3, <1>4 DEF ReadSource

LEMMA AnswerType ==
    ASSUME Typed, NEW l \in Lists,
           NEW pc \in {"unmodified", "same", "write", "fail"},
           NEW etag \in Validators \cup {Null}, NEW doc \in Docs \cup {Null},
           Answer(l, pc, etag, doc)
    PROVE  \E t \in TaskStates :
              /\ task' = [task EXCEPT ![l] = t]
              /\ t.pc = pc /\ t.etag = etag /\ t.doc = doc
              /\ t.source = task[l].source /\ t.hash = task[l].hash
              /\ t.touched = task[l].touched /\ t.changed = task[l].changed
<1>1. DEFINE t == [task[l] EXCEPT !.pc = pc, !.etag = etag, !.doc = doc]
<1>2. task[l] \in TaskStates
    BY DEF Typed
<1>3. /\ t \in TaskStates /\ t.pc = pc /\ t.etag = etag /\ t.doc = doc
      /\ t.source = task[l].source /\ t.hash = task[l].hash
      /\ t.touched = task[l].touched /\ t.changed = task[l].changed
    BY <1>2 DEF TaskStates
<1>4. task' = [task EXCEPT ![l] = t]
    BY DEF Answer, Typed
<1>5. QED
    BY <1>3, <1>4

LEMMA FetchKeeps ==
    ASSUME Inductive, NEW l \in Lists, Fetch(l)
    PROVE  Inductive'
<1>1. DEFINE source == task[l].source
             doc == server[source.url]
             current == [url |-> source.url, doc |-> doc]
<1>2. /\ task[l].pc = "fetch"
      /\ UNCHANGED <<row, server, edit, policy, raced, edits, published>>
      /\ faults' \in 0..MaxFaults /\ Typed
    BY FaultType DEF Fetch, Inductive
<1>3. AnswerIsSound(task[l]) /\ ReadIsCurrent(l)
    BY DEF Inductive, DownloadsAreSound
<1>4. source \in Sources /\ source.type = "url" /\ ~task[l].changed
    BY <1>2, <1>3 DEF AnswerIsSound
<1>5. doc \in Docs /\ doc \in Serves[source.url]
    BY <1>4, UrlSource DEF Inductive, Typed
<1>6. /\ current \in Validators \cup {Null} /\ current # Null
      /\ current.url = source.url /\ current.doc = doc
    BY <1>4, <1>5, UrlSource DEF Validators
<1>7. /\ ~task[l].touched /\ row[l].source = source =>
            task[l].hash = row[l].hash /\ task[l].etag = row[l].etag
    BY <1>2, <1>3 DEF ReadIsCurrent, Matches
<1>8. \/ task[l].etag = current /\ Answer(l, "unmodified", current, Null)
      \/ \E etag \in {Null, current} :
            Answer(l, CASE task[l].hash = doc -> "same"
                        [] task[l].hash # doc /\ Parse(doc, source.format) = {} -> "fail"
                        [] OTHER -> "write",
                   etag, doc)
      \/ Answer(l, "fail", Null, Null)
    BY DEF Fetch
<1> HIDE DEF doc, current, source
<1>9. CASE task[l].etag = current /\ Answer(l, "unmodified", current, Null)
    <2>1. PICK t \in TaskStates :
              /\ task' = [task EXCEPT ![l] = t]
              /\ t.pc = "unmodified" /\ t.etag = current /\ t.source = source
              /\ t.hash = task[l].hash /\ t.touched = task[l].touched
              /\ ~t.changed
        BY <1>2, <1>4, <1>6, <1>9, AnswerType DEF source
    <2>2. AnswerIsSound(t)
        BY <1>4, <1>6, <2>1 DEF AnswerIsSound
    <2>3. QED
        BY <1>2, <1>4, <1>7, <1>9, <2>1, <2>2, QuietStep
<1>10. ASSUME NEW etag \in {Null, current}, task[l].hash = doc,
              Answer(l, "same", etag, doc)
       PROVE  Inductive'
    <2>1. PICK t \in TaskStates :
              /\ task' = [task EXCEPT ![l] = t]
              /\ t.pc = "same" /\ t.etag = etag /\ t.doc = doc /\ t.source = source
              /\ t.hash = task[l].hash /\ t.touched = task[l].touched
              /\ ~t.changed
        BY <1>2, <1>4, <1>5, <1>6, <1>10, AnswerType DEF source
    <2>2. AnswerIsSound(t)
        BY <1>4, <1>5, <1>6, <1>10, <2>1 DEF AnswerIsSound
    <2>3. QED
        BY <1>2, <1>4, <1>7, <2>1, <2>2, QuietStep
<1>11. ASSUME NEW etag \in {Null, current}, Parse(doc, source.format) # {},
              Answer(l, "write", etag, doc)
       PROVE  Inductive'
    <2>1. PICK t \in TaskStates :
              /\ task' = [task EXCEPT ![l] = t]
              /\ t.pc = "write" /\ t.etag = etag /\ t.doc = doc /\ t.source = source
              /\ ~t.changed
        BY <1>2, <1>4, <1>5, <1>6, <1>11, AnswerType DEF source
    <2>2. AnswerIsSound(t)
        BY <1>4, <1>5, <1>6, <1>11, <2>1 DEF AnswerIsSound
    <2>3. QED
        BY <1>2, <1>4, <2>1, <2>2, QuietStep
<1>12. ASSUME NEW etag \in {Null, current}, NEW d \in {doc, Null},
              Answer(l, "fail", etag, d)
       PROVE  Inductive'
    <2>1. PICK t \in TaskStates :
              /\ task' = [task EXCEPT ![l] = t]
              /\ t.pc = "fail" /\ t.source = source /\ ~t.changed
        BY <1>2, <1>4, <1>5, <1>6, <1>12, AnswerType DEF source
    <2>2. AnswerIsSound(t)
        BY <1>4, <2>1 DEF AnswerIsSound
    <2>3. QED
        BY <1>2, <1>4, <2>1, <2>2, QuietStep
<1>13. QED
    BY <1>8, <1>9, <1>10, <1>11, <1>12

LEMMA FailsType ==
    ASSUME Inductive, NEW l \in Lists,
           task[l].pc \in {"unmodified", "same", "write"}, Fails(l)
    PROVE  /\ faults' \in 0..MaxFaults
           /\ \E t \in TaskStates :
                 /\ task' = [task EXCEPT ![l] = t]
                 /\ t.pc = "fail" /\ t.changed = FALSE /\ AnswerIsSound(t)
<1>1. DEFINE t == [task[l] EXCEPT !.pc = "fail"]
<1>2. task[l] \in TaskStates /\ AnswerIsSound(task[l])
    BY DEF Inductive, Typed, DownloadsAreSound
<1>3. task[l].source.type = "url" /\ task[l].changed = FALSE
    BY <1>2 DEF AnswerIsSound, TaskStates
<1>4. /\ t \in TaskStates /\ t.pc = "fail" /\ t.source = task[l].source
      /\ t.changed = task[l].changed
    BY <1>2 DEF TaskStates
<1>5. task' = [task EXCEPT ![l] = t]
    BY DEF Fails, Inductive, Typed
<1> HIDE DEF t
<1>6. AnswerIsSound(t)
    BY <1>3, <1>4 DEF AnswerIsSound
<1>7. QED
    BY <1>3, <1>4, <1>5, <1>6, FaultType DEF Fails, Inductive

\* A write that took effect, whether it raised or not.
LEMMA EffectKeeps ==
    ASSUME Inductive, NEW l \in Lists, NEW r \in RowStates, NEW changed \in BOOLEAN,
           task[l].pc \in {"unmodified", "same", "write"},
           row' = [row EXCEPT ![l] = r],
           UNCHANGED <<server, edit, active, failed, edits, published>>,
           l \notin raced' => Honest(l)',
           raced \ {l} \subseteq raced', raced' \subseteq raced \cup {l},
           r.domains # row[l].domains => changed,
           \/ /\ task' = [task EXCEPT ![l] = Finished(changed)]
              /\ UNCHANGED <<unheard, faults>>
           \/ /\ Fails(l)
              /\ unheard' = IF changed THEN unheard \cup {l} ELSE unheard
    PROVE  Inductive'
<1>1. AnswerIsSound(task[l]) /\ unheard \subseteq Lists /\ Typed
    BY DEF Inductive, Typed, DownloadsAreSound
<1>2. ~task[l].changed
    BY <1>1 DEF AnswerIsSound
<1>3. PICK t \in TaskStates :
          /\ task' = [task EXCEPT ![l] = t] /\ t.pc \in {"done", "fail"}
          /\ AnswerIsSound(t)
          /\ changed => t.changed \/ l \in unheard'
    BY FinishedType, FailsType
<1>4. task'[l] = t
    BY <1>1, <1>3, OneTask
<1>5. ReadIsCurrent(l)'
    BY <1>3, <1>4 DEF ReadIsCurrent
<1>6. unheard \subseteq unheard' /\ unheard' \subseteq Lists
      /\ faults' \in 0..MaxFaults
    BY <1>1, FailsType, FaultType
<1>7. QED
    BY <1>2, <1>3, <1>5, <1>6, DownloadStep

LEMMA NothingWritten ==
    ASSUME Inductive, NEW l \in Lists,
           task[l].pc \in {"unmodified", "same", "write"}, Fails(l),
           UNCHANGED <<row, raced, unheard, server, edit, active, failed,
                       edits, published>>
    PROVE  Inductive'
<1>1. ~task[l].changed
    BY DEF Inductive, DownloadsAreSound, AnswerIsSound
<1>2. UNCHANGED policy
    BY DEF policy
<1>3. QED
    BY <1>1, <1>2, FailsType, QuietStep

LEMMA UnchangedKeeps ==
    ASSUME Inductive, NEW l \in Lists, Unchanged(l)
    PROVE  Inductive'
<1>1. /\ task[l].pc \in {"unmodified", "same"} /\ task[l] \in TaskStates
      /\ row[l] \in RowStates
      /\ AnswerIsSound(task[l]) /\ ReadIsCurrent(l)
      /\ UNCHANGED <<server, edit, active, failed, edits, published>>
    BY DEF Unchanged, Inductive, Typed, DownloadsAreSound
<1>2. DEFINE etag == IF task[l].etag = Null THEN row[l].etag ELSE task[l].etag
             hash == IF task[l].pc = "same" THEN task[l].doc ELSE row[l].hash
             stored == [row[l] EXCEPT !.etag = etag, !.hash = hash, !.due = FALSE]
             r == IF Matches(l) THEN stored ELSE row[l]
             effect ==
                 IF Matches(l)
                 THEN /\ row' = [row EXCEPT
                           ![l].etag = IF task[l].etag = Null THEN @ ELSE task[l].etag,
                           ![l].hash = IF task[l].pc = "same" THEN task[l].doc ELSE @,
                           ![l].due = FALSE]
                      /\ raced' = IF task[l].touched /\ row[l].source = task[l].source
                                  THEN raced \cup {l} ELSE raced
                 ELSE UNCHANGED <<row, raced>>
<1>3. Write(l, effect, FALSE)
    BY DEF Unchanged
<1>4. CASE Fails(l) /\ UNCHANGED <<row, raced, unheard>>
    BY <1>1, <1>4, NothingWritten
<1>5. CASE /\ effect
           /\ \/ /\ task' = [task EXCEPT ![l] = Finished(FALSE)]
                 /\ UNCHANGED <<unheard, faults>>
              \/ /\ Fails(l)
                 /\ unheard' = IF FALSE THEN unheard \cup {l} ELSE unheard
    <2>1. etag \in Validators \cup {Null} /\ hash \in Docs \cup {Null}
        BY <1>1 DEF TaskStates, RowStates
    <2>2. /\ stored \in RowStates /\ stored.source = row[l].source
          /\ stored.domains = row[l].domains
          /\ stored.etag = etag /\ stored.hash = hash
        <3> HIDE DEF etag, hash
        <3>1. QED
            BY <1>1, <2>1 DEF RowStates
    <2>3. row' = [row EXCEPT ![l] = r]
        BY <1>5 DEF Inductive, Typed
    <2>4. /\ raced \subseteq raced' /\ raced' \subseteq raced \cup {l}
          /\ Matches(l) /\ task[l].touched => l \in raced'
        BY <1>5 DEF Matches
    <2> HIDE DEF effect, stored
    <2>5. r \in RowStates /\ r.domains = row[l].domains /\ r.source = row[l].source
        BY <1>1, <2>2
    <2>6. row'[l] = r
        BY <2>3, <2>5, OneRow DEF Inductive
    <2>7. l \notin raced' => Honest(l)'
        <3>1. SUFFICES ASSUME l \notin raced'
                       PROVE  Honest(l)'
            OBVIOUS
        <3>2. Honest(l)
            BY <2>4, <3>1 DEF Inductive, ValidatorsMatchContent
        <3>3. CASE ~Matches(l)
            BY <2>6, <3>2, <3>3 DEF Honest
        <3>4. CASE Matches(l)
            <4>1. /\ task[l].hash = row[l].hash /\ row[l].source = task[l].source
                  /\ task[l].pc # "same" => task[l].etag = row[l].etag
                BY <1>1, <2>4, <3>1, <3>4 DEF ReadIsCurrent, Matches
            <4>2. hash = row[l].hash
                BY <1>1, <4>1 DEF AnswerIsSound
            <4>3. CASE task[l].pc = "unmodified" \/ task[l].etag = Null
                <5>1. etag = row[l].etag
                    BY <4>1, <4>3
                <5>2. QED
                    BY <2>2, <2>5, <2>6, <3>2, <3>4, <4>2, <5>1 DEF Honest
            <4>4. CASE task[l].pc = "same" /\ task[l].etag # Null
                <5>1. /\ etag.url = row[l].source.url /\ etag.doc = row[l].hash
                      /\ row[l].hash \in Docs
                    BY <1>1, <4>1, <4>4, UrlSource DEF AnswerIsSound
                <5>2. row[l].hash # Null
                    BY <5>1
                <5>3. QED
                    BY <2>2, <2>5, <2>6, <3>2, <3>4, <4>2, <5>1, <5>2 DEF Honest
            <4>5. QED
                BY <1>1, <4>3, <4>4
        <3>5. QED
            BY <3>3, <3>4
    <2> HIDE DEF r
    <2>8. QED
        BY <1>1, <1>5, <2>3, <2>4, <2>5, <2>7, EffectKeeps
<1>6. QED
    BY <1>3, <1>4, <1>5 DEF Write

\* What a refresh stores.
LEMMA StoredType ==
    ASSUME Inductive, NEW l \in Lists, task[l].pc = "write", Matches(l)
    PROVE  /\ Stored(l) \in RowStates /\ Stored(l).source = row[l].source
           /\ Stored(l).domains = Parse(task[l].doc, row[l].source.format)
           /\ Stored(l).etag = task[l].etag /\ Stored(l).hash = task[l].doc
           /\ IsUrl(l) /\ task[l].doc \in Docs
           /\ task[l].doc \in Serves[row[l].source.url]
           /\ Stored(l).domains # {}
           /\ task[l].etag # Null => /\ task[l].etag.url = row[l].source.url
                                     /\ task[l].etag.doc = task[l].doc
<1>1. /\ task[l] \in TaskStates /\ row[l] \in RowStates /\ AnswerIsSound(task[l])
      /\ task[l].source = row[l].source
    BY DEF Inductive, Typed, DownloadsAreSound, Matches
<1>2. /\ row[l].source \in Sources /\ row[l].source.type = "url"
      /\ task[l].doc \in Serves[row[l].source.url]
      /\ Parse(task[l].doc, row[l].source.format) # {}
      /\ task[l].etag # Null => /\ task[l].etag.url = row[l].source.url
                                /\ task[l].etag.doc = task[l].doc
    BY <1>1 DEF AnswerIsSound
<1>3. task[l].doc \in Docs /\ row[l].source.format \in Formats
    BY <1>2, UrlSource
<1>4. Parse(task[l].doc, row[l].source.format) \in DomainSets
    BY <1>3 DEF DomainSets
<1>5. task[l].etag \in Validators \cup {Null}
    BY <1>1 DEF TaskStates
<1>6. /\ Stored(l) \in RowStates /\ Stored(l).source = row[l].source
      /\ Stored(l).domains = Parse(task[l].doc, row[l].source.format)
      /\ Stored(l).etag = task[l].etag /\ Stored(l).hash = task[l].doc
    BY <1>1, <1>3, <1>4, <1>5 DEF Stored, RowStates
<1>7. QED
    BY <1>2, <1>3, <1>6 DEF IsUrl

LEMMA ReplaceKeeps ==
    ASSUME Inductive, NEW l \in Lists, Replace(l)
    PROVE  Inductive'
<1>1. /\ task[l].pc = "write" /\ task[l] \in TaskStates /\ row[l] \in RowStates
      /\ UNCHANGED <<server, edit, active, failed, edits, published>>
      /\ ~task[l].changed
    BY DEF Replace, Inductive, Typed, DownloadsAreSound, AnswerIsSound
<1>2. CASE /\ task' = [task EXCEPT ![l] = Finished(FALSE)]
           /\ UNCHANGED <<row, raced, unheard, faults>>
    <2>1. UNCHANGED policy
        BY <1>1, <1>2 DEF policy
    <2>2. faults' \in 0..MaxFaults
        BY <1>2 DEF Inductive, Typed
    <2>3. QED
        BY <1>1, <1>2, <2>1, <2>2, FinishedType, QuietStep
<1>3. CASE Fails(l) /\ UNCHANGED <<row, raced, unheard>>
    BY <1>1, <1>3, NothingWritten
<1>4. ASSUME NEW r \in RowStates, NEW changed \in BOOLEAN,
             row' = [row EXCEPT ![l] = r],
             l \notin raced' => Honest(l)',
             raced \ {l} \subseteq raced', raced' \subseteq raced \cup {l},
             r.domains # row[l].domains => changed,
             \/ /\ task' = [task EXCEPT ![l] = Finished(changed)]
                /\ UNCHANGED <<unheard, faults>>
             \/ /\ Fails(l)
                /\ unheard' = IF changed THEN unheard \cup {l} ELSE unheard
      PROVE  Inductive'
    BY <1>1, <1>4, EffectKeeps
<1>5. CASE /\ Matches(l) /\ row[l].hash = task[l].doc
           /\ row' = [row EXCEPT ![l].etag = task[l].etag, ![l].due = FALSE]
           /\ UNCHANGED raced
           /\ \/ /\ task' = [task EXCEPT ![l] = Finished(FALSE)]
                 /\ UNCHANGED <<unheard, faults>>
              \/ /\ Fails(l)
                 /\ unheard' = IF FALSE THEN unheard \cup {l} ELSE unheard
    <2>1. DEFINE r == [row[l] EXCEPT !.etag = task[l].etag, !.due = FALSE]
    <2>2. task[l].etag \in Validators \cup {Null}
        BY <1>1 DEF TaskStates
    <2>3. /\ r \in RowStates /\ r.source = row[l].source /\ r.etag = task[l].etag
          /\ r.hash = row[l].hash /\ r.domains = row[l].domains
        BY <1>1, <2>2 DEF RowStates
    <2>4. row' = [row EXCEPT ![l] = r]
        BY <1>5 DEF Inductive, Typed
    <2> HIDE DEF r
    <2>5. row'[l] = r
        BY <2>3, <2>4, OneRow DEF Inductive
    <2>6. l \notin raced' => Honest(l)'
        <3>1. SUFFICES ASSUME l \notin raced'
                       PROVE  Honest(l)'
            OBVIOUS
        <3>2. Honest(l)
            BY <1>5, <3>1 DEF Inductive, ValidatorsMatchContent
        <3>3. /\ task[l].doc \in Docs /\ task[l].doc # Null
              /\ task[l].etag # Null => /\ task[l].etag.url = row[l].source.url
                                        /\ task[l].etag.doc = task[l].doc
            BY <1>1, <1>5, StoredType
        <3>4. QED
            BY <1>5, <2>3, <2>5, <3>2, <3>3 DEF Honest
    <2>7. QED
        BY <1>4, <1>5, <2>3, <2>4, <2>6
<1>6. CASE /\ Matches(l) /\ row' = [row EXCEPT ![l] = Stored(l)]
           /\ raced' = raced \ {l}
           /\ \/ /\ task' = [task EXCEPT
                          ![l] = Finished(Changed(row[l].domains, Stored(l).domains))]
                 /\ UNCHANGED <<unheard, faults>>
              \/ /\ Fails(l)
                 /\ unheard' = IF Changed(row[l].domains, Stored(l).domains)
                               THEN unheard \cup {l} ELSE unheard
    <2>1. Stored(l) \in RowStates /\ row'[l] = Stored(l)
        BY <1>1, <1>6, StoredType, OneRow DEF Inductive
    <2>2. Honest(l)'
        BY <1>1, <1>6, <2>1, StoredType DEF Honest
    <2>3. /\ Changed(row[l].domains, Stored(l).domains) \in BOOLEAN
          /\ Stored(l).domains # row[l].domains
                 => Changed(row[l].domains, Stored(l).domains)
        BY DEF Changed
    <2>4. QED
        BY <1>4, <1>6, <2>1, <2>2, <2>3
<1>7. QED
    BY <1>2, <1>3, <1>5, <1>6 DEF Replace, Write

LEMMA RecordFailureKeeps ==
    ASSUME Inductive, NEW l \in Lists, RecordFailure(l)
    PROVE  Inductive'
<1>1. /\ task[l].pc = "fail" /\ row[l] \in RowStates /\ ~task[l].changed
      /\ task' = [task EXCEPT ![l] = Finished(FALSE)]
      /\ UNCHANGED <<server, edit, policy, raced, edits, published>>
      /\ faults' \in 0..MaxFaults /\ unheard \subseteq Lists
    BY FaultType DEF RecordFailure, Inductive, Typed, DownloadsAreSound,
                     AnswerIsSound
<1>2. DEFINE r == [row[l] EXCEPT !.due = FALSE]
<1>3. r \in RowStates /\ r.source = row[l].source /\ r.etag = row[l].etag
      /\ r.hash = row[l].hash /\ r.domains = row[l].domains
    BY <1>1 DEF RowStates
<1>4. row' = [row EXCEPT ![l] = r] \/ row' = row
    BY DEF RecordFailure, Inductive, Typed
<1> HIDE DEF r
<1>5. CASE row' = row
    BY <1>1, <1>5, FinishedType, QuietStep
<1>6. CASE row' = [row EXCEPT ![l] = r]
    <2>1. row'[l] = r /\ task'[l].pc = "done"
        BY <1>1, <1>3, <1>6, OneRow, OneTask, FinishedType DEF Inductive
    <2>2. ReadIsCurrent(l)'
        BY <2>1 DEF ReadIsCurrent
    <2>3. l \notin raced' => Honest(l)'
        BY <1>1, <1>3, <2>1 DEF Inductive, ValidatorsMatchContent, Honest
    <2>4. UNCHANGED <<active, failed, unheard>>
        BY <1>1 DEF policy
    <2>5. QED
        BY <1>1, <1>3, <1>6, <2>2, <2>3, <2>4, FinishedType, DownloadStep
<1>7. QED
    BY <1>4, <1>5, <1>6

-----------------------------------------------------------------------------
(* Cycles, reloads and the rest.                                           *)

LEMMA LoadIsCurrent ==
    ASSUME Typed, Load \/ Reload, UNCHANGED row
    PROVE  /\ active' \in [Lists -> DomainSets] /\ failed' \in BOOLEAN
           /\ unheard' \subseteq Lists /\ ChangesAreLoaded'
<1>1. \A l \in Lists : row[l].domains \in DomainSets
    BY DEF Typed, RowStates
<1>2. CASE Load
    <2>1. active' = [l \in Lists |-> row[l].domains] /\ failed' = FALSE
          /\ unheard' = {}
        BY <1>2 DEF Load
    <2>2. QED
        BY <1>1, <2>1 DEF ChangesAreLoaded
<1>3. CASE failed' = TRUE /\ UNCHANGED <<active, unheard>>
    BY <1>3 DEF Typed, ChangesAreLoaded
<1>4. QED
    BY <1>2, <1>3 DEF Reload

\* Tasks that are new or gone say nothing, and rows that stay are honest.
LEMMA SameRows ==
    ASSUME Inductive, UNCHANGED <<row, raced>>,
           \/ UNCHANGED task
           \/ \A l \in Lists : /\ AnswerIsSound(task'[l])
                               /\ task'[l].pc \in {"none", "read"}
    PROVE  DownloadsAreSound' /\ ValidatorsMatchContent'
<1>1. ValidatorsMatchContent'
    BY DEF Inductive, ValidatorsMatchContent, Honest
<1>2. CASE UNCHANGED task
    BY <1>1, <1>2 DEF Inductive, DownloadsAreSound, ReadIsCurrent, Matches
<1>3. CASE \A l \in Lists : /\ AnswerIsSound(task'[l])
                            /\ task'[l].pc \in {"none", "read"}
    BY <1>1, <1>3 DEF DownloadsAreSound, ReadIsCurrent
<1>4. QED
    BY <1>2, <1>3

LEMMA StartCycleKeeps ==
    ASSUME Inductive, StartCycle
    PROVE  Inductive'
<1>1. /\ UNCHANGED <<row, server, edit, policy, raced, bounds>>
      /\ \A l \in Lists : task[l].pc = "none"
    BY DEF StartCycle, InCycle
<1>2. DEFINE t == [NoTask EXCEPT !.pc = "read"]
<1>3. t \in TaskStates /\ t.pc = "read" /\ t.changed = FALSE
    BY DEF NoTask, TaskStates
<1>4. \A l \in Lists : task'[l] \in {t, NoTask}
    BY DEF StartCycle
<1>5. task' \in [Lists -> TaskStates]
    <2> HIDE DEF t
    <2>1. task' = [l \in Lists |-> task'[l]]
        BY DEF StartCycle
    <2>2. QED
        BY <1>3, <1>4, <2>1, FixedTypes
<1>6. AnswerIsSound(t)
    <2> HIDE DEF t
    <2>1. QED
        BY <1>3 DEF AnswerIsSound
<1> HIDE DEF t
<1>7. DownloadsAreSound' /\ ValidatorsMatchContent'
    BY <1>1, <1>3, <1>4, <1>6, FixedTypes, SameRows
<1>8. Typed'
    BY <1>1, <1>5 DEF Inductive, Typed, policy, bounds
<1>9. ChangesAreLoaded'
    <2>1. \A l \in Lists : ~task[l].changed
        BY <1>1 DEF Inductive, DownloadsAreSound, AnswerIsSound
    <2>2. QED
        BY <1>1, <2>1 DEF Inductive, ChangesAreLoaded, policy
<1>10. QED
    BY <1>7, <1>8, <1>9 DEF Inductive

LEMMA EndCycleKeeps ==
    ASSUME Inductive, EndCycle
    PROVE  Inductive'
<1>1. /\ UNCHANGED <<row, server, edit, raced, edits, published>>
      /\ task' = [l \in Lists |-> NoTask]
      /\ faults' \in 0..MaxFaults
    BY FaultType DEF EndCycle, Reload, Inductive
<1>2. task' \in [Lists -> TaskStates] /\ \A l \in Lists : task'[l] = NoTask
    BY <1>1, FixedTypes
<1>3. DownloadsAreSound' /\ ValidatorsMatchContent'
    BY <1>1, <1>2, FixedTypes, SameRows
<1>4. /\ active' \in [Lists -> DomainSets] /\ failed' \in BOOLEAN
      /\ unheard' \subseteq Lists /\ ChangesAreLoaded'
    <2>1. CASE \E l \in InCycle : task[l].changed
        BY <1>1, <2>1, LoadIsCurrent DEF EndCycle, Inductive
    <2>2. CASE ~\E l \in InCycle : task[l].changed
        <3>1. UNCHANGED policy
            BY <2>2 DEF EndCycle
        <3>2. \A l \in Lists : ~task[l].changed
            BY <2>2 DEF InCycle, Inductive, DownloadsAreSound, AnswerIsSound
        <3>3. QED
            BY <1>1, <3>1, <3>2 DEF Inductive, Typed, ChangesAreLoaded, policy
    <2>3. QED
        BY <2>1, <2>2
<1>5. Typed'
    BY <1>1, <1>2, <1>4 DEF Inductive, Typed
<1>6. QED
    BY <1>3, <1>4, <1>5 DEF Inductive

LEMMA RecoverKeeps ==
    ASSUME Inductive, Recover
    PROVE  Inductive'
<1>1. Load /\ UNCHANGED <<row, server, task, edit, raced, bounds>>
    BY DEF Recover
<1>2. /\ active' \in [Lists -> DomainSets] /\ failed' \in BOOLEAN
      /\ unheard' \subseteq Lists /\ ChangesAreLoaded'
    BY <1>1, LoadIsCurrent DEF Inductive
<1>3. QED
    BY <1>1, <1>2, SameRows DEF Inductive, Typed, bounds

LEMMA RestartKeeps ==
    ASSUME Inductive, Restart
    PROVE  Inductive'
<1>1. /\ Load /\ UNCHANGED <<row, server, raced, edits, published>>
      /\ task' = [l \in Lists |-> NoTask] /\ edit' = [e \in Editors |-> NoEdit]
      /\ faults' \in 0..MaxFaults
    BY FaultType DEF Restart, Inductive
<1>2. /\ active' \in [Lists -> DomainSets] /\ failed' \in BOOLEAN
      /\ unheard' \subseteq Lists /\ ChangesAreLoaded'
    BY <1>1, LoadIsCurrent DEF Inductive
<1>3. /\ task' \in [Lists -> TaskStates] /\ \A l \in Lists : task'[l] = NoTask
      /\ edit' \in [Editors -> EditStates]
      /\ \A e \in Editors : edit'[e].pc = "none"
    BY <1>1, FixedTypes
<1>4. DownloadsAreSound' /\ ValidatorsMatchContent'
    BY <1>1, <1>3, FixedTypes, SameRows
<1>5. Typed'
    BY <1>1, <1>2, <1>3 DEF Inductive, Typed
<1>6. QED
    BY <1>2, <1>4, <1>5 DEF Inductive

LEMMA DueComesKeeps ==
    ASSUME Inductive, NEW l \in Lists, DueComes(l)
    PROVE  Inductive'
<1>1. DEFINE r == [row[l] EXCEPT !.due = TRUE]
<1>2. row[l] \in RowStates /\ task[l] \in TaskStates
      /\ AnswerIsSound(task[l]) /\ ReadIsCurrent(l)
      /\ unheard \subseteq Lists /\ faults \in 0..MaxFaults
    BY DEF Inductive, Typed, DownloadsAreSound
<1>3. r \in RowStates /\ r.source = row[l].source /\ r.etag = row[l].etag
      /\ r.hash = row[l].hash /\ r.domains = row[l].domains
    BY <1>2 DEF RowStates
<1>4. row' = [row EXCEPT ![l] = r] /\ task' = [task EXCEPT ![l] = task[l]]
    BY DEF DueComes, Inductive, Typed
<1>5. UNCHANGED <<server, task, edit, active, failed, unheard, raced, edits,
                  published, faults>>
    BY DEF DueComes, policy, bounds
<1> HIDE DEF r
<1>6. row'[l] = r
    BY <1>3, <1>4, OneRow DEF Inductive
<1>7. ReadIsCurrent(l)'
    BY <1>2, <1>3, <1>5, <1>6 DEF ReadIsCurrent, Matches
<1>8. l \notin raced' => Honest(l)'
    BY <1>3, <1>5, <1>6 DEF Inductive, ValidatorsMatchContent, Honest
<1>9. QED
    BY <1>2, <1>3, <1>4, <1>5, <1>7, <1>8, DownloadStep

LEMMA PublishDocumentKeeps ==
    ASSUME Inductive, NEW u \in Urls, PublishDocument(u)
    PROVE  Inductive'
<1>1. /\ UNCHANGED <<row, task, edit, policy, raced, edits, faults>>
      /\ published' \in 0..MaxPublished
    BY DEF PublishDocument, Inductive, Typed
<1>2. PICK d \in Serves[u] : server' = [server EXCEPT ![u] = d]
    BY DEF PublishDocument
<1>3. server' \in [Urls -> Docs] /\ \A v \in Urls : server'[v] \in Serves[v]
    BY <1>2 DEF Inductive, Typed
<1>4. DownloadsAreSound' /\ ValidatorsMatchContent'
    BY <1>1, SameRows
<1>5. Typed' /\ ChangesAreLoaded'
    BY <1>1, <1>3 DEF Inductive, Typed, ChangesAreLoaded, policy
<1>6. QED
    BY <1>4, <1>5 DEF Inductive

-----------------------------------------------------------------------------
(* Editors.                                                                *)

\* An editor that changes, no longer about to reload or still.
LEMMA OneEditor ==
    ASSUME Typed, NEW e \in Editors, NEW x \in EditStates,
           edit' = [edit EXCEPT ![e] = x], x.pc = "commit" => x.list \in Lists
    PROVE  /\ edit' \in [Editors -> EditStates] /\ edit'[e] = x
           /\ \A f \in Editors \ {e} : edit'[f] = edit[f]
           /\ \A f \in Editors : edit'[f].pc = "commit" => edit'[f].list \in Lists
BY DEF Typed

LEMMA FormTypes ==
    ASSUME Typed, NEW form \in Forms
    PROVE  form.source \in Sources /\ form.domains \in DomainSets \cup {Null}
<1>1. CASE \E s \in {s \in Sources : s.type = "url"} :
              form = [source |-> s, domains |-> Parse(server[s.url], s.format)]
    <2>1. PICK s \in Sources :
              /\ s.type = "url"
              /\ form = [source |-> s, domains |-> Parse(server[s.url], s.format)]
        BY <1>1
    <2>2. server[s.url] \in Docs /\ s.format \in Formats
        BY <2>1, UrlSource DEF Typed
    <2>3. QED
        BY <2>1, <2>2 DEF DomainSets
<1>2. CASE \E s \in {s \in Sources : s.type = "local"}, d \in Docs :
              form = [source |-> s, domains |-> Parse(d, s.format)]
    BY <1>2, SourceFormat DEF DomainSets
<1>3. CASE \E s \in Sources : form = [source |-> s, domains |-> Null]
    BY <1>3
<1>4. QED
    BY <1>1, <1>2, <1>3 DEF Forms

LEMMA OpenKeeps ==
    ASSUME Inductive, NEW e \in Editors, Open(e)
    PROVE  Inductive'
<1>1. /\ UNCHANGED <<row, server, task, policy, raced, published, faults>>
      /\ edit[e].pc = "none" /\ edits' \in 0..MaxEdits
    BY DEF Open, Inductive, Typed
<1>2. PICK l \in Lists, form \in Forms :
          edit' = [edit EXCEPT ![e] = [pc |-> "commit", list |-> l,
                       read |-> row[l].source, source |-> form.source,
                       domains |-> form.domains]]
    BY DEF Open
<1>3. DEFINE x == [pc |-> "commit", list |-> l, read |-> row[l].source,
                   source |-> form.source, domains |-> form.domains]
<1>4. row[l].source \in Sources \cup {Deleted}
    BY DEF Inductive, Typed, RowStates
<1>5. x \in EditStates /\ x.pc = "commit" /\ x.list \in Lists
    BY <1>4, FormTypes DEF Inductive, EditStates
<1> HIDE DEF x
<1>6. /\ edit' \in [Editors -> EditStates]
      /\ \A f \in Editors \ {e} : edit'[f] = edit[f]
      /\ \A f \in Editors : edit'[f].pc = "commit" => edit'[f].list \in Lists
    BY <1>2, <1>5, OneEditor DEF Inductive, x
<1>7. DownloadsAreSound' /\ ValidatorsMatchContent'
    BY <1>1, SameRows
<1>8. ChangesAreLoaded'
    BY <1>1, <1>6 DEF Inductive, ChangesAreLoaded, policy
<1>9. Typed'
    BY <1>1, <1>6 DEF Inductive, Typed, policy
<1>10. QED
    BY <1>7, <1>8, <1>9 DEF Inductive

LEMMA ReloadEditedKeeps ==
    ASSUME Inductive, NEW e \in Editors, ReloadEdited(e)
    PROVE  Inductive'
<1>1. /\ UNCHANGED <<row, server, task, raced, edits, published>> /\ Reload
      /\ edit' = [edit EXCEPT ![e] = NoEdit] /\ faults' \in 0..MaxFaults
    BY FaultType DEF ReloadEdited, GiveUp, Reload, Inductive
<1>2. /\ active' \in [Lists -> DomainSets] /\ failed' \in BOOLEAN
      /\ unheard' \subseteq Lists /\ ChangesAreLoaded'
    BY <1>1, LoadIsCurrent DEF Inductive
<1>3. /\ edit' \in [Editors -> EditStates]
      /\ \A f \in Editors : edit'[f].pc = "commit" => edit'[f].list \in Lists
    BY <1>1, FixedTypes, OneEditor DEF Inductive
<1>4. DownloadsAreSound' /\ ValidatorsMatchContent'
    BY <1>1, SameRows
<1>5. Typed'
    BY <1>1, <1>2, <1>3 DEF Inductive, Typed
<1>6. QED
    BY <1>2, <1>4, <1>5 DEF Inductive

\* An editor stores a list: what a download of it has read is out of date, or
\* its source another one.
LEMMA EditorStores ==
    ASSUME Inductive, NEW e \in Editors, NEW l \in Lists, NEW r \in RowStates,
           NEW x \in EditStates, row' = [row EXCEPT ![l] = r],
           edit' = [edit EXCEPT ![e] = x], edit[e].pc # "reload",
           x.pc = "reload" \/ l \in unheard', x.pc # "commit",
           Touch(l) \/ (r.source = Deleted /\ UNCHANGED task),
           l \notin raced' => Honest(l)',
           raced \ {l} \subseteq raced', raced' \subseteq raced \cup {l},
           unheard \subseteq unheard', unheard' \subseteq Lists,
           UNCHANGED <<server, active, failed, published>>,
           edits' \in 0..MaxEdits, faults' \in 0..MaxFaults
    PROVE  Inductive'
<1>1. /\ row' \in [Lists -> RowStates] /\ row'[l] = r
      /\ \A k \in Lists \ {l} : row'[k] = row[k]
    BY OneRow DEF Inductive
<1>2. /\ edit' \in [Editors -> EditStates] /\ edit'[e] = x
      /\ \A f \in Editors \ {e} : edit'[f] = edit[f]
      /\ \A f \in Editors : edit'[f].pc = "commit" => edit'[f].list \in Lists
    BY OneEditor DEF Inductive
<1>3. task[l] \in TaskStates /\ AnswerIsSound(task[l])
    BY DEF Inductive, Typed, DownloadsAreSound
<1>4. PICK t \in TaskStates :
          /\ task' = [task EXCEPT ![l] = t]
          /\ AnswerIsSound(t) /\ t.changed = task[l].changed
          /\ \/ t.pc \notin {"fetch", "unmodified", "same"} \/ t.touched
             \/ r.source = Deleted /\ t = task[l]
    <2>1. CASE UNCHANGED task /\ r.source = Deleted
        <3>1. task' = [task EXCEPT ![l] = task[l]]
            BY <2>1 DEF Inductive, Typed
        <3>2. QED
            BY <1>3, <2>1, <3>1
    <2>2. CASE Touch(l)
        <3>1. DEFINE b == task[l].touched \/ task[l].pc \notin {"none", "done"}
                     t == [task[l] EXCEPT !.touched = b]
        <3>2. task' = [task EXCEPT ![l] = t]
            BY <2>2 DEF Touch, Inductive, Typed
        <3>3. b \in BOOLEAN
            BY <1>3 DEF TaskStates
        <3>4. /\ t \in TaskStates /\ t.pc = task[l].pc /\ t.source = task[l].source
              /\ t.etag = task[l].etag /\ t.hash = task[l].hash
              /\ t.doc = task[l].doc /\ t.changed = task[l].changed /\ t.touched = b
            <4> HIDE DEF b
            <4>1. QED
                BY <1>3, <3>3 DEF TaskStates
        <3> HIDE DEF t
        <3>5. AnswerIsSound(t)
            BY <1>3, <3>4 DEF AnswerIsSound
        <3>6. t.pc \in {"fetch", "unmodified", "same"} => t.touched
            BY <3>4
        <3>7. QED
            BY <3>2, <3>4, <3>5, <3>6
    <2>3. QED
        BY <2>1, <2>2
<1>5. /\ task' \in [Lists -> TaskStates] /\ task'[l] = t
      /\ \A k \in Lists \ {l} : task'[k] = task[k]
    BY <1>4, OneTask DEF Inductive
<1>6. Typed'
    BY <1>1, <1>2, <1>5 DEF Inductive, Typed
<1>7. DownloadsAreSound'
    <2>1. ASSUME NEW k \in Lists \ {l}
          PROVE  (AnswerIsSound(task[k]) /\ ReadIsCurrent(k))'
        BY <1>1, <1>5 DEF Inductive, DownloadsAreSound, ReadIsCurrent, Matches
    <2>2. ReadIsCurrent(l)'
        <3>1. CASE t.pc \notin {"fetch", "unmodified", "same"} \/ t.touched
            BY <1>5, <3>1 DEF ReadIsCurrent
        <3>2. CASE r.source = Deleted /\ t.pc \in {"fetch", "unmodified", "same"}
            <4>1. t.source # Deleted
                BY <1>4, <3>2, SourceFormat DEF AnswerIsSound
            <4>2. QED
                BY <1>1, <1>5, <3>2, <4>1 DEF ReadIsCurrent, Matches
        <3>3. QED
            BY <1>4, <3>1, <3>2
    <2>3. QED
        BY <1>4, <1>5, <2>1, <2>2 DEF DownloadsAreSound
<1>8. ValidatorsMatchContent'
    <2>1. ASSUME NEW k \in Lists \ raced', k # l
          PROVE  Honest(k)'
        BY <1>1, <2>1 DEF Inductive, ValidatorsMatchContent, Honest
    <2>2. QED
        BY <2>1 DEF ValidatorsMatchContent
<1>9. ChangesAreLoaded'
    <2>1. ASSUME NEW k \in Lists \ unheard', active'[k] # row'[k].domains
          PROVE  \/ failed'
                 \/ \E j \in Lists : task'[j].changed
                 \/ \E f \in Editors : edit'[f].pc = "reload"
        <3>1. CASE k = l
            BY <1>2, <2>1, <3>1
        <3>2. CASE k # l
            <4>1. \/ failed
                  \/ \E j \in Lists : task[j].changed
                  \/ \E f \in Editors : edit[f].pc = "reload"
                BY <1>1, <2>1, <3>2 DEF Inductive, ChangesAreLoaded
            <4>2. /\ \A j \in Lists : task[j].changed => task'[j].changed
                  /\ \A f \in Editors : edit[f].pc = "reload" => edit'[f].pc = "reload"
                BY <1>2, <1>4, <1>5
            <4>3. QED
                BY <4>1, <4>2
        <3>3. QED
            BY <3>1, <3>2
    <2>2. QED
        BY <2>1 DEF ChangesAreLoaded
<1>10. QED
    BY <1>6, <1>7, <1>8, <1>9 DEF Inductive

\* An edit that keeps the validators keeps the source and the content that the
\* editor has seen; any other clears them.
LEMMA EditedIsHonest ==
    ASSUME Typed, NEW e \in Editors, edit[e].pc = "commit",
           NEW new \in Edited(e, row[edit[e].list])
    PROVE  LET old == row[edit[e].list]
           IN  /\ new \in RowStates
               /\ Invalidates(e) => new.etag = Null /\ new.hash = Null
               /\ ~Invalidates(e) =>
                     /\ new.source = edit[e].read /\ new.domains = old.domains
                     /\ new.etag = old.etag /\ new.hash = old.hash
<1>1. DEFINE old == row[edit[e].list]
             etag == IF Invalidates(e) THEN Null ELSE old.etag
             hash == IF Invalidates(e) THEN Null ELSE old.hash
             domains == IF edit[e].domains = Null THEN old.domains
                        ELSE edit[e].domains
<1>2. old \in RowStates /\ edit[e] \in EditStates
    BY DEF Typed
<1>3. PICK due \in BOOLEAN :
          new = [source |-> edit[e].source, etag |-> etag, hash |-> hash,
                 domains |-> domains, due |-> due]
    <2>1. old.due \in BOOLEAN
        BY <1>2 DEF RowStates
    <2>2. QED
        BY <2>1 DEF Edited
<1>4. /\ edit[e].source \in Sources \cup {Deleted}
      /\ edit[e].domains \in DomainSets \cup {Null}
    BY <1>2 DEF EditStates
<1>5. /\ etag \in Validators \cup {Null} /\ hash \in Docs \cup {Null}
      /\ domains \in DomainSets
    BY <1>2, <1>4 DEF RowStates
<1>6. new \in RowStates
    <2> HIDE DEF etag, hash, domains
    <2>1. QED
        BY <1>3, <1>4, <1>5 DEF RowStates
<1>7. ~Invalidates(e) => edit[e].domains = Null /\ edit[e].source = edit[e].read
    BY DEF Invalidates
<1>8. QED
    BY <1>3, <1>6, <1>7

LEMMA CommitKeeps ==
    ASSUME Inductive, NEW e \in Editors, Commit(e)
    PROVE  Inductive'
<1>1. PICK l \in Lists : l = edit[e].list
    BY DEF Commit, Inductive, Typed
<1>2. /\ edit[e].pc = "commit" /\ edit[e] \in EditStates
      /\ UNCHANGED <<server, active, failed, edits, published>>
      /\ faults' \in 0..MaxFaults /\ edits' \in 0..MaxEdits
      /\ unheard \subseteq Lists /\ Typed
    BY FaultType DEF Commit, Inductive, Typed
<1>3. DEFINE reloads == [edit[e] EXCEPT !.pc = "reload"]
<1>4. reloads \in EditStates /\ reloads.pc = "reload"
    BY <1>2 DEF EditStates
<1>5. CASE UNCHANGED <<row, task, raced, unheard>>
    <2>1. PICK x \in EditStates :
              edit' = [edit EXCEPT ![e] = x] /\ x.pc # "commit"
        <3>1. edit' = [edit EXCEPT ![e] = reloads] \/ edit' = [edit EXCEPT ![e] = NoEdit]
            BY <1>2, <1>5 DEF Commit, GiveUp, Typed
        <3> HIDE DEF reloads
        <3>2. QED
            BY <1>4, <3>1, FixedTypes
    <2>2. /\ edit' \in [Editors -> EditStates]
          /\ \A f \in Editors \ {e} : edit'[f] = edit[f]
          /\ \A f \in Editors : edit'[f].pc = "commit" => edit'[f].list \in Lists
        BY <1>2, <2>1, OneEditor
    <2>3. DownloadsAreSound' /\ ValidatorsMatchContent'
        BY <1>5, SameRows
    <2>4. Typed'
        BY <1>2, <1>5, <2>2 DEF Typed
    <2>5. ChangesAreLoaded'
        BY <1>2, <1>5, <2>2 DEF Inductive, ChangesAreLoaded
    <2>6. QED
        BY <2>3, <2>4, <2>5 DEF Inductive
<1>6. CASE /\ row[l].source # Deleted
           /\ \E new \in Edited(e, row[l]) : row' = [row EXCEPT ![l] = new]
           /\ Touch(l)
           /\ raced' = CASE Invalidates(e) -> raced \ {l}
                         [] ~Invalidates(e) /\ edit[e].read # row[l].source ->
                                raced \cup {l}
                         [] OTHER -> raced
           /\ \/ /\ edit' = [edit EXCEPT ![e].pc = "reload"]
                 /\ UNCHANGED <<unheard, faults>>
              \/ /\ GiveUp(e)
                 /\ unheard' = unheard \cup {l}
                 /\ Fault
    <2>1. PICK new \in Edited(e, row[l]) : row' = [row EXCEPT ![l] = new]
        BY <1>6
    <2>2. /\ new \in RowStates
          /\ Invalidates(e) => new.etag = Null /\ new.hash = Null
          /\ ~Invalidates(e) =>
                /\ new.source = edit[e].read /\ new.domains = row[l].domains
                /\ new.etag = row[l].etag /\ new.hash = row[l].hash
        BY <1>1, <1>2, EditedIsHonest
    <2>3. row'[l] = new
        BY <1>2, <2>1, <2>2, OneRow
    <2>4. PICK x \in EditStates :
              /\ edit' = [edit EXCEPT ![e] = x] /\ x.pc # "commit"
              /\ x.pc = "reload" \/ l \in unheard'
        <3>1. \/ edit' = [edit EXCEPT ![e] = reloads]
              \/ edit' = [edit EXCEPT ![e] = NoEdit] /\ l \in unheard'
            BY <1>2, <1>6 DEF GiveUp, Typed
        <3> HIDE DEF reloads
        <3>2. QED
            BY <1>4, <3>1, FixedTypes
    <2>5. raced \ {l} \subseteq raced' /\ raced' \subseteq raced \cup {l}
        BY <1>6
    <2>6. unheard \subseteq unheard' /\ unheard' \subseteq Lists
        BY <1>2, <1>6
    <2>7. l \notin raced' => Honest(l)'
        <3>1. CASE Invalidates(e)
            BY <2>2, <2>3, <3>1 DEF Honest
        <3>2. CASE ~Invalidates(e) /\ l \notin raced'
            <4>1. edit[e].read = row[l].source /\ l \notin raced
                BY <1>6, <3>2
            <4>2. Honest(l)
                BY <1>2, <4>1 DEF Inductive, ValidatorsMatchContent
            <4>3. QED
                BY <2>2, <2>3, <3>2, <4>1, <4>2 DEF Honest
        <3>3. QED
            BY <3>1, <3>2
    <2> HIDE DEF reloads
    <2>8. QED
        BY <1>2, <1>6, <2>1, <2>2, <2>4, <2>5, <2>6, <2>7, EditorStores
<1>7. QED
    BY <1>1, <1>5, <1>6 DEF Commit

LEMMA DeleteKeeps ==
    ASSUME Inductive, NEW e \in Editors, Delete(e)
    PROVE  Inductive'
<1>1. DEFINE gone == [source |-> Deleted, etag |-> Null, hash |-> Null,
                      domains |-> {}, due |-> FALSE]
             reloads == [NoEdit EXCEPT !.pc = "reload"]
<1>2. /\ edit[e].pc = "none" /\ edits' \in 0..MaxEdits /\ edit[e] \in EditStates
      /\ UNCHANGED <<server, task, active, failed, published>>
      /\ faults' \in 0..MaxFaults /\ unheard \subseteq Lists
    BY FaultType DEF Delete, Inductive, Typed
<1>3. PICK l \in Lists :
          /\ row' = [row EXCEPT ![l] = gone] /\ raced' = raced \ {l}
          /\ \/ edit' = [edit EXCEPT ![e] = reloads] /\ UNCHANGED unheard
             \/ unheard' = unheard \cup {l} /\ UNCHANGED edit
    BY DEF Delete
<1>4. gone \in RowStates /\ gone.source = Deleted
      /\ gone.etag = Null /\ gone.hash = Null
    BY DEF RowStates, DomainSets
<1>5. reloads \in EditStates /\ reloads.pc = "reload"
    BY DEF NoEdit, EditStates
<1> HIDE DEF gone, reloads
<1>6. row'[l] = gone
    BY <1>3, <1>4, OneRow DEF Inductive
<1>7. Honest(l)'
    BY <1>4, <1>6 DEF Honest
<1>8. PICK x \in EditStates :
          /\ edit' = [edit EXCEPT ![e] = x] /\ x.pc # "commit"
          /\ x.pc = "reload" \/ l \in unheard'
    <2>1. edit = [edit EXCEPT ![e] = edit[e]]
        BY DEF Inductive, Typed
    <2>2. QED
        BY <1>2, <1>3, <1>5, <2>1
<1>9. /\ unheard \subseteq unheard' /\ unheard' \subseteq Lists
      /\ raced \ {l} \subseteq raced' /\ raced' \subseteq raced \cup {l}
    BY <1>2, <1>3
<1>10. QED
    BY <1>2, <1>3, <1>4, <1>7, <1>8, <1>9, EditorStores

-----------------------------------------------------------------------------
(* Theorems.                                                               *)

LEMMA InitIsInductive == Init => Inductive
<1> SUFFICES ASSUME Init
             PROVE  Inductive
    OBVIOUS
<1>1. PICK source \in [Lists -> Sources], doc \in [Lists -> Docs] :
          row = [l \in Lists |->
                    [source |-> source[l], etag |-> Null, hash |-> Null,
                     domains |-> Parse(doc[l], source[l].format), due |-> FALSE]]
    BY DEF Init
<1>2. ASSUME NEW l \in Lists
      PROVE  row[l] \in RowStates /\ row[l].etag = Null /\ row[l].hash = Null
             /\ row[l].domains \in DomainSets
    <2>1. source[l].format \in Formats
        BY SourceFormat
    <2>2. Parse(doc[l], source[l].format) \in DomainSets
        BY <2>1 DEF DomainSets
    <2>3. QED
        BY <1>1, <2>2 DEF RowStates
<1>3. row \in [Lists -> RowStates]
    BY <1>1, <1>2
<1>4. /\ task = [l \in Lists |-> NoTask] /\ edit = [e \in Editors |-> NoEdit]
      /\ server \in [Urls -> Docs] /\ \A u \in Urls : server[u] \in Serves[u]
      /\ active = [l \in Lists |-> row[l].domains]
      /\ failed = FALSE /\ unheard = {} /\ raced = {}
      /\ edits = 0 /\ published = 0 /\ faults = 0
    BY DEF Init
<1>5. Typed
    <2>1. active \in [Lists -> DomainSets]
        BY <1>2, <1>4
    <2>2. 0 \in 0..MaxEdits /\ 0 \in 0..MaxPublished /\ 0 \in 0..MaxFaults
        OBVIOUS
    <2>3. QED
        BY <1>3, <1>4, <2>1, <2>2, FixedTypes DEF Typed
<1>6. DownloadsAreSound
    BY <1>4, FixedTypes DEF DownloadsAreSound, ReadIsCurrent
<1>7. ValidatorsMatchContent /\ ChangesAreLoaded
    BY <1>2, <1>4 DEF ValidatorsMatchContent, Honest, ChangesAreLoaded
<1>8. QED
    BY <1>5, <1>6, <1>7 DEF Inductive

LEMMA NextKeeps == Inductive /\ [Next]_vars => Inductive'
<1> SUFFICES ASSUME Inductive, [Next]_vars
             PROVE  Inductive'
    OBVIOUS
<1>1. CASE UNCHANGED vars
    <2>1. /\ UNCHANGED <<row, server, task, edit, active, failed, unheard, raced,
                         edits, published, faults>>
        BY <1>1 DEF vars, policy, bounds
    <2>2. DownloadsAreSound' /\ ValidatorsMatchContent'
        BY <2>1, SameRows
    <2>3. QED
        BY <2>1, <2>2 DEF Inductive, Typed, ChangesAreLoaded
<1>2. ASSUME NEW l \in Lists,
             ReadSource(l) \/ Fetch(l) \/ Unchanged(l) \/ Replace(l)
                 \/ RecordFailure(l) \/ DueComes(l)
      PROVE  Inductive'
    BY <1>2, ReadSourceKeeps, FetchKeeps, UnchangedKeeps, ReplaceKeeps,
       RecordFailureKeeps, DueComesKeeps
<1>3. ASSUME NEW e \in Editors, Open(e) \/ Commit(e) \/ Delete(e) \/ ReloadEdited(e)
      PROVE  Inductive'
    BY <1>3, OpenKeeps, CommitKeeps, DeleteKeeps, ReloadEditedKeeps
<1>4. CASE StartCycle \/ EndCycle \/ Recover \/ Restart
    BY <1>4, StartCycleKeeps, EndCycleKeeps, RecoverKeeps, RestartKeeps
<1>5. ASSUME NEW u \in Urls, PublishDocument(u)
      PROVE  Inductive'
    BY <1>5, PublishDocumentKeeps
<1>6. QED
    BY <1>1, <1>2, <1>3, <1>4, <1>5 DEF Next, Refresh

\* Every download and every list that is not mixed up go together, in every
\* reachable state, as Inductive says.
THEOREM Invariance == Spec => []Inductive
<1>1. QED
    BY InitIsInductive, NextKeeps, PTL DEF Spec

\* The lists, downloads, editors and the policy keep their types, and only lists
\* with a URL are downloaded.
THEOREM TypeCorrect == Spec => []TypeOK
<1>1. ASSUME Inductive
      PROVE  TypeOK
    <2>1. \A l \in InCycle :
              task[l].pc \in {"read", "done"} \/ task[l].source.type = "url"
        BY <1>1 DEF Inductive, Typed, DownloadsAreSound, AnswerIsSound, InCycle,
                    TaskStates
    <2>2. QED
        BY <1>1, <2>1 DEF Inductive, Typed, TypeOK, RowStates, TaskStates, EditStates
<1>2. QED
    BY <1>1, Invariance, PTL

\* ETag, Last-Modified and the hash of a list belong to its content, source and
\* format: conditional requests do not keep a list from being refreshed.
THEOREM ValidatorsAreHonest == Spec => []ValidatorsMatchContent
<1>1. Inductive => ValidatorsMatchContent
    BY DEF Inductive
<1>2. QED
    BY <1>1, Invariance, PTL

\* What refreshes and edits have stored is loaded, or somebody is about to load
\* it, or its writer has raised after the commit.
THEOREM StoredIsLoaded == Spec => []ChangesAreLoaded
<1>1. Inductive => ChangesAreLoaded
    BY DEF Inductive
<1>2. QED
    BY <1>1, Invariance, PTL

\* The refresher stores what the configured URL serves, parsed in the configured
\* format, and never an empty list, however an edit interleaves with it.
THEOREM RefreshesAreConfigured == Spec => RefreshesWhatIsConfigured
<1>1. DEFINE Configured(l) ==
          task'[l] # task[l] /\ row'[l].domains # row[l].domains /\ edit' = edit =>
              /\ IsUrl(l)
              /\ row'[l].domains \in
                    {Parse(d, row[l].source.format) :
                        d \in Serves[row[l].source.url]} \ {{}}
<1>2. ASSUME Inductive, [Next]_vars, NEW l \in Lists, task'[l] # task[l],
             row'[l].domains # row[l].domains, edit' = edit
      PROVE  Configured(l)
    <2>1. row' # row /\ task' # task
        BY <1>2
    <2>2. row \in [Lists -> RowStates] /\ edit \in [Editors -> EditStates]
        BY <1>2 DEF Inductive, Typed
    <2>3. ASSUME NEW k \in Lists, Unchanged(k) \/ RecordFailure(k)
          PROVE  FALSE
        <3>1. row[k] \in RowStates
            BY <2>2
        <3>2. CASE RecordFailure(k)
            <4>1. row' = [row EXCEPT ![k] = [row[k] EXCEPT !.due = FALSE]]
                BY <2>1, <2>2, <3>2 DEF RecordFailure
            <4>2. row'[k].domains = row[k].domains
                BY <2>2, <3>1, <4>1 DEF RowStates
            <4>3. QED
                BY <1>2, <2>2, <4>1, <4>2
        <3>3. CASE Unchanged(k)
            <4>1. DEFINE etag == IF task[k].etag = Null THEN row[k].etag
                                 ELSE task[k].etag
                         hash == IF task[k].pc = "same" THEN task[k].doc
                                 ELSE row[k].hash
            <4>2. row' = [row EXCEPT ![k] =
                      [row[k] EXCEPT !.etag = etag, !.hash = hash, !.due = FALSE]]
                BY <2>1, <2>2, <3>3 DEF Unchanged, Write
            <4> HIDE DEF etag, hash
            <4>3. row'[k].domains = row[k].domains
                BY <2>2, <3>1, <4>2 DEF RowStates
            <4>4. QED
                BY <1>2, <2>2, <4>2, <4>3
        <3>4. QED
            BY <2>3, <3>2, <3>3
    <2>4. ASSUME NEW e \in Editors, Commit(e)
          PROVE  FALSE
        <3>1. edit[e].pc = "commit" /\ (edit'[e].pc = "reload" \/ edit'[e] = NoEdit)
            BY <2>1, <2>2, <2>4 DEF Commit, GiveUp, EditStates
        <3>2. QED
            BY <1>2, <3>1 DEF NoEdit
    <2>5. ASSUME NEW k \in Lists, Replace(k)
          PROVE  Configured(l)
        <3>1. /\ task[k].pc = "write"
              /\ \/ row' = row
                 \/ row' = [row EXCEPT ![k].etag = task[k].etag, ![k].due = FALSE]
                 \/ Matches(k) /\ row' = [row EXCEPT ![k] = Stored(k)]
            BY <2>5 DEF Replace, Write
        <3>2. Matches(k) /\ row' = [row EXCEPT ![k] = Stored(k)]
            BY <1>2, <2>2, <3>1 DEF RowStates
        <3>3. k = l /\ row'[l] = Stored(l)
            BY <1>2, <2>2, <3>2
        <3>4. QED
            BY <1>2, <3>1, <3>2, <3>3, StoredType
    <2>6. ASSUME \/ StartCycle \/ EndCycle \/ Recover \/ Restart
                 \/ \E k \in Lists : ReadSource(k) \/ Fetch(k) \/ DueComes(k)
                 \/ \E e \in Editors : Open(e) \/ Delete(e) \/ ReloadEdited(e)
                 \/ \E u \in Urls : PublishDocument(u)
                 \/ UNCHANGED vars
          PROVE  FALSE
        BY <2>1, <2>6 DEF StartCycle, EndCycle, Recover, Restart, ReadSource, Fetch,
              DueComes, Open, Delete, ReloadEdited, PublishDocument, vars
    <2>7. QED
        BY <1>2, <2>3, <2>4, <2>5, <2>6 DEF Next, Refresh
<1>3. Inductive /\ [Next]_vars => [\A l \in Lists : Configured(l)]_vars
    BY <1>2
<1>4. QED
    BY <1>3, Invariance, PTL DEF Spec, RefreshesWhatIsConfigured
=============================================================================
