---------------------------- MODULE ConsoleProofs ----------------------------
(***************************************************************************)
(* Theorems about the console (AdminSessions, Admission, LoginLimiter,     *)
(* RdnsCache, ViewCache) and about the parts side by side (MCConsole), for *)
(* every set of visitors, threads, peers and names, every capacity and     *)
(* every bound: an inductive invariant of each part, and that the          *)
(* invariants its run checks follow.                                       *)
(***************************************************************************)
EXTENDS MCConsole, StorageProofs, Selections, TLAPS

-----------------------------------------------------------------------------
(* Parts of sequences (Selections): what is kept comes from the places that are *)
(* kept, once each.                                                         *)

LEMMA Kept ==
    ASSUME NEW S, NEW s \in Seq(S), NEW I \in SUBSET (1..Len(s))
    PROVE  LET t == Keep(s, I)
           IN  /\ t \in Seq(S) /\ Len(t) = Cardinality(I) /\ Len(t) <= Len(s)
               /\ \E at \in [1..Len(t) -> I] :
                     /\ \A k \in 1..Len(t) : t[k] = s[at[k]]
                     /\ \A k \in 1..Len(t) : \A m \in 1..Len(t) : at[k] = at[m] => k = m
                     /\ \A i \in I : \E k \in 1..Len(t) : at[k] = i
<1> DEFINE up == [i \in I |-> {j \in I : j <= i}]
           n == Cardinality(I)
           rank == [i \in I |-> Cardinality({j \in I : j <= i})]
           at == [k \in 1..n |-> CHOOSE i \in I : rank[i] = k]
<1>1. /\ Len(s) \in Nat /\ IsFiniteSet(I) /\ n \in Nat /\ n <= Len(s)
      /\ \A i \in I : i \in 1..Len(s)
      /\ \A i \in 1..Len(s) : s[i] \in S
  <2>1. Len(s) \in Nat /\ \A i \in 1..Len(s) : s[i] \in S
    OBVIOUS
  <2>2. 1 \in Int /\ Len(s) \in Int
    BY <2>1
  <2>3. IsFiniteSet(1..Len(s))
        /\ Cardinality(1..Len(s)) = IF 1 > Len(s) THEN 0 ELSE Len(s) - 1 + 1
    BY <2>2, FS_Interval
  <2>4. Cardinality(1..Len(s)) = Len(s)
    BY <2>1, <2>3
  <2> QED BY <2>1, <2>3, <2>4, FS_Subset, FS_CardinalityType
<1>2. Keep(s, I) = [k \in 1..n |-> s[at[k]]]
  <2>1. Keep(s, I) = [k \in 1..n |-> s[CHOOSE i \in I : rank[i] = k]]
    BY DEF Keep
  <2>2. \A k \in 1..n : at[k] = CHOOSE i \in I : rank[i] = k
    OBVIOUS
  <2> HIDE DEF rank, n
  <2> QED BY <2>1, <2>2
<1>3. /\ \A i \in I : up[i] \in SUBSET I /\ rank[i] = Cardinality(up[i])
      /\ \A i \in I : \A j \in I : j \in up[i] <=> j <= i
  OBVIOUS
<1>4. \A k \in 1..n : (\E i \in I : rank[i] = k) => at[k] \in I /\ rank[at[k]] = k
  <2> HIDE DEF rank
  <2> QED OBVIOUS
<1>5. at = [k \in 1..n |-> at[k]] /\ rank = [i \in I |-> rank[i]]
  <2>1. rank = [i \in I |-> rank[i]]
    OBVIOUS
  <2> HIDE DEF rank, n
  <2> QED BY <2>1
<1> HIDE DEF n, up, rank, at
<1>6. \A i \in I : IsFiniteSet(up[i]) /\ Cardinality(up[i]) \in 1..n
  <2> TAKE i \in I
  <2>1. up[i] \in SUBSET I /\ {i} \in SUBSET up[i]
    BY <1>1, <1>3
  <2>2. IsFiniteSet(up[i]) /\ Cardinality(up[i]) <= n /\ Cardinality(up[i]) \in Nat
    BY <1>1, <2>1, FS_Subset, FS_CardinalityType DEF n
  <2>3. Cardinality({i}) = 1
    BY FS_Singleton
  <2>4. 1 <= Cardinality(up[i])
    BY <2>1, <2>2, <2>3, FS_Subset
  <2> QED BY <1>1, <2>2, <2>4
<1>7. \A i \in I : \A j \in I : i < j => rank[i] < rank[j]
  <2> SUFFICES ASSUME NEW i \in I, NEW j \in I, i < j PROVE rank[i] < rank[j]
    OBVIOUS
  <2>1. i \in Nat /\ j \in Nat /\ \A m \in I : m \in Nat
    BY <1>1
  <2>2. j \in up[j] /\ j \notin up[i]
    BY <1>3, <2>1
  <2>3. \A m \in I : m <= i => m <= j
    BY <2>1
  <2>4. (up[i] \cup {j}) \in SUBSET up[j]
    BY <1>3, <2>2, <2>3
  <2>5. Cardinality(up[i] \cup {j}) = Cardinality(up[i]) + 1
    BY <1>6, <2>2, FS_AddElement
  <2>6. Cardinality(up[i] \cup {j}) <= Cardinality(up[j])
    BY <1>6, <2>4, FS_Subset
  <2> QED BY <1>3, <1>6, <2>5, <2>6
<1>8. /\ \A i \in I : rank[i] \in 1..n
      /\ \A i \in I : \A j \in I : rank[i] = rank[j] => i = j
  <2>1. \A i \in I : rank[i] \in 1..n
    BY <1>3, <1>6
  <2>2. ASSUME NEW i \in I, NEW j \in I, i # j PROVE rank[i] # rank[j]
    <3>1. rank[i] \in Nat /\ rank[j] \in Nat /\ (i < j \/ j < i)
      BY <1>1, <2>1, <2>2
    <3> QED BY <1>7, <3>1
  <2> QED BY <2>1, <2>2
<1>9. rank \in Injection(I, 1..n)
  <2>1. rank \in [I -> 1..n]
    BY <1>5, <1>8
  <2> QED BY <1>8, <2>1 DEF Injection, IsInjective
<1>10. \A k \in 1..n : \E i \in I : rank[i] = k
  <2>1. IsFiniteSet(1..n) /\ Cardinality(1..n) = n
    BY <1>1, FS_Interval
  <2>2. rank \in Surjection(I, 1..n)
    BY <1>9, <2>1, FS_Injection DEF n
  <2> QED BY <2>2 DEF Surjection
<1>11. \A k \in 1..n : at[k] \in I /\ rank[at[k]] = k
  BY <1>4, <1>10
<1>12. at \in [1..n -> I]
  BY <1>5, <1>11
<1>13. /\ \A k \in 1..n : \A m \in 1..n : at[k] = at[m] => k = m
       /\ \A i \in I : \E k \in 1..n : at[k] = i
  <2>1. \A k \in 1..n : \A m \in 1..n : at[k] = at[m] => k = m
    BY <1>11
  <2>2. \A i \in I : at[rank[i]] = i
    BY <1>8, <1>11
  <2> QED BY <1>8, <2>1, <2>2
<1>14. \A k \in 1..n : s[at[k]] \in S /\ Keep(s, I)[k] = s[at[k]]
  BY <1>1, <1>2, <1>11
<1>15. Keep(s, I) \in Seq(S) /\ Len(Keep(s, I)) = n
  BY <1>1, <1>2, <1>14
<1> QED BY <1>1, <1>12, <1>13, <1>14, <1>15 DEF n

\* Keeping the end of a sequence drops what comes before it.
LEMMA KeptEnd ==
    ASSUME NEW S, NEW s \in Seq(S), NEW k \in 0..Len(s)
    PROVE  LET t == Keep(s, (k + 1)..Len(s))
           IN  /\ t \in Seq(S) /\ Len(t) = Len(s) - k
               /\ \A m \in 1..(Len(s) - k) : t[m] = s[k + m]
<1> DEFINE I == (k + 1)..Len(s)
           rank == [i \in I |-> Cardinality({j \in I : j <= i})]
           t == Keep(s, I)
<1>1. Len(s) \in Nat /\ k \in Nat /\ k <= Len(s) /\ I \subseteq 1..Len(s)
  OBVIOUS
<1>2. Cardinality(I) = Len(s) - k
  <2>1. k + 1 \in Int /\ Len(s) \in Int
    BY <1>1
  <2>2. Cardinality(I) = IF k + 1 > Len(s) THEN 0 ELSE Len(s) - (k + 1) + 1
    BY <2>1, FS_Interval
  <2> QED BY <1>1, <2>2
<1>3. ASSUME NEW i \in I PROVE rank[i] = i - k
  <2>1. {j \in I : j <= i} = (k + 1)..i
    BY <1>1
  <2>2. Cardinality((k + 1)..i) = i - k
    BY <1>1, FS_Interval
  <2> QED BY <2>1, <2>2
<1>4. t = [m \in 1..(Len(s) - k) |-> s[CHOOSE i \in I : rank[i] = m]]
  BY <1>2 DEF Keep
<1> DEFINE at == [m \in 1..(Len(s) - k) |-> CHOOSE i \in I : rank[i] = m]
<1>5. \A m \in 1..(Len(s) - k) : t[m] = s[at[m]]
  BY <1>4
<1>6. t = [m \in 1..(Len(s) - k) |-> t[m]]
  BY <1>4
<1> HIDE DEF rank, t
<1>7. ASSUME NEW m \in 1..(Len(s) - k) PROVE at[m] = k + m
  <2>1. k + m \in I /\ \A i \in I : rank[i] = m <=> i = k + m
    BY <1>1, <1>3
  <2> HIDE DEF I
  <2> QED BY <2>1
<1> HIDE DEF at
<1>8. \A m \in 1..(Len(s) - k) : t[m] = s[k + m] /\ s[k + m] \in S
  BY <1>1, <1>5, <1>7
<1>9. Len(s) - k \in Nat
  BY <1>1
<1>10. t \in Seq(S) /\ Len(t) = Len(s) - k
  <2> DEFINE n == Len(s) - k
  <2>1. n \in Nat /\ t \in [1..n -> S]
    BY <1>6, <1>8, <1>9
  <2> HIDE DEF n
  <2>2. t \in Seq(S) /\ Len(t) = n
    BY <2>1
  <2> QED BY <2>2 DEF n
<1> QED BY <1>8, <1>10 DEF t

-----------------------------------------------------------------------------
(* Credentials and sessions (AdminSessions).                               *)

VisitorStates ==
    [pc : {"idle", "create", "update", "delete"}, by : 0..MaxCredentials,
     late : BOOLEAN]

\* A deletion of the sessions of older credentials is still to come, or failed.
DeletionPending ==
    undeleted \/ \E v \in Visitors : visitor[v].pc = "delete" /\ visitor[v].by = credentials

\* Who has or gets a session knows the current credentials, or was let in before
\* the others lost theirs.
NoneIsOld ==
    /\ \A s \in sessions : s.by = credentials \/ s.late
    /\ \A v \in Visitors : visitor[v].pc \in {"create", "delete"} =>
          visitor[v].by = credentials \/ visitor[v].late

SessionsInductive ==
    /\ Sessions!SessionsTypeOK /\ visitor \in [Visitors -> VisitorStates]
    /\ DeletionPending \/ NoneIsOld

\* A request goes from one statement to the next.
LEMMA VisitorGoes ==
    ASSUME SessionsInductive, NEW v \in Visitors, NEW st \in VisitorStates,
           visitor' = [visitor EXCEPT ![v] = st]
    PROVE  /\ visitor' \in [Visitors -> VisitorStates] /\ visitor'[v] = st
           /\ \A w \in Visitors \ {v} : visitor'[w] = visitor[w]
           /\ \A w \in Visitors : visitor'[w].pc \in {"idle", "create", "update", "delete"}
<1>1. visitor' \in [Visitors -> VisitorStates] /\ visitor'[v] = st
      /\ \A w \in Visitors \ {v} : visitor'[w] = visitor[w]
  BY DEF SessionsInductive
<1> QED BY <1>1 DEF VisitorStates

LEMMA RestingIsTyped == Sessions!Resting \in VisitorStates /\ Sessions!Resting.pc = "idle"
  <1>1. MaxCredentials \in Nat
    BY SessionConstants
  <1> QED BY <1>1 DEF Sessions!Resting, VisitorStates

LEMMA SignInKeeps ==
    ASSUME SessionsInductive, NEW v \in Visitors, Sessions!SignIn(v)
    PROVE  SessionsInductive'
<1> DEFINE st == [pc |-> "create", by |-> credentials, late |-> FALSE]
<1>1. st \in VisitorStates
  BY DEF VisitorStates, SessionsInductive, Sessions!SessionsTypeOK
<1>2. /\ visitor' = [visitor EXCEPT ![v] = st] /\ visitor[v].pc = "idle"
      /\ UNCHANGED <<credentials, sessions, issued, undeleted, sessionFaults>>
  BY DEF Sessions!SignIn, Sessions!Go
<1>3. /\ visitor' \in [Visitors -> VisitorStates] /\ visitor'[v] = st
      /\ \A w \in Visitors \ {v} : visitor'[w] = visitor[w]
      /\ \A w \in Visitors : visitor'[w].pc \in {"idle", "create", "update", "delete"}
  BY <1>1, <1>2, VisitorGoes
<1>4. Sessions!SessionsTypeOK'
  BY <1>2, <1>3 DEF SessionsInductive, Sessions!SessionsTypeOK
<1>5. DeletionPending => DeletionPending'
  BY <1>2, <1>3 DEF DeletionPending
<1>6. NoneIsOld => NoneIsOld'
  BY <1>2, <1>3 DEF NoneIsOld
<1> QED BY <1>3, <1>4, <1>5, <1>6 DEF SessionsInductive

LEMMA CreateSessionKeeps ==
    ASSUME SessionsInductive, NEW v \in Visitors, Sessions!CreateSession(v)
    PROVE  SessionsInductive'
<1> DEFINE s == [token |-> issued + 1, by |-> visitor[v].by, late |-> visitor[v].late,
                 expired |-> FALSE]
<1>1. /\ visitor' = [visitor EXCEPT ![v] = Sessions!Resting] /\ visitor[v].pc = "create"
      /\ issued < MaxTokens /\ issued' = issued + 1 /\ sessions' = sessions \cup {s}
      /\ UNCHANGED <<credentials, undeleted, sessionFaults>>
  BY DEF Sessions!CreateSession, Sessions!Finish
<1>2. /\ visitor' \in [Visitors -> VisitorStates] /\ visitor'[v] = Sessions!Resting
      /\ \A w \in Visitors \ {v} : visitor'[w] = visitor[w]
      /\ \A w \in Visitors : visitor'[w].pc \in {"idle", "create", "update", "delete"}
  BY <1>1, VisitorGoes, RestingIsTyped
<1>3. visitor[v] \in VisitorStates /\ issued \in 0..MaxTokens
  BY DEF SessionsInductive, Sessions!SessionsTypeOK
<1>4. s \in Sessions!Session /\ issued' \in 0..MaxTokens
  BY <1>1, <1>3, SessionConstants DEF Sessions!Session, VisitorStates
<1>5. \A x \in sessions : x.token <= issued /\ x.token \in Nat
  BY DEF SessionsInductive, Sessions!SessionsTypeOK, Sessions!Session
<1>6. Sessions!SessionsTypeOK'
  <2>0. s.token = issued + 1
    OBVIOUS
  <2> HIDE DEF s
  <2>1. \A s1, s2 \in sessions' : s1.token = s2.token => s1 = s2
    <3>1. \A s1, s2 \in sessions : s1.token = s2.token => s1 = s2
      BY DEF SessionsInductive, Sessions!SessionsTypeOK
    <3>2. \A x \in sessions : x.token # s.token
      BY <1>3, <1>5, <2>0
    <3> QED BY <1>1, <3>1, <3>2
  <2>2. \A x \in sessions' : x.token <= issued'
    BY <1>1, <1>3, <1>5, <2>0
  <2> QED BY <1>1, <1>2, <1>4, <2>1, <2>2 DEF SessionsInductive, Sessions!SessionsTypeOK
<1>7. DeletionPending => DeletionPending'
  BY <1>1, <1>2 DEF DeletionPending
<1>8. NoneIsOld => NoneIsOld'
  BY <1>1, <1>2, RestingIsTyped DEF NoneIsOld
<1> QED BY <1>2, <1>6, <1>7, <1>8 DEF SessionsInductive

LEMMA StatementFailsKeeps ==
    ASSUME SessionsInductive, NEW v \in Visitors, Sessions!StatementFails(v)
    PROVE  SessionsInductive'
<1>1. /\ visitor' = [visitor EXCEPT ![v] = Sessions!Resting]
      /\ undeleted' = (undeleted \/ visitor[v].pc = "delete")
      /\ UNCHANGED <<credentials, sessions, issued>>
  BY DEF Sessions!StatementFails, Sessions!Finish
<1>2. /\ visitor' \in [Visitors -> VisitorStates] /\ visitor'[v] = Sessions!Resting
      /\ \A w \in Visitors \ {v} : visitor'[w] = visitor[w]
      /\ \A w \in Visitors : visitor'[w].pc \in {"idle", "create", "update", "delete"}
  BY <1>1, VisitorGoes, RestingIsTyped
<1>3. Sessions!SessionsTypeOK'
  BY <1>1, <1>2 DEF SessionsInductive, Sessions!SessionsTypeOK
<1>4. DeletionPending => DeletionPending'
  BY <1>1, <1>2 DEF DeletionPending
<1>5. NoneIsOld => NoneIsOld'
  BY <1>1, <1>2, RestingIsTyped DEF NoneIsOld
<1> QED BY <1>2, <1>3, <1>4, <1>5 DEF SessionsInductive

LEMMA BeginChangeKeeps ==
    ASSUME SessionsInductive, NEW v \in Visitors, Sessions!BeginChange(v)
    PROVE  SessionsInductive'
<1> DEFINE st == [pc |-> "update", by |-> credentials, late |-> FALSE]
<1>1. st \in VisitorStates
  BY DEF VisitorStates, SessionsInductive, Sessions!SessionsTypeOK
<1>2. /\ visitor' = [visitor EXCEPT ![v] = st] /\ visitor[v].pc = "idle"
      /\ UNCHANGED <<credentials, sessions, issued, undeleted, sessionFaults>>
  BY DEF Sessions!BeginChange, Sessions!Go, Sessions!Follows
<1>3. /\ visitor' \in [Visitors -> VisitorStates] /\ visitor'[v] = st
      /\ \A w \in Visitors \ {v} : visitor'[w] = visitor[w]
      /\ \A w \in Visitors : visitor'[w].pc \in {"idle", "create", "update", "delete"}
  BY <1>1, <1>2, VisitorGoes
<1>4. Sessions!SessionsTypeOK'
  BY <1>2, <1>3 DEF SessionsInductive, Sessions!SessionsTypeOK
<1>5. DeletionPending => DeletionPending'
  BY <1>2, <1>3 DEF DeletionPending
<1>6. NoneIsOld => NoneIsOld'
  BY <1>2, <1>3 DEF NoneIsOld
<1> QED BY <1>3, <1>4, <1>5, <1>6 DEF SessionsInductive

\* From here on the deletion is due.
LEMMA ChangeCredentialsKeeps ==
    ASSUME SessionsInductive, NEW v \in Visitors, Sessions!ChangeCredentials(v)
    PROVE  SessionsInductive'
<1> DEFINE st == [pc |-> "delete", by |-> credentials + 1, late |-> FALSE]
<1>1. /\ visitor' = [visitor EXCEPT ![v] = st] /\ credentials < MaxCredentials
      /\ credentials' = credentials + 1 /\ UNCHANGED <<sessions, issued, undeleted>>
  BY DEF Sessions!ChangeCredentials, Sessions!Go, Sessions!Follows
<1>2. st \in VisitorStates /\ credentials' \in 0..MaxCredentials
  BY <1>1, SessionConstants DEF VisitorStates, SessionsInductive, Sessions!SessionsTypeOK
<1>3. /\ visitor' \in [Visitors -> VisitorStates] /\ visitor'[v] = st
      /\ \A w \in Visitors \ {v} : visitor'[w] = visitor[w]
      /\ \A w \in Visitors : visitor'[w].pc \in {"idle", "create", "update", "delete"}
  BY <1>1, <1>2, VisitorGoes
<1>4. Sessions!SessionsTypeOK'
  BY <1>1, <1>2, <1>3 DEF SessionsInductive, Sessions!SessionsTypeOK
<1>5. DeletionPending'
  BY <1>1, <1>3 DEF DeletionPending
<1> QED BY <1>3, <1>4, <1>5 DEF SessionsInductive

\* The deletion that was due leaves no session of older credentials, and marks
\* those who have still to get theirs.
LEMMA DeleteSessionsKeeps ==
    ASSUME SessionsInductive, NEW v \in Visitors, Sessions!DeleteSessions(v)
    PROVE  SessionsInductive'
<1> DEFINE st(w) == IF w = v THEN [visitor[v] EXCEPT !.pc = "create"]
                    ELSE [visitor[w] EXCEPT !.late =
                             visitor[w].late \/ visitor[w].pc \in {"create", "delete"}]
<1>1. /\ visitor[v].pc = "delete" /\ sessions' = {}
      /\ visitor' = [w \in Visitors |-> st(w)]
      /\ undeleted' = (undeleted /\ visitor[v].by # credentials)
      /\ UNCHANGED <<credentials, issued>>
  BY DEF Sessions!DeleteSessions, Sessions!Follows
<1>2. \A w \in Visitors :
         /\ visitor[w] \in VisitorStates /\ visitor'[w] \in VisitorStates
         /\ visitor'[w].by = visitor[w].by
         /\ w # v => visitor'[w].pc = visitor[w].pc /\
                     visitor'[w].late = (visitor[w].late \/ visitor[w].pc \in {"create", "delete"})
         /\ w = v => visitor'[w].pc = "create" /\ visitor'[w].late = visitor[w].late
  <2> TAKE w \in Visitors
  <2>1. visitor[w] \in VisitorStates /\ visitor'[w] = st(w)
    BY <1>1 DEF SessionsInductive
  <2>2. CASE w = v
    BY <2>1, <2>2 DEF VisitorStates
  <2>3. CASE w # v
    BY <2>1, <2>3 DEF VisitorStates
  <2> QED BY <2>2, <2>3
<1>3. visitor' \in [Visitors -> VisitorStates]
  BY <1>1, <1>2
<1>4. Sessions!SessionsTypeOK'
  BY <1>1, <1>2 DEF SessionsInductive, Sessions!SessionsTypeOK, VisitorStates
<1>5. CASE visitor[v].by = credentials
  BY <1>1, <1>2, <1>3, <1>4, <1>5 DEF SessionsInductive, NoneIsOld
<1>6. CASE visitor[v].by # credentials
  <2>1. DeletionPending => DeletionPending'
    BY <1>1, <1>2, <1>6 DEF DeletionPending
  <2>2. ASSUME NoneIsOld PROVE NoneIsOld'
    <3>1. \A s \in sessions' : s.by = credentials' \/ s.late
      BY <1>1
    <3>2. ASSUME NEW w \in Visitors, visitor'[w].pc \in {"create", "delete"}
          PROVE  visitor'[w].by = credentials' \/ visitor'[w].late
      <4>1. CASE w = v
        BY <1>1, <1>2, <2>2, <3>2, <4>1 DEF NoneIsOld
      <4>2. CASE w # v
        BY <1>1, <1>2, <2>2, <3>2, <4>2 DEF NoneIsOld
      <4> QED BY <4>1, <4>2
    <3> QED BY <3>1, <3>2 DEF NoneIsOld
  <2> QED BY <1>3, <1>4, <2>1, <2>2 DEF SessionsInductive
<1> QED BY <1>5, <1>6

\* A session ends or expires.
LEMMA SessionsOnlyEnd ==
    ASSUME SessionsInductive, Sessions!SignOut \/ Sessions!Expire \/ Sessions!MeetExpired
    PROVE  SessionsInductive'
<1>1. UNCHANGED <<credentials, visitor, issued, undeleted>>
  BY DEF Sessions!SignOut, Sessions!Expire, Sessions!MeetExpired
<1>2. PICK s \in sessions : \/ sessions' = sessions \ {s}
                            \/ sessions' = (sessions \ {s}) \cup {[s EXCEPT !.expired = TRUE]}
  BY DEF Sessions!SignOut, Sessions!Expire, Sessions!MeetExpired
<1>3. s \in Sessions!Session
  BY DEF SessionsInductive, Sessions!SessionsTypeOK
<1> DEFINE e == [s EXCEPT !.expired = TRUE]
<1>4. /\ e \in Sessions!Session /\ e.token = s.token
      /\ e.by = s.by /\ e.late = s.late
  BY <1>3 DEF Sessions!Session
<1> HIDE DEF e
<1>5. Sessions!SessionsTypeOK'
  <2>1. sessions' \subseteq Sessions!Session /\ \A x \in sessions' : x.token <= issued'
    BY <1>1, <1>2, <1>4 DEF SessionsInductive, Sessions!SessionsTypeOK, e
  <2>2. \A s1, s2 \in sessions' : s1.token = s2.token => s1 = s2
    BY <1>2, <1>4 DEF SessionsInductive, Sessions!SessionsTypeOK, e
  <2> QED BY <1>1, <2>1, <2>2 DEF SessionsInductive, Sessions!SessionsTypeOK
<1>6. DeletionPending => DeletionPending'
  BY <1>1 DEF DeletionPending
<1>7. NoneIsOld => NoneIsOld'
  BY <1>1, <1>2, <1>4 DEF NoneIsOld, e
<1> QED BY <1>1, <1>5, <1>6, <1>7 DEF SessionsInductive

LEMMA RestartSessionsKeeps ==
    ASSUME SessionsInductive, Sessions!RestartSessions
    PROVE  SessionsInductive'
<1>1. /\ sessions' \subseteq sessions /\ UNCHANGED <<credentials, issued>>
      /\ visitor' = [v \in Visitors |-> Sessions!Resting]
      /\ undeleted' = (undeleted \/ \E v \in Visitors : visitor[v].pc = "delete")
  BY DEF Sessions!RestartSessions
<1>2. visitor' \in [Visitors -> VisitorStates] /\ \A v \in Visitors : visitor'[v].pc = "idle"
  BY <1>1, RestingIsTyped
<1>3. Sessions!SessionsTypeOK'
  BY <1>1, <1>2 DEF SessionsInductive, Sessions!SessionsTypeOK
<1>4. DeletionPending => DeletionPending'
  BY <1>1 DEF DeletionPending
<1>5. NoneIsOld => NoneIsOld'
  BY <1>1, <1>2 DEF NoneIsOld
<1> QED BY <1>2, <1>3, <1>4, <1>5 DEF SessionsInductive

LEMMA SessionsInitInductive == ASSUME Sessions!Init PROVE SessionsInductive
<1>1. /\ credentials = 0 /\ sessions = {} /\ issued = 0 /\ undeleted = FALSE
      /\ visitor = [v \in Visitors |-> Sessions!Resting]
  BY DEF Sessions!Init
<1>2. visitor \in [Visitors -> VisitorStates] /\ \A v \in Visitors : visitor[v].pc = "idle"
  BY <1>1, RestingIsTyped
<1>3. 0 \in 0..MaxCredentials /\ 0 \in 0..MaxTokens
  BY SessionConstants
<1>4. Sessions!SessionsTypeOK
  BY <1>1, <1>2, <1>3 DEF Sessions!SessionsTypeOK
<1> QED BY <1>1, <1>2, <1>4 DEF SessionsInductive, NoneIsOld

LEMMA SessionsNextInductive ==
    ASSUME SessionsInductive, [Sessions!Next]_(Sessions!sessionVars)
    PROVE  SessionsInductive'
<1>1. CASE UNCHANGED Sessions!sessionVars
  BY <1>1 DEF Sessions!sessionVars, SessionsInductive, Sessions!SessionsTypeOK,
     DeletionPending, NoneIsOld
<1>2. CASE \E v \in Visitors : Sessions!Visit(v)
  BY <1>2, SignInKeeps, CreateSessionKeeps, StatementFailsKeeps, BeginChangeKeeps,
     ChangeCredentialsKeeps, DeleteSessionsKeeps DEF Sessions!Visit
<1>3. CASE Sessions!SignOut \/ Sessions!Expire \/ Sessions!MeetExpired
  BY <1>3, SessionsOnlyEnd
<1>4. CASE Sessions!RestartSessions
  BY <1>4, RestartSessionsKeeps
<1> QED BY <1>1, <1>2, <1>3, <1>4 DEF Sessions!Next

LEMMA SessionsInductiveIsEnough ==
    SessionsInductive => Sessions!SessionsTypeOK /\ Sessions!SessionsAreCurrent
BY DEF SessionsInductive, DeletionPending, NoneIsOld, Sessions!SessionsAreCurrent

-----------------------------------------------------------------------------
(* The bounded pools (Admission).                                          *)

JobStates ==
    [job : {"none", "page", "session", "action"},
     state : {"none", "queued", "running", "cancelled", "done"}]
CallerStates == {"idle", "page", "session", "form", "task", "action", "gone"}

AdmissionTyped ==
    /\ free \in Nat /\ formOpen \subseteq Posts /\ waiting \in Seq(Pages!Callers)
    /\ work \in [Pages!Callers -> JobStates]
    /\ caller \in [Pages!Callers -> CallerStates]
    /\ cancelled \in [Pages!Callers -> Nat]

SlotsCounted == free + Cardinality(Pages!Busy) = Slots

IsIn(s, r) == \E i \in 1..Len(s) : s[i] = r

QueuedAreWaiting ==
    \A r \in Pages!Callers : Pages!In(r, {"queued"}) => IsIn(waiting, r)

\* Which functions a coroutine at some place has.
CallersHaveWork ==
    \A r \in Pages!Callers :
        /\ caller[r] \in {"page", "session", "action"} =>
              work[r].job = caller[r] /\ Pages!In(r, {"queued", "running", "done"})
        /\ caller[r] \in {"idle", "form", "task"} => Pages!In(r, {"none", "done"})
        /\ caller[r] \in {"session", "form", "task", "action"} => r \in Posts
        /\ caller[r] \in {"form", "task", "action"} => r \in formOpen

\* A handler's coroutine waits for it unless it was cancelled twice.
HandlersAreAwaited ==
    \A r \in Posts :
        work[r].job = "action" /\ Pages!In(r, {"queued", "running"}) /\ cancelled[r] <= 1
        => caller[r] = "action"

AdmissionInductive ==
    /\ AdmissionTyped /\ SlotsCounted /\ QueuedAreWaiting /\ CallersHaveWork
    /\ HandlersAreAwaited

LEMMA PagesCount == ASSUME NEW S PROVE Pages!Cardinality(S) = Cardinality(S)
BY DEF Cardinality, Pages!Cardinality

LEMMA BusyIsFinite ==
    /\ IsFiniteSet(Pages!Callers) /\ IsFiniteSet(Pages!Busy)
    /\ Cardinality(Pages!Busy) \in Nat
<1>1. IsFiniteSet(Pages!Callers)
  BY AdmissionConstants, FS_Union DEF Pages!Callers
<1>2. Pages!Busy \subseteq Pages!Callers
  BY DEF Pages!Busy
<1> QED BY <1>1, <1>2, FS_Subset, FS_CardinalityType

AtWork == {"queued", "running"}

\* One request's function becomes busy, stays so, or ends.
LEMMA BusyChanges ==
    ASSUME AdmissionTyped, NEW r \in Pages!Callers, NEW j \in JobStates,
           work' = [work EXCEPT ![r] = j]
    PROVE  /\ work'[r] = j /\ work' \in [Pages!Callers -> JobStates]
           /\ \A q \in Pages!Callers \ {r} : work'[q] = work[q]
           /\ work[r].state \notin AtWork /\ j.state \in AtWork =>
                 Cardinality(Pages!Busy') = Cardinality(Pages!Busy) + 1
           /\ work[r].state \in AtWork /\ j.state \in AtWork =>
                 Cardinality(Pages!Busy') = Cardinality(Pages!Busy)
           /\ work[r].state \in AtWork /\ j.state \notin AtWork =>
                 Cardinality(Pages!Busy') = Cardinality(Pages!Busy) - 1
<1>1. /\ work'[r] = j /\ work' \in [Pages!Callers -> JobStates]
      /\ \A q \in Pages!Callers \ {r} : work'[q] = work[q]
  BY DEF AdmissionTyped
<1> DEFINE rest == Pages!Busy \ {r}
<1>2. IsFiniteSet(rest) /\ Cardinality(rest) \in Nat /\ r \notin rest
  BY BusyIsFinite, FS_Subset, FS_CardinalityType
<1>3. Pages!Busy = IF work[r].state \in AtWork THEN rest \cup {r} ELSE rest
  BY DEF Pages!Busy, Pages!In, AtWork
<1>4. Pages!Busy' = IF j.state \in AtWork THEN rest \cup {r} ELSE rest
  BY <1>1 DEF Pages!Busy, Pages!In, AtWork
<1>5. Cardinality(rest \cup {r}) = Cardinality(rest) + 1
  BY <1>2, FS_AddElement
<1> HIDE DEF rest
<1> QED BY <1>1, <1>2, <1>3, <1>4, <1>5

LEMMA AdmitKeeps ==
    ASSUME AdmissionInductive, NEW r \in Pages!Callers, Pages!Admit(r)
    PROVE  AdmissionInductive'
<1> DEFINE j == [job |-> Pages!Job(r), state |-> "queued"]
<1>1. /\ caller[r] \in {"idle", "task"} /\ free > 0 /\ free' = free - 1
      /\ work' = [work EXCEPT ![r] = j]
      /\ waiting' = Append(waiting, r)
      /\ caller' = [caller EXCEPT ![r] = Pages!Job(r)]
      /\ UNCHANGED <<formOpen, cancelled>>
  BY DEF Pages!Admit, Pages!Asks, Pages!Goes
<1>2. j \in JobStates /\ j.state = "queued" /\ j.job = Pages!Job(r)
      /\ Pages!Job(r) \in {"page", "session", "action"}
      /\ (Pages!Job(r) = "action" <=> caller[r] = "task")
      /\ (Pages!Job(r) = "session" => r \in Posts)
  BY DEF JobStates, Pages!Job
<1> HIDE DEF j
<1>3. Pages!In(r, {"none", "done"})
  BY <1>1 DEF AdmissionInductive, CallersHaveWork
<1>4. /\ work'[r] = j /\ work' \in [Pages!Callers -> JobStates]
      /\ \A q \in Pages!Callers \ {r} : work'[q] = work[q]
      /\ Cardinality(Pages!Busy') = Cardinality(Pages!Busy) + 1
  <2>1. AdmissionTyped /\ work[r].state \notin AtWork /\ j.state \in AtWork
    BY <1>2, <1>3 DEF AdmissionInductive, Pages!In, AtWork
  <2> QED BY <1>1, <1>2, <2>1, BusyChanges
<1>5. /\ caller'[r] = Pages!Job(r) /\ caller' \in [Pages!Callers -> CallerStates]
      /\ \A q \in Pages!Callers \ {r} : caller'[q] = caller[q]
  BY <1>1, <1>2 DEF AdmissionInductive, AdmissionTyped, CallerStates
<1>6. waiting' \in Seq(Pages!Callers) /\ Len(waiting') = Len(waiting) + 1
      /\ waiting'[Len(waiting) + 1] = r
      /\ \A i \in 1..Len(waiting) : waiting'[i] = waiting[i]
  BY <1>1 DEF AdmissionInductive, AdmissionTyped
<1>7. AdmissionTyped'
  BY <1>1, <1>4, <1>5, <1>6 DEF AdmissionInductive, AdmissionTyped
<1>8. SlotsCounted'
  BY <1>1, <1>4, BusyIsFinite DEF AdmissionInductive, AdmissionTyped, SlotsCounted
<1>9. QueuedAreWaiting'
  <2> SUFFICES ASSUME NEW q \in Pages!Callers, work'[q].state = "queued"
               PROVE  \E i \in 1..Len(waiting') : waiting'[i] = q
    BY DEF QueuedAreWaiting, Pages!In, IsIn
  <2>1. Len(waiting) \in Nat
    BY DEF AdmissionInductive, AdmissionTyped
  <2>2. CASE q = r
    BY <1>6, <2>1, <2>2
  <2>3. CASE q # r
    <3>1. PICK i \in 1..Len(waiting) : waiting[i] = q
      BY <1>4, <2>3 DEF AdmissionInductive, QueuedAreWaiting, Pages!In, IsIn
    <3> QED BY <3>1, <1>6, <2>1
  <2> QED BY <2>2, <2>3
<1>10. CallersHaveWork'
  BY <1>1, <1>2, <1>4, <1>5 DEF AdmissionInductive, CallersHaveWork, Pages!In
<1>11. HandlersAreAwaited'
  <2>1. Posts \subseteq Pages!Callers
    BY DEF Pages!Callers
  <2> QED BY <1>1, <1>2, <1>4, <1>5, <2>1 DEF AdmissionInductive, HandlersAreAwaited, Pages!In
<1> QED BY <1>7, <1>8, <1>9, <1>10, <1>11 DEF AdmissionInductive

\* A coroutine that has no function queued or running ends.
LEMMA LeavingKeeps ==
    ASSUME AdmissionInductive, NEW r \in Pages!Callers,
           ~Pages!In(r, {"queued", "running"}) \/ caller[r] \in {"idle", "task"},
           caller' = [caller EXCEPT ![r] = "gone"], formOpen' = formOpen \ {r},
           UNCHANGED <<free, work, waiting, cancelled>>
    PROVE  AdmissionInductive'
<1>1. /\ caller'[r] = "gone" /\ caller' \in [Pages!Callers -> CallerStates]
      /\ \A q \in Pages!Callers \ {r} : caller'[q] = caller[q]
  BY DEF AdmissionInductive, AdmissionTyped, CallerStates
<1>2. ~Pages!In(r, {"queued", "running"})
  BY DEF AdmissionInductive, CallersHaveWork, Pages!In
<1>3. AdmissionTyped' /\ SlotsCounted' /\ QueuedAreWaiting'
  BY <1>1 DEF AdmissionInductive, AdmissionTyped, SlotsCounted, Pages!Busy, QueuedAreWaiting,
     Pages!In, IsIn
<1>4. CallersHaveWork'
  BY <1>1 DEF AdmissionInductive, CallersHaveWork, Pages!In
<1>5. Posts \subseteq Pages!Callers
  BY DEF Pages!Callers
<1>6. HandlersAreAwaited'
  BY <1>1, <1>2, <1>5 DEF AdmissionInductive, HandlersAreAwaited, Pages!In
<1> QED BY <1>3, <1>4, <1>6 DEF AdmissionInductive

LEMMA SubmitOrRefuseKeeps ==
    ASSUME AdmissionInductive, NEW r \in Pages!Callers,
           Pages!SubmitRaises(r) \/ Pages!Refuse(r)
    PROVE  AdmissionInductive'
<1>1. /\ free' = free /\ caller' = [caller EXCEPT ![r] = "gone"]
      /\ formOpen' = formOpen \ {r} /\ UNCHANGED <<work, waiting, cancelled>>
      /\ caller[r] \in {"idle", "task"}
  BY DEF Pages!SubmitRaises, Pages!Refuse, Pages!Leaves, Pages!Goes, Pages!Returned, Pages!Asks
<1> QED BY <1>1, LeavingKeeps

\* A worker takes the function at the head of the queue.
LEMMA TakeKeeps ==
    ASSUME AdmissionInductive, Pages!Take
    PROVE  AdmissionInductive'
<1>1. /\ waiting # <<>> /\ waiting' = Tail(waiting)
      /\ UNCHANGED <<free, caller, formOpen, cancelled>>
  BY DEF Pages!Take
<1> DEFINE r == Head(waiting)
<1>2. /\ r \in Pages!Callers /\ waiting' \in Seq(Pages!Callers) /\ waiting[1] = r
      /\ Len(waiting) \in Nat \ {0} /\ Len(waiting') = Len(waiting) - 1
      /\ \A i \in 1..Len(waiting') : waiting'[i] = waiting[i + 1]
  BY <1>1 DEF AdmissionInductive, AdmissionTyped
<1>4. \A q \in Pages!Callers : q # r /\ IsIn(waiting, q) => IsIn(waiting, q)'
  <2> SUFFICES ASSUME NEW q \in Pages!Callers, q # r, NEW i \in 1..Len(waiting), waiting[i] = q
               PROVE  \E k \in 1..Len(waiting') : waiting'[k] = q
    BY DEF IsIn
  <2>1. i # 1 /\ i - 1 \in 1..Len(waiting') /\ (i - 1) + 1 = i
    BY <1>2
  <2>2. waiting'[i - 1] = q
    BY <1>2, <2>1
  <2> QED BY <2>1, <2>2
<1>5. CASE Pages!In(r, {"cancelled"}) /\ UNCHANGED work
  <2>1. QueuedAreWaiting'
    BY <1>4, <1>5 DEF AdmissionInductive, QueuedAreWaiting, Pages!In
  <2>2. AdmissionTyped' /\ SlotsCounted' /\ CallersHaveWork' /\ HandlersAreAwaited'
    BY <1>1, <1>2, <1>5 DEF AdmissionInductive, AdmissionTyped, SlotsCounted, Pages!Busy,
       CallersHaveWork, HandlersAreAwaited, Pages!In
  <2> QED BY <2>1, <2>2 DEF AdmissionInductive
<1>6. CASE Pages!In(r, {"queued"}) /\ Pages!Becomes(r, "running")
  <2> DEFINE j == [work[r] EXCEPT !.state = "running"]
  <2>1. work[r] \in JobStates /\ work' = [work EXCEPT ![r] = j]
    BY <1>2, <1>6 DEF AdmissionInductive, AdmissionTyped, Pages!Becomes
  <2>2. j \in JobStates /\ j.state = "running" /\ j.job = work[r].job
    BY <2>1 DEF JobStates
  <2> HIDE DEF j
  <2>3. /\ AdmissionTyped /\ work[r].state = "queued"
        /\ work[r].state \in AtWork /\ j.state \in AtWork
    BY <1>6, <2>2 DEF AdmissionInductive, Pages!In, AtWork
  <2>4. /\ work'[r] = j /\ work' \in [Pages!Callers -> JobStates]
        /\ \A q \in Pages!Callers \ {r} : work'[q] = work[q]
        /\ Cardinality(Pages!Busy') = Cardinality(Pages!Busy)
    BY <1>2, <2>1, <2>2, <2>3, BusyChanges
  <2>5. QueuedAreWaiting'
    BY <1>4, <2>2, <2>4 DEF AdmissionInductive, QueuedAreWaiting, Pages!In
  <2>6. AdmissionTyped' /\ SlotsCounted'
    BY <1>1, <1>2, <2>4 DEF AdmissionInductive, AdmissionTyped, SlotsCounted
  <2>7. CallersHaveWork'
    BY <1>1, <2>2, <2>3, <2>4 DEF AdmissionInductive, CallersHaveWork, Pages!In
  <2>8. Posts \subseteq Pages!Callers
    BY DEF Pages!Callers
  <2>9. HandlersAreAwaited'
    BY <1>1, <2>2, <2>3, <2>4, <2>8 DEF AdmissionInductive, HandlersAreAwaited, Pages!In
  <2> QED BY <2>5, <2>6, <2>7, <2>9 DEF AdmissionInductive
<1> QED BY <1>5, <1>6 DEF Pages!Take

\* The function ends and returns its slot.
LEMMA FinishKeeps ==
    ASSUME AdmissionInductive, NEW r \in Pages!Callers, Pages!Finish(r)
    PROVE  AdmissionInductive'
<1> DEFINE j == [work[r] EXCEPT !.state = "done"]
<1>1. /\ work[r] \in JobStates /\ work' = [work EXCEPT ![r] = j] /\ work[r].state = "running"
      /\ free' = free + 1 /\ UNCHANGED <<waiting, caller, formOpen, cancelled>>
  BY DEF AdmissionInductive, AdmissionTyped, Pages!Becomes, Pages!Finish, Pages!In
<1>2. j \in JobStates /\ j.state = "done" /\ j.job = work[r].job
  BY <1>1 DEF JobStates
<1> HIDE DEF j
<1>3. AdmissionTyped /\ work[r].state \in AtWork /\ j.state \notin AtWork
  BY <1>1, <1>2 DEF AdmissionInductive, Pages!In, AtWork
<1>4. /\ work'[r] = j /\ work' \in [Pages!Callers -> JobStates]
      /\ \A q \in Pages!Callers \ {r} : work'[q] = work[q]
      /\ Cardinality(Pages!Busy') = Cardinality(Pages!Busy) - 1
  BY <1>1, <1>2, <1>3, BusyChanges
<1>5. AdmissionTyped' /\ SlotsCounted'
  BY <1>1, <1>4, BusyIsFinite DEF AdmissionInductive, AdmissionTyped, SlotsCounted
<1>6. QueuedAreWaiting'
  BY <1>1, <1>2, <1>4 DEF AdmissionInductive, QueuedAreWaiting, Pages!In, IsIn
<1>7. CallersHaveWork'
  BY <1>1, <1>2, <1>4 DEF AdmissionInductive, CallersHaveWork, Pages!In
<1>8. Posts \subseteq Pages!Callers
  BY DEF Pages!Callers
<1>9. HandlersAreAwaited'
  BY <1>1, <1>2, <1>4, <1>8 DEF AdmissionInductive, HandlersAreAwaited, Pages!In
<1> QED BY <1>5, <1>6, <1>7, <1>9 DEF AdmissionInductive

LEMMA ResumeKeeps ==
    ASSUME AdmissionInductive, NEW r \in Pages!Callers, Pages!Resume(r)
    PROVE  AdmissionInductive'
<1>1. Pages!In(r, {"done"}) /\ UNCHANGED <<free, waiting, work, cancelled>>
  BY DEF Pages!Resume
<1>2. CASE Pages!Leaves(r)
  BY <1>1, <1>2, LeavingKeeps DEF Pages!Leaves, Pages!Goes, Pages!In
<1>3. CASE caller[r] = "session" /\ Pages!Goes(r, "form") /\ formOpen' = formOpen \cup {r}
  <2>1. /\ caller'[r] = "form" /\ caller' \in [Pages!Callers -> CallerStates]
        /\ \A q \in Pages!Callers \ {r} : caller'[q] = caller[q]
    BY <1>3 DEF AdmissionInductive, AdmissionTyped, CallerStates, Pages!Goes
  <2>2. r \in Posts
    BY <1>3 DEF AdmissionInductive, CallersHaveWork
  <2>3. AdmissionTyped' /\ SlotsCounted' /\ QueuedAreWaiting'
    BY <1>1, <1>3, <2>1, <2>2 DEF AdmissionInductive, AdmissionTyped, SlotsCounted, Pages!Busy,
       QueuedAreWaiting, Pages!In, IsIn
  <2>4. CallersHaveWork'
    BY <1>1, <1>3, <2>1, <2>2 DEF AdmissionInductive, CallersHaveWork, Pages!In
  <2>5. Posts \subseteq Pages!Callers
    BY DEF Pages!Callers
  <2>6. HandlersAreAwaited'
    BY <1>1, <1>3, <2>1, <2>5 DEF AdmissionInductive, HandlersAreAwaited, Pages!In
  <2> QED BY <2>3, <2>4, <2>6 DEF AdmissionInductive
<1> QED BY <1>2, <1>3 DEF Pages!Resume

LEMMA StartTaskKeeps ==
    ASSUME AdmissionInductive, NEW r \in Pages!Callers, Pages!StartTask(r)
    PROVE  AdmissionInductive'
<1>1. caller[r] = "form" /\ UNCHANGED <<free, waiting, work, formOpen, cancelled>>
  BY DEF Pages!StartTask
<1>2. /\ caller'[r] = "task" /\ caller' \in [Pages!Callers -> CallerStates]
      /\ \A q \in Pages!Callers \ {r} : caller'[q] = caller[q]
  BY DEF AdmissionInductive, AdmissionTyped, CallerStates, Pages!Goes, Pages!StartTask
<1>3. AdmissionTyped' /\ SlotsCounted' /\ QueuedAreWaiting'
  BY <1>1, <1>2 DEF AdmissionInductive, AdmissionTyped, SlotsCounted, Pages!Busy,
     QueuedAreWaiting, Pages!In, IsIn
<1>4. CallersHaveWork'
  BY <1>1, <1>2 DEF AdmissionInductive, CallersHaveWork, Pages!In
<1>5. Posts \subseteq Pages!Callers
  BY DEF Pages!Callers
<1>6. HandlersAreAwaited'
  BY <1>1, <1>2, <1>5 DEF AdmissionInductive, HandlersAreAwaited, Pages!In
<1> QED BY <1>3, <1>4, <1>6 DEF AdmissionInductive

\* A first cancellation leaves a handler's coroutine alone; otherwise the caller
\* leaves, and only what is still queued returns its slot.
LEMMA CancelKeeps ==
    ASSUME AdmissionInductive, NEW r \in Pages!Callers, Pages!Cancel(r)
    PROVE  AdmissionInductive'
<1>1. /\ caller[r] \notin {"idle", "gone"} /\ waiting' = waiting
      /\ cancelled' = [cancelled EXCEPT ![r] = @ + 1]
  BY DEF Pages!Cancel
<1>2. /\ cancelled' \in [Pages!Callers -> Nat] /\ cancelled'[r] = cancelled[r] + 1
      /\ \A q \in Pages!Callers \ {r} : cancelled'[q] = cancelled[q]
      /\ cancelled[r] \in Nat
  BY <1>1 DEF AdmissionInductive, AdmissionTyped
<1>3. Posts \subseteq Pages!Callers
  BY DEF Pages!Callers
<1>4. CASE UNCHANGED <<caller, work, free, formOpen>>
  <2>1. AdmissionTyped' /\ SlotsCounted' /\ QueuedAreWaiting' /\ CallersHaveWork'
    BY <1>1, <1>2, <1>4 DEF AdmissionInductive, AdmissionTyped, SlotsCounted, Pages!Busy,
       QueuedAreWaiting, CallersHaveWork, Pages!In, IsIn
  <2>2. HandlersAreAwaited'
    BY <1>2, <1>3, <1>4 DEF AdmissionInductive, HandlersAreAwaited, Pages!In
  <2> QED BY <2>1, <2>2 DEF AdmissionInductive
<1>5. CASE /\ ~Pages!Shielded(r) /\ UNCHANGED <<work, free>> /\ Pages!Leaves(r)
           /\ ~(Pages!In(r, {"queued"}) /\ caller[r] = work[r].job)
  <2>1. /\ caller'[r] = "gone" /\ caller' \in [Pages!Callers -> CallerStates]
        /\ \A q \in Pages!Callers \ {r} : caller'[q] = caller[q]
        /\ formOpen' = formOpen \ {r}
    BY <1>5 DEF AdmissionInductive, AdmissionTyped, CallerStates, Pages!Leaves, Pages!Goes
  <2>2. AdmissionTyped' /\ SlotsCounted' /\ QueuedAreWaiting'
    BY <1>1, <1>2, <1>5, <2>1 DEF AdmissionInductive, AdmissionTyped, SlotsCounted,
       Pages!Busy, QueuedAreWaiting, Pages!In, IsIn
  <2>3. CallersHaveWork'
    BY <1>5, <2>1 DEF AdmissionInductive, CallersHaveWork, Pages!In
  <2>4. caller[r] \in {"task", "action"} => cancelled'[r] > 1
    BY <1>2, <1>5 DEF Pages!Shielded
  <2>5. HandlersAreAwaited'
    BY <1>2, <1>3, <1>5, <2>1, <2>4 DEF AdmissionInductive, HandlersAreAwaited, Pages!In
  <2> QED BY <2>2, <2>3, <2>5 DEF AdmissionInductive
<1>6. CASE /\ ~Pages!Shielded(r) /\ Pages!Leaves(r) /\ Pages!In(r, {"queued"})
           /\ Pages!Becomes(r, "cancelled") /\ free' = free + 1
  <2> DEFINE j == [work[r] EXCEPT !.state = "cancelled"]
  <2>1. /\ caller'[r] = "gone" /\ caller' \in [Pages!Callers -> CallerStates]
        /\ \A q \in Pages!Callers \ {r} : caller'[q] = caller[q]
        /\ formOpen' = formOpen \ {r}
    BY <1>6 DEF AdmissionInductive, AdmissionTyped, CallerStates, Pages!Leaves, Pages!Goes
  <2>2. work[r] \in JobStates /\ work' = [work EXCEPT ![r] = j]
    BY <1>6 DEF AdmissionInductive, AdmissionTyped, Pages!Becomes
  <2>3. j \in JobStates /\ j.state = "cancelled" /\ j.job = work[r].job
    BY <2>2 DEF JobStates
  <2> HIDE DEF j
  <2>4. AdmissionTyped /\ work[r].state \in AtWork /\ j.state \notin AtWork
    BY <1>6, <2>3 DEF AdmissionInductive, Pages!In, AtWork
  <2>5. /\ work'[r] = j /\ work' \in [Pages!Callers -> JobStates]
        /\ \A q \in Pages!Callers \ {r} : work'[q] = work[q]
        /\ Cardinality(Pages!Busy') = Cardinality(Pages!Busy) - 1
    BY <2>2, <2>3, <2>4, BusyChanges
  <2>6. AdmissionTyped' /\ SlotsCounted'
    BY <1>1, <1>2, <1>6, <2>1, <2>5, BusyIsFinite DEF AdmissionInductive, AdmissionTyped,
       SlotsCounted
  <2>7. QueuedAreWaiting'
    BY <1>1, <2>3, <2>5 DEF AdmissionInductive, QueuedAreWaiting, Pages!In, IsIn
  <2>8. CallersHaveWork'
    BY <2>1, <2>5 DEF AdmissionInductive, CallersHaveWork, Pages!In
  <2>9. HandlersAreAwaited'
    BY <1>2, <1>3, <2>1, <2>3, <2>5 DEF AdmissionInductive, HandlersAreAwaited, Pages!In
  <2> QED BY <2>6, <2>7, <2>8, <2>9 DEF AdmissionInductive
<1> QED BY <1>4, <1>5, <1>6 DEF Pages!Cancel, Pages!AbandonWork

LEMMA AdmissionInitInductive == ASSUME Pages!Init PROVE AdmissionInductive
<1>1. /\ free = Slots /\ waiting = <<>> /\ formOpen = {}
      /\ work = [r \in Pages!Callers |-> [job |-> "none", state |-> "none"]]
      /\ caller = [r \in Pages!Callers |-> "idle"]
      /\ cancelled = [r \in Pages!Callers |-> 0]
  BY DEF Pages!Init
<1>2. [job |-> "none", state |-> "none"] \in JobStates
  BY DEF JobStates
<1>3. AdmissionTyped
  BY <1>1, <1>2, AdmissionConstants DEF AdmissionTyped, CallerStates
<1>4. \A r \in Pages!Callers : work[r].state = "none" /\ work[r].job = "none"
  BY <1>1
<1>5. SlotsCounted
  <2>1. Pages!Busy = {}
    BY <1>4 DEF Pages!Busy, Pages!In
  <2> QED BY <1>1, <2>1, FS_EmptySet, AdmissionConstants DEF SlotsCounted
<1>6. QueuedAreWaiting /\ CallersHaveWork
  BY <1>1, <1>4 DEF QueuedAreWaiting, CallersHaveWork, Pages!In
<1>7. Posts \subseteq Pages!Callers
  BY DEF Pages!Callers
<1>8. HandlersAreAwaited
  BY <1>4, <1>7 DEF HandlersAreAwaited, Pages!In
<1> QED BY <1>3, <1>5, <1>6, <1>8 DEF AdmissionInductive

LEMMA AdmissionNextInductive ==
    ASSUME AdmissionInductive, [Pages!Next]_(Pages!admissionVars)
    PROVE  AdmissionInductive'
<1>1. CASE UNCHANGED Pages!admissionVars
  BY <1>1 DEF Pages!admissionVars, AdmissionInductive, AdmissionTyped, SlotsCounted, Pages!Busy,
     QueuedAreWaiting, CallersHaveWork, HandlersAreAwaited, Pages!In, IsIn
<1> QED BY <1>1, AdmitKeeps, SubmitOrRefuseKeeps, TakeKeeps, FinishKeeps, ResumeKeeps,
           StartTaskKeeps, CancelKeeps DEF Pages!Next

LEMMA AdmissionInductiveIsEnough ==
    AdmissionInductive =>
        Pages!AdmissionTypeOK /\ Pages!SlotsAreWork /\ Pages!FormsOutliveWork
<1> SUFFICES ASSUME AdmissionInductive
             PROVE  Pages!AdmissionTypeOK /\ Pages!SlotsAreWork /\ Pages!FormsOutliveWork
  OBVIOUS
<1>1. free + Cardinality(Pages!Busy) = Slots /\ free \in 0..Slots
  BY BusyIsFinite, AdmissionConstants DEF AdmissionInductive, AdmissionTyped, SlotsCounted
<1>2. Pages!Cardinality(Pages!Busy) = Cardinality(Pages!Busy)
  BY PagesCount
<1>3. Pages!AdmissionTypeOK
  BY <1>1 DEF AdmissionInductive, AdmissionTyped, Pages!AdmissionTypeOK, JobStates, CallerStates
<1>4. \A r \in Pages!Callers : Pages!In(r, {"queued"}) => r \in Pages!Range(waiting)
  BY DEF AdmissionInductive, AdmissionTyped, QueuedAreWaiting, IsIn, Pages!Range
<1>5. Pages!SlotsAreWork
  BY <1>1, <1>2, <1>4 DEF AdmissionInductive, QueuedAreWaiting, CallersHaveWork, Pages!SlotsAreWork
<1>6. Posts \subseteq Pages!Callers
  BY DEF Pages!Callers
<1>7. Pages!FormsOutliveWork
  BY <1>6 DEF AdmissionInductive, CallersHaveWork, HandlersAreAwaited, Pages!FormsOutliveWork,
     Pages!In
<1> QED BY <1>3, <1>5, <1>7

-----------------------------------------------------------------------------
(* The limits of sign-in (LoginLimiter).                                   *)

Ascending(s) == \A i \in 1..Len(s) : \A j \in 1..Len(s) : i <= j => s[i] <= s[j]

LEMMA SignInsOperators ==
    /\ \A S : SignIns!Cardinality(S) = Cardinality(S)
    /\ \A s : SignIns!ToSet(s) = ToSet(s)
    /\ \A s : SignIns!IsInjective(s) <=> IsInjective(s)
    /\ \A s, e : SignIns!Contains(s, e) <=> Contains(s, e)
    /\ \A s, e : SignIns!RemoveFirst(s, e) = RemoveFirst(s, e)
    /\ \A s, I : SignIns!Keep(s, I) = Keep(s, I)
<1>1. \A S : SignIns!Cardinality(S) = Cardinality(S)
  BY DEF Cardinality, SignIns!Cardinality
<1>2. \A s : SignIns!ToSet(s) = ToSet(s)
  BY DEF ToSet, SignIns!ToSet
<1>3. \A s : SignIns!IsInjective(s) <=> IsInjective(s)
  BY DEF IsInjective, SignIns!IsInjective
<1>4. \A s, e : SignIns!Contains(s, e) <=> Contains(s, e)
  BY DEF Contains, SignIns!Contains
<1>5. \A s, e : SignIns!RemoveFirst(s, e) = RemoveFirst(s, e)
  BY DEF RemoveFirst, RemoveAt, SelectInSeq, Min, SignIns!RemoveFirst,
     SignIns!RemoveAt, SignIns!SelectInSeq, SignIns!Min
<1>6. \A s, I : SignIns!Keep(s, I) = Keep(s, I)
  BY DEF Keep, SignIns!Keep, Cardinality, SignIns!Cardinality
<1> QED BY <1>1, <1>2, <1>3, <1>4, <1>5, <1>6

\* Of times in order, those in the window are the last.
LEMMA RecentAreLast ==
    ASSUME NEW s \in Seq(Nat), Ascending(s), NEW now \in Nat
    PROVE  \E k \in 0..Len(s) :
              /\ SignIns!Recent(s, now) \in Seq(Nat)
              /\ Len(SignIns!Recent(s, now)) = Len(s) - k
              /\ \A i \in 1..(Len(s) - k) : SignIns!Recent(s, now)[i] = s[k + i]
              /\ \A i \in 1..k : s[i] + Window <= now
              /\ \A i \in (k + 1)..Len(s) : s[i] + Window > now
<1> DEFINE past == {i \in DOMAIN s : s[i] + Window <= now}
           k == Cardinality(past)
<1>0. Window \in Nat /\ Len(s) \in Nat /\ DOMAIN s = 1..Len(s)
      /\ \A i \in 1..Len(s) : s[i] \in Nat
  BY LimiterConstants
<1>1. /\ past \subseteq 1..Len(s)
      /\ IsFiniteSet(1..Len(s)) /\ Cardinality(1..Len(s)) = Len(s)
  BY <1>0, FS_Interval
<1>2. IsFiniteSet(past) /\ k \in Nat /\ k <= Len(s)
  BY <1>1, FS_Subset, FS_CardinalityType
<1>3. ASSUME NEW i \in past PROVE i \in 1..k
  <2>1. 1..i \subseteq past
    BY <1>0 DEF Ascending
  <2>2. IsFiniteSet(1..i) /\ Cardinality(1..i) = i
    BY <1>0, FS_Interval
  <2>3. i <= k
    BY <1>2, <2>1, <2>2, FS_Subset
  <2> QED BY <1>0, <1>2, <2>3
<1>4. past = 1..k
  <2>1. IsFiniteSet(1..k) /\ Cardinality(1..k) = k
    BY <1>2, FS_Interval
  <2> QED BY <1>3, <2>1, FS_Subset
<1>5. SignIns!Recent(s, now) = Keep(s, (k + 1)..Len(s))
  <2>1. {i \in DOMAIN s : s[i] + Window > now} = (1..Len(s)) \ past
    BY <1>0, LimiterConstants
  <2>2. (1..Len(s)) \ past = (k + 1)..Len(s)
    <3> HIDE DEF past, k
    <3>1. (1..Len(s)) \ (1..k) = (k + 1)..Len(s)
      BY <1>0, <1>2
    <3> QED BY <1>4, <3>1
  <2> QED BY <2>1, <2>2, SignInsOperators DEF SignIns!Recent
<1>6. /\ \A i \in 1..k : s[i] + Window <= now
      /\ \A i \in (k + 1)..Len(s) : s[i] + Window > now
  <2>1. ASSUME NEW i \in 1..k PROVE s[i] + Window <= now
    BY <1>4
  <2>2. ASSUME NEW i \in (k + 1)..Len(s) PROVE s[i] + Window > now
    <3>1. i \in 1..Len(s) /\ i \notin 1..k
      BY <1>2
    <3> QED BY <1>0, <1>4, <3>1
  <2> QED BY <2>1, <2>2
<1> HIDE DEF k, past
<1>7. k \in 0..Len(s)
  BY <1>0, <1>2
<1>8. /\ Keep(s, (k + 1)..Len(s)) \in Seq(Nat)
      /\ Len(Keep(s, (k + 1)..Len(s))) = Len(s) - k
      /\ \A i \in 1..(Len(s) - k) : Keep(s, (k + 1)..Len(s))[i] = s[k + i]
  BY <1>7, KeptEnd
<1> WITNESS k \in 0..Len(s)
<1> QED BY <1>5, <1>6, <1>8

LEMMA RecentIsAscending ==
    ASSUME NEW s \in Seq(Nat), Ascending(s), NEW now \in Nat
    PROVE  LET t == SignIns!Recent(s, now)
           IN  /\ t \in Seq(Nat) /\ Ascending(t) /\ Len(t) <= Len(s)
               /\ \A i \in 1..Len(t) : t[i] + Window > now
               /\ \A m \in Nat : (\A i \in 1..Len(s) : s[i] <= m)
                                    => \A i \in 1..Len(t) : t[i] <= m
<1> DEFINE t == SignIns!Recent(s, now)
<1>1. PICK k \in 0..Len(s) :
              /\ t \in Seq(Nat) /\ Len(t) = Len(s) - k
              /\ \A i \in 1..(Len(s) - k) : t[i] = s[k + i]
              /\ \A i \in (k + 1)..Len(s) : s[i] + Window > now
  BY RecentAreLast
<1> HIDE DEF t
<1>2. Len(s) \in Nat /\ \A i \in 1..Len(t) : k + i \in (k + 1)..Len(s) /\ k + i \in 1..Len(s)
  BY <1>1
<1>3. Ascending(t)
  <2> SUFFICES ASSUME NEW i \in 1..Len(t), NEW j \in 1..Len(t), i <= j
               PROVE  t[i] <= t[j]
    BY DEF Ascending
  <2>1. t[i] = s[k + i] /\ t[j] = s[k + j] /\ k + i <= k + j
    BY <1>1
  <2> QED BY <1>2, <2>1 DEF Ascending
<1>4. \A i \in 1..Len(t) : t[i] + Window > now
  BY <1>1, <1>2
<1>5. \A m \in Nat : (\A i \in 1..Len(s) : s[i] <= m) => \A i \in 1..Len(t) : t[i] <= m
  BY <1>1, <1>2
<1> QED BY <1>1, <1>2, <1>3, <1>4, <1>5 DEF t

\* One sequence is the end of another.
IsEnd(r, g) ==
    Len(r) <= Len(g) /\ \A i \in 1..Len(r) : r[i] = g[Len(g) - Len(r) + i]

LEMMA EndOfRecent ==
    ASSUME NEW r \in Seq(Nat), NEW g \in Seq(Nat), Ascending(r), Ascending(g),
           IsEnd(r, g), NEW now \in Nat
    PROVE  IsEnd(SignIns!Recent(r, now), SignIns!Recent(g, now))
<1> DEFINE a == SignIns!Recent(r, now)
           b == SignIns!Recent(g, now)
           d == Len(g) - Len(r)
<1>1. PICK k \in 0..Len(r) :
              /\ a \in Seq(Nat) /\ Len(a) = Len(r) - k
              /\ \A i \in 1..(Len(r) - k) : a[i] = r[k + i]
              /\ \A i \in 1..k : r[i] + Window <= now
              /\ \A i \in (k + 1)..Len(r) : r[i] + Window > now
  BY RecentAreLast
<1>2. PICK m \in 0..Len(g) :
              /\ b \in Seq(Nat) /\ Len(b) = Len(g) - m
              /\ \A i \in 1..(Len(g) - m) : b[i] = g[m + i]
              /\ \A i \in 1..m : g[i] + Window <= now
              /\ \A i \in (m + 1)..Len(g) : g[i] + Window > now
  BY RecentAreLast
<1> HIDE DEF a, b
<1>3. /\ d \in Nat /\ Len(r) \in Nat /\ Len(g) \in Nat /\ Window \in Nat
      /\ \A i \in 1..Len(r) : r[i] = g[d + i] /\ r[i] \in Nat
      /\ \A i \in 1..Len(g) : g[i] \in Nat
  <2>1. Len(r) \in Nat /\ Len(g) \in Nat /\ Window \in Nat
    BY LimiterConstants
  <2>2. \A i \in 1..Len(r) : r[i] = g[d + i]
    BY DEF IsEnd
  <2>3. d \in Nat
    BY <2>1 DEF IsEnd
  <2>4. (\A i \in 1..Len(r) : r[i] \in Nat) /\ \A i \in 1..Len(g) : g[i] \in Nat
    BY <2>1
  <2> HIDE DEF d
  <2> QED BY <2>1, <2>2, <2>3, <2>4
<1>4. Len(g) = Len(r) + d
  BY <1>3
<1> HIDE DEF d
<1>5. m <= d + k
  <2> SUFFICES ASSUME m > d + k PROVE FALSE
    BY <1>1, <1>2, <1>3
  <2>1. k + 1 \in 1..Len(r) /\ k + 1 \in (k + 1)..Len(r) /\ d + (k + 1) \in 1..m
    BY <1>1, <1>2, <1>3, <1>4
  <2>2. r[k + 1] + Window > now /\ g[d + (k + 1)] + Window <= now
    BY <1>1, <1>2, <2>1
  <2>3. r[k + 1] = g[d + (k + 1)] /\ r[k + 1] \in Nat
    BY <1>3, <2>1
  <2> QED BY <1>3, <2>2, <2>3
<1>6. Len(a) <= Len(b)
  BY <1>1, <1>2, <1>3, <1>4, <1>5
<1>7. ASSUME NEW i \in 1..Len(a) PROVE a[i] = b[Len(b) - Len(a) + i]
  <2>1. /\ a[i] = r[k + i] /\ k + i \in 1..Len(r)
        /\ Len(b) - Len(a) + i \in 1..(Len(g) - m)
        /\ m + (Len(b) - Len(a) + i) = d + (k + i)
    <3>1. a[i] = r[k + i] /\ k + i \in 1..Len(r)
      BY <1>1, <1>3
    <3>2. Len(b) - Len(a) + i \in 1..(Len(g) - m)
      <4>1. /\ i \in Int /\ 1 <= i /\ i <= Len(a) /\ Len(a) \in Nat
            /\ Len(b) \in Nat /\ Len(a) <= Len(b) /\ Len(b) = Len(g) - m
        BY <1>1, <1>2, <1>6
      <4> QED BY <4>1
    <3>3. m + (Len(b) - Len(a) + i) = d + (k + i)
      BY <1>1, <1>2, <1>3, <1>4
    <3> QED BY <3>1, <3>2, <3>3
  <2>2. b[Len(b) - Len(a) + i] = g[d + (k + i)]
    BY <1>2, <2>1
  <2>3. r[k + i] = g[d + (k + i)]
    BY <1>3, <2>1
  <2> QED BY <2>1, <2>2, <2>3
<1> QED BY <1>6, <1>7 DEF IsEnd, a, b

LEMMA SameByEnds ==
    ASSUME NEW r \in Seq(Nat), NEW g \in Seq(Nat), IsEnd(r, g), Len(r) = Len(g)
    PROVE  r = g
<1>1. \A i \in 1..Len(r) : r[i] = g[i]
  BY DEF IsEnd
<1> QED BY <1>1, SeqEqual

\* A window of a later window.
LEMMA RecentOfRecent ==
    ASSUME NEW s \in Seq(Nat), Ascending(s), NEW now \in Nat, NEW later \in Nat,
           now <= later
    PROVE  SignIns!Recent(SignIns!Recent(s, now), later) = SignIns!Recent(s, later)
<1> DEFINE t == SignIns!Recent(s, now)
           a == SignIns!Recent(t, later)
           b == SignIns!Recent(s, later)
<1>1. PICK k \in 0..Len(s) :
              /\ t \in Seq(Nat) /\ Len(t) = Len(s) - k
              /\ \A i \in 1..(Len(s) - k) : t[i] = s[k + i]
              /\ \A i \in 1..k : s[i] + Window <= now
  BY RecentAreLast
<1>2. Ascending(t)
  BY RecentIsAscending
<1> HIDE DEF t
<1>3. PICK m \in 0..Len(t) :
              /\ a \in Seq(Nat) /\ Len(a) = Len(t) - m
              /\ \A i \in 1..(Len(t) - m) : a[i] = t[m + i]
              /\ \A i \in 1..m : t[i] + Window <= later
              /\ \A i \in (m + 1)..Len(t) : t[i] + Window > later
  BY <1>1, <1>2, RecentAreLast
<1>4. PICK n \in 0..Len(s) :
              /\ b \in Seq(Nat) /\ Len(b) = Len(s) - n
              /\ \A i \in 1..(Len(s) - n) : b[i] = s[n + i]
              /\ \A i \in 1..n : s[i] + Window <= later
              /\ \A i \in (n + 1)..Len(s) : s[i] + Window > later
  BY RecentAreLast
<1> HIDE DEF a, b
<1>5. /\ Len(s) \in Nat /\ Window \in Nat
      /\ \A i \in 1..Len(s) : s[i] \in Nat
  BY LimiterConstants
<1>6. ~(n < k + m)
  <2> SUFFICES ASSUME n < k + m PROVE FALSE
    OBVIOUS
  <2>1. n + 1 \in (n + 1)..Len(s) /\ n + 1 \in 1..Len(s)
    BY <1>1, <1>3, <1>4, <1>5
  <2>2. s[n + 1] + Window > later /\ s[n + 1] \in Nat
    BY <1>4, <1>5, <2>1
  <2>3. CASE n + 1 <= k
    <3>1. n + 1 \in 1..k
      BY <1>1, <1>4, <2>3
    <3>2. s[n + 1] + Window <= now
      BY <1>1, <3>1
    <3> QED BY <1>5, <2>2, <3>2
  <2>4. CASE n + 1 > k
    <3>1. n + 1 - k \in 1..m /\ n + 1 - k \in 1..(Len(s) - k) /\ k + (n + 1 - k) = n + 1
      BY <1>1, <1>3, <1>4, <1>5, <2>4
    <3>2. t[n + 1 - k] = s[n + 1] /\ t[n + 1 - k] + Window <= later
      BY <1>1, <1>3, <3>1
    <3> QED BY <1>5, <2>2, <3>2
  <2> QED BY <1>1, <1>4, <2>3, <2>4
<1>7. ~(n > k + m)
  <2> SUFFICES ASSUME n > k + m PROVE FALSE
    OBVIOUS
  <2>1. /\ m + 1 \in (m + 1)..Len(t) /\ m + 1 \in 1..(Len(s) - k)
        /\ k + (m + 1) \in 1..n
    BY <1>1, <1>3, <1>4, <1>5
  <2>2. t[m + 1] = s[k + (m + 1)] /\ t[m + 1] + Window > later
        /\ s[k + (m + 1)] + Window <= later
    BY <1>1, <1>3, <1>4, <2>1
  <2>3. k + (m + 1) \in 1..Len(s) /\ s[k + (m + 1)] \in Nat
    BY <1>4, <1>5, <2>1
  <2> QED BY <1>5, <2>2, <2>3
<1>8. n = k + m /\ Len(a) = Len(b)
  <2>1. n = k + m
    BY <1>1, <1>3, <1>4, <1>6, <1>7
  <2> QED BY <1>1, <1>3, <1>4, <1>5, <2>1
<1>9. ASSUME NEW i \in 1..Len(a) PROVE a[i] = b[i]
  <2>1. /\ i \in 1..(Len(t) - m) /\ m + i \in 1..(Len(s) - k) /\ i \in 1..(Len(s) - n)
        /\ k + (m + i) = n + i
    BY <1>1, <1>3, <1>4, <1>5, <1>8
  <2> QED BY <1>1, <1>3, <1>4, <2>1
<1>10. a = b
  BY <1>3, <1>4, <1>8, <1>9, SeqEqual
<1> QED BY <1>10 DEF a, b, t

\* What is all in the window stays as it is.
LEMMA AllRecent ==
    ASSUME NEW s \in Seq(Nat), Ascending(s), NEW now \in Nat,
           \A i \in 1..Len(s) : s[i] + Window > now
    PROVE  SignIns!Recent(s, now) = s
<1> DEFINE t == SignIns!Recent(s, now)
<1>1. PICK k \in 0..Len(s) :
              /\ t \in Seq(Nat) /\ Len(t) = Len(s) - k
              /\ \A i \in 1..(Len(s) - k) : t[i] = s[k + i]
              /\ \A i \in 1..k : s[i] + Window <= now
  BY RecentAreLast
<1> HIDE DEF t
<1>2. Len(s) \in Nat /\ Window \in Nat /\ \A i \in 1..Len(s) : s[i] \in Nat
  BY LimiterConstants
<1>3. k = 0
  <2> SUFFICES ASSUME k # 0 PROVE FALSE
    OBVIOUS
  <2>1. 1 \in 1..k /\ 1 \in 1..Len(s)
    BY <1>2
  <2> QED BY <1>1, <1>2, <2>1
<1>4. t = s
  BY <1>1, <1>2, <1>3, SeqEqual
<1> QED BY <1>4 DEF t

\* All grants of the window are among the attempts of everyone, each as one of
\* its own.
Grants == UNION {{<<p, i>> : i \in DOMAIN granted[p]} : p \in Peers}

Counts(f, given, all) ==
    /\ \A p \in Peers : \A i \in 1..Len(given[p]) :
          f[<<p, i>>] \in 1..Len(all) /\ all[f[<<p, i>>]] = given[p][i]
    /\ \A p \in Peers : \A q \in Peers :
          \A i \in 1..Len(given[p]) : \A j \in 1..Len(given[q]) :
              f[<<p, i>>] = f[<<q, j>>] => p = q /\ i = j

Counters == [Peers \X Nat -> Nat]

TimesInOrder(s) == s \in Seq(Nat) /\ Ascending(s) /\ \A i \in 1..Len(s) : s[i] <= clock

LimiterTyped ==
    /\ clock \in 0..MaxClock /\ forgotten \subseteq Peers
    /\ attempts \in [Peers -> Seq(Nat)] /\ granted \in [Peers -> Seq(Nat)]
    /\ TimesInOrder(everyone)
    /\ \A p \in Peers : TimesInOrder(attempts[p]) /\ TimesInOrder(granted[p])

SeatsAreKept ==
    /\ peers \in Seq(Peers) /\ IsInjective(peers) /\ Len(peers) <= Capacity
    /\ \A p \in Peers : Contains(peers, p) \/ attempts[p] = <<>>

\* What is remembered of a peer is the end of what it was granted, and all of it
\* unless the peer was forgotten.
MemoryIsOfGrants ==
    \A p \in Peers :
        /\ IsEnd(SignIns!Recent(attempts[p], clock), granted[p])
        /\ p \notin forgotten => SignIns!Recent(attempts[p], clock) = granted[p]
        /\ p \notin forgotten => Len(granted[p]) <= PeerLimit
        /\ \A i \in 1..Len(granted[p]) : granted[p][i] + Window > clock

EveryoneCounts ==
    /\ Len(everyone) <= GlobalLimit
    /\ \E f \in Counters : Counts(f, granted, everyone)

LimiterInductive == LimiterTyped /\ SeatsAreKept /\ MemoryIsOfGrants /\ EveryoneCounts

\* The numbering of the grants survives the loss of what is out of the window.
LEMMA CountsAfterTick ==
    ASSUME LimiterTyped, NEW now \in Nat, NEW f \in Counters,
           Counts(f, granted, everyone)
    PROVE  \E g \in Counters :
              Counts(g, [p \in Peers |-> SignIns!Recent(granted[p], now)], everyone)
<1> DEFINE given == [p \in Peers |-> SignIns!Recent(granted[p], now)]
<1>1. \A p \in Peers : \E k \in 0..Len(granted[p]) :
          /\ Len(given[p]) = Len(granted[p]) - k
          /\ \A i \in 1..(Len(granted[p]) - k) : given[p][i] = granted[p][k + i]
  <2> TAKE p \in Peers
  <2>1. granted[p] \in Seq(Nat) /\ Ascending(granted[p])
    BY DEF LimiterTyped, TimesInOrder
  <2> QED BY <2>1, RecentAreLast
<1>2. PICK gap \in [Peers -> Nat] : \A p \in Peers :
          /\ gap[p] \in 0..Len(granted[p])
          /\ Len(given[p]) = Len(granted[p]) - gap[p]
          /\ \A i \in 1..(Len(granted[p]) - gap[p]) : given[p][i] = granted[p][gap[p] + i]
  <2> DEFINE Fits(p, k) ==
          /\ k \in 0..Len(granted[p])
          /\ Len(given[p]) = Len(granted[p]) - k
          /\ \A i \in 1..(Len(granted[p]) - k) : given[p][i] = granted[p][k + i]
             gap == [p \in Peers |-> CHOOSE k \in Nat : Fits(p, k)]
  <2>0. \A p \in Peers : \E k \in Nat : Fits(p, k)
    <3> TAKE p \in Peers
    <3>1. Len(granted[p]) \in Nat
      BY DEF LimiterTyped
    <3> QED BY <1>1, <3>1
  <2> HIDE DEF Fits
  <2>1. gap \in [Peers -> Nat] /\ \A p \in Peers : Fits(p, gap[p])
    BY <2>0
  <2> HIDE DEF gap
  <2> QED BY <2>1 DEF Fits
<1> HIDE DEF given
<1> DEFINE g == [x \in Peers \X Nat |-> f[<<x[1], gap[x[1]] + x[2]>>]]
<1>3. g \in Counters
  BY <1>2 DEF Counters
<1>4. ASSUME NEW p \in Peers, NEW i \in 1..Len(given[p])
      PROVE  /\ g[<<p, i>>] = f[<<p, gap[p] + i>>]
             /\ gap[p] + i \in 1..Len(granted[p])
             /\ given[p][i] = granted[p][gap[p] + i]
  <2>1. Len(granted[p]) \in Nat /\ gap[p] \in 0..Len(granted[p])
        /\ i \in 1..(Len(granted[p]) - gap[p])
    BY <1>2 DEF LimiterTyped
  <2> QED BY <1>2, <2>1
<1> HIDE DEF g
<1>5. ASSUME NEW p \in Peers, NEW i \in 1..Len(given[p])
      PROVE  g[<<p, i>>] \in 1..Len(everyone) /\ everyone[g[<<p, i>>]] = given[p][i]
  <2>1. /\ f[<<p, gap[p] + i>>] \in 1..Len(everyone)
        /\ everyone[f[<<p, gap[p] + i>>]] = granted[p][gap[p] + i]
    <3>1. gap[p] + i \in 1..Len(granted[p])
      BY <1>4
    <3> QED BY <3>1 DEF Counts
  <2> QED BY <1>4, <2>1
<1>6. ASSUME NEW p \in Peers, NEW q \in Peers,
             NEW i \in 1..Len(given[p]), NEW j \in 1..Len(given[q]),
             g[<<p, i>>] = g[<<q, j>>]
      PROVE  p = q /\ i = j
  <2>1. f[<<p, gap[p] + i>>] = f[<<q, gap[q] + j>>]
    BY <1>4, <1>6
  <2>2. gap[p] + i \in 1..Len(granted[p]) /\ gap[q] + j \in 1..Len(granted[q])
    BY <1>4
  <2>3. p = q /\ gap[p] + i = gap[q] + j
    BY <2>1, <2>2 DEF Counts
  <2> QED BY <1>2, <2>3
<1>7. Counts(g, given, everyone)
  BY <1>5, <1>6 DEF Counts
<1> QED BY <1>3, <1>7 DEF given

\* Attempts out of the window are no grants, so the numbering can do without.
LEMMA CountsOfRecent ==
    ASSUME LimiterTyped, MemoryIsOfGrants, NEW f \in Counters,
           Counts(f, granted, everyone)
    PROVE  \E g \in Counters : Counts(g, granted, SignIns!Recent(everyone, clock))
<1> DEFINE all == SignIns!Recent(everyone, clock)
<1>0. clock \in Nat /\ everyone \in Seq(Nat) /\ Ascending(everyone)
  BY LimiterConstants DEF LimiterTyped, TimesInOrder
<1>1. PICK k \in 0..Len(everyone) :
          /\ all \in Seq(Nat) /\ Len(all) = Len(everyone) - k
          /\ \A i \in 1..(Len(everyone) - k) : all[i] = everyone[k + i]
          /\ \A i \in 1..k : everyone[i] + Window <= clock
  BY <1>0, RecentAreLast
<1> HIDE DEF all
<1> DEFINE g == [x \in Peers \X Nat |-> IF f[x] > k THEN f[x] - k ELSE 0]
<1>2. g \in Counters
  <2>1. \A x \in Peers \X Nat : f[x] \in Nat
    BY DEF Counters
  <2> QED BY <1>1, <2>1 DEF Counters
<1>3. ASSUME NEW p \in Peers, NEW i \in 1..Len(granted[p])
      PROVE  /\ f[<<p, i>>] \in (k + 1)..Len(everyone)
             /\ g[<<p, i>>] = f[<<p, i>>] - k
             /\ everyone[f[<<p, i>>]] = granted[p][i]
  <2>1. f[<<p, i>>] \in 1..Len(everyone) /\ everyone[f[<<p, i>>]] = granted[p][i]
    BY DEF Counts
  <2>2. granted[p][i] + Window > clock
    BY DEF MemoryIsOfGrants
  <2>3. granted[p][i] \in Nat /\ Window \in Nat /\ Len(everyone) \in Nat
    BY <1>0, LimiterConstants DEF LimiterTyped
  <2>4. f[<<p, i>>] \notin 1..k
    BY <1>0, <1>1, <2>1, <2>2, <2>3
  <2>5. f[<<p, i>>] \in (k + 1)..Len(everyone)
    BY <1>1, <2>1, <2>3, <2>4
  <2>6. <<p, i>> \in Peers \X Nat
    OBVIOUS
  <2> QED BY <1>1, <2>1, <2>5, <2>6
<1> HIDE DEF g
<1>4. ASSUME NEW p \in Peers, NEW i \in 1..Len(granted[p])
      PROVE  g[<<p, i>>] \in 1..Len(all) /\ all[g[<<p, i>>]] = granted[p][i]
  <2>1. Len(everyone) \in Nat
    BY <1>0
  <2>2. f[<<p, i>>] - k \in 1..(Len(everyone) - k) /\ k + (f[<<p, i>>] - k) = f[<<p, i>>]
    BY <1>1, <1>3, <2>1
  <2>3. all[f[<<p, i>>] - k] = everyone[f[<<p, i>>]]
    BY <1>1, <2>2
  <2>4. f[<<p, i>>] - k \in 1..Len(all)
    BY <1>1, <2>2
  <2> QED BY <1>3, <2>3, <2>4
<1>5. ASSUME NEW p \in Peers, NEW q \in Peers,
             NEW i \in 1..Len(granted[p]), NEW j \in 1..Len(granted[q]),
             g[<<p, i>>] = g[<<q, j>>]
      PROVE  p = q /\ i = j
  <2>1. f[<<p, i>>] = f[<<q, j>>]
    <3>1. f[<<p, i>>] - k = f[<<q, j>>] - k
      BY <1>3, <1>5
    <3>2. f[<<p, i>>] \in Int /\ f[<<q, j>>] \in Int /\ k \in Int
      BY <1>1, <1>3
    <3> QED BY <3>1, <3>2
  <2> QED BY <2>1 DEF Counts
<1>6. Counts(g, granted, all)
  BY <1>4, <1>5 DEF Counts
<1> QED BY <1>2, <1>6 DEF all

\* One grant more has the place of the attempt that it adds.
LEMMA CountsOfOneMore ==
    ASSUME LimiterTyped, NEW p \in Peers, NEW all \in Seq(Nat), NEW f \in Counters,
           Counts(f, granted, all)
    PROVE  \E g \in Counters :
              Counts(g, [granted EXCEPT ![p] = Append(@, clock)], Append(all, clock))
<1> DEFINE more == Append(all, clock)
           given == [granted EXCEPT ![p] = Append(@, clock)]
           new == <<p, Len(granted[p]) + 1>>
           g == [f EXCEPT ![new] = Len(all) + 1]
<1>0. clock \in Nat /\ Len(all) \in Nat /\ \A q \in Peers : granted[q] \in Seq(Nat)
  BY LimiterConstants DEF LimiterTyped
<1>1. new \in Peers \X Nat /\ g \in Counters /\ g[new] = Len(all) + 1
      /\ \A x \in Peers \X Nat : x # new => g[x] = f[x]
  BY <1>0 DEF Counters
<1>2. /\ more \in Seq(Nat) /\ Len(more) = Len(all) + 1 /\ more[Len(all) + 1] = clock
      /\ \A i \in 1..Len(all) : more[i] = all[i]
  BY <1>0
<1>3. /\ given[p] = Append(granted[p], clock)
      /\ \A q \in Peers \ {p} : given[q] = granted[q]
  BY DEF LimiterTyped
<1>4. /\ Len(given[p]) = Len(granted[p]) + 1 /\ Len(granted[p]) \in Nat
      /\ given[p][Len(granted[p]) + 1] = clock
      /\ \A i \in 1..Len(granted[p]) : given[p][i] = granted[p][i]
  BY <1>0, <1>3
<1> HIDE DEF more, given, g
<1>5. ASSUME NEW q \in Peers, NEW i \in 1..Len(given[q])
      PROVE  \/ <<q, i>> = new /\ g[<<q, i>>] = Len(all) + 1 /\ given[q][i] = clock
             \/ /\ <<q, i>> # new /\ i \in 1..Len(granted[q])
                /\ g[<<q, i>>] = f[<<q, i>>] /\ given[q][i] = granted[q][i]
  <2>1. <<q, i>> \in Peers \X Nat
    OBVIOUS
  <2>2. CASE q = p /\ i = Len(granted[p]) + 1
    BY <1>1, <1>4, <2>2
  <2>3. CASE q = p /\ i # Len(granted[p]) + 1
    BY <1>1, <1>4, <2>1, <2>3
  <2>4. CASE q # p
    BY <1>1, <1>3, <2>1, <2>4
  <2> QED BY <2>2, <2>3, <2>4
<1>6. ASSUME NEW q \in Peers, NEW i \in 1..Len(granted[q])
      PROVE  f[<<q, i>>] \in 1..Len(all) /\ all[f[<<q, i>>]] = granted[q][i]
  BY DEF Counts
<1> HIDE DEF new
<1>7. ASSUME NEW q \in Peers, NEW i \in 1..Len(given[q])
      PROVE  g[<<q, i>>] \in 1..Len(more) /\ more[g[<<q, i>>]] = given[q][i]
  <2>1. CASE <<q, i>> = new
    BY <1>0, <1>2, <1>5, <2>1
  <2>2. CASE <<q, i>> # new
    <3>1. /\ i \in 1..Len(granted[q])
          /\ g[<<q, i>>] = f[<<q, i>>] /\ given[q][i] = granted[q][i]
      BY <1>5, <2>2
    <3>2. f[<<q, i>>] \in 1..Len(all) /\ all[f[<<q, i>>]] = granted[q][i]
      BY <1>6, <3>1
    <3> QED BY <1>0, <1>2, <3>1, <3>2
  <2> QED BY <2>1, <2>2
<1>8. ASSUME NEW q \in Peers, NEW r \in Peers,
             NEW i \in 1..Len(given[q]), NEW j \in 1..Len(given[r]),
             g[<<q, i>>] = g[<<r, j>>]
      PROVE  q = r /\ i = j
  <2>1. CASE <<q, i>> = new /\ <<r, j>> = new
    BY <2>1
  <2>2. CASE <<q, i>> = new /\ <<r, j>> # new
    <3>1. f[<<r, j>>] = Len(all) + 1 /\ f[<<r, j>>] \in 1..Len(all)
      BY <1>5, <1>6, <1>8, <2>2
    <3> QED BY <1>0, <3>1
  <2>3. CASE <<q, i>> # new /\ <<r, j>> = new
    <3>1. f[<<q, i>>] = Len(all) + 1 /\ f[<<q, i>>] \in 1..Len(all)
      BY <1>5, <1>6, <1>8, <2>3
    <3> QED BY <1>0, <3>1
  <2>4. CASE <<q, i>> # new /\ <<r, j>> # new
    <3>1. f[<<q, i>>] = f[<<r, j>>] /\ i \in 1..Len(granted[q]) /\ j \in 1..Len(granted[r])
      BY <1>5, <1>8, <2>4
    <3> QED BY <3>1 DEF Counts
  <2> QED BY <2>1, <2>2, <2>3, <2>4
<1>9. Counts(g, given, more)
  BY <1>7, <1>8 DEF Counts
<1> QED BY <1>1, <1>9 DEF given, more

\* The numbering bounds the grants by the attempts that count.
LEMMA GrantsAreBounded ==
    ASSUME LimiterTyped, EveryoneCounts
    PROVE  Cardinality(Grants) <= GlobalLimit
<1>1. PICK f \in Counters : Counts(f, granted, everyone)
  BY DEF EveryoneCounts
<1>2. Len(everyone) \in Nat /\ GlobalLimit \in Nat
  BY LimiterConstants DEF LimiterTyped, TimesInOrder
<1> DEFINE h == [x \in Grants |-> f[x]]
<1>3. \A x \in Grants : \E p \in Peers : \E i \in 1..Len(granted[p]) : x = <<p, i>>
  BY DEF Grants, LimiterTyped
<1>4. h \in Injection(Grants, 1..Len(everyone))
  <2>1. \A x \in Grants : h[x] \in 1..Len(everyone)
    BY <1>1, <1>3 DEF Counts
  <2>2. \A x \in Grants : \A y \in Grants : h[x] = h[y] => x = y
    <3> SUFFICES ASSUME NEW x \in Grants, NEW y \in Grants, f[x] = f[y] PROVE x = y
      OBVIOUS
    <3>1. PICK p \in Peers : \E i \in 1..Len(granted[p]) : x = <<p, i>>
      BY <1>3
    <3>2. PICK i \in 1..Len(granted[p]) : x = <<p, i>>
      BY <3>1
    <3>3. PICK q \in Peers : \E j \in 1..Len(granted[q]) : y = <<q, j>>
      BY <1>3
    <3>4. PICK j \in 1..Len(granted[q]) : y = <<q, j>>
      BY <3>3
    <3> QED BY <1>1, <3>2, <3>4 DEF Counts
  <2> HIDE DEF h
  <2>3. h \in [Grants -> 1..Len(everyone)]
    BY <2>1 DEF h
  <2> QED BY <2>2, <2>3 DEF Injection, IsInjective
<1>5. IsFiniteSet(1..Len(everyone)) /\ Cardinality(1..Len(everyone)) = Len(everyone)
  <2>1. Len(everyone) \in Nat
    BY <1>2
  <2>2. /\ IsFiniteSet(1..Len(everyone))
        /\ Cardinality(1..Len(everyone)) =
              IF 1 > Len(everyone) THEN 0 ELSE Len(everyone) - 1 + 1
    BY <2>1, FS_Interval
  <2> QED BY <2>1, <2>2
<1>6. IsFiniteSet(Grants) /\ Cardinality(Grants) <= Len(everyone)
  BY <1>4, <1>5, FS_Injection
<1> QED BY <1>2, <1>6, FS_CardinalityType DEF EveryoneCounts

LEMMA LimiterInitInductive == SignIns!Init => LimiterInductive
<1> SUFFICES ASSUME SignIns!Init PROVE LimiterInductive
  OBVIOUS
<1>0. /\ clock = 0 /\ peers = <<>> /\ everyone = <<>> /\ forgotten = {}
      /\ attempts = [p \in Peers |-> <<>>] /\ granted = [p \in Peers |-> <<>>]
  BY DEF SignIns!Init
<1>1. TimesInOrder(<<>>) /\ Ascending(<<>>) /\ <<>> \in Seq(Nat)
  BY DEF TimesInOrder, Ascending
<1>2. LimiterTyped
  BY <1>0, <1>1, LimiterConstants DEF LimiterTyped
<1>3. SeatsAreKept
  BY <1>0, LimiterConstants DEF SeatsAreKept, IsInjective
<1>4. SignIns!Recent(<<>>, 0) = <<>>
  <2>1. \A i \in 1..Len(<<>>) : <<>>[i] + Window > 0
    OBVIOUS
  <2>2. 0 \in Nat
    OBVIOUS
  <2> QED BY <1>1, <2>1, <2>2, AllRecent
<1>5. MemoryIsOfGrants
  BY <1>0, <1>4, LimiterConstants DEF MemoryIsOfGrants, IsEnd
<1>6. EveryoneCounts
  <2> DEFINE f == [x \in Peers \X Nat |-> 0]
  <2>1. f \in Counters /\ Counts(f, granted, everyone)
    BY <1>0 DEF Counters, Counts
  <2> QED BY <1>0, <2>1, LimiterConstants DEF EveryoneCounts
<1> QED BY <1>2, <1>3, <1>5, <1>6 DEF LimiterInductive

LEMMA LimiterTickKeeps ==
    ASSUME LimiterInductive, SignIns!Tick
    PROVE  LimiterInductive'
<1>1. /\ clock < MaxClock /\ clock' = clock + 1
      /\ granted' = [p \in Peers |-> SignIns!Recent(granted[p], clock')]
      /\ forgotten' = {p \in forgotten : granted'[p] # <<>>}
      /\ UNCHANGED <<peers, attempts, everyone>>
  BY DEF SignIns!Tick
<1>2. clock \in Nat /\ clock' \in Nat /\ clock <= clock' /\ clock' \in 0..MaxClock
  BY <1>1, LimiterConstants DEF LimiterInductive, LimiterTyped
<1>3. \A p \in Peers :
          /\ attempts[p] \in Seq(Nat) /\ Ascending(attempts[p])
          /\ granted[p] \in Seq(Nat) /\ Ascending(granted[p])
          /\ \A i \in 1..Len(granted[p]) : granted[p][i] <= clock
          /\ \A i \in 1..Len(attempts[p]) : attempts[p][i] <= clock
  BY DEF LimiterInductive, LimiterTyped, TimesInOrder
<1>4. \A p \in Peers :
          /\ granted'[p] = SignIns!Recent(granted[p], clock')
          /\ granted'[p] \in Seq(Nat) /\ Ascending(granted'[p])
          /\ Len(granted'[p]) <= Len(granted[p])
          /\ \A i \in 1..Len(granted'[p]) : granted'[p][i] + Window > clock'
          /\ \A i \in 1..Len(granted'[p]) : granted'[p][i] <= clock
  <2> TAKE p \in Peers
  <2> DEFINE s == granted[p]
             t == SignIns!Recent(s, clock')
  <2>1. granted'[p] = t
    BY <1>1
  <2>2. s \in Seq(Nat) /\ Ascending(s) /\ \A i \in 1..Len(s) : s[i] <= clock
    BY <1>3
  <2> HIDE DEF s
  <2>3. /\ t \in Seq(Nat) /\ Ascending(t) /\ Len(t) <= Len(s)
        /\ \A i \in 1..Len(t) : t[i] + Window > clock'
        /\ \A m \in Nat : (\A i \in 1..Len(s) : s[i] <= m)
                             => \A i \in 1..Len(t) : t[i] <= m
    BY <1>2, <2>2, RecentIsAscending
  <2>4. \A i \in 1..Len(t) : t[i] <= clock
    BY <1>2, <2>2, <2>3
  <2> QED BY <2>1, <2>3, <2>4 DEF s
<1>5. LimiterTyped'
  <2>1. TimesInOrder(everyone)'
    BY <1>1, <1>2 DEF LimiterInductive, LimiterTyped, TimesInOrder
  <2>2. \A p \in Peers : TimesInOrder(attempts[p])'
    BY <1>1, <1>2, <1>3 DEF TimesInOrder
  <2>3. \A p \in Peers : TimesInOrder(granted[p])'
    <3> SUFFICES ASSUME NEW p \in Peers PROVE TimesInOrder(granted[p])'
      OBVIOUS
    <3>1. \A i \in 1..Len(granted'[p]) : granted'[p][i] <= clock'
      <4> TAKE i \in 1..Len(granted'[p])
      <4>1. granted'[p][i] \in Nat /\ granted'[p][i] <= clock
        BY <1>4
      <4> QED BY <1>2, <4>1
    <3> QED BY <1>4, <3>1 DEF TimesInOrder
  <2>4. granted' \in [Peers -> Seq(Nat)]
    BY <1>1, <1>4
  <2> QED BY <1>1, <1>2, <2>1, <2>2, <2>3, <2>4 DEF LimiterInductive, LimiterTyped
<1>6. SeatsAreKept'
  BY <1>1 DEF LimiterInductive, SeatsAreKept
<1>7. MemoryIsOfGrants'
  <2> SUFFICES ASSUME NEW p \in Peers
               PROVE  /\ IsEnd(SignIns!Recent(attempts[p], clock'), granted'[p])
                      /\ p \notin forgotten' =>
                            SignIns!Recent(attempts[p], clock') = granted'[p]
                      /\ p \notin forgotten' => Len(granted'[p]) <= PeerLimit
                      /\ \A i \in 1..Len(granted'[p]) : granted'[p][i] + Window > clock'
    BY <1>1 DEF MemoryIsOfGrants
  <2> DEFINE a == SignIns!Recent(attempts[p], clock)
             b == SignIns!Recent(attempts[p], clock')
  <2>1. /\ IsEnd(a, granted[p])
        /\ p \notin forgotten => a = granted[p] /\ Len(granted[p]) <= PeerLimit
    BY DEF LimiterInductive, MemoryIsOfGrants
  <2>2. a \in Seq(Nat) /\ Ascending(a)
    BY <1>2, <1>3, RecentIsAscending
  <2>3. SignIns!Recent(a, clock') = b
    BY <1>2, <1>3, RecentOfRecent
  <2>4. b \in Seq(Nat)
    BY <1>2, <1>3, RecentIsAscending
  <2> HIDE DEF a, b
  <2>5. IsEnd(b, granted'[p])
    BY <1>2, <1>3, <1>4, <2>1, <2>2, <2>3, EndOfRecent
  <2>6. ASSUME p \notin forgotten' PROVE b = granted'[p] /\ Len(granted'[p]) <= PeerLimit
    <3>1. CASE p \notin forgotten
      <4>1. b = granted'[p]
        BY <1>4, <2>1, <2>3, <3>1
      <4>2. Len(granted'[p]) <= Len(granted[p]) /\ Len(granted[p]) <= PeerLimit
        BY <1>4, <2>1, <3>1
      <4>3. Len(granted'[p]) \in Nat /\ Len(granted[p]) \in Nat /\ PeerLimit \in Nat
        BY <1>3, <1>4, LimiterConstants
      <4> QED BY <4>1, <4>2, <4>3
    <3>2. CASE p \in forgotten
      <4>1. granted'[p] = <<>>
        BY <1>1, <2>6, <3>2
      <4>2. Len(b) = 0
        BY <2>4, <2>5, <4>1 DEF IsEnd
      <4> QED BY <2>4, <4>1, <4>2, LimiterConstants
    <3> QED BY <3>1, <3>2
  <2> QED BY <1>4, <2>5, <2>6 DEF b
<1>8. EveryoneCounts'
  <2>1. PICK f \in Counters : Counts(f, granted, everyone)
    BY DEF LimiterInductive, EveryoneCounts
  <2>2. \E g \in Counters :
            Counts(g, [p \in Peers |-> SignIns!Recent(granted[p], clock')], everyone)
    BY <1>2, <2>1, CountsAfterTick DEF LimiterInductive
  <2> QED BY <1>1, <2>2 DEF LimiterInductive, EveryoneCounts
<1> QED BY <1>5, <1>6, <1>7, <1>8 DEF LimiterInductive

\* The attempts of a peer and of everyone after a check, for what was in the
\* window before it.
LEMMA NotedTimes ==
    ASSUME clock \in Nat, NEW s, TimesInOrder(s), \A i \in 1..Len(s) : s[i] + Window > clock,
           NEW refused \in BOOLEAN
    PROVE  LET t == SignIns!Noted(s, refused)
           IN  /\ TimesInOrder(t) /\ \A i \in 1..Len(t) : t[i] + Window > clock
               /\ refused => t = s
               /\ ~refused => t = Append(s, clock) /\ Len(t) = Len(s) + 1
<1>1. CASE refused
  BY <1>1 DEF SignIns!Noted
<1>2. CASE ~refused
  <2> DEFINE t == Append(s, clock)
  <2>1. /\ t \in Seq(Nat) /\ Len(t) = Len(s) + 1 /\ t[Len(s) + 1] = clock
        /\ Len(s) \in Nat /\ \A i \in 1..Len(s) : t[i] = s[i] /\ s[i] \in Nat
        /\ Window \in Nat \ {0}
    BY LimiterConstants DEF TimesInOrder
  <2> HIDE DEF t
  <2>2. \A i \in 1..Len(t) : t[i] <= clock /\ t[i] + Window > clock
    <3> TAKE i \in 1..Len(t)
    <3>1. CASE i \in 1..Len(s)
      BY <2>1, <3>1 DEF TimesInOrder
    <3>2. CASE i = Len(s) + 1
      BY <2>1, <3>2
    <3> QED BY <2>1, <3>1, <3>2
  <2>3. Ascending(t)
    <3> SUFFICES ASSUME NEW i \in 1..Len(t), NEW j \in 1..Len(t), i <= j
                 PROVE  t[i] <= t[j]
      BY DEF Ascending
    <3>1. CASE j \in 1..Len(s)
      <4>1. i \in 1..Len(s)
        BY <2>1, <3>1
      <4> QED BY <2>1, <3>1, <4>1 DEF Ascending, TimesInOrder
    <3>2. CASE j = Len(s) + 1
      BY <2>1, <2>2, <3>2
    <3> QED BY <2>1, <3>1, <3>2
  <2>4. SignIns!Noted(s, refused) = t
    BY <1>2 DEF SignIns!Noted, t
  <2> QED BY <1>2, <2>1, <2>2, <2>3, <2>4 DEF TimesInOrder, t
<1> QED BY <1>1, <1>2

\* The peer that attempts takes the last seat, and the first goes if there are
\* too many.
LEMMA SeatsAfterCheck ==
    ASSUME SeatsAreKept, NEW p \in Peers
    PROVE  LET seated == Append(RemoveFirst(peers, p), p)
               trimmed == IF Len(seated) > Capacity THEN Tail(seated) ELSE seated
           IN  /\ trimmed \in Seq(Peers) /\ IsInjective(trimmed) /\ Len(trimmed) <= Capacity
               /\ p \notin ToSet(seated) \ ToSet(trimmed) /\ Contains(trimmed, p)
               /\ \A q \in Peers : Contains(peers, q) =>
                     Contains(trimmed, q) \/ q \in ToSet(seated) \ ToSet(trimmed)
<1> DEFINE rest == RemoveFirst(peers, p)
           seated == Append(rest, p)
           trimmed == IF Len(seated) > Capacity THEN Tail(seated) ELSE seated
<1>0. Len(peers) \in Nat /\ Capacity \in Nat /\ Capacity > 0 /\ Len(peers) <= Capacity
  BY LimiterConstants DEF SeatsAreKept
<1>1. /\ rest \in Seq(Peers) /\ IsInjective(rest) /\ Len(rest) <= Len(peers)
      /\ \A x : Contains(rest, x) <=> Contains(peers, x) /\ x # p
  BY RemovedFirstKeeps DEF SeatsAreKept
<1> HIDE DEF rest
<1>2. /\ seated \in Seq(Peers) /\ IsInjective(seated) /\ Len(seated) = Len(rest) + 1
      /\ \A x : Contains(seated, x) <=> Contains(rest, x) \/ x = p
  BY <1>1, AppendedNew
<1>3. seated[Len(rest) + 1] = p /\ Len(rest) \in Nat
  BY <1>1
<1>4. \A s \in Seq(Peers) : \A x : x \in ToSet(s) <=> Contains(s, x)
  BY DEF ToSet, Contains
<1> HIDE DEF seated
<1>5. CASE Len(seated) > Capacity
  <2>1. /\ Tail(seated) \in Seq(Peers) /\ IsInjective(Tail(seated))
        /\ Len(Tail(seated)) = Len(seated) - 1
        /\ \A x : Contains(Tail(seated), x) <=> Contains(seated, x) /\ x # seated[1]
    BY <1>0, <1>2, <1>5, TailKeeps
  <2>2. p # seated[1]
    BY <1>0, <1>2, <1>3, <1>5 DEF IsInjective
  <2>3. trimmed = Tail(seated)
    BY <1>5
  <2> HIDE DEF trimmed
  <2>4. \A x : x \in ToSet(trimmed) <=> Contains(trimmed, x)
    BY <1>4, <2>1, <2>3
  <2>5. \A x : x \in ToSet(seated) <=> Contains(seated, x)
    BY <1>2, <1>4
  <2> QED BY <1>0, <1>1, <1>2, <1>3, <2>1, <2>2, <2>3, <2>4, <2>5 DEF trimmed, seated, rest
<1>6. CASE ~(Len(seated) > Capacity)
  <2>1. trimmed = seated
    BY <1>6
  <2> HIDE DEF trimmed
  <2> QED BY <1>0, <1>1, <1>2, <1>3, <1>6, <2>1 DEF trimmed, seated, rest
<1> QED BY <1>5, <1>6

LEMMA LimiterCheckKeeps ==
    ASSUME LimiterInductive, NEW p \in Peers, SignIns!Check(p)
    PROVE  LimiterInductive'
<1> DEFINE mine == SignIns!Recent(attempts[p], clock)
           all == SignIns!Recent(everyone, clock)
           refused == SignIns!AtLimit(mine, all)
           seated == Append(RemoveFirst(peers, p), p)
           trimmed == IF Len(seated) > Capacity THEN Tail(seated) ELSE seated
           gone == ToSet(seated) \ ToSet(trimmed)
<1>1. /\ peers' = trimmed /\ clock' = clock
      /\ attempts' = [q \in Peers |-> IF q = p THEN SignIns!Noted(mine, refused)
                                      ELSE IF q \in gone THEN <<>> ELSE attempts[q]]
      /\ everyone' = SignIns!Noted(all, refused)
      /\ granted' = IF refused THEN granted
                    ELSE [granted EXCEPT ![p] = Append(@, clock)]
      /\ forgotten' = forgotten \cup {q \in gone : granted[q] # <<>>}
  BY SignInsOperators DEF SignIns!Check
<1>2. clock \in Nat /\ PeerLimit \in Nat /\ GlobalLimit \in Nat /\ refused \in BOOLEAN
  BY LimiterConstants DEF LimiterInductive, LimiterTyped, SignIns!AtLimit
<1>3. /\ ~refused => Len(mine) < PeerLimit /\ Len(all) < GlobalLimit
      /\ TimesInOrder(mine) /\ TimesInOrder(all)
      /\ \A i \in 1..Len(mine) : mine[i] + Window > clock
      /\ \A i \in 1..Len(all) : all[i] + Window > clock
      /\ Len(all) <= Len(everyone)
  <2>1. TimesInOrder(attempts[p]) /\ TimesInOrder(everyone)
    BY DEF LimiterInductive, LimiterTyped
  <2>2. ASSUME NEW s, TimesInOrder(s)
        PROVE  LET t == SignIns!Recent(s, clock)
               IN  /\ TimesInOrder(t) /\ Len(t) <= Len(s)
                   /\ \A i \in 1..Len(t) : t[i] + Window > clock
    <3>1. s \in Seq(Nat) /\ Ascending(s) /\ \A i \in 1..Len(s) : s[i] <= clock
      BY <2>2 DEF TimesInOrder
    <3> DEFINE t == SignIns!Recent(s, clock)
    <3>2. /\ t \in Seq(Nat) /\ Ascending(t) /\ Len(t) <= Len(s)
          /\ \A i \in 1..Len(t) : t[i] + Window > clock
          /\ \A m \in Nat : (\A i \in 1..Len(s) : s[i] <= m)
                               => \A i \in 1..Len(t) : t[i] <= m
      BY <1>2, <3>1, RecentIsAscending
    <3> QED BY <1>2, <3>1, <3>2 DEF TimesInOrder
  <2>3. TimesInOrder(mine) /\ \A i \in 1..Len(mine) : mine[i] + Window > clock
    BY <2>1, <2>2
  <2>4. /\ TimesInOrder(all) /\ \A i \in 1..Len(all) : all[i] + Window > clock
        /\ Len(all) <= Len(everyone)
    BY <2>1, <2>2
  <2>5. Len(mine) \in Nat /\ Len(all) \in Nat
    BY <2>3, <2>4 DEF TimesInOrder
  <2>6. ~refused => Len(mine) < PeerLimit /\ Len(all) < GlobalLimit
    BY <1>2, <2>5 DEF SignIns!AtLimit
  <2> QED BY <2>3, <2>4, <2>6
<1>4. /\ trimmed \in Seq(Peers) /\ IsInjective(trimmed) /\ Len(trimmed) <= Capacity
      /\ p \notin gone /\ Contains(trimmed, p)
      /\ \A q \in Peers : Contains(peers, q) => Contains(trimmed, q) \/ q \in gone
  BY SeatsAfterCheck DEF LimiterInductive
<1>5. gone \subseteq Peers
  <2>1. RemoveFirst(peers, p) \in Seq(Peers)
    BY RemovedFirstKeeps DEF LimiterInductive, SeatsAreKept
  <2>2. seated \in Seq(Peers)
    BY <2>1
  <2> QED BY <2>2 DEF ToSet
<1> DEFINE noted == SignIns!Noted(mine, refused)
           allNoted == SignIns!Noted(all, refused)
<1>6. /\ TimesInOrder(noted) /\ \A i \in 1..Len(noted) : noted[i] + Window > clock
      /\ refused => noted = mine
      /\ ~refused => noted = Append(mine, clock) /\ Len(noted) = Len(mine) + 1
  <2> HIDE DEF mine, refused
  <2> QED BY <1>2, <1>3, NotedTimes
<1>7. /\ TimesInOrder(allNoted)
      /\ refused => allNoted = all
      /\ ~refused => allNoted = Append(all, clock) /\ Len(allNoted) = Len(all) + 1
  <2> HIDE DEF all, refused
  <2> QED BY <1>2, <1>3, NotedTimes
<1>8. /\ IsEnd(mine, granted[p]) /\ granted[p] \in Seq(Nat) /\ TimesInOrder(granted[p])
      /\ p \notin forgotten => mine = granted[p] /\ Len(granted[p]) <= PeerLimit
      /\ \A i \in 1..Len(granted[p]) : granted[p][i] + Window > clock
  BY DEF LimiterInductive, MemoryIsOfGrants, LimiterTyped
<1> HIDE DEF mine, all, refused, trimmed, gone, noted, allNoted
<1>9. /\ granted'[p] = (IF refused THEN granted[p] ELSE Append(granted[p], clock))
      /\ \A q \in Peers \ {p} : granted'[q] = granted[q]
      /\ attempts'[p] = noted
      /\ \A q \in Peers \ {p} : attempts'[q] = IF q \in gone THEN <<>> ELSE attempts[q]
  BY <1>1 DEF LimiterInductive, LimiterTyped, noted
<1>10. TimesInOrder(granted'[p]) /\ \A i \in 1..Len(granted'[p]) : granted'[p][i] + Window > clock
  <2>1. CASE refused
    BY <1>8, <1>9, <2>1
  <2>2. CASE ~refused
    <3>1. SignIns!Noted(granted[p], FALSE) = Append(granted[p], clock)
      BY DEF SignIns!Noted
    <3> QED BY <1>2, <1>8, <1>9, <2>2, <3>1, NotedTimes
  <2> QED BY <2>1, <2>2
<1>11. TimesInOrder(<<>>) /\ <<>> \in Seq(Nat) /\ SignIns!Recent(<<>>, clock) = <<>>
  <2>1. Ascending(<<>>) /\ <<>> \in Seq(Nat) /\ \A i \in 1..Len(<<>>) : <<>>[i] + Window > clock
    BY DEF Ascending
  <2>2. SignIns!Recent(<<>>, clock) = <<>>
    BY <1>2, <2>1, AllRecent
  <2>3. TimesInOrder(<<>>)
    BY DEF TimesInOrder, Ascending
  <2> QED BY <2>1, <2>2, <2>3
<1>12. LimiterTyped'
  <2>1. \A q \in Peers : TimesInOrder(attempts'[q]) /\ TimesInOrder(granted'[q])
    <3> TAKE q \in Peers
    <3>1. TimesInOrder(attempts[q]) /\ TimesInOrder(granted[q])
      BY DEF LimiterInductive, LimiterTyped
    <3> QED BY <1>6, <1>9, <1>10, <1>11, <3>1
  <2>2. TimesInOrder(everyone')
    BY <1>1, <1>7 DEF allNoted
  <2>3. attempts' \in [Peers -> Seq(Nat)]
    <3>1. \A q \in Peers : attempts'[q] \in Seq(Nat)
      BY <2>1 DEF TimesInOrder
    <3> QED BY <1>1, <3>1
  <2>4. granted' \in [Peers -> Seq(Nat)]
    <3>1. DOMAIN granted' = Peers
      BY <1>1 DEF LimiterInductive, LimiterTyped
    <3>2. \A q \in Peers : granted'[q] \in Seq(Nat)
      BY <2>1 DEF TimesInOrder
    <3>3. granted' = [q \in Peers |-> granted'[q]]
      BY <1>1, <3>1 DEF LimiterInductive, LimiterTyped
    <3> QED BY <3>2, <3>3
  <2>5. clock' \in 0..MaxClock /\ forgotten' \subseteq Peers
    BY <1>1, <1>5 DEF LimiterInductive, LimiterTyped
  <2>6. \A s : TimesInOrder(s) => TimesInOrder(s)'
    BY <1>1 DEF TimesInOrder
  <2>7. TimesInOrder(everyone)' /\ \A q \in Peers : TimesInOrder(attempts[q])'
        /\ TimesInOrder(granted[q])'
    BY <1>1, <2>1, <2>2 DEF TimesInOrder
  <2> QED BY <2>3, <2>4, <2>5, <2>7 DEF LimiterTyped
<1>13. SeatsAreKept'
  <2>1. \A q \in Peers : Contains(trimmed, q) \/ attempts'[q] = <<>>
    BY <1>4, <1>9 DEF LimiterInductive, SeatsAreKept
  <2> QED BY <1>1, <1>4, <2>1 DEF SeatsAreKept
<1>14. MemoryIsOfGrants'
  <2> SUFFICES ASSUME NEW q \in Peers
               PROVE  /\ IsEnd(SignIns!Recent(attempts'[q], clock), granted'[q])
                      /\ q \notin forgotten' =>
                            SignIns!Recent(attempts'[q], clock) = granted'[q]
                      /\ q \notin forgotten' => Len(granted'[q]) <= PeerLimit
                      /\ \A i \in 1..Len(granted'[q]) : granted'[q][i] + Window > clock
    BY <1>1 DEF MemoryIsOfGrants
  <2>0. q \notin forgotten' => q \notin forgotten
    BY <1>1
  <2>1. CASE q = p
    <3>1. SignIns!Recent(noted, clock) = noted
      BY <1>2, <1>6, AllRecent DEF TimesInOrder
    <3>2. CASE refused
      BY <1>6, <1>8, <1>9, <1>10, <2>0, <2>1, <3>1, <3>2
    <3>3. CASE ~refused
      <4>1. /\ Len(mine) \in Nat /\ Len(granted[p]) \in Nat
            /\ mine \in Seq(Nat) /\ granted[p] \in Seq(Nat)
        BY <1>3, <1>8 DEF TimesInOrder
      <4>2. granted'[p] = Append(granted[p], clock) /\ noted = Append(mine, clock)
        BY <1>6, <1>9, <3>3
      <4>3. IsEnd(noted, granted'[p])
        <5>1. /\ Len(noted) = Len(mine) + 1 /\ noted[Len(mine) + 1] = clock
              /\ \A i \in 1..Len(mine) : noted[i] = mine[i]
          BY <1>2, <4>1, <4>2
        <5>2. /\ Len(granted'[p]) = Len(granted[p]) + 1
              /\ granted'[p][Len(granted[p]) + 1] = clock
              /\ \A i \in 1..Len(granted[p]) : granted'[p][i] = granted[p][i]
          BY <1>2, <4>1, <4>2
        <5>3. Len(mine) <= Len(granted[p])
              /\ \A i \in 1..Len(mine) : mine[i] = granted[p][Len(granted[p]) - Len(mine) + i]
          BY <1>8 DEF IsEnd
        <5>4. ASSUME NEW i \in 1..Len(noted)
              PROVE  noted[i] = granted'[p][Len(granted'[p]) - Len(noted) + i]
          <6>1. Len(granted'[p]) - Len(noted) = Len(granted[p]) - Len(mine)
            BY <4>1, <5>1, <5>2
          <6>2. CASE i = Len(mine) + 1
            <7>1. Len(granted'[p]) - Len(noted) + i = Len(granted[p]) + 1
              <8>1. \A m \in Nat, n \in Nat : n - m + (m + 1) = n + 1
                OBVIOUS
              <8>2. Len(granted'[p]) - Len(noted) + i = Len(granted[p]) - Len(mine) + (Len(mine) + 1)
                BY <6>1, <6>2
              <8> QED BY <4>1, <8>1, <8>2
            <7> QED BY <5>1, <5>2, <6>2, <7>1
          <6>3. CASE i \in 1..Len(mine)
            <7>1. Len(granted[p]) - Len(mine) + i \in 1..Len(granted[p])
              BY <4>1, <5>3, <6>3
            <7> QED BY <5>1, <5>2, <5>3, <6>1, <6>3, <7>1
          <6> QED BY <4>1, <5>1, <6>2, <6>3
        <5>5. Len(noted) <= Len(granted'[p])
          BY <4>1, <5>1, <5>2, <5>3
        <5> QED BY <5>4, <5>5 DEF IsEnd
      <4>4. p \notin forgotten => granted'[p] = noted /\ Len(granted'[p]) <= PeerLimit
        <5>1. p \notin forgotten => mine = granted[p]
          BY <1>8
        <5>2. Len(noted) = Len(mine) + 1 /\ Len(mine) < PeerLimit
          BY <1>3, <1>6, <3>3
        <5>3. Len(noted) <= PeerLimit
          BY <1>2, <4>1, <5>2
        <5> QED BY <4>2, <5>1, <5>3
      <4> QED BY <1>9, <1>10, <2>0, <2>1, <3>1, <4>3, <4>4
    <3> QED BY <3>2, <3>3
  <2>2. CASE q # p /\ q \in gone
    <3>1. granted'[q] = granted[q] /\ attempts'[q] = <<>>
      BY <1>9, <2>2
    <3>2. q \notin forgotten' => granted[q] = <<>>
      BY <1>1, <2>2
    <3>3. granted[q] \in Seq(Nat) /\ \A i \in 1..Len(granted[q]) : granted[q][i] + Window > clock
      BY DEF LimiterInductive, LimiterTyped, MemoryIsOfGrants
    <3>4. IsEnd(<<>>, granted[q])
      BY <3>3 DEF IsEnd
    <3> QED BY <1>2, <1>11, <3>1, <3>2, <3>3, <3>4
  <2>3. CASE q # p /\ q \notin gone
    <3>1. granted'[q] = granted[q] /\ attempts'[q] = attempts[q]
      BY <1>9, <2>3
    <3> QED BY <2>0, <3>1 DEF LimiterInductive, MemoryIsOfGrants
  <2> QED BY <2>1, <2>2, <2>3
<1>15. EveryoneCounts'
  <2>1. PICK f \in Counters : Counts(f, granted, everyone)
    BY DEF LimiterInductive, EveryoneCounts
  <2>2. PICK g \in Counters : Counts(g, granted, all)
    BY <2>1, CountsOfRecent DEF LimiterInductive, all
  <2>3. Len(everyone) <= GlobalLimit /\ Len(everyone) \in Nat
    BY DEF LimiterInductive, EveryoneCounts, LimiterTyped, TimesInOrder
  <2>4. all \in Seq(Nat) /\ Len(all) \in Nat
    BY <1>3 DEF TimesInOrder
  <2>5. CASE refused
    <3>1. everyone' = all /\ granted' = granted
      BY <1>1, <1>7, <2>5 DEF allNoted
    <3>2. Len(all) <= GlobalLimit
      BY <1>2, <1>3, <2>3, <2>4
    <3> QED BY <2>2, <3>1, <3>2 DEF EveryoneCounts
  <2>6. CASE ~refused
    <3>1. everyone' = Append(all, clock)
          /\ granted' = [granted EXCEPT ![p] = Append(@, clock)]
      BY <1>1, <1>7, <2>6 DEF allNoted
    <3>2. \E h \in Counters :
              Counts(h, [granted EXCEPT ![p] = Append(@, clock)], Append(all, clock))
      BY <2>2, <2>4, CountsOfOneMore DEF LimiterInductive
    <3>3. Len(everyone') <= GlobalLimit
      BY <1>1, <1>2, <1>3, <1>7, <2>4, <2>6 DEF allNoted
    <3> QED BY <3>1, <3>2, <3>3 DEF EveryoneCounts
  <2> QED BY <2>5, <2>6
<1> QED BY <1>12, <1>13, <1>14, <1>15 DEF LimiterInductive

LEMMA LimiterNextInductive ==
    LimiterInductive /\ [SignIns!Next]_(SignIns!limiterVars) => LimiterInductive'
<1> SUFFICES ASSUME LimiterInductive, [SignIns!Next]_(SignIns!limiterVars)
             PROVE  LimiterInductive'
  OBVIOUS
<1>1. CASE UNCHANGED SignIns!limiterVars
  <2>1. UNCHANGED <<clock, peers, attempts, everyone, granted, forgotten>>
    BY <1>1 DEF SignIns!limiterVars
  <2> QED BY <2>1 DEF LimiterInductive, LimiterTyped, TimesInOrder, SeatsAreKept,
          MemoryIsOfGrants, EveryoneCounts
<1> QED BY <1>1, LimiterTickKeeps, LimiterCheckKeeps DEF SignIns!Next

LEMMA LimiterInductiveIsEnough ==
    LimiterInductive => SignIns!LimiterTypeOK /\ SignIns!LimitsHold /\ SignIns!RefusalsAreDue
<1> SUFFICES ASSUME LimiterInductive
             PROVE  SignIns!LimiterTypeOK /\ SignIns!LimitsHold /\ SignIns!RefusalsAreDue
  OBVIOUS
<1> USE DEF LimiterInductive
<1>1. SignIns!LimiterTypeOK
  BY SignInsOperators DEF SignIns!LimiterTypeOK, LimiterTyped, SeatsAreKept, EveryoneCounts
<1>2. SignIns!LimitsHold
  BY GrantsAreBounded, SignInsOperators DEF SignIns!LimitsHold, MemoryIsOfGrants, Grants
<1>3. SignIns!RefusalsAreDue
  BY DEF SignIns!RefusalsAreDue, MemoryIsOfGrants
<1> QED BY <1>1, <1>2, <1>3

-----------------------------------------------------------------------------
(* The cache of names (RdnsCache).                                         *)

ResolverStates ==
    [pc : {"idle", "ask", "put"}, address : Addresses, generation : Nat,
     named : BOOLEAN, asked : Nat]

OneEntryEach(c) ==
    \A i \in 1..Len(c) : \A j \in 1..Len(c) : c[i].address = c[j].address => i = j

AskedSince(c, g) == \A i \in 1..Len(c) : c[i].asked = g

CacheOfNames(c) == c \in Seq(Rdns!Entry) /\ OneEntryEach(c) /\ AskedSince(c, generation)

\* What a thread asked for is of the generation it had read, or a later one.
RdnsInductive ==
    /\ rdnsTime \in Nat /\ generation \in Nat
    /\ CacheOfNames(cached) /\ Len(cached) <= Limit
    /\ resolver \in [Resolvers -> ResolverStates]
    /\ \A r \in Resolvers :
          /\ resolver[r].generation <= generation
          /\ resolver[r].pc = "put" =>
                resolver[r].generation <= resolver[r].asked /\ resolver[r].asked <= generation

LEMMA RdnsOperators ==
    /\ \A s : Rdns!ToSet(s) = ToSet(s)
    /\ \A s, I : Rdns!Keep(s, I) = Keep(s, I)
<1>1. \A s : Rdns!ToSet(s) = ToSet(s)
  BY DEF ToSet, Rdns!ToSet
<1>2. \A s, I : Rdns!Keep(s, I) = Keep(s, I)
  BY DEF Keep, Rdns!Keep, Cardinality, Rdns!Cardinality
<1> QED BY <1>1, <1>2

LEMMA AtRestType == Rdns!AtRest \in ResolverStates /\ Rdns!AtRest.pc = "idle"
                    /\ Rdns!AtRest.generation = 0
<1>1. (CHOOSE a \in Addresses : TRUE) \in Addresses
  BY RdnsConstants
<1> QED BY <1>1 DEF Rdns!AtRest, ResolverStates

LEMMA EmptyCacheOfNames ==
    ASSUME NEW g
    PROVE  <<>> \in Seq(Rdns!Entry) /\ OneEntryEach(<<>>) /\ AskedSince(<<>>, g)
BY DEF OneEntryEach, AskedSince

\* What is left of a cache, in whatever way, is one.
LEMMA PartOfCache ==
    ASSUME NEW c, CacheOfNames(c), NEW d \in Seq(Rdns!Entry),
           NEW at \in [1..Len(d) -> 1..Len(c)],
           \A k \in 1..Len(d) : d[k] = c[at[k]],
           \A k \in 1..Len(d) : \A m \in 1..Len(d) : at[k] = at[m] => k = m
    PROVE  CacheOfNames(d)
<1>1. \A k \in 1..Len(d) : at[k] \in 1..Len(c)
  OBVIOUS
<1>2. OneEntryEach(d)
  <2> SUFFICES ASSUME NEW k \in 1..Len(d), NEW m \in 1..Len(d), d[k].address = d[m].address
               PROVE  k = m
    BY DEF OneEntryEach
  <2>1. at[k] = at[m]
    BY <1>1 DEF CacheOfNames, OneEntryEach
  <2> QED BY <2>1
<1>3. AskedSince(d, generation)
  BY <1>1 DEF CacheOfNames, AskedSince
<1> QED BY <1>2, <1>3 DEF CacheOfNames

LEMMA WithoutKeeps ==
    ASSUME CacheOfNames(cached), NEW a
    PROVE  CacheOfNames(Rdns!Without(a)) /\ Len(Rdns!Without(a)) <= Len(cached)
<1>1. CASE \E i \in 1..Len(cached) : cached[i].address = a
  <2>1. PICK i \in 1..Len(cached) : cached[i].address = a
    BY <1>1
  <2>2. {j \in 1..Len(cached) : cached[j].address = a} = {i}
    BY <2>1 DEF CacheOfNames, OneEntryEach
  <2>3. Rdns!Min({i}) = i
    BY DEF Rdns!Min
  <2>4. Rdns!Without(a) = RemoveAt(cached, i)
    BY <1>1, <2>2, <2>3 DEF Rdns!Without, Rdns!RemoveFirstMatch, Rdns!SelectInSeq,
       Rdns!RemoveAt, RemoveAt
  <2> DEFINE d == RemoveAt(cached, i)
             at == [k \in 1..Len(d) |-> IF k < i THEN k ELSE k + 1]
  <2>5. cached \in Seq(Rdns!Entry) /\ Len(cached) \in Nat
    BY DEF CacheOfNames
  <2>6. /\ d \in Seq(Rdns!Entry) /\ Len(d) = Len(cached) - 1
        /\ \A k \in 1..(i - 1) : d[k] = cached[k]
        /\ \A k \in i..(Len(cached) - 1) : d[k] = cached[k + 1]
    BY <2>5, RemovedAt
  <2> HIDE DEF d
  <2>7. at \in [1..Len(d) -> 1..Len(cached)]
    BY <2>5, <2>6
  <2>8. \A k \in 1..Len(d) : d[k] = cached[at[k]]
    <3> TAKE k \in 1..Len(d)
    <3>1. CASE k < i
      <4>1. k \in 1..(i - 1) /\ at[k] = k
        BY <2>5, <2>6, <3>1
      <4> QED BY <2>6, <4>1
    <3>2. CASE k >= i
      <4>1. k \in i..(Len(cached) - 1) /\ at[k] = k + 1
        BY <2>5, <2>6, <3>2
      <4> QED BY <2>6, <4>1
    <3> QED BY <3>1, <3>2
  <2>9. \A k \in 1..Len(d) : \A m \in 1..Len(d) : at[k] = at[m] => k = m
    BY <2>5, <2>6
  <2> HIDE DEF at
  <2>10. CacheOfNames(d)
    BY <2>6, <2>7, <2>8, <2>9, PartOfCache
  <2> QED BY <2>4, <2>5, <2>6, <2>10 DEF d
<1>2. CASE ~\E i \in 1..Len(cached) : cached[i].address = a
  <2>1. Rdns!Without(a) = cached
    BY <1>2 DEF Rdns!Without, Rdns!RemoveFirstMatch
  <2>2. Len(cached) \in Nat
    BY DEF CacheOfNames
  <2> QED BY <2>1, <2>2
<1> QED BY <1>1, <1>2

LEMMA InsertedKeeps ==
    ASSUME CacheOfNames(cached), NEW e \in Rdns!Entry, e.asked = generation
    PROVE  CacheOfNames(Rdns!Inserted(e)) /\ Len(Rdns!Inserted(e)) <= Len(cached) + 1
<1> DEFINE n == Len(cached)
           d == Rdns!Inserted(e)
<1>0. cached \in Seq(Rdns!Entry) /\ n \in Nat
  BY DEF CacheOfNames
<1>1. CASE Rdns!EntryOf(e.address) = {}
  <2>1. d = Append(cached, e)
    BY <1>1 DEF Rdns!Inserted
  <2>2. /\ Append(cached, e) \in Seq(Rdns!Entry) /\ Len(Append(cached, e)) = n + 1
        /\ Append(cached, e)[n + 1] = e
        /\ \A i \in 1..n : Append(cached, e)[i] = cached[i]
    BY <1>0
  <2>3. \A i \in 1..n : cached[i].address # e.address
    BY <1>0, <1>1, RdnsOperators DEF Rdns!EntryOf, ToSet
  <2> HIDE DEF d, n
  <2>4. /\ d \in Seq(Rdns!Entry) /\ Len(d) = n + 1 /\ d[n + 1] = e
        /\ \A i \in 1..n : d[i] = cached[i]
    BY <2>1, <2>2
  <2>5. OneEntryEach(d)
    BY <1>0, <2>3, <2>4 DEF CacheOfNames, OneEntryEach, n
  <2>6. AskedSince(d, generation)
    BY <1>0, <2>4 DEF CacheOfNames, AskedSince, n
  <2> QED BY <1>0, <2>4, <2>5, <2>6 DEF CacheOfNames, d, n
<1>2. CASE Rdns!EntryOf(e.address) # {}
  <2>1. d = [i \in DOMAIN cached |-> IF cached[i].address = e.address THEN e ELSE cached[i]]
    BY <1>2 DEF Rdns!Inserted
  <2>2. d \in Seq(Rdns!Entry) /\ Len(d) = n
        /\ \A i \in 1..n : d[i] = IF cached[i].address = e.address THEN e ELSE cached[i]
    BY <1>0, <2>1
  <2> HIDE DEF d
  <2>3. \A i \in 1..n : d[i].address = cached[i].address
    BY <2>2
  <2>4. OneEntryEach(d)
    BY <2>2, <2>3 DEF CacheOfNames, OneEntryEach
  <2>5. AskedSince(d, generation)
    BY <2>2 DEF CacheOfNames, AskedSince
  <2> QED BY <1>0, <2>2, <2>4, <2>5 DEF CacheOfNames, d
<1> QED BY <1>1, <1>2

\* Room is made for one entry too many.
LEMMA TrimmedKeeps ==
    ASSUME NEW c, CacheOfNames(c), Len(c) <= Limit + 1
    PROVE  CacheOfNames(Rdns!Trimmed(c)) /\ Len(Rdns!Trimmed(c)) <= Limit
<1> DEFINE rest == Rdns!TrimmedExpired(c)
<1>0. c \in Seq(Rdns!Entry) /\ Len(c) \in Nat /\ DOMAIN c = 1..Len(c) /\ Limit \in Nat
      /\ OldestBatch \in Nat /\ OldestBatch > 0
  BY RdnsConstants DEF CacheOfNames
<1>1. CacheOfNames(rest) /\ Len(rest) <= Len(c)
  <2>1. CASE Len(c) <= Limit
    BY <1>0, <2>1 DEF Rdns!TrimmedExpired
  <2>2. CASE ~(Len(c) <= Limit)
    <3>1. PICK I \in SUBSET (1..Len(c)) : rest = Keep(c, I)
      BY <1>0, <2>2, RdnsOperators DEF Rdns!TrimmedExpired
    <3> HIDE DEF rest
    <3>2. rest \in Seq(Rdns!Entry) /\ Len(rest) <= Len(c)
      BY <1>0, <3>1, Kept
    <3>3. PICK at \in [1..Len(rest) -> I] :
              /\ \A k \in 1..Len(rest) : rest[k] = c[at[k]]
              /\ \A k \in 1..Len(rest) : \A m \in 1..Len(rest) : at[k] = at[m] => k = m
      BY <1>0, <3>1, Kept
    <3>4. at \in [1..Len(rest) -> 1..Len(c)]
      <4>1. \A k \in 1..Len(rest) : at[k] \in 1..Len(c)
        OBVIOUS
      <4> QED BY <4>1
    <3> QED BY <3>2, <3>3, <3>4, PartOfCache
  <2> QED BY <2>1, <2>2
<1>2. Rdns!Trimmed(c) = IF Len(rest) <= Limit THEN rest
                        ELSE SubSeq(rest, OldestBatch + 1, Len(rest))
  BY DEF Rdns!Trimmed
<1>3. rest \in Seq(Rdns!Entry) /\ Len(rest) \in Nat
  BY <1>1 DEF CacheOfNames
<1> HIDE DEF rest
<1>4. CASE ~(Len(rest) <= Limit) /\ OldestBatch <= Len(rest)
  <2> DEFINE d == SubSeq(rest, OldestBatch + 1, Len(rest))
             at == [k \in 1..Len(d) |-> OldestBatch + k]
  <2>1. /\ d \in Seq(Rdns!Entry) /\ Len(d) = Len(rest) - OldestBatch
        /\ \A k \in 1..(Len(rest) - OldestBatch) : d[k] = rest[OldestBatch + k]
    <3>1. OldestBatch \in 0..Len(rest)
      BY <1>0, <1>3, <1>4
    <3> QED BY <1>3, <3>1, DroppedFirst
  <2> HIDE DEF d
  <2>2. at \in [1..Len(d) -> 1..Len(rest)]
    BY <1>0, <1>3, <1>4, <2>1
  <2>3. /\ \A k \in 1..Len(d) : d[k] = rest[at[k]]
        /\ \A k \in 1..Len(d) : \A m \in 1..Len(d) : at[k] = at[m] => k = m
    BY <1>0, <1>3, <1>4, <2>1
  <2> HIDE DEF at
  <2>4. CacheOfNames(d)
    BY <1>1, <2>1, <2>2, <2>3, PartOfCache
  <2>5. Len(d) <= Limit
    BY <1>0, <1>1, <1>3, <2>1
  <2> QED BY <1>2, <1>4, <2>4, <2>5 DEF d
<1>5. CASE ~(Len(rest) <= Limit) /\ ~(OldestBatch <= Len(rest))
  <2>1. SubSeq(rest, OldestBatch + 1, Len(rest)) = <<>>
    BY <1>0, <1>3, <1>5
  <2>2. CacheOfNames(<<>>) /\ Len(<<>>) <= Limit
    BY <1>0, EmptyCacheOfNames DEF CacheOfNames
  <2>3. Rdns!Trimmed(c) = <<>>
    BY <1>2, <1>5, <2>1
  <2> QED BY <2>2, <2>3
<1> QED BY <1>1, <1>2, <1>4, <1>5

LEMMA RdnsInitInductive == Rdns!Init => RdnsInductive
<1> SUFFICES ASSUME Rdns!Init PROVE RdnsInductive
  OBVIOUS
<1>1. /\ rdnsTime = 0 /\ cached = <<>> /\ generation = 0
      /\ resolver = [r \in Resolvers |-> Rdns!AtRest]
  BY DEF Rdns!Init
<1> QED BY <1>1, AtRestType, EmptyCacheOfNames, RdnsConstants DEF RdnsInductive, CacheOfNames

LEMMA RdnsNextInductive ==
    RdnsInductive /\ [Rdns!Next]_(Rdns!rdnsVars) => RdnsInductive'
<1> SUFFICES ASSUME RdnsInductive, [Rdns!Next]_(Rdns!rdnsVars) PROVE RdnsInductive'
  OBVIOUS
<1> USE DEF RdnsInductive
<1>0. \A c : CacheOfNames(c) <=> (c \in Seq(Rdns!Entry) /\ OneEntryEach(c)
                                  /\ AskedSince(c, generation))
  BY DEF CacheOfNames
<1>1. ASSUME NEW r \in Resolvers, NEW a \in Addresses, Rdns!Consult(r, a)
      PROVE  RdnsInductive'
  <2>1. /\ cached' = Rdns!Without(a) /\ UNCHANGED <<rdnsTime, generation>>
        /\ resolver' = [resolver EXCEPT ![r] =
               [Rdns!AtRest EXCEPT !.pc = "ask", !.address = a, !.generation = generation]]
    BY <1>1 DEF Rdns!Consult
  <2>2. CacheOfNames(cached') /\ Len(cached') <= Limit
    <3>1. Len(cached) \in Nat /\ Len(Rdns!Without(a)) \in Nat /\ Limit \in Nat
      BY WithoutKeeps, RdnsConstants DEF CacheOfNames
    <3> QED BY <2>1, <3>1, WithoutKeeps
  <2>3. (CacheOfNames(cached))'
    BY <2>1, <2>2 DEF CacheOfNames
  <2> DEFINE q == [Rdns!AtRest EXCEPT !.pc = "ask", !.address = a, !.generation = generation]
  <2>4. q \in ResolverStates /\ q.pc = "ask" /\ q.generation = generation
    BY AtRestType DEF ResolverStates
  <2>5. /\ resolver' \in [Resolvers -> ResolverStates] /\ resolver'[r] = q
        /\ \A x \in Resolvers \ {r} : resolver'[x] = resolver[x]
    BY <2>1, <2>4
  <2> HIDE DEF q
  <2> QED BY <2>1, <2>2, <2>3, <2>4, <2>5
<1>2. ASSUME NEW r \in Resolvers, Rdns!Ask(r)
      PROVE  RdnsInductive'
  <2>1. PICK named \in BOOLEAN :
            resolver' = [resolver EXCEPT ![r].pc = "put", ![r].named = named,
                                         ![r].asked = generation]
    BY <1>2 DEF Rdns!Ask
  <2>2. UNCHANGED <<rdnsTime, cached, generation>>
    BY <1>2 DEF Rdns!Ask
  <2> DEFINE q == [resolver[r] EXCEPT !.pc = "put", !.named = named, !.asked = generation]
  <2>3. /\ q \in ResolverStates /\ q.pc = "put" /\ q.asked = generation
        /\ q.generation = resolver[r].generation
    BY DEF ResolverStates
  <2>4. /\ resolver' \in [Resolvers -> ResolverStates] /\ resolver'[r] = q
        /\ \A x \in Resolvers \ {r} : resolver'[x] = resolver[x]
    BY <2>1, <2>3
  <2>5. (CacheOfNames(cached))'
    BY <2>2 DEF CacheOfNames
  <2> HIDE DEF q
  <2> QED BY <2>2, <2>3, <2>4, <2>5
<1>3. ASSUME NEW r \in Resolvers, Rdns!Store(r)
      PROVE  RdnsInductive'
  <2>1. /\ resolver[r].pc = "put" /\ UNCHANGED <<rdnsTime, generation>>
        /\ resolver' = [resolver EXCEPT ![r] = Rdns!AtRest]
        /\ cached' = IF Rdns!Current(r) THEN Rdns!Trimmed(Rdns!Inserted(Rdns!Put(r))) ELSE cached
    BY <1>3 DEF Rdns!Store
  <2>2. /\ resolver' \in [Resolvers -> ResolverStates] /\ resolver'[r] = Rdns!AtRest
        /\ \A x \in Resolvers \ {r} : resolver'[x] = resolver[x]
    BY <2>1, AtRestType
  <2>3. CASE Rdns!Current(r)
    <3> DEFINE e == Rdns!Put(r)
               c == Rdns!Inserted(e)
    <3>1. resolver[r] \in ResolverStates
      OBVIOUS
    <3>2. resolver[r].asked = generation
      <4>1. /\ resolver[r].generation = generation /\ resolver[r].generation <= resolver[r].asked
            /\ resolver[r].asked <= generation /\ resolver[r].asked \in Nat
        BY <2>1, <2>3, <3>1 DEF Rdns!Current, ResolverStates
      <4> QED BY <4>1
    <3>3. e \in Rdns!Entry /\ e.asked = generation
      BY <3>1, <3>2, RdnsConstants DEF Rdns!Put, Rdns!Entry, ResolverStates
    <3> HIDE DEF e
    <3>4. CacheOfNames(c) /\ Len(c) <= Len(cached) + 1
      BY <3>3, InsertedKeeps
    <3> HIDE DEF c
    <3>5. Len(c) <= Limit + 1
      <4>1. Len(c) \in Nat /\ Len(cached) \in Nat /\ Limit \in Nat
        BY <3>4, RdnsConstants DEF CacheOfNames
      <4> QED BY <3>4, <4>1
    <3>6. cached' = Rdns!Trimmed(c)
      BY <2>1, <2>3 DEF c, e
    <3>7. CacheOfNames(cached') /\ Len(cached') <= Limit
      BY <3>4, <3>5, <3>6, TrimmedKeeps
    <3>8. (CacheOfNames(cached))'
      BY <2>1, <3>7 DEF CacheOfNames
    <3> QED BY <2>1, <2>2, <3>7, <3>8, AtRestType
  <2>4. CASE ~Rdns!Current(r)
    <3>1. (CacheOfNames(cached))' /\ cached' = cached
      BY <2>1, <2>4 DEF CacheOfNames
    <3> QED BY <2>1, <2>2, <3>1, AtRestType
  <2> QED BY <2>3, <2>4
<1>4. CASE Rdns!ClearCache
  <2>1. generation' = generation + 1 /\ cached' = <<>> /\ UNCHANGED <<rdnsTime, resolver>>
    BY <1>4 DEF Rdns!ClearCache
  <2>2. (CacheOfNames(cached))' /\ Len(cached') <= Limit
    BY <2>1, EmptyCacheOfNames, RdnsConstants DEF CacheOfNames
  <2>3. \A r \in Resolvers : /\ resolver[r].generation <= generation + 1
                             /\ resolver[r].pc = "put" => resolver[r].asked <= generation + 1
    BY DEF ResolverStates
  <2> QED BY <2>1, <2>2, <2>3
<1>5. CASE Rdns!RdnsTick
  <2>1. rdnsTime' = rdnsTime + 1 /\ UNCHANGED <<cached, generation, resolver>>
    BY <1>5 DEF Rdns!RdnsTick
  <2> QED BY <2>1 DEF CacheOfNames
<1>6. CASE UNCHANGED Rdns!rdnsVars
  BY <1>6 DEF Rdns!rdnsVars, CacheOfNames
<1> QED BY <1>1, <1>2, <1>3, <1>4, <1>5, <1>6 DEF Rdns!Next

LEMMA RdnsInductiveIsEnough ==
    RdnsInductive => Rdns!RdnsTypeOK /\ Rdns!NothingFromBeforeClear
<1> SUFFICES ASSUME RdnsInductive PROVE Rdns!RdnsTypeOK /\ Rdns!NothingFromBeforeClear
  OBVIOUS
<1>1. DOMAIN cached = 1..Len(cached) /\ \A i \in 1..Len(cached) : cached[i] \in Rdns!Entry
  BY DEF RdnsInductive, CacheOfNames
<1> QED BY <1>1, RdnsOperators DEF RdnsInductive, CacheOfNames, OneEntryEach, AskedSince,
        ToSet, Rdns!RdnsTypeOK, Rdns!NothingFromBeforeClear

-----------------------------------------------------------------------------
(* The caches of the pages (ViewCache).                                    *)

KeysAreDistinct(c) == \A i \in 1..Len(c) : \A j \in 1..Len(c) : c[i].key = c[j].key => i = j

\* The entries c are of the keys used last, as many as the cache holds.
AreLastUsed(c, u) ==
    /\ Len(c) <= Len(u) /\ Len(c) <= CacheSize
    /\ Len(c) = Len(u) \/ Len(c) = CacheSize
    /\ \A i \in 1..Len(c) : c[i].key = u[Len(u) - Len(c) + i]

ViewsTyped ==
    /\ kind \in {"counts", "statistics"} /\ viewTime \in 0..MaxViewTime
    /\ entries \in Seq(Views!EntryType) /\ KeysAreDistinct(entries)
    /\ used \in Seq(Keys) /\ IsInjective(used)
    /\ expiry \in [Keys -> Nat] /\ wasted = FALSE
    /\ viewer \in [Viewers -> Keys \cup {"none"}]
    /\ computing \in [by : Viewers \cup {"none"}, now : Nat]
    /\ computing.now <= viewTime
    /\ \A v \in Viewers : computing.by = v => viewer[v] \in Keys

EntriesExpire == \A i \in 1..Len(entries) : entries[i].expires = expiry[entries[i].key]

ViewsInductive ==
    /\ ViewsTyped /\ EntriesExpire
    /\ kind = "counts" => AreLastUsed(entries, used)
    /\ kind = "statistics" =>
          \A x \in Keys : expiry[x] > viewTime => \E i \in 1..Len(entries) : entries[i].key = x

LEMMA ViewsOperators ==
    /\ \A s : Views!ToSet(s) = ToSet(s)
    /\ \A s, e : Views!RemoveFirst(s, e) = RemoveFirst(s, e)
    /\ \A s, I : Views!Keep(s, I) = Keep(s, I)
<1>1. \A s : Views!ToSet(s) = ToSet(s)
  BY DEF ToSet, Views!ToSet
<1>2. \A s, e : Views!RemoveFirst(s, e) = RemoveFirst(s, e)
  BY DEF RemoveFirst, RemoveAt, SelectInSeq, Min, Views!RemoveFirst, Views!RemoveAt,
     Views!SelectInSeq, Views!Min
<1>3. \A s, I : Views!Keep(s, I) = Keep(s, I)
  BY DEF Keep, Views!Keep, Cardinality, Views!Cardinality
<1> QED BY <1>1, <1>2, <1>3

LEMMA OtherEntriesAre ==
    ASSUME ViewsTyped, NEW x
    PROVE  /\ \A i \in 1..Len(entries) :
                 entries[i].key = x => Views!OtherEntries(x) = RemoveAt(entries, i)
           /\ (\A i \in 1..Len(entries) : entries[i].key # x) => Views!OtherEntries(x) = entries
<1>1. ASSUME NEW i \in 1..Len(entries), entries[i].key = x
      PROVE  Views!OtherEntries(x) = RemoveAt(entries, i)
  <2>1. {j \in 1..Len(entries) : entries[j].key = x} = {i}
    BY <1>1 DEF ViewsTyped, KeysAreDistinct
  <2>2. Views!Min({i}) = i
    BY DEF Views!Min
  <2> QED BY <1>1, <2>1, <2>2 DEF Views!OtherEntries, Views!RemoveFirstMatch,
          Views!SelectInSeq, Views!RemoveAt, RemoveAt
<1>2. ASSUME \A i \in 1..Len(entries) : entries[i].key # x
      PROVE  Views!OtherEntries(x) = entries
  BY <1>2 DEF Views!OtherEntries, Views!RemoveFirstMatch
<1> QED BY <1>1, <1>2

\* A part of the entries, and an entry of another key after it.
LEMMA PartAndNew ==
    ASSUME ViewsTyped, NEW d \in Seq(Views!EntryType),
           NEW at \in [1..Len(d) -> 1..Len(entries)],
           \A k \in 1..Len(d) : d[k] = entries[at[k]],
           \A k \in 1..Len(d) : \A m \in 1..Len(d) : at[k] = at[m] => k = m,
           NEW e \in Views!EntryType, \A k \in 1..Len(d) : d[k].key # e.key
    PROVE  LET c == Append(d, e)
           IN  /\ c \in Seq(Views!EntryType) /\ KeysAreDistinct(c) /\ Len(c) = Len(d) + 1
               /\ c[Len(d) + 1] = e
               /\ \A k \in 1..Len(d) : c[k] = entries[at[k]]
<1> DEFINE c == Append(d, e)
<1>1. /\ c \in Seq(Views!EntryType) /\ Len(c) = Len(d) + 1 /\ Len(d) \in Nat
      /\ c[Len(d) + 1] = e /\ \A k \in 1..Len(d) : c[k] = d[k]
  OBVIOUS
<1> HIDE DEF c
<1>2. \A k \in 1..Len(d) : at[k] \in 1..Len(entries)
  OBVIOUS
<1>3. KeysAreDistinct(c)
  <2> SUFFICES ASSUME NEW k \in 1..Len(c), NEW m \in 1..Len(c), c[k].key = c[m].key
               PROVE  k = m
    BY DEF KeysAreDistinct
  <2>1. CASE k \in 1..Len(d) /\ m \in 1..Len(d)
    <3>1. entries[at[k]].key = entries[at[m]].key
      BY <1>1, <2>1
    <3>2. at[k] = at[m]
      BY <1>2, <2>1, <3>1 DEF ViewsTyped, KeysAreDistinct
    <3> QED BY <2>1, <3>2
  <2>2. CASE k = Len(d) + 1 /\ m = Len(d) + 1
    BY <2>2
  <2>3. CASE k = Len(d) + 1 /\ m \in 1..Len(d)
    BY <1>1, <2>3
  <2>4. CASE k \in 1..Len(d) /\ m = Len(d) + 1
    BY <1>1, <2>4
  <2> QED BY <1>1, <2>1, <2>2, <2>3, <2>4
<1> QED BY <1>1, <1>3 DEF c

\* The other entries are a part of them.
LEMMA OthersArePart ==
    ASSUME ViewsTyped, NEW x
    PROVE  LET d == Views!OtherEntries(x)
           IN  /\ d \in Seq(Views!EntryType) /\ Len(d) <= Len(entries)
               /\ \A k \in 1..Len(d) : d[k].key # x
               /\ \E at \in [1..Len(d) -> 1..Len(entries)] :
                     /\ \A k \in 1..Len(d) : d[k] = entries[at[k]]
                     /\ \A k \in 1..Len(d) : \A m \in 1..Len(d) : at[k] = at[m] => k = m
<1> DEFINE n == Len(entries)
<1>0. entries \in Seq(Views!EntryType) /\ n \in Nat
  BY DEF ViewsTyped
<1>1. CASE \E i \in 1..n : entries[i].key = x
  <2>1. PICK i \in 1..n : entries[i].key = x
    BY <1>1
  <2> DEFINE d == RemoveAt(entries, i)
             at == [k \in 1..(n - 1) |-> IF k < i THEN k ELSE k + 1]
  <2>2. Views!OtherEntries(x) = d
    BY <2>1, OtherEntriesAre
  <2>3. /\ d \in Seq(Views!EntryType) /\ Len(d) = n - 1
        /\ \A k \in 1..(i - 1) : d[k] = entries[k]
        /\ \A k \in i..(n - 1) : d[k] = entries[k + 1]
    BY <1>0, <2>1, RemovedAt
  <2> HIDE DEF d
  <2>4. /\ at \in [1..Len(d) -> 1..n]
        /\ \A k \in 1..Len(d) : \A m \in 1..Len(d) : at[k] = at[m] => k = m
        /\ \A k \in 1..Len(d) : at[k] # i /\ at[k] \in 1..n
    BY <1>0, <2>3
  <2>5. \A k \in 1..Len(d) : d[k] = entries[at[k]]
    <3> TAKE k \in 1..Len(d)
    <3>1. CASE k < i
      <4>1. k \in 1..(i - 1) /\ at[k] = k
        BY <1>0, <2>3, <3>1
      <4> QED BY <2>3, <4>1
    <3>2. CASE k >= i
      <4>1. k \in i..(n - 1) /\ at[k] = k + 1
        BY <1>0, <2>3, <3>2
      <4> QED BY <2>3, <4>1
    <3> QED BY <3>1, <3>2
  <2> HIDE DEF at
  <2>6. \A k \in 1..Len(d) : d[k].key # x
    <3>1. \A k \in 1..n : k # i => entries[k].key # x
      BY <1>0, <2>1 DEF ViewsTyped, KeysAreDistinct
    <3> QED BY <2>4, <2>5, <3>1
  <2>7. Len(d) <= n
    BY <1>0, <2>3
  <2> QED BY <2>2, <2>3, <2>4, <2>5, <2>6, <2>7
<1>2. CASE ~\E i \in 1..n : entries[i].key = x
  <2>1. Views!OtherEntries(x) = entries
    BY <1>2, OtherEntriesAre
  <2> DEFINE at == [k \in 1..n |-> k]
  <2>2. /\ at \in [1..n -> 1..n] /\ \A k \in 1..n : at[k] = k
        /\ \A k \in 1..n : entries[k] = entries[at[k]]
    OBVIOUS
  <2> HIDE DEF at
  <2> QED BY <1>0, <1>2, <2>1, <2>2
<1> QED BY <1>1, <1>2

\* The key that is used goes to the end in both, and what the cache loses for it
\* is the key of the earliest use.
LEMMA LastUsedFollow ==
    ASSUME ViewsTyped, AreLastUsed(entries, used), NEW x \in Keys,
           NEW e \in Views!EntryType, e.key = x
    PROVE  LET all == Append(Views!OtherEntries(x), e)
           IN  /\ AreLastUsed(IF Len(all) > CacheSize THEN Tail(all) ELSE all, Views!UsedNow(x))
               /\ (\E i \in 1..Len(entries) : entries[i].key = x) => Len(all) <= CacheSize
<1> DEFINE n == Len(entries)
           m == Len(used)
           d == m - n
           all == Append(Views!OtherEntries(x), e)
           w == Views!UsedNow(x)
<1>0. /\ entries \in Seq(Views!EntryType) /\ used \in Seq(Keys) /\ IsInjective(used)
      /\ n \in Nat /\ m \in Nat /\ d \in Nat /\ m = d + n /\ n <= CacheSize
      /\ CacheSize \in Nat \ {0} /\ (d = 0 \/ n = CacheSize)
      /\ \A k \in 1..n : entries[k].key = used[d + k]
  BY ViewConstants DEF ViewsTyped, AreLastUsed
<1>1. w = Append(RemoveFirst(used, x), x)
  BY ViewsOperators DEF Views!UsedNow
<1>2. ASSUME NEW j \in 1..m, used[j] = x
      PROVE  /\ Len(w) = m /\ w[m] = x
             /\ \A k \in 1..(j - 1) : w[k] = used[k]
             /\ \A k \in j..(m - 1) : w[k] = used[k + 1]
  <2> DEFINE r == RemoveAt(used, j)
  <2>1. RemoveFirst(used, x) = r
    BY <1>0, <1>2, RemovedFirst
  <2>2. /\ r \in Seq(Keys) /\ Len(r) = m - 1
        /\ \A k \in 1..(j - 1) : r[k] = used[k]
        /\ \A k \in j..(m - 1) : r[k] = used[k + 1]
    BY <1>0, RemovedAt
  <2> HIDE DEF r
  <2>3. /\ Len(Append(r, x)) = m /\ Append(r, x)[m] = x
        /\ \A k \in 1..(m - 1) : Append(r, x)[k] = r[k]
    <3>1. m \in Nat /\ (m - 1) + 1 = m
      BY <1>0
    <3> QED BY <2>2, <3>1, AppendedAt
  <2> QED BY <1>0, <1>1, <2>1, <2>2, <2>3
<1>3. ASSUME \A j \in 1..m : used[j] # x
      PROVE  /\ Len(w) = m + 1 /\ w[m + 1] = x
             /\ \A k \in 1..m : w[k] = used[k]
  <2>1. RemoveFirst(used, x) = used
    BY <1>0, <1>3, RemovedFirst DEF Contains
  <2> QED BY <1>0, <1>1, <2>1
<1> HIDE DEF w
<1>4. ASSUME NEW i \in 1..n, entries[i].key = x
      PROVE  AreLastUsed(all, w) /\ Len(all) = n /\ ~(Len(all) > CacheSize)
  <2> DEFINE c == RemoveAt(entries, i)
  <2>1. all = Append(c, e)
    BY <1>4, OtherEntriesAre
  <2>2. /\ c \in Seq(Views!EntryType) /\ Len(c) = n - 1
        /\ \A k \in 1..(i - 1) : c[k] = entries[k]
        /\ \A k \in i..(n - 1) : c[k] = entries[k + 1]
    BY <1>0, RemovedAt
  <2> HIDE DEF c
  <2>3. /\ Len(all) = n /\ all[n] = e
        /\ \A k \in 1..(n - 1) : all[k] = c[k]
    <3>1. n \in Nat /\ (n - 1) + 1 = n
      BY <1>0
    <3> HIDE DEF all, n
    <3> QED BY <2>1, <2>2, <3>1, AppendedAt
  <2> HIDE DEF all
  <2>4. d + i \in 1..m /\ used[d + i] = x
    BY <1>0, <1>4
  <2>5. /\ Len(w) = m /\ w[m] = x
        /\ \A k \in 1..(d + i - 1) : w[k] = used[k]
        /\ \A k \in (d + i)..(m - 1) : w[k] = used[k + 1]
    BY <1>2, <2>4
  <2>6. ASSUME NEW k \in 1..n PROVE all[k].key = w[d + k]
    <3>1. CASE k = n
      BY <1>0, <2>3, <2>5, <3>1
    <3>2. CASE k < i
      <4>1. k \in 1..(i - 1) /\ k \in 1..(n - 1) /\ d + k \in 1..(d + i - 1)
        BY <1>0, <3>2
      <4> QED BY <1>0, <2>2, <2>3, <2>5, <4>1
    <3>3. CASE i <= k /\ k < n
      <4>1. k \in i..(n - 1) /\ k \in 1..(n - 1) /\ d + k \in (d + i)..(m - 1)
            /\ k + 1 \in 1..n /\ d + k + 1 = d + (k + 1)
        BY <1>0, <3>3
      <4>2. all[k] = entries[k + 1] /\ w[d + k] = used[d + k + 1]
        BY <2>2, <2>3, <2>5, <4>1
      <4> QED BY <1>0, <4>1, <4>2
    <3> QED BY <1>0, <3>1, <3>2, <3>3
  <2> HIDE DEF d
  <2>7. Len(w) - Len(all) = d
    BY <1>0, <2>3, <2>5
  <2>8. AreLastUsed(all, w)
    BY <1>0, <2>3, <2>5, <2>6, <2>7 DEF AreLastUsed
  <2> QED BY <1>0, <2>3, <2>8
<1>5. ASSUME \A i \in 1..n : entries[i].key # x
      PROVE  AreLastUsed(IF Len(all) > CacheSize THEN Tail(all) ELSE all, w)
  <2>1. all = Append(entries, e)
    BY <1>5, OtherEntriesAre
  <2>2. /\ all \in Seq(Views!EntryType) /\ Len(all) = n + 1 /\ all[n + 1] = e
        /\ \A k \in 1..n : all[k] = entries[k]
    BY <1>0, <2>1
  <2> DEFINE t == Tail(all)
  <2>3. Len(t) = n /\ \A k \in 1..n : t[k] = all[k + 1]
    <3>1. n \in Nat /\ (n + 1) - 1 = n /\ n + 1 # 0
      BY <1>0
    <3> HIDE DEF all, n
    <3>2. all # <<>>
      BY <2>2, <3>1
    <3> QED BY <2>2, <3>1, <3>2, TailAt
  <2> HIDE DEF all, t
  <2>4. CASE \E j \in 1..m : used[j] = x
    <3>1. PICK j \in 1..m : used[j] = x
      BY <2>4
    <3>2. j <= d
      <4> SUFFICES ASSUME j > d PROVE FALSE
        BY <1>0
      <4>1. j - d \in 1..n /\ d + (j - d) = j
        BY <1>0
      <4> QED BY <1>0, <1>5, <3>1, <4>1
    <3>3. n = CacheSize /\ n > 0
      BY <1>0, <3>2
    <3>4. /\ Len(w) = m /\ w[m] = x
          /\ \A k \in j..(m - 1) : w[k] = used[k + 1]
      BY <1>2, <3>1
    <3>5. ASSUME NEW k \in 1..n PROVE t[k].key = w[d + k]
      <4>1. CASE k = n
        BY <1>0, <2>2, <2>3, <3>4, <4>1
      <4>2. CASE k < n
        <5>1. k + 1 \in 1..n /\ d + k \in j..(m - 1) /\ d + k + 1 = d + (k + 1)
          BY <1>0, <3>2, <4>2
        <5>2. t[k] = entries[k + 1] /\ w[d + k] = used[d + k + 1]
          BY <2>2, <2>3, <3>4, <5>1
        <5> QED BY <1>0, <5>1, <5>2
      <4> QED BY <1>0, <4>1, <4>2
    <3> HIDE DEF d
    <3>6. Len(w) - Len(t) = d
      BY <1>0, <2>3, <3>4
    <3>7. AreLastUsed(t, w)
      BY <1>0, <2>3, <3>3, <3>4, <3>5, <3>6 DEF AreLastUsed
    <3> QED BY <2>2, <3>3, <3>7 DEF t
  <2>5. CASE \A j \in 1..m : used[j] # x
    <3>1. /\ Len(w) = m + 1 /\ w[m + 1] = x
          /\ \A k \in 1..m : w[k] = used[k]
      BY <1>3, <2>5
    <3>2. CASE n + 1 > CacheSize
      <4>1. n = CacheSize /\ n > 0
        BY <1>0, <3>2
      <4>2. ASSUME NEW k \in 1..n PROVE t[k].key = w[d + 1 + k]
        <5>1. CASE k = n
          BY <1>0, <2>2, <2>3, <3>1, <5>1
        <5>2. CASE k < n
          <6>1. k + 1 \in 1..n /\ d + 1 + k \in 1..m /\ d + 1 + k = d + (k + 1)
            <7>1. n \in Nat /\ m \in Nat /\ d \in Nat /\ m = d + n /\ k \in 1..n
              BY <1>0
            <7> HIDE DEF d, n, m
            <7> QED BY <5>2, <7>1
          <6>2. t[k] = entries[k + 1] /\ w[d + 1 + k] = used[d + (k + 1)]
            BY <2>2, <2>3, <3>1, <6>1
          <6> QED BY <1>0, <6>1, <6>2
        <5> QED BY <1>0, <5>1, <5>2
      <4> HIDE DEF d
      <4>3. Len(w) - Len(t) = d + 1
        BY <1>0, <2>3, <3>1
      <4>4. AreLastUsed(t, w)
        BY <1>0, <2>3, <3>1, <4>1, <4>2, <4>3 DEF AreLastUsed
      <4> QED BY <2>2, <3>2, <4>4 DEF t
    <3>3. CASE ~(n + 1 > CacheSize)
      <4>1. d = 0 /\ n = m
        BY <1>0, <3>3
      <4>2. ASSUME NEW k \in 1..(n + 1) PROVE all[k].key = w[k]
        <5>1. CASE k = n + 1
          BY <2>2, <3>1, <4>1, <5>1
        <5>2. CASE k \in 1..n
          <6>1. all[k] = entries[k] /\ entries[k].key = used[k] /\ w[k] = used[k]
            BY <1>0, <2>2, <3>1, <4>1, <5>2
          <6> QED BY <6>1
        <5> QED BY <1>0, <5>1, <5>2
      <4> HIDE DEF d
      <4>3. Len(w) - Len(all) = 0 /\ Len(all) = Len(w)
        BY <1>0, <2>2, <3>1, <4>1
      <4>4. AreLastUsed(all, w)
        BY <1>0, <2>2, <3>1, <3>3, <4>1, <4>2, <4>3 DEF AreLastUsed
      <4> QED BY <2>2, <3>3, <4>4
    <3> QED BY <3>2, <3>3
  <2> QED BY <2>4, <2>5
<1> HIDE DEF all
<1>6. CASE \E i \in 1..n : entries[i].key = x
  <2>1. PICK i \in 1..n : entries[i].key = x
    BY <1>6
  <2>2. AreLastUsed(all, w) /\ Len(all) = n /\ ~(Len(all) > CacheSize)
    BY <1>4, <2>1
  <2> QED BY <1>0, <2>2 DEF all, w
<1>7. CASE \A i \in 1..n : entries[i].key # x
  BY <1>5, <1>7 DEF all, w
<1> QED BY <1>6, <1>7


\* A key that is used is once among the used ones.
LEMMA UsedStaysTyped ==
    ASSUME ViewsTyped, NEW x \in Keys
    PROVE  Views!UsedNow(x) \in Seq(Keys) /\ IsInjective(Views!UsedNow(x))
<1> DEFINE r == RemoveFirst(used, x)
<1>1. used \in Seq(Keys) /\ IsInjective(used)
  BY DEF ViewsTyped
<1>2. r \in Seq(Keys) /\ IsInjective(r) /\ ~Contains(r, x)
  BY <1>1, RemovedFirstKeeps
<1>3. Views!UsedNow(x) = Append(r, x)
  BY ViewsOperators DEF Views!UsedNow
<1> HIDE DEF r
<1> QED BY <1>2, <1>3, AppendedNew

\* A value that has not expired and should be there is found.
LEMMA KeptIsFound ==
    ASSUME ViewsInductive, NEW x \in Keys, Views!Kept(x)
    PROVE  Views!Found(x) # {}
<1> DEFINE n == Len(entries)
           m == Len(used)
<1>0. /\ entries \in Seq(Views!EntryType) /\ used \in Seq(Keys) /\ n \in Nat /\ m \in Nat
      /\ expiry[x] > viewTime
  BY DEF ViewsInductive, ViewsTyped, Views!Kept
<1>1. \E i \in 1..n : entries[i].key = x
  <2>1. CASE kind = "statistics"
    BY <1>0, <2>1 DEF ViewsInductive
  <2>2. CASE kind = "counts"
    <3> DEFINE w == IF m < CacheSize THEN m ELSE CacheSize
               late == SubSeq(Views!Reverse(used), 1, w)
    <3>1. /\ n <= m /\ n <= CacheSize /\ (n = m \/ n = CacheSize) /\ CacheSize \in Nat
          /\ \A i \in 1..n : entries[i].key = used[m - n + i]
      BY <2>2, ViewConstants DEF ViewsInductive, AreLastUsed
    <3>2. w = n
      BY <1>0, <3>1
    <3>3. /\ Views!Reverse(used) \in Seq(Keys) /\ Len(Views!Reverse(used)) = m
          /\ \A k \in 1..m : Views!Reverse(used)[k] = used[m - k + 1]
      BY <1>0 DEF Views!Reverse
    <3>4. x \in ToSet(late)
      BY <2>2, ViewsOperators DEF Views!Kept
    <3>5. Len(late) = n /\ \A k \in 1..n : late[k] = Views!Reverse(used)[k]
      <4> DEFINE r == Views!Reverse(used)
      <4>1. r \in Seq(Keys) /\ Len(r) = m /\ late = SubSeq(r, 1, n) /\ n <= m
        BY <3>1, <3>2, <3>3
      <4> HIDE DEF r, late
      <4> QED BY <1>0, <4>1 DEF r
    <3>6. PICK k \in 1..n : late[k] = x
      <4> HIDE DEF late
      <4> QED BY <3>4, <3>5 DEF ToSet
    <3>7. used[m - k + 1] = x
      BY <1>0, <3>1, <3>3, <3>5, <3>6
    <3>8. n - k + 1 \in 1..n /\ m - n + (n - k + 1) = m - k + 1
      BY <1>0
    <3> QED BY <3>1, <3>7, <3>8
  <2> QED BY <2>1, <2>2 DEF ViewsInductive, ViewsTyped
<1>2. PICK i \in 1..n : entries[i].key = x
  BY <1>1
<1>3. entries[i].expires = expiry[x]
  BY <1>2 DEF ViewsInductive, EntriesExpire
<1>4. entries[i] \in ToSet(entries)
  BY <1>0 DEF ToSet
<1> QED BY <1>0, <1>2, <1>3, <1>4, ViewsOperators DEF Views!Found

LEMMA ViewsInitInductive == Views!Init => ViewsInductive
<1> SUFFICES ASSUME Views!Init PROVE ViewsInductive
  OBVIOUS
<1>1. /\ kind \in {"counts", "statistics"} /\ viewTime = 0 /\ entries = <<>>
      /\ computing = [by |-> "none", now |-> 0]
      /\ viewer = [v \in Viewers |-> "none"] /\ used = <<>>
      /\ expiry = [x \in Keys |-> 0] /\ wasted = FALSE
  BY DEF Views!Init, Views!Setup, Views!NotComputing, Views!None
<1>2. IsInjective(used) /\ used \in Seq(Keys) /\ Len(used) = 0
  BY <1>1 DEF IsInjective
<1>3. Len(entries) = 0 /\ entries \in Seq(Views!EntryType) /\ KeysAreDistinct(entries)
  BY <1>1 DEF KeysAreDistinct
<1>4. ViewsTyped
  BY <1>1, <1>2, <1>3, ViewConstants DEF ViewsTyped
<1> QED BY <1>1, <1>2, <1>3, <1>4, ViewConstants DEF ViewsInductive, EntriesExpire, AreLastUsed

\* What a step that leaves the entries alone has to show.
LEMMA EntriesUntouched ==
    ASSUME ViewsInductive, UNCHANGED <<kind, entries, used, expiry, wasted>>,
           viewTime' \in viewTime..MaxViewTime,
           viewer' \in [Viewers -> Keys \cup {"none"}],
           computing' \in [by : Viewers \cup {"none"}, now : Nat],
           computing'.now <= viewTime',
           \A v \in Viewers : computing'.by = v => viewer'[v] \in Keys
    PROVE  ViewsInductive'
<1>1. viewTime \in Nat /\ viewTime' \in 0..MaxViewTime /\ viewTime <= viewTime'
  BY ViewConstants DEF ViewsInductive, ViewsTyped
<1>2. ViewsTyped'
  BY <1>1 DEF ViewsInductive, ViewsTyped, KeysAreDistinct, IsInjective
<1>3. \A x \in Keys : expiry[x] \in Nat
  BY DEF ViewsInductive, ViewsTyped
<1>4. kind = "statistics" =>
          \A x \in Keys : expiry[x] > viewTime' => \E i \in 1..Len(entries) : entries[i].key = x
  BY <1>1, <1>3 DEF ViewsInductive
<1> QED BY <1>2, <1>4 DEF ViewsInductive, EntriesExpire, AreLastUsed

LEMMA ViewsKeepRequest ==
    ASSUME ViewsInductive, NEW v \in Viewers, NEW x \in Keys, Views!Request(v, x)
    PROVE  ViewsInductive'
<1>1. /\ viewer[v] = "none" /\ viewer' = [viewer EXCEPT ![v] = x]
      /\ UNCHANGED <<kind, viewTime, entries, computing, used, expiry, wasted>>
  BY DEF Views!Request, Views!None
<1>2. ViewsTyped /\ viewTime' \in viewTime..MaxViewTime
  BY <1>1, ViewConstants DEF ViewsInductive, ViewsTyped
<1>3. viewer' \in [Viewers -> Keys \cup {"none"}]
  BY <1>1, <1>2 DEF ViewsTyped
<1>4. \A u \in Viewers : computing.by = u => viewer'[u] \in Keys
  BY <1>1, <1>2, ViewConstants DEF ViewsTyped
<1> QED BY <1>1, <1>2, <1>3, <1>4, EntriesUntouched DEF ViewsTyped

LEMMA ViewsKeepMiss ==
    ASSUME ViewsInductive, NEW v \in Viewers, Views!Miss(v)
    PROVE  ViewsInductive'
<1>1. /\ viewer[v] # "none" /\ Views!Found(viewer[v]) = {}
      /\ computing' = [by |-> v, now |-> viewTime]
      /\ wasted' = (wasted \/ Views!Kept(viewer[v]))
      /\ UNCHANGED <<kind, viewTime, entries, viewer, used, expiry>>
  BY DEF Views!Miss, Views!None
<1>2. ViewsTyped /\ viewTime' \in viewTime..MaxViewTime /\ viewTime \in Nat
  BY <1>1, ViewConstants DEF ViewsInductive, ViewsTyped
<1>3. viewer[v] \in Keys
  BY <1>1, <1>2 DEF ViewsTyped
<1>4. wasted' = wasted
  BY <1>1, <1>2, <1>3, KeptIsFound DEF ViewsTyped
<1>5. /\ computing' \in [by : Viewers \cup {"none"}, now : Nat] /\ computing'.now <= viewTime'
      /\ \A u \in Viewers : computing'.by = u => viewer'[u] \in Keys
  BY <1>1, <1>2, <1>3
<1> QED BY <1>1, <1>2, <1>4, <1>5, EntriesUntouched DEF ViewsTyped

LEMMA ViewsKeepFailure ==
    ASSUME ViewsInductive, NEW v \in Viewers, Views!ComputeFails(v)
    PROVE  ViewsInductive'
<1>1. /\ computing' = [by |-> "none", now |-> 0]
      /\ viewer' = [viewer EXCEPT ![v] = "none"]
      /\ UNCHANGED <<kind, viewTime, entries, used, expiry, wasted>>
  BY DEF Views!ComputeFails, Views!None, Views!NotComputing
<1>2. ViewsTyped /\ viewTime' \in viewTime..MaxViewTime /\ viewTime \in Nat
  BY <1>1, ViewConstants DEF ViewsInductive, ViewsTyped
<1>3. viewer' \in [Viewers -> Keys \cup {"none"}]
  BY <1>1, <1>2 DEF ViewsTyped
<1>4. /\ computing' \in [by : Viewers \cup {"none"}, now : Nat] /\ computing'.now <= viewTime'
      /\ \A u \in Viewers : computing'.by = u => viewer'[u] \in Keys
  BY <1>1, <1>2, ViewConstants
<1> QED BY <1>1, <1>2, <1>3, <1>4, EntriesUntouched

LEMMA ViewsKeepTick ==
    ASSUME ViewsInductive, Views!ViewTick
    PROVE  ViewsInductive'
<1>1. /\ viewTime < MaxViewTime /\ viewTime' = viewTime + 1
      /\ UNCHANGED <<kind, entries, computing, viewer, used, expiry, wasted>>
  BY DEF Views!ViewTick
<1>2. ViewsTyped /\ viewTime \in Nat
  BY ViewConstants DEF ViewsInductive, ViewsTyped
<1>3. viewTime' \in viewTime..MaxViewTime /\ computing.now <= viewTime'
  BY <1>1, <1>2, ViewConstants DEF ViewsTyped
<1> QED BY <1>1, <1>2, <1>3, EntriesUntouched DEF ViewsTyped

\* What a step that uses a key, as a hit or with a new value, has to show.
LEMMA KeyIsUsed ==
    ASSUME ViewsInductive, NEW x \in Keys, used' = Views!UsedNow(x),
           viewer' \in [Viewers -> Keys \cup {"none"}],
           UNCHANGED <<kind, viewTime, wasted>>,
           computing' \in [by : {"none"}, now : Nat], computing'.now <= viewTime,
           expiry' \in [Keys -> Nat],
           entries' \in Seq(Views!EntryType), KeysAreDistinct(entries'),
           \A i \in 1..Len(entries') : entries'[i].expires = expiry'[entries'[i].key],
           kind = "counts" => AreLastUsed(entries', Views!UsedNow(x)),
           kind = "statistics" => \A y \in Keys : expiry'[y] > viewTime =>
                                      \E i \in 1..Len(entries') : entries'[i].key = y
    PROVE  ViewsInductive'
<1>1. ViewsTyped /\ viewTime \in Nat
  BY ViewConstants DEF ViewsInductive, ViewsTyped
<1>2. used' \in Seq(Keys) /\ IsInjective(used)'
  BY <1>1, UsedStaysTyped DEF IsInjective
<1>3. /\ computing' \in [by : Viewers \cup {"none"}, now : Nat] /\ computing'.now <= viewTime'
      /\ \A u \in Viewers : computing'.by = u => viewer'[u] \in Keys
  BY <1>1, ViewConstants DEF ViewsTyped
<1>4. ViewsTyped'
  BY <1>1, <1>2, <1>3 DEF ViewsTyped, KeysAreDistinct
<1> QED BY <1>4 DEF ViewsInductive, EntriesExpire, AreLastUsed

\* The other entries, and one of the key x after them.
LEMMA OthersAndNew ==
    ASSUME ViewsTyped, EntriesExpire, NEW x \in Keys,
           NEW e \in Views!EntryType, e.key = x, NEW ex \in [Keys -> Nat],
           ex[x] = e.expires, \A y \in Keys : y # x => ex[y] = expiry[y]
    PROVE  LET c == Append(Views!OtherEntries(x), e)
           IN  /\ c \in Seq(Views!EntryType) /\ KeysAreDistinct(c)
               /\ \A k \in 1..Len(c) : c[k].expires = ex[c[k].key]
<1> DEFINE d == Views!OtherEntries(x)
           c == Append(d, e)
<1>1. d \in Seq(Views!EntryType) /\ \A k \in 1..Len(d) : d[k].key # x
  BY OthersArePart
<1>2. PICK at \in [1..Len(d) -> 1..Len(entries)] :
          /\ \A k \in 1..Len(d) : d[k] = entries[at[k]]
          /\ \A k \in 1..Len(d) : \A m \in 1..Len(d) : at[k] = at[m] => k = m
  BY OthersArePart
<1> HIDE DEF d
<1>3. /\ c \in Seq(Views!EntryType) /\ KeysAreDistinct(c) /\ Len(c) = Len(d) + 1
      /\ c[Len(d) + 1] = e /\ \A k \in 1..Len(d) : c[k] = entries[at[k]]
  BY <1>1, <1>2, PartAndNew
<1> HIDE DEF c
<1>4. ASSUME NEW k \in 1..Len(c) PROVE c[k].expires = ex[c[k].key]
  <2>1. CASE k = Len(d) + 1
    BY <1>3, <2>1
  <2>2. CASE k \in 1..Len(d)
    <3>1. c[k] = entries[at[k]] /\ c[k] = d[k] /\ at[k] \in 1..Len(entries)
      BY <1>2, <1>3, <2>2
    <3>2. c[k].key # x /\ c[k].key \in Keys /\ c[k].expires = expiry[c[k].key]
      <4>1. c[k] \in Views!EntryType
        BY <1>3
      <4> QED BY <1>1, <2>2, <3>1, <4>1 DEF EntriesExpire, Views!EntryType
    <3> QED BY <3>2
  <2>3. Len(d) \in Nat
    BY <1>1
  <2> QED BY <1>3, <2>1, <2>2, <2>3
<1> QED BY <1>3, <1>4 DEF c, d

LEMMA ViewsKeepHit ==
    ASSUME ViewsInductive, NEW v \in Viewers, Views!Hit(v)
    PROVE  ViewsInductive'
<1> DEFINE x == viewer[v]
<1>1. /\ x # "none" /\ computing.by = "none" /\ Views!Found(x) # {}
      /\ entries' = Views!AfterHit(x) /\ used' = Views!UsedNow(x)
      /\ viewer' = [viewer EXCEPT ![v] = "none"]
      /\ UNCHANGED <<kind, viewTime, computing, expiry, wasted>>
  BY DEF Views!Hit, Views!None
<1>2. ViewsTyped /\ EntriesExpire /\ x \in Keys
  BY <1>1 DEF ViewsInductive, ViewsTyped
<1> HIDE DEF x
<1>3. PICK i \in 1..Len(entries) : entries[i].key = x
  BY <1>1, <1>2, ViewsOperators DEF Views!Found, ToSet, ViewsTyped
<1>4. entries \in Seq(Views!EntryType) /\ KeysAreDistinct(entries) /\ expiry \in [Keys -> Nat]
  BY <1>2 DEF ViewsTyped
<1>0. /\ viewer' \in [Viewers -> Keys \cup {"none"}]
      /\ computing' \in [by : {"none"}, now : Nat] /\ computing'.now <= viewTime
  BY <1>1, <1>2 DEF ViewsTyped
<1>5. CASE kind = "statistics"
  <2>1. entries' = entries
    BY <1>1, <1>5 DEF Views!AfterHit
  <2>2. kind # "counts"
    BY <1>5
  <2>3. /\ \A k \in 1..Len(entries) : entries[k].expires = expiry[entries[k].key]
        /\ \A y \in Keys : expiry[y] > viewTime => \E k \in 1..Len(entries) : entries[k].key = y
    BY <1>2, <1>5 DEF ViewsInductive, EntriesExpire
  <2> QED BY <1>0, <1>1, <1>2, <1>4, <2>1, <2>2, <2>3, KeyIsUsed
<1>6. CASE kind = "counts"
  <2> DEFINE e == CHOOSE e \in ToSet(entries) : e.key = x
             c == Append(Views!OtherEntries(x), e)
  <2>1. entries' = c
    BY <1>1, <1>6, ViewsOperators DEF Views!AfterHit
  <2>2. e \in ToSet(entries) /\ e.key = x
    BY <1>3, <1>4 DEF ToSet
  <2>3. PICK j \in 1..Len(entries) : e = entries[j]
    BY <1>4, <2>2 DEF ToSet
  <2> HIDE DEF e
  <2>4. e \in Views!EntryType /\ e.expires = expiry[x]
    BY <1>2, <1>4, <2>2, <2>3 DEF EntriesExpire
  <2>5. /\ c \in Seq(Views!EntryType) /\ KeysAreDistinct(c)
        /\ \A k \in 1..Len(c) : c[k].expires = expiry[c[k].key]
    BY <1>2, <1>4, <2>2, <2>4, OthersAndNew
  <2>6. AreLastUsed(entries, used)
    BY <1>6 DEF ViewsInductive
  <2>7. /\ AreLastUsed(IF Len(c) > CacheSize THEN Tail(c) ELSE c, Views!UsedNow(x))
        /\ Len(c) <= CacheSize
    BY <1>2, <1>3, <2>2, <2>4, <2>6, LastUsedFollow
  <2>8. AreLastUsed(c, Views!UsedNow(x))
    <3>1. Len(c) \in Nat /\ CacheSize \in Nat
      BY <2>5, ViewConstants
    <3> HIDE DEF c
    <3> QED BY <2>7, <3>1
  <2> HIDE DEF c
  <2> QED BY <1>0, <1>1, <1>2, <1>4, <1>6, <2>1, <2>5, <2>8, KeyIsUsed
<1> QED BY <1>2, <1>5, <1>6 DEF ViewsTyped

LEMMA ViewsKeepComputed ==
    ASSUME ViewsInductive, NEW v \in Viewers, Views!Computed(v)
    PROVE  ViewsInductive'
<1> DEFINE x == viewer[v]
           ex == [expiry EXCEPT ![x] = viewTime + Ttl]
           e == [key |-> x, expires |-> viewTime + Ttl]
<1>1. /\ computing.by = v /\ computing' = [by |-> "none", now |-> 0]
      /\ entries' = Views!StoredEntries(x) /\ used' = Views!UsedNow(x)
      /\ expiry' = ex /\ viewer' = [viewer EXCEPT ![v] = "none"]
      /\ UNCHANGED <<kind, viewTime, wasted>>
  BY DEF Views!Computed, Views!NotComputing, Views!None
<1>2. ViewsTyped /\ EntriesExpire /\ x \in Keys
  BY <1>1 DEF ViewsInductive, ViewsTyped
<1> HIDE DEF x
<1>3. /\ entries \in Seq(Views!EntryType) /\ KeysAreDistinct(entries) /\ expiry \in [Keys -> Nat]
      /\ viewTime \in 0..MaxViewTime /\ computing.now \in Nat /\ computing.now <= viewTime
  BY <1>2 DEF ViewsTyped
<1>4. e \in Views!EntryType /\ e.key = x /\ e.expires = viewTime + Ttl
  BY <1>2, <1>3, ViewConstants DEF Views!EntryType
<1>5. /\ ex \in [Keys -> Nat] /\ ex[x] = e.expires
      /\ \A y \in Keys : y # x => ex[y] = expiry[y]
  BY <1>2, <1>3, ViewConstants
<1>0. /\ viewer' \in [Viewers -> Keys \cup {"none"}]
      /\ computing' \in [by : {"none"}, now : Nat] /\ computing'.now <= viewTime
  BY <1>1, <1>2, <1>3 DEF ViewsTyped
<1>6. CASE kind = "statistics"
  <2> DEFINE I == {i \in DOMAIN entries : entries[i].key # x /\ entries[i].expires > computing.now}
             d == Keep(entries, I)
             c == Append(d, e)
  <2>1. entries' = c
    BY <1>6, <1>1, ViewsOperators DEF Views!StoredEntries
  <2>2. I \in SUBSET (1..Len(entries))
    BY <1>3
  <2>0. d = Keep(entries, I)
    OBVIOUS
  <2> HIDE DEF I, d
  <2>3. d \in Seq(Views!EntryType)
    BY <1>3, <2>0, <2>2, Kept
  <2>4. PICK at \in [1..Len(d) -> I] :
            /\ \A k \in 1..Len(d) : d[k] = entries[at[k]]
            /\ \A k \in 1..Len(d) : \A m \in 1..Len(d) : at[k] = at[m] => k = m
            /\ \A i \in I : \E k \in 1..Len(d) : at[k] = i
    <3>1. entries \in Seq(Views!EntryType)
      BY <1>3
    <3> QED BY <2>0, <2>2, <3>1, Kept
  <2>5. at \in [1..Len(d) -> 1..Len(entries)] /\ \A k \in 1..Len(d) : at[k] \in I
    BY <2>2
  <2>6. \A k \in 1..Len(d) : d[k].key # x
    BY <2>4, <2>5 DEF I
  <2> HIDE DEF e
  <2>7. /\ c \in Seq(Views!EntryType) /\ KeysAreDistinct(c) /\ Len(c) = Len(d) + 1
        /\ c[Len(d) + 1] = e
        /\ \A k \in 1..Len(d) : c[k] = entries[at[k]]
    <3>1. \A k \in 1..Len(d) : d[k].key # e.key
      BY <1>4, <2>6
    <3>2. at \in [1..Len(d) -> 1..Len(entries)]
      BY <2>5
    <3>3. e \in Views!EntryType /\ ViewsTyped
      BY <1>2, <1>4
    <3>4. /\ \A k \in 1..Len(d) : d[k] = entries[at[k]]
          /\ \A k \in 1..Len(d) : \A m \in 1..Len(d) : at[k] = at[m] => k = m
      BY <2>4
    <3> HIDE DEF c
    <3> QED BY <2>3, <3>1, <3>2, <3>3, <3>4, PartAndNew DEF c
  <2> HIDE DEF c
  <2>11. Len(d) \in Nat /\ Len(c) \in Nat
    BY <2>3, <2>7
  <2>8. ASSUME NEW k \in 1..Len(c) PROVE c[k].expires = ex[c[k].key]
    <3>1. CASE k = Len(d) + 1
      BY <1>4, <1>5, <2>7, <3>1
    <3>2. CASE k \in 1..Len(d)
      <4>1. c[k] = entries[at[k]] /\ at[k] \in 1..Len(entries) /\ c[k].key # x
        BY <2>4, <2>5, <2>6, <2>7, <3>2
      <4>2. c[k].key \in Keys /\ c[k].expires = expiry[c[k].key]
        <5>1. c[k] \in Views!EntryType
          BY <2>7
        <5> QED BY <1>2, <4>1, <5>1 DEF EntriesExpire, Views!EntryType
      <4> HIDE DEF ex
      <4> QED BY <1>5, <4>1, <4>2
    <3> QED BY <2>11, <2>7, <3>1, <3>2
  <2>9. ASSUME NEW y \in Keys, ex[y] > viewTime
        PROVE  \E k \in 1..Len(c) : c[k].key = y
    <3>1. CASE y = x
      <4>1. Len(d) + 1 \in 1..Len(c)
        BY <2>11, <2>7
      <4> QED BY <1>4, <2>7, <3>1, <4>1
    <3>2. CASE y # x
      <4>1. expiry[y] > viewTime
        BY <1>5, <2>9, <3>2
      <4>2. PICK i \in 1..Len(entries) : entries[i].key = y
        BY <1>6, <4>1 DEF ViewsInductive
      <4>3. entries[i].expires = expiry[y]
        BY <1>2, <4>2 DEF EntriesExpire
      <4>4. i \in I
        <5>1. expiry[y] \in Nat /\ viewTime \in Nat
          BY <1>3
        <5>2. entries[i].expires > computing.now
          BY <1>3, <4>1, <4>3, <5>1
        <5> QED BY <1>3, <3>2, <4>2, <5>2 DEF I
      <4>5. PICK k \in 1..Len(d) : at[k] = i
        BY <2>4, <4>4
      <4>6. k \in 1..Len(c)
        BY <2>11, <2>7
      <4> QED BY <2>7, <4>2, <4>5, <4>6
    <3> QED BY <3>1, <3>2
  <2>10. kind # "counts"
    BY <1>6
  <2> HIDE DEF ex
  <2> QED BY <1>0, <1>1, <1>2, <1>5, <2>1, <2>7, <2>8, <2>9, <2>10, KeyIsUsed
<1>7. CASE kind = "counts"
  <2> DEFINE c == Append(Views!OtherEntries(x), e)
             t == IF Len(c) > CacheSize THEN Tail(c) ELSE c
  <2>1. entries' = t
    BY <1>1, <1>7 DEF Views!StoredEntries
  <2> HIDE DEF e, ex
  <2>2. /\ c \in Seq(Views!EntryType) /\ KeysAreDistinct(c)
        /\ \A k \in 1..Len(c) : c[k].expires = ex[c[k].key]
    BY <1>2, <1>4, <1>5, OthersAndNew
  <2>3. AreLastUsed(t, Views!UsedNow(x))
    BY <1>2, <1>4, <1>7, LastUsedFollow DEF ViewsInductive
  <2> HIDE DEF c
  <2>4. /\ t \in Seq(Views!EntryType) /\ KeysAreDistinct(t)
        /\ \A k \in 1..Len(t) : t[k].expires = ex[t[k].key]
    <3>1. CASE ~(Len(c) > CacheSize)
      BY <2>2, <3>1
    <3>2. CASE Len(c) > CacheSize
      <4>1. c # <<>> /\ Len(c) \in Nat
        BY <2>2, <3>2, ViewConstants
      <4>2. /\ Tail(c) \in Seq(Views!EntryType) /\ Len(Tail(c)) = Len(c) - 1
            /\ \A k \in 1..(Len(c) - 1) : Tail(c)[k] = c[k + 1]
        BY <2>2, <4>1, TailAt
      <4>3. t = Tail(c)
        BY <3>2
      <4> HIDE DEF t
      <4>4. \A k \in 1..Len(t) : k \in 1..(Len(c) - 1) /\ k + 1 \in 1..Len(c)
        BY <4>1, <4>2, <4>3
      <4>5. \A k \in 1..Len(t) : t[k] = c[k + 1]
        BY <4>2, <4>3, <4>4
      <4>6. KeysAreDistinct(t)
        <5> SUFFICES ASSUME NEW k \in 1..Len(t), NEW m \in 1..Len(t), t[k].key = t[m].key
                     PROVE  k = m
          BY DEF KeysAreDistinct
        <5>1. c[k + 1].key = c[m + 1].key /\ k + 1 \in 1..Len(c) /\ m + 1 \in 1..Len(c)
          BY <4>4, <4>5
        <5>2. k + 1 = m + 1
          BY <2>2, <5>1 DEF KeysAreDistinct
        <5> QED BY <5>2
      <4> QED BY <2>2, <4>2, <4>3, <4>4, <4>5, <4>6
    <3> QED BY <3>1, <3>2
  <2>5. kind # "statistics"
    BY <1>7
  <2> HIDE DEF t
  <2> QED BY <1>0, <1>1, <1>2, <1>5, <2>1, <2>3, <2>4, <2>5, KeyIsUsed
<1> QED BY <1>2, <1>6, <1>7 DEF ViewsTyped

LEMMA ViewsNextInductive == ViewsInductive /\ [Views!Next]_(Views!viewVars) => ViewsInductive'
<1> SUFFICES ASSUME ViewsInductive, [Views!Next]_(Views!viewVars) PROVE ViewsInductive'
  OBVIOUS
<1>1. ASSUME NEW v \in Viewers, NEW x \in Keys, Views!Request(v, x) PROVE ViewsInductive'
  BY <1>1, ViewsKeepRequest
<1>2. ASSUME NEW v \in Viewers, Views!Hit(v) PROVE ViewsInductive'
  BY <1>2, ViewsKeepHit
<1>3. ASSUME NEW v \in Viewers, Views!Miss(v) PROVE ViewsInductive'
  BY <1>3, ViewsKeepMiss
<1>4. ASSUME NEW v \in Viewers, Views!Computed(v) PROVE ViewsInductive'
  BY <1>4, ViewsKeepComputed
<1>5. ASSUME NEW v \in Viewers, Views!ComputeFails(v) PROVE ViewsInductive'
  BY <1>5, ViewsKeepFailure
<1>6. CASE Views!ViewTick
  BY <1>6, ViewsKeepTick
<1>7. CASE UNCHANGED Views!viewVars
  BY <1>7 DEF Views!viewVars, ViewsInductive, ViewsTyped, EntriesExpire, KeysAreDistinct,
     AreLastUsed, IsInjective
<1> QED BY <1>1, <1>2, <1>3, <1>4, <1>5, <1>6, <1>7 DEF Views!Next

LEMMA ViewsInductiveIsEnough == ViewsInductive => Views!ViewTypeOK /\ Views!ComputedOnce
<1> SUFFICES ASSUME ViewsInductive PROVE Views!ViewTypeOK /\ Views!ComputedOnce
  OBVIOUS
<1>1. entries \in Seq(Views!EntryType) /\ DOMAIN entries = 1..Len(entries)
  BY DEF ViewsInductive, ViewsTyped
<1>2. \A i \in DOMAIN entries : entries[i] \in Views!EntryType
  BY <1>1
<1>3. Views!ViewTypeOK
  BY <1>1, <1>2 DEF ViewsInductive, ViewsTyped, KeysAreDistinct, AreLastUsed, Views!ViewTypeOK
<1> QED BY <1>3 DEF ViewsInductive, ViewsTyped, Views!ComputedOnce

-----------------------------------------------------------------------------
(* The parts side by side: a step is one of the part that was chosen.      *)

allVars == <<part, storageVars, keyVars, consoleVars>>

LEMMA StoragePartsMove ==
    ASSUME ConsoleNext \/ UNCHANGED allVars
    PROVE  /\ part' = part
           /\ part = "store" => [Store!Next]_(Store!storeVars)
           /\ part = "pool" => [Pool!Next]_(Pool!poolVars)
           /\ part = "rollups" => [Roll!Next]_(Roll!rollupVars)
           /\ part = "upgrade" => [Upgrade!Next]_(Upgrade!upgradeVars)
           /\ part = "migration" => [Migrate!Next]_(Migrate!migrationVars)
<1>1. CASE UNCHANGED storageVars /\ part' = part
  BY <1>1 DEF storageVars, storeVars, poolVars, rollupVars, upgradeVars, migrationVars,
     Store!storeVars, Store!tables, Store!history, Pool!poolVars, Roll!rollupVars,
     Upgrade!upgradeVars, Migrate!migrationVars
<1>2. CASE StorageNext /\ part' = part
  BY <1>2 DEF StorageNext
<1> QED BY <1>1, <1>2 DEF ConsoleNext, OnlyConsole, allVars

LEMMA ConsolePartsMove ==
    ASSUME ConsoleNext \/ UNCHANGED allVars
    PROVE  /\ part' = part
           /\ part = "sessions" => [Sessions!Next]_(Sessions!sessionVars)
           /\ part = "pages" => [Pages!Next]_(Pages!admissionVars)
           /\ part = "sign-ins" => [SignIns!Next]_(SignIns!limiterVars)
           /\ part = "rdns" => [Rdns!Next]_(Rdns!rdnsVars)
           /\ part = "views" => [Views!Next]_(Views!viewVars)
<1>1. CASE UNCHANGED consoleVars /\ part' = part
  BY <1>1 DEF consoleVars, sessionVars, admissionVars, limiterVars, rdnsVars, viewVars,
     Sessions!sessionVars, Pages!admissionVars, SignIns!limiterVars, Rdns!rdnsVars,
     Views!viewVars
<1>2. CASE ConsoleNext /\ ~UNCHANGED consoleVars
  BY <1>2 DEF ConsoleNext, OnlyConsole
<1> QED BY <1>1, <1>2 DEF ConsoleNext, allVars

\* Between changes every session was opened under the current credentials, for
\* any number of requests, changes, failures and restarts (app/auth.py).
THEOREM SessionsStayCurrent == ConsoleSpec => []SessionsAreCurrent
<1> DEFINE Inv == part = "sessions" => SessionsInductive
<1>1. ConsoleInit => Inv
  BY SessionsInitInductive DEF ConsoleInit
<1>2. Inv /\ [ConsoleNext]_<<part, storageVars, keyVars, consoleVars>> => Inv'
  BY SessionsNextInductive, ConsolePartsMove DEF allVars
<1>3. Inv => SessionsAreCurrent
  BY SessionsInductiveIsEnough DEF SessionsAreCurrent
<1> QED BY <1>1, <1>2, <1>3, PTL DEF ConsoleSpec

\* No path through a connection loses a slot, opens more connections than there
\* are slots, or shows a thread another's work, for any number of threads, slots
\* and failures (app/mysql_backend.py).
THEOREM PoolStaysSound == ConsoleSpec => []PoolIsSound
<1> DEFINE Inv == part = "pool" => PoolInductive
<1>1. ConsoleInit => Inv
  BY PoolInitInductive DEF ConsoleInit, StorageInit
<1>2. Inv /\ [ConsoleNext]_<<part, storageVars, keyVars, consoleVars>> => Inv'
  BY PoolNextInductive, StoragePartsMove DEF allVars
<1>3. Inv => PoolIsSound
  BY PoolInductiveIsEnough DEF PoolIsSound
<1> QED BY <1>1, <1>2, <1>3, PTL DEF ConsoleSpec

\* The retained counters are those of the log while the application runs, and
\* only a transaction in its second round can be part of a deadlock, for any
\* number of rows, minutes and transactions (app/rollups.py).
THEOREM StatisticsStayExact == ConsoleSpec => []StatisticsAreKept
<1> DEFINE Inv == part = "rollups" => RollInductive /\ RollRoundsAreSound
<1>1. ConsoleInit => Inv
  BY RollInitInductive, RollRoundsInit DEF ConsoleInit, StorageInit
<1>2. Inv /\ [ConsoleNext]_<<part, storageVars, keyVars, consoleVars>> => Inv'
  BY RollNextInductive, RollRoundsNext, StoragePartsMove DEF allVars, RollInductive
<1>3. Inv => StatisticsAreKept
  BY RollInductiveIsEnough, RollFirstRoundsDoNotDeadlock DEF StatisticsAreKept, RollInductive
<1> QED BY <1>1, <1>2, <1>3, PTL DEF ConsoleSpec

\* Every slot is free or belongs to a function that is queued or runs, whatever
\* became of its caller, and sign-ins are refused if and only if the limits say
\* so, for any number of requests, slots and peers (app/admin.py).
THEOREM AdmissionStaysBounded == ConsoleSpec => []AdmissionIsBounded
<1> DEFINE Inv == /\ part = "pages" => AdmissionInductive
                  /\ part = "sign-ins" => LimiterInductive
<1>1. ConsoleInit => Inv
  BY AdmissionInitInductive, LimiterInitInductive DEF ConsoleInit
<1>2. Inv /\ [ConsoleNext]_<<part, storageVars, keyVars, consoleVars>> => Inv'
  BY AdmissionNextInductive, LimiterNextInductive, ConsolePartsMove DEF allVars
<1>3. Inv => AdmissionIsBounded
  BY AdmissionInductiveIsEnough, LimiterInductiveIsEnough DEF AdmissionIsBounded
<1> QED BY <1>1, <1>2, <1>3, PTL DEF ConsoleSpec

\* The caches stay within their limits; that of names holds nothing that was
\* asked for before it was cleared, and those of pages compute nothing twice
\* while it is current, for any number of threads, names, keys and any capacity
\* (app/rdns.py, app/query_cache.py, app/statistics.py).
THEOREM CachesStaySound == ConsoleSpec => []CachesAreSound
<1> DEFINE Inv == /\ part = "rdns" => RdnsInductive
                  /\ part = "views" => ViewsInductive
<1>1. ConsoleInit => Inv
  BY RdnsInitInductive, ViewsInitInductive DEF ConsoleInit
<1>2. Inv /\ [ConsoleNext]_<<part, storageVars, keyVars, consoleVars>> => Inv'
  BY RdnsNextInductive, ViewsNextInductive, ConsolePartsMove DEF allVars
<1>3. Inv => CachesAreSound
  BY RdnsInductiveIsEnough, ViewsInductiveIsEnough DEF CachesAreSound
<1> QED BY <1>1, <1>2, <1>3, PTL DEF ConsoleSpec

\* A list keeps what was put on it and not taken off, no domain stays that no
\* list uses, and the count of a list that one handler at a time changes is right
\* while nobody works on it, for any number of lists, domains, handlers and
\* requests (app/db.py, app/main.py).
THEOREM ListsStayKept == ConsoleSpec => []ListsAreKept
<1> DEFINE Inv == part = "store" => StoreInductive
<1>1. ConsoleInit => Inv
  BY StoreInitInductive DEF ConsoleInit, StorageInit
<1>2. Inv /\ [ConsoleNext]_<<part, storageVars, keyVars, consoleVars>> => Inv'
  BY StoreNextInductive, StoragePartsMove DEF allVars
<1>3. Inv => ListsAreKept
  BY StoreInductiveIsEnough DEF ListsAreKept
<1> QED BY <1>1, <1>2, <1>3, PTL DEF ConsoleSpec

\* An upgrade of a database of any release, with any lists, targets and clients,
\* interrupted and repeated any number of times and with any changes in between,
\* loses nothing, brings nothing back and leaves the current schema (app/db.py,
\* app/mysql_backend.py).
THEOREM UpgradesStaySafe == ConsoleSpec => []UpgradesKeepData
<1> DEFINE Inv == part = "upgrade" => UpgradeInductive
<1>1. ConsoleInit => Inv
  BY UpgradeInitInductive DEF ConsoleInit, StorageInit
<1>2. Inv /\ [ConsoleNext]_<<part, storageVars, keyVars, consoleVars>> => Inv'
  BY UpgradeNextInductive, StoragePartsMove DEF allVars
<1>3. Inv => UpgradesKeepData
  BY UpgradeInductiveIsEnough DEF UpgradesKeepData
<1> QED BY <1>1, <1>2, <1>3, PTL DEF ConsoleSpec

\* A migration that reports success has copied one whole state of its source, one
\* that is refused has taken nothing, and nothing fails that nothing disturbs, for
\* any rows on both sides and any number of runs, faults and changes
\* (tools/migrate_database.py).
THEOREM MigrationsStayWhole == ConsoleSpec => []MigrationsAreWhole
<1> DEFINE Inv == part = "migration" => MigrateInductive
<1>1. ConsoleInit => Inv
  BY MigrateInitInductive DEF ConsoleInit, StorageInit
<1>2. Inv /\ [ConsoleNext]_<<part, storageVars, keyVars, consoleVars>> => Inv'
  BY MigrateNextInductive, StoragePartsMove DEF allVars
<1>3. Inv => MigrationsAreWhole
  BY MigrateInductiveIsEnough DEF MigrationsAreWhole
<1> QED BY <1>1, <1>2, <1>3, PTL DEF ConsoleSpec

=============================================================================
