--------------------------- MODULE AdminSessions ---------------------------
(***************************************************************************)
(* The administrator's credentials and sessions: AuthManager of            *)
(* app/auth.py with the handlers for sign-in, sign-out and a change of     *)
(* credentials in app/main.py.  Every statement is committed by itself, so *)
(* the checks, changes and insertions of several requests interleave.      *)
(*                                                                         *)
(* There is one administrator.  Credentials are the number of the change   *)
(* that set them.  Requests that only read are their look at the session.  *)
(***************************************************************************)
EXTENDS Naturals, FiniteSets

CONSTANTS
    Visitors,     \* requests of the console
    MaxTokens,    \* bound: sessions that are ever created
    MaxChanges,   \* bound: changes of credentials
    MaxFaults     \* bound: statements that fail

VARIABLES
    credentials,  \* admin_users
    sessions,     \* admin_sessions
    visitor,      \* the requests
    issued,       \* tokens so far; a token is its number
    undeleted,    \* history: the DELETE of the last change failed
    sessionFaults

sessionVars == <<credentials, sessions, visitor, issued, undeleted, sessionFaults>>

\* late is history: who had been let in when a change deleted the sessions.
Session == [token : 1..MaxTokens, by : 0..MaxChanges, late : BOOLEAN, expired : BOOLEAN]
Resting == [pc |-> "idle", by |-> 0, late |-> FALSE]

Init ==
    /\ credentials = 0 /\ sessions = {} /\ issued = 0 /\ undeleted = FALSE
    /\ visitor = [v \in Visitors |-> Resting] /\ sessionFaults = 0

Fault == sessionFaults < MaxFaults /\ sessionFaults' = sessionFaults + 1
Go(v, pc, by) ==
    visitor' = [visitor EXCEPT ![v] = [pc |-> pc, by |-> by, late |-> FALSE]]
Finish(v) == visitor' = [visitor EXCEPT ![v] = Resting]

-----------------------------------------------------------------------------

\* authenticate(): the password is that of the row.
SignIn(v) ==
    /\ visitor[v].pc = "idle" /\ Go(v, "create", credentials)
    /\ UNCHANGED <<credentials, sessions, issued, undeleted, sessionFaults>>

\* create_session(), after a sign-in and at the end of a change.
CreateSession(v) ==
    /\ visitor[v].pc = "create" /\ Finish(v)
    /\ issued < MaxTokens /\ issued' = issued + 1
    /\ sessions' = sessions \cup {[token |-> issued', by |-> visitor[v].by,
                                   late |-> visitor[v].late, expired |-> FALSE]}
    /\ UNCHANGED <<credentials, undeleted, sessionFaults>>

\* A statement fails and ends the request; what was committed stays.
StatementFails(v) ==
    /\ visitor[v].pc # "idle" /\ Fault /\ Finish(v)
    /\ undeleted' = (undeleted \/ visitor[v].pc = "delete")
    /\ UNCHANGED <<credentials, sessions, issued>>

\* Mutant: the sessions are deleted before the credentials are changed.
FollowsInReverse == [check |-> "delete", delete |-> "update", update |-> "create"]

Follows == [check |-> "update", update |-> "delete", delete |-> "create"]

\* update_admin_credentials(): a request with a session, and the current
\* password, which is compared with the row.
BeginChange(v) ==
    /\ visitor[v].pc = "idle" /\ \E s \in sessions : ~s.expired
    /\ Go(v, Follows.check, credentials)
    /\ UNCHANGED <<credentials, sessions, issued, undeleted, sessionFaults>>

ChangeCredentials(v) ==
    /\ visitor[v].pc = "update" /\ credentials < MaxChanges
    /\ credentials' = credentials + 1 /\ Go(v, Follows.update, credentials')
    /\ UNCHANGED <<sessions, issued, undeleted, sessionFaults>>

DeleteSessions(v) ==
    /\ visitor[v].pc = "delete" /\ sessions' = {}
    /\ visitor' = [w \in Visitors |->
           IF w = v THEN [visitor[v] EXCEPT !.pc = Follows.delete] ELSE
           [visitor[w] EXCEPT !.late = @ \/ visitor[w].pc \in {"create", "delete"}]]
    /\ undeleted' = (undeleted /\ visitor[v].by # credentials)
    /\ UNCHANGED <<credentials, issued, sessionFaults>>

\* delete_session() of a request that is signed in.
SignOut ==
    /\ \E s \in sessions : ~s.expired /\ sessions' = sessions \ {s}
    /\ UNCHANGED <<credentials, visitor, issued, undeleted, sessionFaults>>

\* Time passes; get_session() deletes an expired session when it meets it, and
\* cleanup_sessions() all of them when the process starts.
Expire ==
    /\ \E s \in sessions :
          /\ ~s.expired
          /\ sessions' = (sessions \ {s}) \cup {[s EXCEPT !.expired = TRUE]}
    /\ UNCHANGED <<credentials, visitor, issued, undeleted, sessionFaults>>

MeetExpired ==
    /\ \E s \in sessions : s.expired /\ sessions' = sessions \ {s}
    /\ UNCHANGED <<credentials, visitor, issued, undeleted, sessionFaults>>

RestartSessions ==
    /\ Fault
    /\ sessions' = {s \in sessions : ~s.expired}
    /\ visitor' = [v \in Visitors |-> Resting]
    /\ undeleted' = (undeleted \/ \E v \in Visitors : visitor[v].pc = "delete")
    /\ UNCHANGED <<credentials, issued>>

Visit(v) ==
    \/ SignIn(v) \/ CreateSession(v) \/ StatementFails(v)
    \/ BeginChange(v) \/ ChangeCredentials(v) \/ DeleteSessions(v)
Next ==
    \/ \E v \in Visitors : Visit(v)
    \/ SignOut \/ Expire \/ MeetExpired \/ RestartSessions
Spec == Init /\ [][Next]_sessionVars

-----------------------------------------------------------------------------

SessionsTypeOK ==
    /\ credentials \in 0..MaxChanges /\ issued \in 0..MaxTokens
    /\ sessions \subseteq Session /\ undeleted \in BOOLEAN
    /\ \A s1, s2 \in sessions : s1.token = s2.token => s1 = s2
    /\ \A s \in sessions : s.token <= issued
    /\ \A v \in Visitors : visitor[v].pc \in {"idle", "create", "update", "delete"}

\* Between changes every session was opened under the current credentials
\* (auth.py: "Credential changes invalidate every browser session"), whatever
\* sign-ins, other changes and restarts come in between; except those of
\* requests that had been let in and got their session only after the deletion,
\* and until the next change if the deletion failed.
SessionsAreCurrent ==
    (\A v \in Visitors : visitor[v].pc # "delete") /\ ~undeleted =>
        \A s \in sessions : s.by = credentials \/ s.late
=============================================================================
