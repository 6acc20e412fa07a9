----------------------------- MODULE MCRecovery -----------------------------
(***************************************************************************)
(* What two background threads make good by themselves, each on its own    *)
(* small instance: the recovery of the policy (PolicyEngine) and the       *)
(* reconciler of TLS (TlsManager).  Which of them a behaviour is about is  *)
(* chosen at the start; the other one stays as it is.                      *)
(***************************************************************************)
EXTENDS TlsManager

CONSTANTS h1, h2, recovery, noThread, s1, c1, n1, noName, untouched

VARIABLES part,
    db, snap, lock, pc, want, attempt, rows, base, moved, recording, journal,
    errors, stateLock, pending, unheard, orphaned, edits, faults

policyVars == <<db, snap, lock, pc, want, attempt, rows, base, moved, recording,
                journal, errors, stateLock, pending, unheard, orphaned, edits,
                faults>>
allVars == <<part, policyVars, tlsVars>>

Engine == INSTANCE PolicyEngine WITH
    Handlers <- {h1, h2}, Recovery <- recovery, NoThread <- noThread,
    ScopeIds <- {s1}, Clients <- {c1}, Names <- {n1}, NoName <- noName,
    Untouched <- untouched, AmbiguousCommits <- TRUE,
    InitialLists <- 1, MaxLists <- 2, MaxEdits <- 2, MaxFaults <- 1

\* The form for each mode, with and without what it may upload, and with a host
\* name that is not the one that is saved at first.
FormOf(mode, host, keyId, upload, remove) ==
    [settings |-> [mode |-> mode, host |-> host, keyId |-> keyId],
     upload |-> upload, remove |-> remove]
MCRequests ==
    {FormOf("http", NoHost, FALSE, {}, {"ca", "eab"}),
     FormOf("upload", "a", FALSE, {"cert", "key"}, {}),
     FormOf("upload", "b", FALSE, {"cert", "key"}, {}),
     FormOf("upload", "a", FALSE, {"cert"}, {}),
     FormOf("acme", "a", FALSE, {"ca"}, {"eab"}),
     FormOf("acme", "a", TRUE, {"eab"}, {"ca"})}

RecoveryInit ==
    /\ part \in {"policy", "tls"}
    /\ Engine!Init /\ (part # "policy" => db.assign[s1] = {} /\ db.names[c1] = n1)
    /\ Init /\ saved.host # "b" /\ (part # "tls" => saved = Http)

\* Steps and fairness concern the part of the behaviour.
Policy(A) == part = "policy" /\ A /\ UNCHANGED <<part, tlsVars>>
Manager(A) == part = "tls" /\ A /\ UNCHANGED <<part, policyVars>>

RecoveryNext == Policy(Engine!Next) \/ Manager(Next)

\* The fairness of both, as their modules state and explain it.
RecoveryFairness ==
    /\ WF_allVars(Policy(\E t \in Engine!Threads : Engine!Enter(t)))
    /\ \A t \in Engine!Threads : WF_allVars(Policy(Engine!Rebuild(t)))
    /\ \A t \in {h1, h2} : /\ WF_allVars(Policy(Engine!FlushCommit(t)))
                           /\ WF_allVars(Policy(Engine!FlushCallback(t)))
    /\ WF_allVars(Policy(Engine!ManagerCallback))
    /\ WF_allVars(Policy(Engine!RecoveryWakes))
    /\ WF_allVars(Manager(Proceeds))
    /\ WF_allVars(Manager(Reconcile))
    /\ WF_allVars(Manager(Returns))
RecoverySpec == RecoveryInit /\ [][RecoveryNext]_allVars /\ RecoveryFairness

-----------------------------------------------------------------------------

\* Once commits and errors stop, every change whose handler lived to call the
\* engine is active and no failure is left on record (app/policy.py).
EventuallyActive == Engine!EventuallyActive

\* Whenever the behaviour is about TLS, Caddy comes to run what is saved, as
\* TlsManager states it (app/tls.py).
CaddyIsServed == part = "tls" => EventuallyServed
=============================================================================
