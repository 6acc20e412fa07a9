--------------------------- MODULE MCPtrResolver ---------------------------
(***************************************************************************)
(* The resolver in two situations, one of which a behaviour is in: a       *)
(* client whose name changes while its rows are filled in, or two clients  *)
(* that contend for the worker.                                            *)
(***************************************************************************)
EXTENDS PtrResolver

CONSTANTS c1, n2

VARIABLE contended

OneClient ==
    /\ \A c \in Clients \ {c1} : c \notin observed /\ identities[c] = NoName
    /\ \A i \in DOMAIN log : log[i].client = c1
OneNameNoRows == log = <<>> /\ \A c \in Clients : identities[c] # n2

Situation == IF contended THEN OneNameNoRows ELSE OneClient

MCInit == Init /\ contended \in BOOLEAN /\ Situation
MCNext == Next /\ UNCHANGED contended /\ Situation'

\* The thread can go on in either situation: no lookup has to find n2.
MCSpec == MCInit /\ [][MCNext]_<<vars, contended>> /\ Fairness
=============================================================================
