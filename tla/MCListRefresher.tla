--------------------------- MODULE MCListRefresher ---------------------------
EXTENDS ListRefresher

CONSTANTS u1, d1, d2, plain, hosts

MCServes == [u \in Urls |-> Docs]

\* Two versions of a document; in the wrong format one has no domains and the
\* other has domains that are not meant.
MCParse(d, f) ==
    CASE d = d1 /\ f = plain -> {"a"}
      [] d = d2 /\ f = plain -> {"b"}
      [] d = d1 /\ f = hosts -> {}
      [] d = d2 /\ f = hosts -> {"c"}
=============================================================================
