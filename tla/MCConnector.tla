----------------------------- MODULE MCConnector -----------------------------
(* Three messages of users, for TLC. *)
EXTENDS ConnectorProperties

CONSTANTS m1, m2, m3

Written(m) == said[m].kind # "none"

\* Messages are named in the order in which they are written.
InOrder == (Written(m2) => Written(m1)) /\ (Written(m3) => Written(m2))

\* Bounds: the thread or the account; text only when there is one message, as
\* every reply has a stream handler of its own; three messages around one request.
OnePlace    == log = <<>> \/ \A m \in Message : at[m] = "none"
TextAlone   == (\E m \in Message : reply[m].fullText > 0) => ~Written(m2)
FewRequests == Written(m3) => Cardinality({m \in Message : request[m].kind # "none"}) <= 1
==============================================================================
