--------------------------- MODULE MCEtcdCluster ---------------------------
\* Instances of EtcdCluster for TLC.
EXTENDS EtcdCluster

\* No path is a prefix of another one.
PlainPaths == [k \in Keys |-> {k}]
============================================================================
