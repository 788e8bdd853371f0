--------------------------- MODULE MCAtbusConnector ---------------------------
(* AtbusConnector for TLC: the upstream and two nodes below it. *)
EXTENDS AtbusConnector, TLC

CONSTANTS up, near, far

\* Below the same upstream as this node: a neighbour, and a node below it that
\* may also move to the common upstream.
MCUpstreams == (up :> {None}) @@ (near :> {up}) @@ (far :> {near, Self})

\* The run is one of the instances the proofs about the links are about.
ASSUME MCShallow == Shallow
=============================================================================
