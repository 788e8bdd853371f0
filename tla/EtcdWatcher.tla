----------------------------- MODULE EtcdWatcher -----------------------------
(***************************************************************************)
(* The etcd watchers (etcdcli/etcd_watcher.cpp): each one reads a          *)
(* directory with a range request, then follows it with a watch request    *)
(* from the revision after the last one it knows, and starts again where   *)
(* it was when a request fails, ends or is cancelled.                      *)
(*                                                                         *)
(* The server is the sequence of its changes: the revision of a cluster is *)
(* one more than their number, and what an answer holds follows from its   *)
(* revision.  A range request is answered with the state at any revision   *)
(* since it was sent, a watch sends the changes in order and as late as it *)
(* likes.  The handler of the events is the composing module's: a step     *)
(* that delivers some names them with `Snapshot' or `Changes'.             *)
(*                                                                         *)
(* A watcher with no request in flight waits for tick(), which processes   *)
(* it once its retry interval is over.                                     *)
(***************************************************************************)
EXTENDS Integers, FiniteSets, FiniteSetsExt, Functions, Sequences, SequencesExt

CONSTANTS
    Clusters,       \* the etcd clusters
    Watchers,
    CtxOf, DirOf,   \* the cluster and the directory of each watcher
    Keys, Values,   \* what the directories hold
    Writes,         \* for each cluster, the pairs of key and value it may get
    Nothing,        \* no value
    NotifiedAhead,  \* an answer without events has the newest revision of the server
    Compacting,     \* the clusters that compact their history
    MaxChanges,     \* bound: changes of all the clusters together
    MaxUpsets       \* bound: requests that fail or end, compactions and resets

VARIABLES
    log,        \* the server: its changes
    floor,      \* the server: the revision it has compacted up to
    watch,      \* the watchers
    seen,       \* what the events a watcher has delivered add up to
    upsets      \* what went wrong so far

Now(c) == Len(log[c]) + 1

Change == [dirs : SUBSET {DirOf[w] : w \in Watchers}, key : Keys, val : Values \cup {Nothing}]

\* rpc: "off" (not created or removed), "none", a range request of the whole
\* directory, one of the path only ("probe", to renew the token), a watch, and
\* one stopped by the watcher.  `at' is the revision at which a range request
\* was sent or up to which a watch has sent its events.
WatcherRec ==
    [rpc : {"off", "none", "range", "probe", "watch", "stopped"},
     rev : Nat, retry : BOOLEAN, at : Nat]

Off == [rpc |-> "off", rev |-> 0, retry |-> FALSE, at |-> 0]
Created0 == [Off EXCEPT !.rpc = "none"]

\* The number of the last change of a key in a directory up to a revision.
LastChange(c, d, k, r) ==
    Max({0} \cup {n \in 1 .. r - 1 : d \in log[c][n].dirs /\ log[c][n].key = k})

\* What a directory holds under a key at a revision.
ValueAt(c, d, k, r) ==
    LET n == LastChange(c, d, k, r) IN IF n = 0 THEN Nothing ELSE log[c][n].val

StateAt(c, d, r) == [k \in Keys |-> ValueAt(c, d, k, r)]

\* The events of a range answer and of a watch answer, in their order; `ver' is
\* the mod_revision.
Snapshot(w, r) ==
    LET state == StateAt(CtxOf[w], DirOf[w], r)
        held == SetToSeq({k \in Keys : state[k] # Nothing})
    IN [i \in 1 .. Len(held) |-> [key |-> held[i], val |-> state[held[i]],
          ver |-> LastChange(CtxOf[w], DirOf[w], held[i], r) + 1]]

\* The numbers of the changes that a watch has not sent and that come before r.
Unsent(w, r) ==
    {n \in watch[w].at .. r - 1 : DirOf[w] \in log[CtxOf[w]][n].dirs}

Changes(w, r) ==
    LET c == CtxOf[w]
        unsent == Unsent(w, r)
        ns == CHOOSE f \in [1 .. Cardinality(unsent) -> unsent] :
                  \A i, j \in DOMAIN f : i < j => f[i] < f[j]
    IN [i \in 1 .. Len(ns) |-> [key |-> log[c][ns[i]].key, val |-> log[c][ns[i]].val, ver |-> ns[i] + 1]]

-----------------------------------------------------------------------------
(* The server. *)

MayChange == FoldFunction(LAMBDA l, n : Len(l) + n, 0, log) < MaxChanges

\* A key is put into directories of a cluster, or deleted from them (from all
\* of them when its lease ends).
ServerPut(c, ds) ==
    /\ MayChange
    /\ \E kv \in Writes[c] :
        /\ \A d \in ds : ValueAt(c, d, kv[1], Now(c)) # kv[2]
        /\ log' = [log EXCEPT ![c] =
                       Append(@, [dirs |-> ds, key |-> kv[1], val |-> kv[2]])]
    /\ UNCHANGED <<floor, watch, seen, upsets>>

ServerDelete(c, ds) ==
    /\ MayChange
    /\ \E k \in Keys :
        /\ \A d \in ds : ValueAt(c, d, k, Now(c)) # Nothing
        /\ log' = [log EXCEPT ![c] =
                       Append(@, [dirs |-> ds, key |-> k, val |-> Nothing])]
    /\ UNCHANGED <<floor, watch, seen, upsets>>

ServerCompact(c) ==
    /\ c \in Compacting /\ floor[c] < Now(c) /\ upsets < MaxUpsets
    /\ floor' = [floor EXCEPT ![c] = Now(c)]
    /\ upsets' = upsets + 1
    /\ UNCHANGED <<log, watch, seen>>

-----------------------------------------------------------------------------
(* The watchers. *)

\* process(), with the retry interval over and no request in flight.
Process(x, now) ==
    IF x.rev = 0 \/ x.retry
    THEN [x EXCEPT !.rpc = IF x.retry THEN "probe" ELSE "range",
                   !.at = IF x.retry THEN 0 ELSE now]
    ELSE [x EXCEPT !.rpc = "watch", !.at = x.rev]

\* active() from the tick of the cluster.
Poll(w) ==
    /\ watch[w].rpc = "none"
    /\ watch' = [watch EXCEPT ![w] = Process(@, Now(CtxOf[w]))]
    /\ UNCHANGED <<log, floor, seen, upsets>>

\* libcurl_callback_on_range_completed() in retry mode.
ProbeAnswered(w) ==
    /\ watch[w].rpc = "probe"
    /\ watch' = [watch EXCEPT ![w] =
                     Process([@ EXCEPT !.retry = FALSE], Now(CtxOf[w]))]
    /\ UNCHANGED <<log, floor, seen, upsets>>

\* libcurl_callback_on_range_completed(): the answer has revision r.
RangeAnswered(w, r) ==
    /\ watch[w].rpc = "range" /\ r \in watch[w].at .. Now(CtxOf[w])
    /\ watch' = [watch EXCEPT ![w] = Process([@ EXCEPT !.rev = r], r)]
    /\ seen' = [seen EXCEPT ![w] = StateAt(CtxOf[w], DirOf[w], r)]
    /\ UNCHANGED <<log, floor, upsets>>

\* A range request fails or its answer cannot be used.
RangeFails(w) ==
    /\ watch[w].rpc \in {"range", "probe"} /\ upsets < MaxUpsets
    /\ watch' = [watch EXCEPT ![w].rpc = "none", ![w].at = 0]
    /\ upsets' = upsets + 1
    /\ UNCHANGED <<log, floor, seen>>

\* libcurl_callback_on_watch_write() of an answer without events: the watch is
\* created, or still there (progress_notify).  Its revision is stored too.
WatchNotified(w) ==
    /\ watch[w].rpc = "watch"
    /\ watch' = [watch EXCEPT ![w].rev = IF NotifiedAhead THEN Now(CtxOf[w]) ELSE watch[w].at]
    /\ UNCHANGED <<log, floor, seen, upsets>>

\* Slip: the newest revision of the server is stored, whatever the answer holds.
SlipWatchWrite(w, r) ==
    /\ watch[w].rpc = "watch"
    /\ watch[w].at + 1 >= floor[CtxOf[w]]
    /\ r \in watch[w].at + 1 .. Now(CtxOf[w])
    /\ watch' = [watch EXCEPT ![w].rev = Now(CtxOf[w]), ![w].at = r]
    /\ seen' = [seen EXCEPT ![w] = StateAt(CtxOf[w], DirOf[w], r)]
    /\ UNCHANGED <<log, floor, upsets>>

\* libcurl_callback_on_watch_write(): the changes up to revision r.
WatchWrite(w, r) ==
    /\ watch[w].rpc = "watch"
    /\ watch[w].at + 1 >= floor[CtxOf[w]]
    /\ r \in watch[w].at + 1 .. Now(CtxOf[w])
    /\ watch' = [watch EXCEPT ![w].rev = r, ![w].at = r]
    /\ LET Hits(k) == {n \in Unsent(w, r) : log[CtxOf[w]][n].key = k}
       IN seen' = [seen EXCEPT ![w] = [k \in Keys |->
                      IF Hits(k) = {} THEN seen[w][k]
                      ELSE log[CtxOf[w]][Max(Hits(k))].val]]
    /\ UNCHANGED <<log, floor, upsets>>

\* libcurl_callback_on_watch_write(): the changes are compacted and the watch
\* is cancelled; a revision below the compacted one is forgotten.
WatchCancelled(w) ==
    /\ watch[w].rpc = "watch"
    /\ watch[w].at + 1 < floor[CtxOf[w]]
    /\ watch' = [watch EXCEPT ![w].rpc = "stopped", ![w].at = 0,
                     ![w].rev = IF @ < floor[CtxOf[w]] THEN 0 ELSE @]
    /\ UNCHANGED <<log, floor, seen, upsets>>

\* libcurl_callback_on_watch_completed(): the next request is made at once
\* (a timeout, a regular end) or after the retry interval.
WatchCompleted(w, later) ==
    /\ \/ watch[w].rpc = "stopped" /\ upsets' = upsets
       \/ watch[w].rpc = "watch" /\ upsets < MaxUpsets
          /\ upsets' = upsets + 1
    /\ watch' = [watch EXCEPT ![w] =
                     LET x == [@ EXCEPT !.rpc = "none", !.retry = TRUE, !.at = 0]
                     IN IF later THEN x ELSE Process(x, Now(CtxOf[w]))]
    /\ UNCHANGED <<log, floor, seen>>

\* close(), by remove_watcher().
Closed(ws) ==
    /\ watch' = [w \in Watchers |-> IF w \in ws THEN Off ELSE watch[w]]
    /\ seen' = [w \in Watchers |-> IF w \in ws THEN [k \in Keys |-> Nothing] ELSE seen[w]]

-----------------------------------------------------------------------------
\* The state is well formed.
WatcherTypeOK ==
    /\ log \in [Clusters -> Seq(Change)]
    /\ floor \in [Clusters -> Nat]
    /\ watch \in [Watchers -> WatcherRec]
    /\ seen \in [Watchers -> [Keys -> Values \cup {Nothing}]]
    /\ upsets \in 0 .. MaxUpsets

\* What a watcher has delivered adds up to its directory at the last revision
\* it knows: no break, retry, cancelled watch or late answer makes it miss a
\* change or deliver one out of order.
NothingSkipped ==
    \A w \in Watchers :
        watch[w].rev # 0 =>
            seen[w] = StateAt(CtxOf[w], DirOf[w], watch[w].rev)

\* No request and no wait for a tick lasts for ever.
Served(w) ==
    /\ \A rpc \in {"none", "range", "probe", "stopped"} : []<>(watch[w].rpc # rpc)
    /\ []<>(watch[w].rpc = "watch" => watch[w].at = Now(CtxOf[w]))
=============================================================================
