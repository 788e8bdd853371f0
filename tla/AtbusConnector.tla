--------------------------- MODULE AtbusConnector ---------------------------
(***************************************************************************)
(* The atbus connector (connectors/atapp_connector_atbus.cpp): the table   *)
(* handles_ of connection handles by bus id, the proxy links between them, *)
(* the reconnect and lost-topology timers, and the reactions to endpoints  *)
(* of the bus, to topology and to discovery events.                        *)
(*                                                                         *)
(* Everything runs on the thread of the app, so a handler is one step, but *)
(* handlers call each other, and the bus calls on_remove_endpoint() back   *)
(* from inside disconnect().  A helper is therefore an operator from a     *)
(* view of the state (a record of the variables) to the view after it, and *)
(* an action applies the helpers in the order of the code.                 *)
(*                                                                         *)
(* Times are counted from now: `next' and `lostIn' are the time left until *)
(* reconnect_next_timepoint and lost_topology_timeout (0: not in the       *)
(* future), `timer' the time left until the pending timer fires.  The      *)
(* handle of the node itself is left out: the app sends to itself over the *)
(* loopback connector.                                                     *)
(***************************************************************************)
EXTENDS Integers

CONSTANTS
    Peers,          \* the bus ids of the other nodes
    Up,             \* the upstream this node is configured with
    Self, None,     \* this node's bus id; the bus id 0
    Absent,         \* no peer of that id in the topology registry
    Upstreams,      \* for each peer, the upstreams its topology may name
    Targets,        \* the peers the app sends to
    Settled,        \* the peers whose topology is known and stays
    Allowed,        \* the peers that check_policy() accepts
    Connectable,    \* the peers with a gateway that can be connected to
    DirectAllowed,  \* allow_direct_connection
    SameUpstreamOnly, \* require_same_upstream
    MaxTry,         \* reconnect_max_try_times (0: no limit)
    StartInterval, MaxInterval, \* the reconnect back-off
    LostTimeout,    \* lost_topology_timeout
    MaxFaults       \* bound: events that take something away

ASSUME ConnectorConstants ==
    /\ Up \in Peers
    /\ Self \notin Peers /\ None \notin Peers /\ Absent \notin Peers
    /\ \A b \in Peers : Upstreams[b] \subseteq Peers \cup {Self, None}
    /\ Targets \subseteq Peers /\ Settled \subseteq Peers
    /\ Allowed \subseteq Peers /\ Connectable \subseteq Peers
    /\ DirectAllowed \in BOOLEAN /\ SameUpstreamOnly \in BOOLEAN
    /\ MaxTry \in Nat
    /\ StartInterval \in Nat \ {0} /\ MaxInterval \in Nat \ {0}
    /\ LostTimeout \in Nat \ {0} /\ MaxFaults \in Nat

\* The trees the properties of the proxy links are about: a peer is reached
\* over the upstream, or over one relay and the upstream (bind_connection_
\* handle_proxy() can lose a proxy where more of them are linked in a row).
Relays == {x \in Peers : x # Up /\ Upstreams[x] \subseteq {Up, Self, None}}
Shallow ==
    /\ Upstreams[Up] \subseteq {Self, None}
    /\ \A b \in Peers : Upstreams[b] \subseteq Relays \cup {Up, Self, None}

VARIABLES
    handles,    \* handles_: a function on the bus ids that have a handle
    ep,         \* the bus endpoint of each peer
    dial,       \* the peers the last step called node->connect() for
    topo,       \* the topology registry: the upstream of each peer
    disc,       \* the peers the global discovery set knows
    faults      \* how many events took something away

vars == <<handles, ep, dial, topo, disc, faults>>

NoTimer == -1
Times == (0 .. StartInterval) \cup (0 .. MaxInterval) \cup (0 .. LostTimeout)

\* What the table keeps of a bus id.  `app' is app_handle: none, a handle that
\* carries the bus id ("tagged"), one that does not ("loose"), or a loose one
\* the endpoint has closed.  `told' is the ready flag of app_handle.
Handle ==
    [app : {"none", "tagged", "loose", "closed"}, told : BOOLEAN,
     active : BOOLEAN, wait : BOOLEAN, lost : BOOLEAN, ready : BOOLEAN,
     tries : IF MaxTry > 0 THEN 0 .. MaxTry ELSE Nat, next : Times, lostIn : Times,
     up : Peers \cup {Self, None}, proxy : Peers \cup {None},
     for : SUBSET Peers, timer : Times \cup {NoTimer}]

\* The view of the state a handler works on; `pend' are the peers whose app
\* endpoint has pending messages.
View(pend) ==
    [h |-> handles, ep |-> ep, dial |-> {}, topo |-> topo, disc |-> disc,
     pend |-> pend]

\* need_keep_handle() asks for it only where kActiveConnection is not set.
Pending ==
    SUBSET {b \in DOMAIN handles : /\ handles[b].app \in {"tagged", "loose"}
                                   /\ ~handles[b].active}

Become(s) ==
    \E t \in {s} : /\ handles' = t.h /\ ep' = t.ep /\ dial' = t.dial
                   /\ topo' = t.topo /\ disc' = t.disc

Has(s, b) == b \in DOMAIN s.h
Available(s, b) == s.ep[b] = "available"

-----------------------------------------------------------------------------
(* Links.  What a walk along them comes to is the least set that holds where *)
(* it starts and whatever a link leads to from one of its members.           *)

Closure(roots, next) ==
    {x \in Peers :
        \A V \in SUBSET Peers :
           roots \subseteq V /\ (\A y \in V : next[y] \subseteq V) => x \in V}

-----------------------------------------------------------------------------
(* The topology as the registry of the bus node computes it. *)

\* b and the peers above it, as far as the registry knows them.
Above(s, b) ==
    Closure({b}, [x \in Peers |-> {u \in Peers : u = s.topo[x] /\ s.topo[u] # Absent}])

Relation(s, b) ==
    IF s.topo[b] = Absent THEN "invalid"
    ELSE IF b \in Above(s, Up) THEN "upstream"
    ELSE IF \E x \in Above(s, b) : s.topo[x] = Self THEN "downstream"
    ELSE IF s.topo[b] = Up THEN "same" ELSE "other"

InTree(s, b) == Relation(s, b) \in {"upstream", "downstream"}

\* The peer a message for an upstream or a downstream node goes to first.
NextHop(s, b) ==
    IF Relation(s, b) = "upstream" THEN Up
    ELSE CHOOSE x \in Above(s, b) : s.topo[x] = Self

-----------------------------------------------------------------------------
(* Timers. *)

\* need_timer()
NeedTimer(s, b) ==
    s.h[b].lost \/ (~s.h[b].ready /\ ~Available(s, b))

\* update_timer(): an earlier pending timer is kept.
UpdateTimer(s, b, t) ==
    IF s.h[b].timer # NoTimer /\ s.h[b].timer <= t THEN s
    ELSE [s EXCEPT !.h[b].timer = t]

\* remove_timer(), if need_timer() says so.
DropTimer(s, b) ==
    IF NeedTimer(s, b) THEN s ELSE [s EXCEPT !.h[b].timer = NoTimer]

\* set_handle_lost_topology()
SetLost(s, b) ==
    IF s.h[b].lost THEN s
    ELSE UpdateTimer([s EXCEPT !.h[b].lost = TRUE, !.h[b].lostIn = LostTimeout],
                     b, LostTimeout)

\* set_handle_waiting_discovery()
SetWaiting(s, b) ==
    IF \/ Relation(s, b) \in {"upstream", "downstream"}
       \/ s.h[b].proxy # None
       \/ Available(s, b)
    THEN s ELSE [s EXCEPT !.h[b].wait = TRUE]

-----------------------------------------------------------------------------
(* Readiness spreads along the proxy links. *)

\* The handles that set_handle_ready() and set_handle_unready() come to: b and
\* what is reached through handles whose flag is not yet v.
Spread(s, b, v) ==
    IF ~Has(s, b) \/ s.h[b].ready = v THEN {}
    ELSE Closure({b}, [x \in Peers |-> {d \in DOMAIN s.h :
                          Has(s, x) /\ d \in s.h[x].for /\ s.h[d].ready # v}])

\* Slip: the timer goes although the topology is lost.
SlipSetReady(s, b) ==
    LET V == Spread(s, b, TRUE)
        R(x) == [s.h[x] EXCEPT !.ready = TRUE, !.tries = 0, !.next = 0,
                               !.told = (s.h[x].app \in {"tagged", "loose"}),
                               !.for = @ \cap DOMAIN s.h,
                               !.timer = NoTimer]
    IN [s EXCEPT !.h = [x \in DOMAIN @ |-> IF x \in V THEN R(x) ELSE @[x]]]

\* set_handle_ready()
SetReady(s, b) ==
    LET V == Spread(s, b, TRUE)
        R(x) == [s.h[x] EXCEPT !.ready = TRUE, !.tries = 0, !.next = 0,
                               !.told = (s.h[x].app \in {"tagged", "loose"}),
                               !.for = @ \cap DOMAIN s.h,
                               !.timer = IF s.h[x].lost THEN @ ELSE NoTimer]
    IN [s EXCEPT !.h = [x \in DOMAIN @ |-> IF x \in V THEN R(x) ELSE @[x]]]

\* Slip: only the handle itself, not the handles behind it.
SlipSetUnready(s, b) ==
    IF ~Has(s, b) \/ ~s.h[b].ready THEN s
    ELSE [s EXCEPT !.h[b].ready = FALSE, !.h[b].told = FALSE]

\* set_handle_unready()
SetUnready(s, b) ==
    LET V == Spread(s, b, FALSE)
        U(x) == [s.h[x] EXCEPT !.ready = FALSE, !.told = FALSE,
                               !.for = @ \cap DOMAIN s.h]
    IN [s EXCEPT !.h = [x \in DOMAIN @ |-> IF x \in V THEN U(x) ELSE @[x]]]

-----------------------------------------------------------------------------
(* Handles. *)

\* need_keep_handle()
NeedKeep(s, b) ==
    \/ s.h[b].active
    \/ s.h[b].for # {}
    \/ s.h[b].app \in {"tagged", "loose"} /\ b \in s.pend

\* mutable_connection_handle(): only a handle that is created here gives the
\* app handle its bus id.  a is the app handle passed in: "null", "new", or
\* "same" for the one the table already holds.
Mutable(s, b, a) ==
    IF Has(s, b)
    THEN IF a = "new"
         THEN [s EXCEPT !.h[b].app = "loose", !.h[b].told = FALSE] ELSE s
    ELSE LET new == [app |-> IF a = "null" THEN "none" ELSE "tagged",
                     told |-> FALSE, active |-> FALSE, wait |-> FALSE,
                     lost |-> FALSE, ready |-> FALSE, tries |-> 0, next |-> 0,
                     lostIn |-> 0,
                     up |-> IF s.topo[b] = Absent THEN None ELSE s.topo[b],
                     proxy |-> None, for |-> {}, timer |-> NoTimer]
             t == [s EXCEPT !.h = [x \in DOMAIN @ \cup {b} |->
                                      IF x = b THEN new ELSE @[x]]]
         IN IF s.topo[b] = Absent THEN SetLost(t, b) ELSE t

-----------------------------------------------------------------------------
(* Where a connection goes to. *)

\* Slip: the policy is not asked for the peers on the way.
SlipUsable(s, p, a) ==
    s.ep[p] # "none" \/ p \notin s.disc \/ (p \in Connectable /\ a)

\* The peer on the way to b a direct connection would go to: it is connected,
\* or nothing is known of its gateways yet, or one of them can be connected to.
Usable(s, p, a) ==
    /\ s.topo[p] # Absent => p \in Allowed
    /\ s.ep[p] # "none" \/ p \notin s.disc \/ (p \in Connectable /\ a)

\* The outcome of the loop over b and its upstreams: the first peer that can be
\* used, "deny" or "next".  Without a proxy only b itself will do.
DirectTarget(s, b, hasHandle, proxyOK) ==
    LET ok == {p \in Above(s, b) : Usable(s, p, hasHandle)}
        first == {p \in ok : ok \subseteq Above(s, p)}
    IN IF proxyOK THEN IF first = {} THEN "next" ELSE CHOOSE p \in first : TRUE
       ELSE IF s.topo[b] # Absent /\ b \notin Allowed THEN "deny"
       ELSE IF b \in ok THEN b
       ELSE IF Above(s, b) # {b} THEN "deny" ELSE "next"

\* The peer of the direct connection try_connect_to() starts, if any
Direct(s, b, a, proxyOK) ==
    LET rel == Relation(s, b)
    IN IF /\ rel \in {"same", "other", "invalid"} /\ DirectAllowed
          /\ SameUpstreamOnly => rel = "same"
       THEN DirectTarget(s, b, a = "new" \/ (a = "same" /\ s.h[b].app # "none"), proxyOK)
       ELSE "next"

-----------------------------------------------------------------------------
(* Removing handles.  Disconnecting a proxy calls on_remove_endpoint() back, *)
(* which removes its handle too or reconnects it; a handle that is removed   *)
(* leaves its own proxy and takes the handles behind it along.  The calls    *)
(* nest as deep as the proxies are linked; what they come to is stated here  *)
(* as a whole.                                                               *)

\* reconnect_start_interval doubled for every try, up to the maximum
Backoff[n \in Nat] ==
    IF n = 0 THEN StartInterval
    ELSE LET twice == 2 * Backoff[n - 1]
         IN IF twice >= MaxInterval THEN MaxInterval ELSE twice

\* setup_reconnect_timer(), for a handle with tries left
Exhausted(s, b) == MaxTry > 0 /\ s.h[b].tries >= MaxTry

Retime(s, b, previous) ==
    LET run == Backoff[s.h[b].tries]
    IN UpdateTimer([s EXCEPT !.h[b].tries = @ + 1, !.h[b].next = run], b,
                   IF previous = NoTimer \/ run < previous THEN run ELSE previous)

\* on_remove_endpoint() for a handle b whose endpoint is gone: the handle is to
\* be removed, or kept.  The back-off of a kept one is running, so that the
\* try_direct_reconnect() at the end dials nobody.
Lapse(s, b) ==
    LET h == s.h[b]
        t == IF h.next = 0 THEN Retime(s, b, NoTimer) ELSE s
        waits == h.lost \/ h.wait \/ Relation(s, b) \notin {"same", "other"}
                 \/ h.ready \/ h.proxy # None
    IN IF ~NeedKeep(s, b) \/ (h.next = 0 /\ Exhausted(s, b))
       THEN [s |-> s, gone |-> TRUE]
       ELSE IF waits THEN [s |-> t, gone |-> FALSE]
       ELSE IF b \notin s.disc THEN [s |-> [t EXCEPT !.h[b].wait = TRUE], gone |-> FALSE]
       ELSE [s |-> t, gone |-> Direct(s, b, "same", FALSE) = "deny"]

\* The proxy of x, if x is all that keeps it connected
Sheds(s, x) ==
    {p \in DOMAIN s.h : /\ Has(s, x) /\ p = s.h[x].proxy /\ p # Up
                        /\ s.h[p].for \subseteq {x} /\ ~s.h[p].active
                        /\ s.ep[p] # "none"}

\* p is no longer kept once it is disconnected.
Gone(s, p) ==
    Has(s, p) /\ Lapse([s EXCEPT !.ep[p] = "none", !.h[p].for = {}], p).gone

\* The peers that are disconnected when p is: where a handle goes, so does the
\* proxy only it needs, and so on.
Off(s, p) == Closure({p}, [x \in Peers |-> IF Gone(s, x) THEN Sheds(s, x) ELSE {}])

\* The endpoints of off are disconnected, and of these the handles of gone
\* leave the table and their proxies.
Cut(s, off, gone) ==
    LET For(x) == {d \in s.h[x].for : d \in gone => s.h[d].proxy # x}
    IN [s EXCEPT !.ep = [x \in Peers |-> IF x \in off THEN "none" ELSE s.ep[x]],
                 !.h = [x \in DOMAIN s.h \ gone |-> [s.h[x] EXCEPT !.for = For(x)]]]

\* Of the endpoints that are disconnected at most one has a handle that stays.
Swept(s, off, gone) ==
    LET kept == off \ gone
        t == Cut(s, off, gone)
    IN IF kept = {} THEN t ELSE Lapse(t, CHOOSE x \in kept : TRUE).s

\* The end of unbind_connection_handle_proxy(): a proxy p nothing needs is
\* disconnected.
Parted(s, p) ==
    LET off == Off(s, p)
    IN IF s.h[p].for # {} \/ s.h[p].active \/ p = Up \/ s.ep[p] = "none" THEN s
       ELSE Swept(s, off, {x \in off : Gone(s, x)})

\* unbind_connection_handle_proxy(): b stays, without a proxy.
Unbind(s, b) ==
    LET p == s.h[b].proxy
    IN IF p = None \/ ~Has(s, p) THEN s
       ELSE Parted([s EXCEPT !.h[b].proxy = None, !.h[p].for = @ \ {b}], p)

\* bind_connection_handle_proxy().  The handle or the new proxy may be gone
\* once the old proxy is left: its links are then those of an object that the
\* table no longer holds.
Linking(s, b, p) ==
    [s EXCEPT !.h = [x \in DOMAIN s.h |->
        IF x = b THEN [s.h[x] EXCEPT !.proxy = p]
        ELSE IF x = p THEN [s.h[x] EXCEPT !.for = @ \cup {b}] ELSE s.h[x]]]

Bind(s, b, p) ==
    IF s.h[b].proxy = p \/ p = b THEN s ELSE Linking(Unbind(s, b), b, p)

\* Slip: the proxy keeps listing the handle that is gone.
SlipLeave(s, b) == [s EXCEPT !.h = [x \in DOMAIN @ \ {b} |-> @[x]]]

\* The first half of remove_connection_handle(): b leaves the table and its
\* proxy.
Leave(s, b) ==
    LET p == s.h[b].proxy
        t == [s EXCEPT !.h = [x \in DOMAIN s.h \ {b} |->
                                IF x = p THEN [s.h[x] EXCEPT !.for = @ \ {b}] ELSE s.h[x]]]
    IN IF Has(t, p) THEN Parted(t, p) ELSE t

\* The second half: the handles behind b are unbound, and removed in turn
\* unless on_close_connection() does not find them.  What was connected for
\* them alone is disconnected.
Drop(s, b, old) ==
    LET behind(x) == {d \in DOMAIN s.h : /\ s.h[d].proxy = x
                                         /\ d \in IF x = b THEN old.for ELSE s.h[x].for}
        falls(x) == {d \in behind(x) : s.h[d].app \notin {"loose", "closed"}}
        gone == Closure(falls(b), [x \in Peers |-> IF Has(s, x) THEN falls(x) ELSE {}])
        unbound == UNION {behind(x) : x \in gone \cup {b}}
        unready == UNION {Spread(s, x, FALSE) : x \in gone}
        idle == {x \in gone \cup {b} : /\ behind(x) # {} /\ x # Up
                                       /\ IF x = b THEN ~old.active ELSE ~s.h[x].active}
        Left(x) == [s.h[x] EXCEPT !.proxy = IF x \in unbound THEN None ELSE @,
                                  !.ready = @ /\ x \notin unready,
                                  !.told = @ /\ x \notin unready]
    IN [s EXCEPT !.h = [x \in DOMAIN s.h \ gone |-> Left(x)],
                 !.ep = [x \in Peers |-> IF x \in idle THEN "none" ELSE s.ep[x]]]

\* remove_connection_handle()
RemoveHandle(s, b) == Drop(Leave(s, b), b, s.h[b])

\* on_close_connection(), called with the app handle of b.
CloseHandle(s, b) ==
    IF s.h[b].app = "tagged" THEN RemoveHandle(SetUnready(s, b), b) ELSE s

\* on_remove_endpoint()
OnRemoveEndpoint(s, b) ==
    IF ~Has(s, b) THEN s
    ELSE LET r == Lapse(s, b) IN IF r.gone THEN RemoveHandle(r.s, b) ELSE r.s

-----------------------------------------------------------------------------
(* Reconnecting. *)

\* setup_reconnect_timer(): done is FALSE when the handle was removed instead.
SetupReconnect(s, b, previous) ==
    IF ~Has(s, b) THEN [s |-> s, done |-> FALSE]
    ELSE IF Exhausted(s, b) THEN [s |-> RemoveHandle(s, b), done |-> FALSE]
    ELSE [s |-> Retime(s, b, previous), done |-> TRUE]

Mark(s, b, ready) == IF ready THEN SetReady(s, b) ELSE SetUnready(s, b)

\* The handles of the peer p on the way to b, and of b
Ends(s, b, p, a) == IF p = b THEN Mutable(s, b, a) ELSE Mutable(Mutable(s, p, "null"), b, a)

\* The end of it for the peer p that is not ready: node->connect(), if the
\* back-off allows it and discovery knows p; was is the endpoint it had.
Pace(s, p, was) ==
    LET idle == s.h[p].next = 0
        Opened(r) == IF ~r.done \/ was # "none" THEN r.s
                     ELSE IF p \notin s.disc THEN SetWaiting(r.s, p)
                     ELSE IF idle THEN [r.s EXCEPT !.dial = @ \cup {p}] ELSE r.s
    IN Opened(IF idle THEN SetupReconnect(s, p, NoTimer) ELSE [s |-> s, done |-> TRUE])

\* on_start_connect_to_same_or_other_upstream_peer() for the peer p it stops
\* at: p is the way to b, and b is as ready as p.
DialPeer(s, b, p, a) ==
    LET ends == Ends(s, b, p, a)
        ready == ends.h[p].ready
        t == Mark(Bind(ends, b, p), b, ready)
    IN IF ready \/ ~Has(t, p) THEN t ELSE Pace(t, p, s.ep[p])

\* on_start_connect_to_connected_endpoint(), for an endpoint that exists
ConnectedEndpoint(s, b, a) ==
    Mark(Mutable(s, b, a), b, Available(s, b))

\* on_start_connect_to_upstream_peer(), ..._downstream_peer() and
\* ..._proxy_by_upstream(): p carries the messages for b.
TreePeer(s, b, p, a) ==
    LET t == Bind(Mutable(Mutable(s, p, "null"), b, a), b, p)
    IN Mark(t, b, Available(t, p))

\* try_connect_to(): an endpoint that exists, a direct connection, the
\* upstream or downstream the topology names, else a proxy by the upstream.
Reach(s, b, a, proxyOK, target) ==
    IF s.ep[b] # "none"
    THEN [s |-> ConnectedEndpoint(s, b, a), res |-> "success"]
    ELSE IF target = "deny" THEN [s |-> s, res |-> "deny"]
    ELSE IF target # "next"
    THEN [s |-> DialPeer(s, b, target, a), res |-> "success"]
    ELSE IF ~InTree(s, b) /\ (~proxyOK \/ s.ep[Up] = "none")
    THEN [s |-> s, res |-> "no_address"]
    ELSE [s |-> TreePeer(s, b, IF InTree(s, b) THEN NextHop(s, b) ELSE Up, a),
          res |-> "success"]

TryConnectTo(s, b, a, proxyOK) == Reach(s, b, a, proxyOK, Direct(s, b, a, proxyOK))

\* try_direct_reconnect(): try_connect_to() without a proxy
TryDirectReconnect(s, b) ==
    IF \/ s.h[b].ready \/ s.h[b].lost \/ s.h[b].wait
       \/ InTree(s, b) \/ s.h[b].proxy # None
    THEN s
    ELSE IF b \notin s.disc THEN [s EXCEPT !.h[b].wait = TRUE]
    ELSE TryConnectTo(s, b, "same", FALSE).s

-----------------------------------------------------------------------------
(* The handlers. *)

Init ==
    /\ handles = << >> /\ dial = {} /\ faults = 0
    /\ ep = [b \in Peers |-> "none"]
    /\ topo \in [Peers -> Peers \cup {Self, None, Absent}]
    /\ \A b \in Peers : topo[b] \in IF b \in Settled THEN Upstreams[b] ELSE {Absent}
    /\ \A b \in Peers : topo[b] \in Peers => b \notin Above([topo |-> topo], topo[b])
    /\ disc = {}

\* on_start_connect() with a new app handle: the flag is set on the handle the
\* bus id of the app handle names.  The caller drops an app handle that the
\* table does not hold.  A call answered from the cache last_connect_* changes
\* nothing: it is a stuttering step.
Connect(b) ==
    /\ b \in disc
    /\ Has(View({}), b) => handles[b].app \in {"none", "closed"}
    /\ \E pend \in Pending :
          \E r \in {TryConnectTo(View(pend), b, "new", TRUE).s} :
             Become(IF Has(r, b) /\ r.h[b].app = "tagged"
                    THEN [r EXCEPT !.h[b].active = TRUE] ELSE r)

\* The app closes its handle: on_close_connection() finds the table's entry by
\* the bus id the app handle carries.
Close(b) ==
    /\ Has(View({}), b) /\ handles[b].app \in {"tagged", "loose"}
    /\ \E pend \in Pending :
          LET s == View(pend)
          IN Become(IF s.h[b].app = "tagged" THEN CloseHandle(s, b)
                    ELSE [s EXCEPT !.h[b].app = "closed", !.h[b].told = FALSE])

\* on_send_forward_request() answered that there is no connection, or that the
\* bus id is invalid: the handle, or only the app handle, is set unready.
SendFails(b) ==
    LET s == View({})
    IN /\ Has(s, b) /\ s.h[b].told
       /\ \/ /\ s.h[b].app = "tagged"
             /\ ~Available(s, b) /\ ~Available(s, Up)
             /\ s.h[b].proxy # None => ~Available(s, s.h[b].proxy)
             /\ Become(SetUnready(s, b))
          \/ /\ s.h[b].app = "loose"
             /\ Become([s EXCEPT !.h[b].told = FALSE])

\* on_discovery_event(kPut): the discovery set has the node, and a handle that
\* waits for it reconnects (resume_handle_discovery()).
DiscoveryPut(b) ==
    \E pend \in Pending :
       LET s == [View(pend) EXCEPT !.disc = @ \cup {b}]
       IN Become(IF Has(s, b) /\ s.h[b].wait
                 THEN TryDirectReconnect([s EXCEPT !.h[b].wait = FALSE], b)
                 ELSE s)

\* on_discovery_event(kDelete)
DiscoveryDelete(b) ==
    LET s == [View({}) EXCEPT !.disc = @ \ {b}]
    IN /\ b \in disc
       /\ Become(IF Has(s, b) THEN SetWaiting(s, b) ELSE s)

\* remove_topology_peer()
RemoveTopology(b) ==
    LET s == [View({}) EXCEPT !.topo[b] = Absent]
    IN /\ topo[b] # Absent
       /\ Become(IF Has(s, b) THEN SetLost(s, b) ELSE s)

\* update_topology_peer() with an upstream that changed: the proxy is kept
\* while it is still on the way, else the way is computed anew.
Retry(s, b) ==
    IF Has(s, b) /\ ~s.h[b].ready /\ s.h[b].next = 0
    THEN SetupReconnect(s, b, NoTimer).s ELSE s

NewWay(s, b, u) ==
    IF Available(s, b) THEN SetReady(s, b)
    ELSE IF ~NeedKeep(s, b) THEN RemoveHandle(s, b)
    ELSE IF u # None /\ Has(s, u) THEN Mark(Bind(s, b, u), b, s.h[u].ready)
    ELSE IF s.h[b].wait THEN SetUnready(s, b)
    ELSE IF b \notin s.disc THEN SetUnready(SetWaiting(s, b), b)
    ELSE Retry(TryConnectTo(s, b, "same", s.h[b].active).s, b)

\* Where proxies lead back to b, leaving one may have removed b.  Only a handle
\* with pending messages goes on: h is the object the table has let go.
Orphaned(s, b, u, h) ==
    IF h.app \notin {"tagged", "loose"} \/ b \notin s.pend THEN s
    ELSE IF Has(s, u) THEN [s EXCEPT !.h[u].for = @ \cup {b}]
    ELSE IF h.wait \/ b \notin s.disc THEN s
    ELSE Retry(TryConnectTo(s, b, "new", FALSE).s, b)

NewUpstream(s, b, u) ==
    LET old == s.h[b].proxy
        t == [s EXCEPT !.h[b].up = u]
        left == Unbind(t, b)
    IN IF u # None /\ old # None /\ old \in Above(s, b) THEN t
       ELSE IF Has(left, b) THEN NewWay(left, b, u)
       ELSE Orphaned(left, b, u, s.h[b])

\* update_topology_peer() once the timeout of the lost topology is cleared
TopologyFound(s, b, u) ==
    IF s.h[b].up = u THEN TryDirectReconnect(s, b) ELSE NewUpstream(s, b, u)

UpdateTopology(b, u) ==
    /\ u \in Peers => b \notin Above(View({}), u)
    /\ \E pend \in Pending :
       LET s == [View(pend) EXCEPT !.topo[b] = u]
       IN Become(IF ~Has(s, b) THEN s
                 ELSE TopologyFound(DropTimer([s EXCEPT !.h[b].lost = FALSE,
                                                        !.h[b].lostIn = 0], b), b, u))

\* on_update_endpoint(), reached from on_add_endpoint(), on_register() and
\* on_new_connection()
OnUpdateEndpoint(s, b) ==
    IF Has(s, b) /\ Available(s, b) THEN SetReady(s, b) ELSE s

\* The bus has a new endpoint, because this node dialled it or because the peer
\* did; it may still lack its data connection.
EndpointAdded(b) ==
    /\ ep[b] = "none"
    /\ \E e \in {"opened", "available"} :
          Become(OnUpdateEndpoint([View({}) EXCEPT !.ep[b] = e], b))

NewConnection(b) ==
    /\ ep[b] = "opened"
    /\ Become(OnUpdateEndpoint([View({}) EXCEPT !.ep[b] = "available"], b))

\* The data connection is closed; on_close_connection() of the bus does nothing.
ConnectionLost(b) ==
    /\ ep[b] = "available"
    /\ ep' = [ep EXCEPT ![b] = "opened"]
    /\ dial' = {}
    /\ UNCHANGED <<handles, topo, disc>>

EndpointRemoved(b) ==
    /\ ep[b] # "none"
    /\ \E pend \in Pending :
          Become(OnRemoveEndpoint([View(pend) EXCEPT !.ep[b] = "none"], b))

\* The callback of the timer of b.
OnTimer(s, b) ==
    LET t == [s EXCEPT !.h[b].timer = NoTimer]
        h == t.h[b]
        deadline == IF h.lost THEN h.lostIn ELSE NoTimer
        Paced(r) == IF r.done THEN TryDirectReconnect(r.s, b) ELSE r.s
    IN IF h.lost /\ h.lostIn = 0 THEN RemoveHandle(t, b)
       ELSE IF h.ready
       THEN IF deadline = NoTimer THEN t ELSE UpdateTimer(t, b, deadline)
       ELSE IF h.next > 0
       THEN UpdateTimer(t, b, IF deadline = NoTimer \/ deadline > h.next
                              THEN h.next ELSE deadline)
       ELSE Paced(SetupReconnect(t, b, deadline))

Timer(b) ==
    /\ Has(View({}), b) /\ handles[b].timer = 0
    /\ \E pend \in Pending : Become(OnTimer(View(pend), b))

\* One unit of time.  The app runs its timers on every tick, which is far
\* shorter than this unit: a due timer runs before the clock moves on.
Tick ==
    LET D(n) == IF n > 0 THEN n - 1 ELSE n
    IN /\ \A b \in DOMAIN handles : handles[b].timer # 0
       /\ handles' = [b \in DOMAIN handles |->
                        [handles[b] EXCEPT !.next = D(@), !.lostIn = D(@),
                                           !.timer = D(@)]]
       /\ handles' # handles
       /\ dial' = {} /\ UNCHANGED <<ep, topo, disc>>

\* What comes, and what goes away: only the second is bounded.
Gain(b) ==
    \/ b \in Targets /\ (Connect(b) \/ DiscoveryPut(b))
    \/ EndpointAdded(b) \/ NewConnection(b)
    \/ \E u \in Upstreams[b] : topo[b] \in {u, Absent} /\ UpdateTopology(b, u)

Loss(b) ==
    \/ Close(b) \/ SendFails(b) \/ ConnectionLost(b) \/ EndpointRemoved(b)
    \/ DiscoveryDelete(b)
    \/ b \notin Settled /\ RemoveTopology(b)
    \/ \E u \in Upstreams[b] : topo[b] \notin {u, Absent} /\ UpdateTopology(b, u)

Next ==
    \/ \E b \in Peers : (Gain(b) \/ Timer(b)) /\ UNCHANGED faults
    \/ \E b \in Peers : faults < MaxFaults /\ Loss(b) /\ faults' = faults + 1
    \/ Tick /\ UNCHANGED faults

Spec == Init /\ [][Next]_vars

-----------------------------------------------------------------------------
(* Properties. *)

\* The state is well formed: no timer of a handle runs past its bounds.
TypeOK ==
    /\ DOMAIN handles \subseteq Peers
    /\ \A b \in DOMAIN handles : handles[b] \in Handle
    /\ ep \in [Peers -> {"none", "opened", "available"}]
    /\ dial \subseteq Peers /\ disc \subseteq Peers /\ faults \in 0 .. MaxFaults
    /\ \A b \in Peers : topo[b] \in Upstreams[b] \cup {Absent}

\* The proxy links are kept on both sides: a handle names a proxy that exists
\* and lists it, and lists only handles that name it.
ProxyLinked ==
    \A b \in DOMAIN handles :
        /\ handles[b].proxy # None =>
              /\ handles[b].proxy \in DOMAIN handles
              /\ b \in handles[handles[b].proxy].for
        /\ \A d \in handles[b].for :
              d \in DOMAIN handles /\ handles[d].proxy = b

\* A handle that lost its topology has a timer no later than its deadline.
LostWatched ==
    \A b \in DOMAIN handles : handles[b].lost =>
        handles[b].timer \in 0 .. handles[b].lostIn

\* A handle waits for discovery only while discovery does not know its node.
WaitsForUnknown ==
    \A b \in DOMAIN handles : handles[b].wait => b \notin disc

\* A handle that waits for its topology, or for discovery, is waited for: it
\* has the timer that ends the wait, or what it waits for is not there yet
\* (set_handle_lost_topology(), resume_handle_discovery()).
WaitersWatched == LostWatched /\ WaitsForUnknown

\* A connection is only opened to a known node the policy allows, outside of
\* its back-off, and its handle then has a timer and a back-off running.
DialsPaced ==
    [][\A p \in dial' :
          /\ DirectAllowed /\ p \in disc' \cap Connectable
          /\ topo'[p] # Absent => p \in Allowed
          /\ p \in DOMAIN handles => handles[p].next = 0
          /\ handles'[p].next > 0 /\ handles'[p].timer # NoTimer]_vars

\* When a proxy stops being ready, so does every handle that stays behind it.
UnreadyFollowsProxy ==
    [][\A b \in DOMAIN handles \cap DOMAIN handles' :
          LET p == handles[b].proxy
          IN /\ p \in DOMAIN handles \cap DOMAIN handles'
             /\ handles[p].ready /\ ~handles'[p].ready
             /\ handles'[b].proxy = p
             => ~handles'[b].ready]_vars

\* The ready flag of the app handle is the one of the handle.
ToldReady ==
    \A b \in DOMAIN handles :
       handles[b].app = "tagged" => handles[b].told = handles[b].ready

\* The table of handles is consistent, whatever removes, closes or loses one of
\* them: its tries and timers are within their limits, proxies and the handles
\* behind them name each other, and the app sees the readiness the connector
\* has (remove_connection_handle(), unbind_connection_handle_proxy()).
HandlesConsistent == TypeOK /\ ProxyLinked /\ ToldReady
=============================================================================
