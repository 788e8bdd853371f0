--------------------------- MODULE ServiceDiscovery ---------------------------
(***************************************************************************)
(* service_discovery_module: the watchers of every cluster context feed    *)
(* one set of nodes and one map of topologies, and an application that     *)
(* listens to the events keeps its own picture of the nodes.               *)
(*                                                                         *)
(* The watchers by id and by name of a context deliver the same nodes, in  *)
(* any order relative to each other; a snapshot also removes the nodes of  *)
(* its context that it does not hold, when it comes from the watcher that  *)
(* was created first among those that have had one.                        *)
(*                                                                         *)
(* A key is the id and the name of a node, as its path is.  A delete has   *)
(* no value and is decoded from the path.                                  *)
(***************************************************************************)
EXTENDS DiscoverySet

CONSTANTS
    Watchers, CtxOf, DirOf,     \* as in EtcdWatcher
    Rank,           \* the order in which the watchers of a context are created
    Setups,         \* the sets of watchers a configuration may ask for
    Items,          \* for each context, the nodes its members may register
    RingSize,       \* bound: the points of the hash ring
    NotifiedAhead, Compacting, MaxChanges, MaxUpsets

VARIABLES
    log, floor, watch, seen, upsets,    \* of EtcdWatcher
    disc,       \* global_discovery_
    topo,       \* internal_topology_info_set_
    told,       \* the node an application knows of each id, from the events
    indexed,    \* the watchers whose snapshot index is inserted
    enabled,    \* discovery_enabled_
    inited,     \* discovery_keepalives_watchers_inited_
    stopped,    \* stop() was called
    setup       \* the watchers of the configuration

etcd == <<log, floor, watch, seen, upsets>>
nodes == <<disc, topo, told>>
flags == <<enabled, inited, stopped, setup>>
vars == <<etcd, nodes, indexed, flags>>

NodeKeys == [id : Ids \cup {None}, name : Names \cup {None}]
KeyOf(info) == [id |-> info.id, name |-> info.name]
AllItems == UNION {Items[c] : c \in Contexts}
UsedKeys == {KeyOf(i) : i \in AllItems}
ItemWrites == [c \in Contexts |-> {<<KeyOf(i), i>> : i \in Items[c]}]

\* topology_storage_t: the version of an entry is the revision of its change.
Topologies == [info : Infos, ctx : Contexts, ver : Nat]

ASSUME DiscoveryConstants ==
    /\ DirOf \in [Watchers -> {"id", "name", "topology"}]
    /\ CtxOf \in [Watchers -> Contexts] /\ Compacting \subseteq Contexts
    /\ NotifiedAhead \in BOOLEAN
    /\ MaxChanges \in Nat /\ MaxUpsets \in Nat /\ RingSize \in Nat
    /\ Rank \in [Watchers -> Nat]
    /\ Items \in [Contexts -> SUBSET Infos]
    /\ \A i \in AllItems : i.id # None \/ i.name # None
    /\ Setups \subseteq SUBSET Watchers
    /\ None \notin Topologies

W == INSTANCE EtcdWatcher WITH
         Clusters <- Contexts, Keys <- UsedKeys, Values <- AllItems,
         Writes <- ItemWrites, Nothing <- None

\* The nodes that the watchers ws can bring.
Registrable(ws) ==
    {x \in Nodes : x.ctx \in {CtxOf[w] : w \in ws} /\ x.info \in Items[x.ctx]}

\* A name belongs to one id, and the node of an id has a name always or never.
Keyed(N) ==
    /\ N \subseteq Nodes
    /\ \A x \in N : x.info.id # None \/ x.info.name # None
    /\ \A x, y \in N :
          /\ x.info.name = y.info.name /\ x.info.name # None => x.info.id = y.info.id
          /\ x.info.id = y.info.id /\ x.info.id # None /\ x.info.name = None => y.info.name = None

\* There are more objects than keys.
Roomy(N) ==
    LET keys == {KeyOf(x.info) : x \in N}
    IN IsFiniteSet(Objects) =>
         IsFiniteSet(keys) /\ Cardinality(keys) < Cardinality(Objects)

\* The nodes of two contexts with one id have one name.
Apart(N) ==
    \A x, y \in N : x.ctx # y.ctx /\ x.info.id = y.info.id /\ x.info.id # None
                       => x.info.name = y.info.name

\* What the theorems ask of the nodes that may be registered.
WellNamed == \A ws \in Setups : Keyed(Registrable(ws)) /\ Roomy(Registrable(ws))
WellApart == \A ws \in Setups : Apart(Registrable(ws))

-----------------------------------------------------------------------------
(* Events, as operators on a view of the nodes, the topologies and the     *)
(* picture the application has.                                            *)

View == [disc |-> disc, topo |-> topo, told |-> told]

\* unpack(): a delete has the id and the name of its path only.
Unpack(e) == IF e.val # None THEN e.val
             ELSE [id |-> e.key.id, name |-> e.key.name, meta |-> {}]

\* trigger_event_on_discovery_event() and the node event callbacks.
TellPut(v, info) ==
    IF info.id = None THEN v ELSE [v EXCEPT !.told[info.id] = info]
TellDelete(v, i, n) ==
    LET info == v.disc.node[IF n # None THEN n ELSE i].info
    IN IF info.id = None THEN v ELSE [v EXCEPT !.told[info.id] = None]

\* Slip: a node of another context is deleted too.
SlipNodeDelete(v, c, key) ==
    LET i == ById(v.disc, key.id)
        n == ByName(v.disc, key.name)
        hit == {i, n} \ {None}
    IN IF hit = {} THEN v
       ELSE [TellDelete(v, i, n) EXCEPT
                 !.disc = FoldSet(LAMBDA o, s : RemoveNode(s, o), v.disc, hit)]

\* update_internal_watcher_event() of a deleted node, known by its key: the
\* object under the id and the one under the name go, unless both are of another context.
NodeDelete(v, c, key) ==
    LET i == ById(v.disc, key.id)
        n == ByName(v.disc, key.name)
        hit == {i, n} \ {None}
    IN IF \A o \in hit : v.disc.node[o].ctx # c THEN v
       ELSE [TellDelete(v, i, n) EXCEPT
                 !.disc = FoldSet(LAMBDA o, s : RemoveNode(s, o), v.disc, hit)]

\* copy_from(), then add_node(), of the object o.
Store(v, o, info, c) ==
    LET s == [v.disc EXCEPT !.node[o] = [info |-> info, ctx |-> c]]
    IN TellPut([v EXCEPT !.disc = AddNode(s, o)], info)

\* update_internal_watcher_event() of a put node found under one object only.
PutSame(v, c, o, info) ==
    IF o = None THEN Store(v, Fresh(v.disc), info, c)
    ELSE IF v.disc.node[o].ctx # c \/ v.disc.node[o].info = info THEN v
    ELSE Store(v, o, info, c)

\* update_internal_watcher_event() of a put node whose id and name lead to
\* different objects: one of them is changed in place if both exist, else a
\* new one is made; what it replaces is removed first.
PutDifferent(v, c, i, n, info) ==
    LET missing == (i = None /\ info.id # None) \/ (n = None /\ info.name # None)
        Changed(o) == o # None /\ v.disc.node[o] # [info |-> info, ctx |-> c]
                      /\ v.disc.node[o].ctx = c
        o == IF missing THEN Fresh(v.disc) ELSE IF Changed(i) THEN i ELSE n
        s == [v.disc EXCEPT !.node[o] = [info |-> info, ctx |-> c]]
        t == FoldSet(LAMBDA p, q : RemoveNode(q, p), s, {i, n} \ {None, o})
        u == [t EXCEPT !.node[o] = s.node[o]]
    IN IF missing \/ Changed(i) \/ Changed(n)
       THEN TellPut([v EXCEPT !.disc = AddNode(u, o)], info) ELSE v

NodePut(v, c, info) ==
    LET i == ById(v.disc, info.id)
        n == ByName(v.disc, info.name)
    IN IF i = n THEN PutSame(v, c, i, info) ELSE PutDifferent(v, c, i, n, info)

\* update_internal_watcher_event() of a topology: a put that is not newer than
\* what is known is out of order.
TopologyEvent(v, c, e) ==
    LET info == Unpack(e)
        had == v.topo[info.id]
        new == [info |-> info, ctx |-> c, ver |-> e.ver]
    IN IF had # None /\ had.ctx # c THEN v
       ELSE [v EXCEPT !.topo[info.id] =
                 IF e.val = None THEN None
                 ELSE IF had = None \/ e.ver > had.ver THEN new ELSE had]

\* One event in the watcher's callback; one without a key is skipped.
Handle(v, w, e) ==
    IF DirOf[w] = "topology"
    THEN IF e.key.id = None THEN v ELSE TopologyEvent(v, CtxOf[w], e)
    ELSE IF e.val = None THEN NodeDelete(v, CtxOf[w], e.key)
    ELSE NodePut(v, CtxOf[w], e.val)

HandleAll(v, w, events) == FoldLeft(LAMBDA x, e : Handle(x, w, e), v, events)

\* The callbacks of a context share the snapshot indexes of their kind.
SameKind(w, x) ==
    CtxOf[w] = CtxOf[x] /\ (DirOf[w] = "topology" <=> DirOf[x] = "topology")

\* What the theorems ask of the watchers: a context has two that bring nodes only
\* if its cluster does not compact its history, and one that brings topologies.
WellWatched ==
    \A ws \in Setups : \A v, w \in ws :
        v # w /\ SameKind(v, w) => DirOf[v] # "topology" /\ CtxOf[v] \notin Compacting

\* Only the earliest watcher that has had a snapshot reconciles.
Reconciles(w) == \A x \in indexed : SameKind(w, x) => Rank[w] <= Rank[x]

\* _collect_old_nodes() and _remove_old_node_index(): a node is old under its
\* id, or under its name if it has no id.
OldKeys(v, c, events) ==
    {k \in {KeyOf(v.disc.node[o].info) : o \in {p \in Indexed(v.disc) : v.disc.node[p].ctx = c}} :
        ~\E j \in 1 .. Len(events) :
            IF k.id # None THEN events[j].key.id = k.id ELSE events[j].key.name = k.name}

\* cleanup_old_nodes()
CleanupNodes(v, c, keys) == FoldSet(LAMBDA k, x : NodeDelete(x, c, k), v, keys)

\* _collect_old_topology_peers() and cleanup_old_topology_peers()
CleanupTopologies(v, c, events) ==
    [v EXCEPT !.topo = [i \in Ids |->
        IF /\ v.topo[i] # None /\ v.topo[i].ctx = c
           /\ ~\E j \in 1 .. Len(events) : events[j].key.id = i
        THEN None ELSE v.topo[i]]]

\* Slip: the nodes a snapshot does not hold stay.
SlipLoadSnapshot(v, w, events) ==
    HandleAll([v EXCEPT !.disc = RebuildCache(@, {})], w, events)

\* A snapshot that reconciles: the nodes known before it and not in it go.
LoadSnapshot(v, w, events) ==
    LET c == CtxOf[w]
        v0 == [v EXCEPT !.disc = RebuildCache(@, {})]
    IN IF DirOf[w] = "topology"
       THEN CleanupTopologies(HandleAll(v, w, events), c, events)
       ELSE CleanupNodes(HandleAll(v0, w, events), c, OldKeys(v0, c, events))

Become(s) ==
    \E v \in {s} : disc' = v.disc /\ topo' = v.topo /\ told' = v.told

-----------------------------------------------------------------------------
(* The steps of the watchers, with the callbacks they make. *)

RangeAnswered(w, r) ==
    /\ W!RangeAnswered(w, r)
    /\ indexed' = indexed \cup {w}
    /\ LET events == W!Snapshot(w, r)
       IN Become(IF Reconciles(w) THEN LoadSnapshot(View, w, events)
                 ELSE HandleAll(View, w, events))
    /\ UNCHANGED flags

WatchWrite(w, r) ==
    /\ W!WatchWrite(w, r)
    /\ Become(HandleAll(View, w, W!Changes(w, r)))
    /\ UNCHANGED <<indexed, flags>>

\* What a watcher does without an event.
Quietly(w) ==
    /\ \/ W!Poll(w)
       \/ W!ProbeAnswered(w)
       \/ W!RangeFails(w)
       \/ W!WatchNotified(w)
       \/ W!WatchCancelled(w)
       \/ \E later \in BOOLEAN : W!WatchCompleted(w, later)
    /\ UNCHANGED <<nodes, indexed, flags>>

Dirs(c) == {DirOf[w] : w \in {v \in setup : CtxOf[v] = c}}

Server ==
    /\ \E c \in Contexts :
        \/ \E ds \in (SUBSET Dirs(c)) \ {{}} : W!ServerPut(c, ds) \/ W!ServerDelete(c, ds)
        \/ W!ServerCompact(c)
    /\ UNCHANGED <<nodes, indexed, flags>>

-----------------------------------------------------------------------------
(* The module and its users. *)

\* enable_discovery() and disable_discovery()
Toggle ==
    /\ enabled' = ~enabled
    /\ IF enabled THEN upsets < MaxUpsets /\ upsets' = upsets + 1 ELSE upsets' = upsets
    /\ UNCHANGED <<log, floor, watch, seen, nodes, indexed, inited, stopped, setup>>

\* Slip: the watchers of an earlier init are taken to be still there.
SlipCreate == watch' = watch

\* init_service_discovery_keepalives_watchers(): the watchers of the configuration.
Create == watch' = [w \in Watchers |-> IF w \in setup THEN W!Created0 ELSE W!Off]

\* reset_internal_watchers_and_keepalives(): the watchers go, and with their
\* callbacks the snapshot indexes.
Reset == W!Closed(Watchers) /\ indexed' = {}

\* tick(): the watchers of every context are created, or taken down.
Tick ==
    /\ enabled # inited
    /\ inited' = enabled
    /\ IF enabled THEN Create /\ UNCHANGED <<seen, indexed>> ELSE Reset
    /\ UNCHANGED <<log, floor, upsets, nodes, enabled, stopped, setup>>

\* stop()
Stop ==
    /\ stopped' = TRUE /\ inited' = FALSE
    /\ Reset
    /\ UNCHANGED <<log, floor, upsets, nodes, enabled, setup>>

\* A lookup with a rule: get_sorted_nodes() and the others build its cache.
Lookup(rule) ==
    /\ disc' = RebuildCache(disc, rule)
    /\ disc' # disc
    /\ UNCHANGED <<etcd, topo, told, indexed, flags>>

Init ==
    /\ log = [c \in Contexts |-> <<>>]
    /\ floor = [c \in Contexts |-> 0]
    /\ setup \in Setups
    /\ watch = [w \in Watchers |-> IF w \in setup THEN W!Created0 ELSE W!Off]
    /\ seen = [w \in Watchers |-> [k \in UsedKeys |-> None]]
    /\ upsets = 0
    /\ disc = EmptySet
    /\ topo = [i \in Ids |-> None] /\ told = [i \in Ids |-> None]
    /\ indexed = {}
    /\ enabled = TRUE /\ inited = TRUE /\ stopped = FALSE

\* After stop() nothing that matters to the module happens any more.
Next ==
    /\ ~stopped
    /\ \/ \E w \in Watchers :
            \/ Quietly(w)
            \/ \E r \in 1 .. W!Now(CtxOf[w]) : RangeAnswered(w, r) \/ WatchWrite(w, r)
       \/ Server
       \/ Toggle
       \/ Tick
       \/ Stop
       \/ \E rule \in Rules : Lookup(rule)

Spec == Init /\ [][Next]_vars

\* Every request is answered or fails in the end, the server sends its
\* changes, and the app ticks.
Fairness ==
    /\ \A w \in Watchers : W!Served(w)
    /\ []<>(enabled = inited \/ stopped)

FairSpec == Spec /\ Fairness

-----------------------------------------------------------------------------
(* Properties. *)

\* The state is well formed, and a snapshot index belongs to a watcher that
\* exists: an index left behind by reset_internal_watchers_and_keepalives()
\* would keep the next watchers from reconciling.
TypeOK ==
    /\ W!WatcherTypeOK
    /\ disc \in Sets
    /\ topo \in [Ids -> Topologies \cup {None}]
    /\ told \in [Ids -> Infos \cup {None}]
    /\ indexed \subseteq {w \in Watchers : watch[w].rpc # "off"}
    /\ enabled \in BOOLEAN /\ inited \in BOOLEAN /\ stopped \in BOOLEAN
    /\ setup \in Setups

\* A watcher has delivered, of every key, the value the key had at the
\* revision up to which the watcher says it is: neither a snapshot, nor a
\* broken and resumed watch, nor a compaction makes it skip a change
\* (process(), libcurl_callback_on_watch_write()).
NothingSkipped == W!NothingSkipped

\* An object is under its own id and its own name and nowhere else, although
\* events change objects in place and two watchers deliver the same node
\* (update_internal_watcher_event(), add_node() and remove_node()).
IndexesAgree ==
    /\ \A i \in Ids : disc.byId[i] # None =>
         disc.node[disc.byId[i]].info.id = i
    /\ \A n \in Names : disc.byName[n] # None =>
         disc.node[disc.byName[n]].info.name = n
    /\ \A o \in Indexed(disc) :
         LET info == disc.node[o].info
         IN /\ info.id # None => disc.byId[info.id] = o
            /\ info.name # None => disc.byName[info.name] = o

\* The state is well formed, and the two indexes of the set agree.
SetConsistent == TypeOK /\ IndexesAgree

\* A cache that lookups with a rule use holds exactly the nodes that match the
\* rule now: no add, removal or change of metadata leaves a stale one
\* (clear_cache()).
CachesFresh ==
    \A r \in Rules :
        disc.cache[r] # {} =>
            disc.cache[r] = {o \in Indexed(disc) : Match(r, disc.node[o].info.meta)}

\* The rings with RingSize points that objects can make, and the hash codes
\* of keys at, between, before and after the points.
Rings == {[i \in 1 .. RingSize |-> [code |-> 2 * i, node |-> f[i]]] : f \in [1 .. RingSize -> Objects]}
Codes == 1 .. 2 * RingSize + 1
Mode(compact, unique, next) == [compact |-> compact, unique |-> unique, next |-> next]
NodesOf(points) == [i \in 1 .. Len(points) |-> points[i].node]
Owner(ring, code) ==
    NodesOf(LowerBound(ring, [code |-> code, node |-> None], Mode(FALSE, FALSE, FALSE), 1))

\* The compact ring leads to the same nodes in the same order as the full one,
\* a search for unique nodes returns every node once (but the one it starts
\* from, in "next" mode) and, when one node leaves, the keys of the others stay
\* where they are.
LookupsRight(ring, code) ==
    LET all == Range(NodesOf(ring))
        Found(mode, node) ==
            NodesOf(LowerBound(ring, [code |-> code, node |-> node], mode, RingSize))
    IN /\ \A n \in all \cup {None}, next \in BOOLEAN :
            /\ Found(Mode(TRUE, TRUE, next), n) = Found(Mode(FALSE, TRUE, next), n)
            /\ LET out == Found(Mode(FALSE, TRUE, next), n)
               IN /\ Range(out) = IF next THEN all \ {n} ELSE all
                  /\ Len(out) = Cardinality(Range(out))
       /\ Owner(CompactRing(ring), code) = Owner(ring, code)
       /\ \A n \in all : Owner(ring, code) # <<n>> =>
            Owner(SelectSeq(ring, LAMBDA p : p.node # n), code) = Owner(ring, code)

RingsAstray == {ring \in Rings : \E code \in Codes : ~LookupsRight(ring, code)}

\* The lookups on the consistent-hash ring of a cache are right, wherever the
\* points of its nodes, and of nodes that join them, come to lie
\* (lower_bound_node_hash_by_consistent_hash(), rebuild_compact_cache()).
RingLookups ==
    \A rule \in Rules :
        disc.cache[rule] # {} =>
            ~\E ring \in RingsAstray : disc.cache[rule] \subseteq Range(NodesOf(ring))

\* The application's picture from the events is the set itself: no node comes,
\* changes or goes untold.
ToldTrue ==
    \A i \in Ids :
        told[i] = IF disc.byId[i] = None THEN None ELSE disc.node[disc.byId[i]].info

\* Whoever looks nodes up and whoever listens to events sees the set as it is.
UsersFollow == CachesFresh /\ ToldTrue

Registered(c, d) == {i \in Items[c] : W!ValueAt(c, d, KeyOf(i), W!Now(c)) = i}
NodeDirs(c) == Dirs(c) \ {"topology"}
DirsAgree(c) == \A d, e \in NodeDirs(c) : Registered(c, d) = Registered(c, e)
Known(c) == {disc.node[o].info : o \in {p \in Indexed(disc) : disc.node[p].ctx = c}}
\* The contexts whose nodes keep their ids and names.
Plain == {c \in Contexts : \A i, j \in Items[c] :
              i.id = j.id \/ i.name = j.name => KeyOf(i) = KeyOf(j)}
OnlyOf(c, i) ==
    \A e \in {CtxOf[w] : w \in setup} \ {c} :
        \A j \in Items[e] : j.id # i.id /\ j.name # i.name

\* The set holds the nodes registered in a context, as they are registered,
\* and none that is not: a node that several contexts may register is left to
\* the context it was first seen in.
Mirrors(c) ==
    \A d \in NodeDirs(c) :
        /\ Known(c) \subseteq Registered(c, d)
        /\ \A i \in Registered(c, d) : OnlyOf(c, i) => i \in Known(c)

TopologiesMirrored(c) ==
    "topology" \in Dirs(c) =>
        \A i \in Items[c] :
            i.id # None /\ OnlyOf(c, i) =>
                (i \in Registered(c, "topology") <=>
                    topo[i.id] # None /\ topo[i.id].ctx = c /\ topo[i.id].info = i)

InSync(c) == \A w \in setup : CtxOf[w] = c =>
                watch[w].rpc = "watch" /\ watch[w].at = W!Now(c)

\* When the watchers of a context have delivered everything and its two
\* directories agree, and its nodes keep their names, the set mirrors them: in
\* whatever order the two watchers' snapshots and changes came, no old event has
\* the last word.
SyncedTrue ==
    \A c \in Plain :
        InSync(c) /\ DirsAgree(c) => Mirrors(c) /\ TopologiesMirrored(c)

\* The nodes of a context change in steps of its own watchers only: a
\* snapshot or an event of another context neither removes nor replaces them.
OthersKept ==
    [][\A c \in Contexts :
          (\A w \in Watchers : CtxOf[w] = c => watch'[w] = watch[w])
              => Known(c)' = Known(c)]_vars

\* The set comes to mirror every such context and stays so, whatever failed and
\* however often discovery was switched off and on again.
Settles ==
    <>[](enabled /\ ~stopped =>
            \A c \in Plain : DirsAgree(c) => Mirrors(c) /\ TopologiesMirrored(c))
=============================================================================
