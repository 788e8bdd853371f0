---------------------------- MODULE DiscoverySet ----------------------------
(***************************************************************************)
(* etcd_discovery_set (etcdcli/etcd_discovery.cpp): the nodes an app knows *)
(* under their id and under their name, the index caches that lookups      *)
(* build (one for all nodes and one for every rule of a policy route) and  *)
(* the consistent-hash ring.                                               *)
(*                                                                         *)
(* A set is a value, and add_node() and its like are operators from the    *)
(* set before to the set after.  Nodes are objects, because an event may   *)
(* change one in place while an index, a cache or a caller still points to *)
(* it.  A rule and the metadata of a node are sets of labels.  A cache is  *)
(* the set of the objects in it; an empty cache is one to be rebuilt.      *)
(* Hash codes are numbers, all different.                                  *)
(***************************************************************************)
EXTENDS Integers, FiniteSets, Sequences, SequencesExt

CONSTANTS
    Ids, Names,     \* the ids that are not 0, the names that are not empty
    Labels,         \* what metadata and rules consist of
    Rules,          \* the rules lookups are made with, the empty one among them
    Contexts,       \* the clusters nodes are discovered in
    Objects,        \* a set of numbers: the node objects
    None

Infos == [id : Ids \cup {None}, name : Names \cup {None}, meta : SUBSET Labels]
Nodes == [info : Infos, ctx : Contexts]

ASSUME SetConstants ==
    /\ {} \in Rules /\ Rules \subseteq SUBSET Labels
    /\ Objects \subseteq Nat /\ Objects # {}
    /\ None \notin Ids /\ None \notin Names /\ None \notin Objects
    /\ None \notin Infos /\ None \notin Nodes

Sets ==
    [byId : [Ids -> Objects \cup {None}], byName : [Names -> Objects \cup {None}],
     node : [Objects -> Nodes \cup {None}], cache : [Rules -> SUBSET Objects]]

EmptySet ==
    [byId |-> [i \in Ids |-> None], byName |-> [n \in Names |-> None],
     node |-> [o \in Objects |-> None], cache |-> [r \in Rules |-> {}]]

-----------------------------------------------------------------------------
(* The indexes. *)

\* get_node_by_id() and get_node_by_name()
ById(s, id) == IF id \in Ids THEN s.byId[id] ELSE None
ByName(s, name) == IF name \in Names THEN s.byName[name] ELSE None

Indexed(s) ==
    ({s.byId[i] : i \in Ids} \cup {s.byName[n] : n \in Names}) \ {None}

\* An object nothing points to any more is destroyed.
Collect(s) ==
    LET used == Indexed(s) \cup UNION {s.cache[r] : r \in Rules}
    IN [s EXCEPT !.node = [o \in Objects |-> IF o \in used THEN @[o] ELSE None]]

\* make_strong_rc<etcd_discovery_node>()
Fresh(s) == LET free == {o \in Objects : s.node[o] = None}
            IN CHOOSE o \in free : \A p \in free : o <= p

\* metadata_equal_type::filter(): the fields a rule leaves open match anything.
Match(rule, meta) == rule \subseteq meta

\* Slip: only the index caches that hold one of the nodes are dropped.
SlipClearCache(s, meta, refs) ==
    [s EXCEPT !.cache = [r \in Rules |->
        IF r = {} \/ s.cache[r] \cap refs # {} THEN {} ELSE s.cache[r]]]

\* clear_cache(): the common cache, every cache that holds one of the nodes
\* and every cache whose rule the metadata matches.
ClearCache(s, meta, refs) ==
    [s EXCEPT !.cache = [r \in Rules |->
        IF \/ r = {} \/ s.cache[r] \cap refs # {}
           \/ meta # {} /\ Match(r, meta)
        THEN {} ELSE s.cache[r]]]

\* rebuild_cache(): the named nodes of the name index, then the nodes of the
\* id index that have no name.
RebuildCache(s, rule) ==
    LET named == {s.byName[n] : n \in Names} \ {None}
        others == {o \in {s.byId[i] : i \in Ids} \ {None} : s.node[o].info.name = None}
        all == {o \in named : s.node[o].info.name # None} \cup others
    IN [s EXCEPT !.cache[rule] =
            IF @ # {} THEN @ ELSE {o \in all : Match(rule, s.node[o].info.meta)}]

\* add_node().  The objects it replaces take the place of the new one in the
\* array given to clear_cache().
AddNode(s, o) ==
    LET info == s.node[o].info
        atId == ById(s, info.id)
        atName == ByName(s, info.name)
        replaced == {atId, atName} \ {None, o}
        oldName == IF atId \in replaced /\ s.node[atId].info.name # info.name
                   THEN s.node[atId].info.name ELSE None
        oldId == IF atName \in replaced /\ s.node[atName].info.id # info.id
                 THEN s.node[atName].info.id ELSE None
        ids == [i \in Ids |-> IF i = info.id THEN o
                              ELSE IF i = oldId /\ s.byId[i] # o THEN None
                              ELSE s.byId[i]]
        names == [n \in Names |-> IF n = info.name THEN o
                                  ELSE IF n = oldName /\ s.byName[n] # o THEN None
                                  ELSE s.byName[n]]
        cleared == IF replaced = {} THEN {o} ELSE replaced
    IN Collect(ClearCache([s EXCEPT !.byId = ids, !.byName = names],
                          info.meta, cleared))

\* Slip: a removed node stays in the id index.
SlipRemoveNode(s, o) ==
    LET info == s.node[o].info
        names == [n \in Names |-> IF n = info.name /\ s.byName[n] = o THEN None
                                  ELSE s.byName[n]]
    IN Collect(ClearCache([s EXCEPT !.byName = names], info.meta, {o}))

\* remove_node()
RemoveNode(s, o) ==
    LET info == s.node[o].info
        ids == [i \in Ids |-> IF i = info.id /\ s.byId[i] = o THEN None
                              ELSE s.byId[i]]
        names == [n \in Names |-> IF n = info.name /\ s.byName[n] = o THEN None
                                  ELSE s.byName[n]]
        t == [s EXCEPT !.byId = ids, !.byName = names]
    IN IF t = s THEN s ELSE Collect(ClearCache(t, info.meta, {o}))

-----------------------------------------------------------------------------
(* The consistent-hash ring: a sequence of points by ascending hash code. *)

\* rebuild_compact_cache(): the last point of each run of one node; the run
\* at the end may belong to the run at the beginning.
CompactRing(ring) ==
    LET n == Len(ring)
        ends == SelectSeq([i \in 1 .. n - 1 |-> i],
                          LAMBDA i : ring[i].node # ring[i + 1].node)
        body == [i \in 1 .. Len(ends) |-> ring[ends[i]]]
    IN IF n = 0 THEN <<>>
       ELSE IF body = <<>> \/ ring[n].node # body[1].node
       THEN Append(body, ring[n]) ELSE body

\* std::lower_bound and the walk around the ring from there.
Around(ring, code) ==
    SelectSeq(ring, LAMBDA p : p.code >= code) \o SelectSeq(ring, LAMBDA p : p.code < code)

SearchModes == [compact : BOOLEAN, unique : BOOLEAN, next : BOOLEAN]

\* Slip: the node the search starts from is skipped at its own point only.
SlipExcluded(key, mode, p) == mode.next /\ key.code = p.code /\ key.node = p.node

\* exclude_self: with unique_node every point of the node is skipped.
Excluded(key, mode, p) ==
    mode.next /\ (mode.unique \/ key.code = p.code) /\ key.node = p.node

\* lower_bound_node_hash_by_consistent_hash() into an output of `room' points.
LowerBound(ring, key, mode, room) ==
    LET walk == Around(IF mode.compact THEN CompactRing(ring) ELSE ring, key.code)
        limit == IF mode.unique THEN Cardinality({p.node : p \in Range(ring)})
                 ELSE Len(walk)
        Visit(out, p) ==
            IF \/ Len(out) >= room \/ Len(out) >= limit
               \/ Excluded(key, mode, p)
               \/ mode.unique /\ \E i \in 1 .. Len(out) : out[i].node = p.node
            THEN out ELSE Append(out, p)
    IN FoldLeft(Visit, <<>>, walk)
=============================================================================
