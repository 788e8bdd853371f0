-------------------------- MODULE MCServiceDiscovery --------------------------
EXTENDS ServiceDiscovery

MCCtxOf == [w \in Watchers |-> IF w \in {"id1", "name1", "topo1"} THEN "c1"
                               ELSE IF w = "id3" THEN "c3" ELSE "c2"]
MCDirOf == [w \in Watchers |-> IF w = "name1" THEN "name"
                               ELSE IF w \in {"topo1", "topo2"} THEN "topology" ELSE "id"]
MCRank == [w \in Watchers |-> IF w = "name1" THEN 2 ELSE 1]
A(meta) == [id |-> 1, name |-> "a", meta |-> meta]
Renamed == [id |-> 1, name |-> "b", meta |-> {}]
B(meta) == [id |-> 2, name |-> "b", meta |-> meta]
MCItems == [c1 |-> {A({}), A({"blue"})}, c2 |-> {A({}), B({"blue"})},
            c3 |-> {A({"blue"}), Renamed}]
MCRules == {{}, {"blue"}}
MCSetups == {{"id1", "name1"}, {"id1", "id2"}, {"topo1", "topo2"}, {"id3"}}

ASSUME MCNames == WellNamed /\ WellApart /\ WellWatched
=============================================================================
