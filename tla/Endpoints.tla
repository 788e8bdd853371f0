------------------------------ MODULE Endpoints ------------------------------
(* The endpoints of an app: the two indexes, the queue of messages that     *)
(* wait for a connection, the wakers that make the app look at an endpoint  *)
(* again, garbage collection, and the loopback connector                    *)
(* (atapp_endpoint.cpp, atapp_connector_impl.cpp, atapp_connector_loopback  *)
(* .cpp and the endpoint functions of atapp.cpp).                           *)
(*                                                                          *)
(* Everything runs on the app's thread; what interleaves are the calls of   *)
(* the user, the events of a connector, the discovery and the ticks. Times  *)
(* are offsets from the last tick in units of tick_interval: Tick lowers    *)
(* them, and one that is due is 0.                                          *)
EXTENDS Integers, Sequences, FiniteSets

CONSTANTS
    Objects,      \* atapp_endpoint objects; a destroyed one is used again
    Nodes,        \* discovery nodes: records with an id and a name
    Self,         \* the node of this app
    None,         \* no endpoint, no node
    MaxMessages,  \* bound: messages are numbered as they are sent
    MsgTimeout,   \* timer.message_timeout
    GcTimeout,    \* timer.endpoint_gc_timeout
    SendBuffer,   \* bus.send_buffer_number
    LoopTimes     \* bus.loop_times

ASSUME EndpointAssumption ==
    /\ Nodes \subseteq [id : Nat, name : STRING]
    /\ Self \in Nodes
    /\ None \notin Objects \cup Nodes
    /\ {MaxMessages, MsgTimeout, GcTimeout} \subseteq Nat
    /\ {SendBuffer, LoopTimes} \subseteq Nat \ {0}

VARIABLES
    ep,      \* the endpoint objects
    byId,    \* app::endpoint_index_by_id_
    byName,  \* app::endpoint_index_by_name_
    loop,    \* atapp_connector_loopback::pending_message_
    count,   \* messages sent so far
    fate,    \* history: what became of each message
    via,     \* history: the endpoint each message was handed to
    phase    \* running, stopping (kStoping is set) or gone (destroyed)

vars == <<ep, byId, byName, loop, count, fate, via, phase>>

Ids == {n.id : n \in Nodes} \ {0}
Names == {n.name : n \in Nodes} \ {""}
Messages == 1..MaxMessages
Never == -1                   \* from_time_t(0): nearest_waker_ is not set

Fates == {"unsent", "refused", "accepted", "sent", "looped", "delivered", "answered", "dropped"}

(* A dead object, or one that was just constructed.                         *)
Blank == [node |-> None, nearest |-> Never, wakers |-> {}, gc |-> GcTimeout,
          pending |-> <<>>, conn |-> "none", ready |-> FALSE]

Init ==
    /\ ep = [e \in Objects |-> Blank]
    /\ byId = [i \in Ids |-> None] /\ byName = [k \in Names |-> None]
    /\ loop = <<>> /\ count = 0
    /\ fate = [m \in Messages |-> "unsent"]
    /\ via = [m \in Messages |-> None]
    /\ phase = "running"

Held(ids, names, e) == (\E i \in Ids : ids[i] = e) \/ (\E k \in Names : names[k] = e)
Alive(e) == Held(byId, byName, e)

MessagesOf(r) == {r.pending[i].msg : i \in DOMAIN r.pending}

-----------------------------------------------------------------------------
(* atapp_endpoint                                                           *)

(* Slip: any waker that is set is good enough.                              *)
AddWakerOnce(r, t) ==
    IF phase = "running" /\ r.nearest = Never
    THEN [r EXCEPT !.nearest = t, !.wakers = {t}] ELSE r

(* Slip: the waker it replaces is not erased.                               *)
AddWakerKept(r, t) ==
    IF phase = "running" /\ (r.nearest = Never \/ t < r.nearest)
    THEN [r EXCEPT !.nearest = t, !.wakers = @ \cup {t}] ELSE r

(* add_waker() and app::add_endpoint_waker(): only an earlier time counts,  *)
(* it replaces the one before, and a stopping app takes none.               *)
AddWaker(r, t) ==
    IF phase = "running" /\ (r.nearest = Never \/ t < r.nearest)
    THEN [r EXCEPT !.nearest = t,
                   !.wakers = (@ \cup {t}) \ (IF r.nearest > t THEN {r.nearest} ELSE {})]
    ELSE r

(* The end of push_forward_message(): the message waits for a connection,   *)
(* or there is no room.                                                     *)
Queued(r, m) ==
    IF Len(r.pending) + 1 > SendBuffer
    THEN [ep |-> r, fate |-> "refused"]
    ELSE [ep |-> AddWaker([r EXCEPT !.pending = Append(@, [msg |-> m, exp |-> MsgTimeout])],
                          MsgTimeout),
          fate |-> "accepted"]

(* What the connector of a ready handle may answer to a message. A remote   *)
(* one that finds no connection makes the handle unready, and the message   *)
(* is queued after all.                                                     *)
SendRequest(r, m) ==
    IF r.conn = "loop"
    THEN {[ep |-> r, fate |-> IF Len(loop) + 1 > SendBuffer THEN "refused" ELSE "looped"]}
    ELSE {[ep |-> r, fate |-> "sent"], [ep |-> r, fate |-> "refused"],
          Queued([r EXCEPT !.ready = FALSE], m)}

(* Slip: a ready handle is used although older messages wait.               *)
PushPastQueue(r, m) == IF r.ready THEN SendRequest(r, m) ELSE {Queued(r, m)}

PushForwardMessage(r, m) ==
    IF r.pending = <<>> /\ r.ready THEN SendRequest(r, m) ELSE {Queued(r, m)}

(* How many messages at the front of the queue have expired.                *)
Expired(p) == Cardinality({i \in DOMAIN p : \A j \in 1..i : p[j].exp = 0})

(* Slip: what is left is tried when something else wakes the endpoint.      *)
AfterRetryUnwatched(r, k) == [r EXCEPT !.pending = SubSeq(@, k + 1, Len(@))]

(* retry_pending_messages() after the first k messages: what is left needs  *)
(* a waker.                                                                 *)
AfterRetry(r, k) ==
    LET rest == [r EXCEPT !.pending = SubSeq(@, k + 1, Len(@))]
    IN IF rest.pending = <<>> THEN rest ELSE AddWaker(rest, Head(rest.pending).exp)

(* Slip: the messages just tried stay in the queue.                         *)
RetryWithoutPop(r) ==
    {[ep |-> AfterRetry(r, 0), ok |-> IF r.ready THEN MessagesOf(r) ELSE {}, bad |-> {}]}

(* With a ready handle up to LoopTimes messages are sent: the connector     *)
(* takes those in ok and refuses the others, becoming unready when it finds *)
(* no connection. Without one, what has expired is answered.                *)
RetryPendingMessages(r) ==
    LET p == r.pending
        k == IF r.ready THEN IF Len(p) < LoopTimes THEN Len(p) ELSE LoopTimes
                        ELSE Expired(p)
        tried == {p[i].msg : i \in 1..k}
        answers == {a \in [ok : SUBSET tried, ready : BOOLEAN] :
                      IF r.ready THEN a.ready \/ a.ok # tried ELSE ~a.ready /\ a.ok = {}}
    IN {[ep |-> AfterRetry([r EXCEPT !.ready = a.ready], k), ok |-> a.ok, bad |-> tried \ a.ok] :
          a \in answers}

(* cancel_pending_messages() answers the queue through a ready handle, and  *)
(* leaves it alone when there is none.                                      *)
Cancelled(r) == IF r.ready THEN MessagesOf(r) ELSE {}

(* reset(): the queue is cancelled and the handle closed.                   *)
Reset(r) == [r EXCEPT !.pending = IF r.ready THEN <<>> ELSE @,
                      !.conn = "none", !.ready = FALSE]

-----------------------------------------------------------------------------
(* The app's endpoints. An operation takes a world (objects, indexes and    *)
(* fates) to the next one.                                                  *)

World == [ep |-> ep, byId |-> byId, byName |-> byName, fate |-> fate]

Mark(f, S, what) == [m \in Messages |-> IF m \in S THEN what ELSE f[m]]

Erase(index, key, e) ==
    [k \in DOMAIN index |-> IF k = key /\ index[k] = e THEN None ELSE index[k]]

Close(w, e) == [w EXCEPT !.ep[e] = Reset(@), !.fate = Mark(@, Cancelled(w.ep[e]), "answered")]

(* remove_endpoint() by id, by name and by object.                          *)
RemoveId(w, i) ==
    LET e == IF i \in Ids THEN w.byId[i] ELSE None
    IN IF e = None THEN w
       ELSE Close([w EXCEPT !.byId = Erase(@, i, e),
                            !.byName = Erase(@, w.ep[e].node.name, e)], e)

RemoveName(w, k) ==
    LET e == IF k \in Names THEN w.byName[k] ELSE None
    IN IF e = None THEN w
       ELSE Close([w EXCEPT !.byName = Erase(@, k, e),
                            !.byId = Erase(@, w.ep[e].node.id, e)], e)

RemoveEndpoint(w, e) ==
    Close([w EXCEPT !.byId = Erase(@, w.ep[e].node.id, e),
                    !.byName = Erase(@, w.ep[e].node.name, e)], e)

(* An object no index holds is destroyed, with whatever still waits in it.  *)
Becomes(w) ==
    LET kept == {e \in Objects : Held(w.byId, w.byName, e)}
        lost == UNION {MessagesOf(w.ep[e]) : e \in Objects \ kept}
    IN /\ ep' = [e \in Objects |-> IF e \in kept THEN w.ep[e] ELSE Blank]
       /\ byId' = w.byId /\ byName' = w.byName
       /\ fate' = Mark(w.fate, lost, "dropped")

(* The record of a new endpoint: woken at the next tick, and connected by   *)
(* the loopback connector, by another one (ready at once or later) or not.  *)
Created(n) ==
    LET fresh == AddWaker([Blank EXCEPT !.node = n], 1)
    IN IF n = Self
       THEN {AddWaker([fresh EXCEPT !.conn = "loop", !.ready = TRUE], 1)}
       ELSE {fresh, [fresh EXCEPT !.conn = "remote"],
             AddWaker([fresh EXCEPT !.conn = "remote", !.ready = TRUE], 1)}

(* Both indexes of world w know e by the keys of node n.                    *)
Indexed(w, n, e) == [w EXCEPT
    !.byId = [x \in Ids |-> IF x = n.id THEN e ELSE @[x]],
    !.byName = [x \in Names |-> IF x = n.name THEN e ELSE @[x]]]

(* What the indexes know of node n.                                         *)
KnownById(n) == IF n.id \in Ids THEN byId[n.id] ELSE None
KnownByName(n) == IF n.name \in Names THEN byName[n.name] ELSE None

(* The endpoint of node n: when id and name know different ones, the name   *)
(* decides and the one of the id is removed.                                *)
Found(n) == IF KnownByName(n) # None THEN KnownByName(n) ELSE KnownById(n)
Settled(n) ==
    IF None \notin {KnownById(n), KnownByName(n)} /\ KnownById(n) # KnownByName(n)
    THEN RemoveId(World, n.id) ELSE World

(* mutable_endpoint(): the endpoint found for a node, or a new one. The     *)
(* result is the endpoint and the world.                                    *)
MutableEndpoint(n) ==
    IF Found(n) # None
    THEN {[e |-> Found(n),
           w |-> [Indexed(Settled(n), n, Found(n)) EXCEPT !.ep[Found(n)].node = n]]}
    ELSE {[e |-> e, w |-> [Indexed(Settled(n), n, e) EXCEPT !.ep[e] = r]] :
            e \in {x \in Objects : ~Alive(x)}, r \in Created(n)}

-----------------------------------------------------------------------------
(* Actions                                                                  *)

(* push_forward_message() of the next message to endpoint e in world w.     *)
Push(w, e) ==
    LET m == count + 1
    IN \E p \in PushForwardMessage(w.ep[e], m) :
         /\ Becomes([w EXCEPT !.ep[e] = p.ep, !.fate[m] = p.fate])
         /\ loop' = IF p.fate = "looped" THEN Append(loop, m) ELSE loop
         /\ via' = [via EXCEPT ![m] = e]

(* send_message() finds the endpoint in one of the indexes ...              *)
SendCached(e) ==
    /\ phase # "gone" /\ count < MaxMessages /\ Alive(e)
    /\ count' = count + 1
    /\ Push(World, e)
    /\ UNCHANGED phase

(* ... or has the node from the discovery, which needs an app that is not   *)
(* stopping.                                                                *)
SendDiscovered(n) ==
    /\ phase = "running" /\ count < MaxMessages
    /\ count' = count + 1
    /\ \E c \in MutableEndpoint(n) : Push(c.w, c.e)
    /\ UNCHANGED phase

(* A connector reports that the handle of e became ready or unready, or     *)
(* closes it; the last one starts the collection of the endpoint.           *)
HandleReady(e) ==
    /\ ep[e].conn = "remote" /\ ~ep[e].ready
    /\ ep' = [ep EXCEPT ![e] = AddWaker([@ EXCEPT !.ready = TRUE], 1)]
    /\ UNCHANGED <<byId, byName, loop, count, fate, via, phase>>

HandleUnready(e) ==
    /\ ep[e].conn = "remote" /\ ep[e].ready
    /\ ep' = [ep EXCEPT ![e].ready = FALSE]
    /\ UNCHANGED <<byId, byName, loop, count, fate, via, phase>>

(* Slip: the time of collection is set and nobody is woken for it.          *)
HandleCloseUnwatched(e) ==
    /\ ep[e].conn = "remote"
    /\ ep' = [ep EXCEPT ![e] = [@ EXCEPT !.conn = "none", !.ready = FALSE, !.gc = GcTimeout + 1]]
    /\ UNCHANGED <<byId, byName, loop, count, fate, via, phase>>

HandleClose(e) ==
    /\ ep[e].conn = "remote"
    /\ ep' = [ep EXCEPT ![e] = AddWaker([@ EXCEPT !.conn = "none", !.ready = FALSE,
                                                  !.gc = GcTimeout + 1], GcTimeout + 1)]
    /\ UNCHANGED <<byId, byName, loop, count, fate, via, phase>>

(* Slip: the time of collection is always put off.                          *)
RecycleLater(w, e) ==
    IF w.ep[e].conn # "none" THEN w ELSE [w EXCEPT !.ep[e] = AddWaker(@, @.gc)]

(* "Delay recycle": an endpoint without a connection goes when it is time.  *)
Recycle(w, e) ==
    IF w.ep[e].conn # "none" THEN w
    ELSE IF w.ep[e].gc = 0 THEN RemoveEndpoint(w, e)
    ELSE [w EXCEPT !.ep[e] = AddWaker(@, @.gc)]

(* process_internal_events() takes the first waker when it is due.          *)
WakeUp(e) ==
    /\ 0 \in ep[e].wakers
    /\ LET r == [ep[e] EXCEPT !.wakers = @ \ {0}, !.nearest = IF @ = 0 THEN Never ELSE @]
       IN \E p \in RetryPendingMessages(r) :
            Becomes(Recycle([World EXCEPT
                !.ep[e] = p.ep,
                !.fate = Mark(Mark(@, p.ok, "sent"), p.bad, "answered")], e))
    /\ UNCHANGED <<loop, count, via, phase>>

(* atapp_connector_loopback::process(): one message to the app.             *)
Loopback ==
    /\ loop # <<>> /\ phase # "gone"
    /\ fate' = [fate EXCEPT ![Head(loop)] = "delivered"]
    /\ loop' = Tail(loop)
    /\ UNCHANGED <<ep, byId, byName, count, via, phase>>

(* The discovery deletes a node: remove_endpoint() by id, then by name.     *)
NodeDeleted(n) ==
    /\ phase # "gone"
    /\ Becomes(RemoveName(RemoveId(World, n.id), n.name))
    /\ UNCHANGED <<loop, count, via, phase>>

Sooner(t) == IF t > 0 THEN t - 1 ELSE t

ExpiresSooner(p) == [p EXCEPT !.exp = Sooner(@)]

Later(r) == [r EXCEPT !.nearest = Sooner(@), !.gc = Sooner(@),
                      !.wakers = {Sooner(t) : t \in @},
                      !.pending = [i \in DOMAIN @ |-> ExpiresSooner(@[i])]]

Tick ==
    /\ phase # "gone"
    /\ ep' = [e \in Objects |-> IF Alive(e) THEN Later(ep[e]) ELSE ep[e]]
    /\ UNCHANGED <<byId, byName, loop, count, fate, via, phase>>

Stop ==
    /\ phase = "running" /\ phase' = "stopping"
    /\ UNCHANGED <<ep, byId, byName, loop, count, fate, via>>

(* ~app(): every endpoint is closed, then all objects go.                   *)
Destroy ==
    /\ phase # "gone" /\ phase' = "gone"
    /\ Becomes([ep |-> [e \in Objects |-> Reset(ep[e])],
                byId |-> [i \in Ids |-> None], byName |-> [k \in Names |-> None],
                fate |-> Mark(fate, UNION {Cancelled(ep[e]) : e \in Objects}, "answered")])
    /\ loop' = <<>>
    /\ UNCHANGED <<count, via>>

Next ==
    \/ \E e \in Objects :
         \/ SendCached(e) \/ HandleReady(e) \/ HandleUnready(e) \/ HandleClose(e) \/ WakeUp(e)
    \/ \E n \in Nodes : SendDiscovered(n) \/ NodeDeleted(n)
    \/ Loopback \/ Tick \/ Stop \/ Destroy

Spec == Init /\ [][Next]_vars

(* Ticks go on, and each one handles the wakers that are due and what the   *)
(* loopback connector holds.                                                *)
Fairness == /\ WF_vars(Tick) /\ WF_vars(Loopback)
            /\ \A e \in Objects : WF_vars(WakeUp(e))

FairSpec == Spec /\ Fairness

-----------------------------------------------------------------------------
Times == Nat \cup {Never}
PendingMessage == [msg : Messages, exp : Nat]

(* Every variable keeps its type.                                           *)
TypeOK ==
    /\ ep \in [Objects -> [node : Nodes \cup {None}, nearest : Times, wakers : SUBSET Nat,
                           gc : Nat, pending : Seq(PendingMessage),
                           conn : {"none", "loop", "remote"}, ready : BOOLEAN]]
    /\ byId \in [Ids -> Objects \cup {None}] /\ byName \in [Names -> Objects \cup {None}]
    /\ loop \in Seq(Messages) /\ count \in 0..MaxMessages
    /\ fate \in [Messages -> Fates] /\ via \in [Messages -> Objects \cup {None}]
    /\ phase \in {"running", "stopping", "gone"}

(* endpoint_waker_ and nearest_waker_ agree: an endpoint never has a second *)
(* waker, nor believes in one that is not there, which would make it deaf   *)
(* to every later add_waker().                                              *)
WakerRecorded ==
    \A e \in Objects : ep[e].wakers = IF ep[e].nearest = Never THEN {} ELSE {ep[e].nearest}

(* The state is well formed, and the two records of the wakers agree.       *)
WakersConsistent == TypeOK /\ WakerRecorded

(* While the app runs, an endpoint with waiting messages is looked at no    *)
(* later than the first of them expires, whatever happens to its handle.    *)
PendingWatched ==
    phase = "running" => \A e \in Objects :
        ep[e].pending # <<>> => ep[e].nearest \in 0..Head(ep[e].pending).exp

(* No other node shares the id or the name of n.                            *)
Unambiguous(n) == \A x \in Nodes : x.id = n.id \/ x.name = n.name => x = n

(* An endpoint that has no connection, of a node that kept its id and name. *)
Idle(e) == Alive(e) /\ ep[e].conn = "none" /\ Unambiguous(ep[e].node)

(* While the app runs, an endpoint without a connection is looked at again: *)
(* none escapes the garbage collection, so that the next message to its     *)
(* node makes an endpoint that connects.                                    *)
IdleWatched == phase = "running" => \A e \in Objects : Idle(e) => ep[e].nearest # Never

(* A message waits in one queue, and none that was sent or answered waits:  *)
(* nothing is sent twice.                                                   *)
QueuedOnce ==
    \A e \in Objects : \A i \in DOMAIN ep[e].pending :
        LET m == ep[e].pending[i].msg
        IN /\ fate[m] = "accepted"
           /\ \A d \in Objects : \A j \in DOMAIN ep[d].pending :
                ep[d].pending[j].msg = m => d = e /\ j = i

(* Messages handed to one endpoint do not overtake each other: none is sent *)
(* while an earlier one still waits.                                        *)
NoOvertaking ==
    \A e \in Objects : \A m \in MessagesOf(ep[e]) : \A k \in Messages :
        k > m /\ via[k] = via[m] => fate[k] \notin {"sent", "looped", "delivered"}

(* The endpoint of such a node is in both indexes or in none: whichever way *)
(* it is removed, nobody finds what is left of it.                          *)
IndexesAgree ==
    \A n \in Nodes : Unambiguous(n) /\ n.id # 0 /\ n.name # "" => byId[n.id] = byName[n.name]

(* An endpoint of such a node is found by both of its keys, and looked at   *)
(* again as long as it has no connection.                                   *)
IdleReachable == IdleWatched /\ IndexesAgree

(* An accepted message does not wait forever.                               *)
WaitEnds == \A m \in Messages : fate[m] = "accepted" ~> fate[m] # "accepted" \/ phase # "running"

(* An endpoint without a connection goes, and its node can be reached anew. *)
IdleCollected == \A e \in Objects : Idle(e) ~> ~Alive(e) \/ phase # "running"
=============================================================================
