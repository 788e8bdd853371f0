-------------------------- MODULE EndpointsProofs ---------------------------
(* Endpoints are woken for what waits in them and, without a connection,    *)
(* for their collection, for every number of endpoints, nodes and messages, *)
(* every length of the queues and every timeout; messages leave in order,   *)
(* whatever waits and wherever they go.                                     *)
(*                                                                          *)
(* The first invariant is about one endpoint at a time (Sound): its record  *)
(* is well formed, its two notes of the next waker agree and, while the app *)
(* runs, that waker is no later than the first message expires. The second  *)
(* (Reached) is about the endpoints the indexes hold: where their entries   *)
(* lead, and that one without a connection is woken. Each operator of the   *)
(* model keeps both, whatever world it is applied to.                       *)
EXTENDS Endpoints, FiniteSetTheorems, SequenceTheorems, TLAPS

\* A record of an endpoint object.
Record == [node : Nodes \cup {None}, nearest : Times, wakers : SUBSET Nat, gc : Nat,
           pending : Seq(PendingMessage), conn : {"none", "loop", "remote"},
           ready : BOOLEAN]

\* endpoint_waker_ and nearest_waker_ of one object agree.
Recorded(r) == r.wakers = IF r.nearest = Never THEN {} ELSE {r.nearest}

\* The first waiting message of one object is woken for.
Watched(r) == r.pending # <<>> => r.nearest \in 0..Head(r.pending).exp

Sound(r) == r \in Record /\ Recorded(r) /\ (phase = "running" => Watched(r))

Worlds == [ep : [Objects -> Record], byId : [Ids -> Objects \cup {None}],
           byName : [Names -> Objects \cup {None}], fate : [Messages -> Fates]]

SoundWorld(w) == w \in Worlds /\ \A e \in Objects : Sound(w.ep[e])

-----------------------------------------------------------------------------
(* Operators on a record. *)

LEMMA SoundAddWaker ==
  ASSUME NEW r \in Record, Recorded(r), NEW t \in Nat
  PROVE  /\ AddWaker(r, t) \in Record /\ Recorded(AddWaker(r, t))
         /\ AddWaker(r, t).pending = r.pending
         /\ AddWaker(r, t).conn = r.conn /\ AddWaker(r, t).ready = r.ready
         /\ AddWaker(r, t).node = r.node /\ AddWaker(r, t).gc = r.gc
         /\ phase = "running" => AddWaker(r, t).nearest \in 0..t
         /\ r.nearest # Never => AddWaker(r, t).nearest \in 0..r.nearest
<1> USE DEF Times, Never
<1>1. CASE phase = "running" /\ (r.nearest = Never \/ t < r.nearest)
  <2> DEFINE s == [r EXCEPT !.nearest = t,
                   !.wakers = (@ \cup {t}) \ (IF r.nearest > t THEN {r.nearest} ELSE {})]
  <2>1. AddWaker(r, t) = s BY <1>1 DEF AddWaker
  <2>2. s \in Record BY DEF Record
  <2>3. s.wakers = {t} /\ s.nearest = t
    BY <1>1 DEF Record, Recorded
  <2>4. s.pending = r.pending /\ s.conn = r.conn /\ s.ready = r.ready
        /\ s.node = r.node /\ s.gc = r.gc
    BY DEF Record
  <2>5. r.nearest \in Times BY DEF Record
  <2> QED BY <1>1, <2>1, <2>2, <2>3, <2>4, <2>5 DEF Recorded
<1>2. CASE ~(phase = "running" /\ (r.nearest = Never \/ t < r.nearest))
  <2>1. AddWaker(r, t) = r BY <1>2 DEF AddWaker
  <2>2. r.nearest \in Times BY DEF Record
  <2> QED BY <1>2, <2>1, <2>2
<1> QED BY <1>1, <1>2

LEMMA AddWakerKeeps ==
  ASSUME NEW r, Sound(r), NEW t \in Nat
  PROVE  Sound(AddWaker(r, t))
<1>1. /\ r \in Record /\ Recorded(r) BY DEF Sound
<1>2. CASE r.pending = <<>>
  BY <1>1, <1>2, SoundAddWaker DEF Sound, Watched
<1>3. CASE r.pending # <<>> /\ phase = "running"
  <2>1. r.nearest \in 0..Head(r.pending).exp
    BY <1>3 DEF Sound, Watched
  <2>2. Head(r.pending).exp \in Nat
    <3>1. r.pending \in Seq(PendingMessage) BY <1>1 DEF Record
    <3>2. Head(r.pending) \in PendingMessage BY <1>3, <3>1
    <3> QED BY <3>2 DEF PendingMessage
  <2>4. r.nearest \in Nat /\ r.nearest # Never BY <2>1, <2>2 DEF Never
  <2>5. AddWaker(r, t).nearest \in 0..r.nearest
    BY <1>1, <2>4, SoundAddWaker
  <2>3. AddWaker(r, t).nearest \in 0..Head(r.pending).exp
    BY <2>1, <2>2, <2>4, <2>5
  <2> QED BY <1>1, <2>3, SoundAddWaker DEF Sound, Watched
<1>4. CASE phase # "running" BY <1>1, <1>4, SoundAddWaker DEF Sound
<1> QED BY <1>2, <1>3, <1>4

LEMMA SoundQueued ==
  ASSUME NEW r, Sound(r), NEW m \in Messages
  PROVE  /\ Sound(Queued(r, m).ep)
         /\ Queued(r, m).fate \in {"refused", "accepted"}
<1> DEFINE x == [msg |-> m, exp |-> MsgTimeout]
           q == [r EXCEPT !.pending = Append(@, x)]
<1>1. CASE Len(r.pending) + 1 > SendBuffer BY <1>1 DEF Queued
<1>2. CASE ~(Len(r.pending) + 1 > SendBuffer)
  <2>1. /\ Queued(r, m).ep = AddWaker(q, MsgTimeout)
        /\ Queued(r, m).fate = "accepted"
    BY <1>2 DEF Queued
  <2>2. x \in PendingMessage /\ MsgTimeout \in Nat
    BY EndpointAssumption DEF PendingMessage
  <2>3. r.pending \in Seq(PendingMessage) BY DEF Sound, Record
  <2>4. q \in Record
    <3>1. Append(r.pending, x) \in Seq(PendingMessage) BY <2>2, <2>3
    <3> QED BY <3>1 DEF Sound, Record
  <2>5. Recorded(q) /\ q.nearest = r.nearest /\ q.pending = Append(r.pending, x)
    BY DEF Sound, Record, Recorded
  <2>6. CASE r.pending = <<>>
    <3>1. Head(q.pending) = x BY <2>3, <2>5, <2>6
    <3>2. phase = "running" => AddWaker(q, MsgTimeout).nearest \in 0..MsgTimeout
      BY <2>2, <2>4, <2>5, SoundAddWaker
    <3>3. phase = "running" => Watched(AddWaker(q, MsgTimeout))
      <4>1. AddWaker(q, MsgTimeout).pending = q.pending
        BY <2>2, <2>4, <2>5, SoundAddWaker
      <4>2. Head(q.pending).exp = MsgTimeout BY <3>1
      <4> QED BY <3>2, <4>1, <4>2 DEF Watched
    <3> QED BY <2>1, <2>2, <2>4, <2>5, <3>3, SoundAddWaker DEF Sound
  <2>7. CASE r.pending # <<>>
    <3>1. Head(q.pending) = Head(r.pending) /\ q.pending # <<>>
      BY <2>2, <2>3, <2>5, <2>7
    <3>2. Sound(q) BY <2>4, <2>5, <2>7, <3>1 DEF Sound, Watched
    <3> QED BY <2>1, <2>2, <3>2, AddWakerKeeps
  <2> QED BY <2>6, <2>7
<1> QED BY <1>1, <1>2

LEMMA SoundUnready ==
  ASSUME NEW r, Sound(r), NEW b \in BOOLEAN
  PROVE  Sound([r EXCEPT !.ready = b])
  BY DEF Sound, Record, Recorded, Watched

LEMMA SoundPush ==
  ASSUME NEW r, Sound(r), NEW m \in Messages, NEW p \in PushForwardMessage(r, m)
  PROVE  Sound(p.ep) /\ p.fate \in {"refused", "accepted", "sent", "looped"}
<1>1. CASE p = Queued(r, m) BY <1>1, SoundQueued
<1>2. CASE p = Queued([r EXCEPT !.ready = FALSE], m)
  BY <1>2, SoundQueued, SoundUnready
<1>3. CASE p.ep = r /\ p.fate \in {"refused", "sent", "looped"} BY <1>3
<1>4. \/ p = Queued(r, m) \/ p = Queued([r EXCEPT !.ready = FALSE], m)
      \/ p.ep = r /\ p.fate \in {"refused", "sent", "looped"}
  BY DEF PushForwardMessage, SendRequest
<1> QED BY <1>1, <1>2, <1>3, <1>4

\* The messages that have expired are a prefix of the queue.
LEMMA ExpiredBound ==
  ASSUME NEW p \in Seq(PendingMessage)
  PROVE  Expired(p) \in 0..Len(p)
<1> DEFINE S == {i \in DOMAIN p : \A j \in 1..i : p[j].exp = 0}
<1>1. Len(p) \in Nat /\ DOMAIN p = 1..Len(p) OBVIOUS
<1>2. IsFiniteSet(1..Len(p)) /\ Cardinality(1..Len(p)) = Len(p)
  BY <1>1, FS_Interval
<1>3. S \subseteq 1..Len(p) BY <1>1
<1>4. IsFiniteSet(S) /\ Cardinality(S) <= Cardinality(1..Len(p))
  BY <1>2, <1>3, FS_Subset
<1>5. Cardinality(S) \in Nat BY <1>4, FS_CardinalityType
<1> QED BY <1>1, <1>2, <1>4, <1>5 DEF Expired

\* retry_pending_messages() makes sure that what it leaves is woken for, also
\* when the waker that made it run is gone.
LEMMA SoundAfterRetry ==
  ASSUME NEW r \in Record, Recorded(r), NEW k \in 0..Len(r.pending)
  PROVE  Sound(AfterRetry(r, k))
<1> DEFINE q == SubSeq(r.pending, k + 1, Len(r.pending))
           s == [r EXCEPT !.pending = q]
<1>1. r.pending \in Seq(PendingMessage) BY DEF Record
<1>2. q \in Seq(PendingMessage)
  BY <1>1, SubSeqProperties
<1>3. s \in Record /\ Recorded(s) /\ s.pending = q
  BY <1>2 DEF Record, Recorded
<1>4. CASE q = <<>>
  BY <1>3, <1>4 DEF AfterRetry, Sound, Watched
<1>5. CASE q # <<>>
  <2>1. AfterRetry(r, k) = AddWaker(s, Head(q).exp)
    BY <1>3, <1>5 DEF AfterRetry
  <2>2. Head(q).exp \in Nat
    <3>1. Head(q) \in PendingMessage BY <1>2, <1>5
    <3> QED BY <3>1 DEF PendingMessage
  <2>3. AddWaker(s, Head(q).exp).pending = q
    BY <1>3, <2>2, SoundAddWaker
  <2>4. phase = "running" => AddWaker(s, Head(q).exp).nearest \in 0..Head(q).exp
    BY <1>3, <2>2, SoundAddWaker
  <2>5. /\ AddWaker(s, Head(q).exp) \in Record
        /\ Recorded(AddWaker(s, Head(q).exp))
    BY <1>3, <2>2, SoundAddWaker
  <2> QED BY <2>1, <2>3, <2>4, <2>5 DEF Sound, Watched
<1> QED BY <1>4, <1>5

LEMMA SoundRetry ==
  ASSUME NEW r \in Record, Recorded(r), NEW p \in RetryPendingMessages(r)
  PROVE  Sound(p.ep)
<1> DEFINE k == IF r.ready THEN IF Len(r.pending) < LoopTimes THEN Len(r.pending)
                                                            ELSE LoopTimes
                           ELSE Expired(r.pending)
<1>1. r.pending \in Seq(PendingMessage) /\ Len(r.pending) \in Nat BY DEF Record
<1>2. k \in 0..Len(r.pending)
  BY <1>1, ExpiredBound, EndpointAssumption
<1> DEFINE tried == {r.pending[i].msg : i \in 1..k}
<1>3. PICK a \in [ok : SUBSET tried, ready : BOOLEAN] :
        p = [ep |-> AfterRetry([r EXCEPT !.ready = a.ready], k), ok |-> a.ok,
             bad |-> tried \ a.ok]
  BY Zenon DEF RetryPendingMessages
<1> DEFINE b == a.ready
<1>4. /\ [r EXCEPT !.ready = b] \in Record /\ Recorded([r EXCEPT !.ready = b])
      /\ [r EXCEPT !.ready = b].pending = r.pending
  BY <1>3 DEF Record, Recorded
<1>5. p.ep = AfterRetry([r EXCEPT !.ready = b], k) BY <1>3
<1> QED BY <1>2, <1>4, <1>5, SoundAfterRetry

LEMMA SoundReset == ASSUME NEW r, Sound(r) PROVE Sound(Reset(r))
<1>1. r \in Record /\ <<>> \in Seq(PendingMessage) BY DEF Sound
<1>2. Reset(r).pending = <<>> \/ Reset(r).pending = r.pending
  BY <1>1 DEF Reset, Record
<1>3. Reset(r).nearest = r.nearest /\ Reset(r).wakers = r.wakers
  BY <1>1 DEF Reset, Record
<1>4. Reset(r) \in Record BY <1>1 DEF Reset, Record
<1> QED BY <1>2, <1>3, <1>4 DEF Sound, Recorded, Watched

LEMMA SoundBlank == Sound(Blank)
<1>1. /\ GcTimeout \in Nat /\ Never \in Times
      /\ <<>> \in Seq(PendingMessage) /\ {} \in SUBSET Nat
  BY EndpointAssumption DEF Times
<1>2. Blank \in Record BY <1>1 DEF Record, Blank
<1> QED BY <1>2 DEF Blank, Sound, Recorded, Watched

LEMMA SoundNode ==
  ASSUME NEW r, Sound(r), NEW n \in Nodes
  PROVE  Sound([r EXCEPT !.node = n])
  BY DEF Sound, Record, Recorded, Watched

LEMMA SoundCreated == ASSUME NEW n \in Nodes, NEW r \in Created(n) PROVE Sound(r)
<1> DEFINE fresh == AddWaker([Blank EXCEPT !.node = n], 1)
           With(c, b) == [fresh EXCEPT !.conn = c, !.ready = b]
<1>1. Sound(fresh) BY SoundBlank, SoundNode, AddWakerKeeps
<1>2. ASSUME NEW c \in {"loop", "remote"} PROVE Sound([fresh EXCEPT !.conn = c])
  BY <1>1 DEF Sound, Record, Recorded, Watched
<1>3. ASSUME NEW c \in {"loop", "remote"} PROVE Sound(With(c, TRUE))
  BY <1>1 DEF Sound, Record, Recorded, Watched
<1>4. r \in {AddWaker(With("loop", TRUE), 1), fresh, [fresh EXCEPT !.conn = "remote"],
              AddWaker(With("remote", TRUE), 1)}
  BY DEF Created
<1> QED BY <1>1, <1>2, <1>3, <1>4, AddWakerKeeps

LEMMA SoundLater == ASSUME NEW r, Sound(r) PROVE Sound(Later(r))
<1>1. r \in Record /\ r.pending \in Seq(PendingMessage) BY DEF Sound, Record
<1>2. \A t \in Times : Sooner(t) \in Times /\ (Sooner(t) = Never <=> t = Never)
  BY DEF Times, Sooner, Never
<1>3. \A t \in Nat : Sooner(t) \in Nat BY DEF Sooner
<1> DEFINE q == [i \in DOMAIN r.pending |-> ExpiresSooner(r.pending[i])]
<1>4. /\ q \in Seq(PendingMessage) /\ Len(q) = Len(r.pending)
      /\ q = <<>> <=> r.pending = <<>>
      /\ r.pending # <<>> => Head(q).exp = Sooner(Head(r.pending).exp)
  <2>1. \A i \in 1..Len(r.pending) : r.pending[i] \in PendingMessage BY <1>1
  <2>2. \A i \in 1..Len(r.pending) : q[i] \in PendingMessage
    <3> SUFFICES ASSUME NEW i \in 1..Len(r.pending) PROVE q[i] \in PendingMessage
      OBVIOUS
    <3>1. r.pending[i] \in PendingMessage /\ r.pending[i].exp \in Nat
      BY <2>1 DEF PendingMessage
    <3>2. q[i] = ExpiresSooner(r.pending[i]) BY <1>1
    <3> QED BY <1>3, <3>1, <3>2 DEF PendingMessage, ExpiresSooner
  <2>3. q \in Seq(PendingMessage) /\ Len(q) = Len(r.pending)
    <3>1. DOMAIN q = 1..Len(r.pending) /\ Len(r.pending) \in Nat BY <1>1
    <3>2. q \in [1..Len(r.pending) -> PendingMessage] BY <2>2, <3>1
    <3> HIDE DEF q
    <3>3. q \in Seq(PendingMessage) BY <3>1, <3>2
    <3> QED BY <3>1, <3>3
  <2>4. q = <<>> <=> r.pending = <<>> BY <1>1, <2>3
  <2>5. ASSUME r.pending # <<>> PROVE Head(q).exp = Sooner(Head(r.pending).exp)
    <3>1. 1 \in 1..Len(r.pending) /\ Head(q) = q[1] /\ Head(r.pending) = r.pending[1]
      BY <1>1, <2>3, <2>4, <2>5
    <3>2. q[1] = ExpiresSooner(r.pending[1])
      BY <1>1, <3>1
    <3> QED BY <2>1, <3>1, <3>2 DEF PendingMessage, ExpiresSooner
  <2> QED BY <2>3, <2>4, <2>5
<1>5. /\ Later(r).nearest = Sooner(r.nearest) /\ Later(r).gc = Sooner(r.gc)
      /\ Later(r).wakers = {Sooner(t) : t \in r.wakers} /\ Later(r).pending = q
      /\ Later(r).node = r.node /\ Later(r).conn = r.conn /\ Later(r).ready = r.ready
  <2>1. Later(r) = [r EXCEPT !.nearest = Sooner(r.nearest), !.gc = Sooner(r.gc),
                             !.wakers = {Sooner(t) : t \in r.wakers}, !.pending = q]
    BY Zenon DEF Later
  <2> HIDE DEF q
  <2> QED BY <1>1, <2>1 DEF Record
<1>6. Later(r) \in Record
  <2>1. Later(r) = [r EXCEPT !.nearest = Sooner(r.nearest), !.gc = Sooner(r.gc),
                             !.wakers = {Sooner(t) : t \in r.wakers}, !.pending = q]
    BY Zenon DEF Later
  <2>2. {Sooner(t) : t \in r.wakers} \in SUBSET Nat BY <1>1, <1>3 DEF Record
  <2>3. Sooner(r.nearest) \in Times /\ Sooner(r.gc) \in Nat
    BY <1>1, <1>2, <1>3 DEF Record
  <2> HIDE DEF q
  <2> QED BY <1>1, <1>4, <2>1, <2>2, <2>3 DEF Record
<1>7. Recorded(Later(r))
  <2>1. r.nearest \in Times /\ Recorded(r) BY <1>1 DEF Sound, Record
  <2> QED BY <1>2, <1>5, <2>1 DEF Recorded
<1>8. ASSUME phase = "running", r.pending # <<>>
      PROVE  Later(r).nearest \in 0..Head(q).exp
  <2>1. r.nearest \in 0..Head(r.pending).exp BY <1>8 DEF Sound, Watched
  <2>2. Head(r.pending).exp \in Nat
    <3>1. Head(r.pending) \in PendingMessage BY <1>1, <1>8
    <3> QED BY <3>1 DEF PendingMessage
  <2> QED BY <1>4, <1>5, <1>8, <2>1, <2>2 DEF Sooner
<1> QED BY <1>4, <1>5, <1>6, <1>7, <1>8 DEF Sound, Watched

-----------------------------------------------------------------------------
(* Operators on a world. *)

LEMMA MarkType ==
  ASSUME NEW f \in [Messages -> Fates], NEW S, NEW what \in Fates
  PROVE  Mark(f, S, what) \in [Messages -> Fates]
  BY DEF Mark

LEMMA EraseType ==
  ASSUME NEW K, NEW index \in [K -> Objects \cup {None}], NEW key, NEW e
  PROVE  Erase(index, key, e) \in [K -> Objects \cup {None}]
  BY DEF Erase

LEMMA SoundClose ==
  ASSUME NEW w, SoundWorld(w), NEW e \in Objects
  PROVE  SoundWorld(Close(w, e))
<1>1. w \in Worlds /\ "answered" \in Fates BY DEF SoundWorld, Fates
<1>2. Mark(w.fate, Cancelled(w.ep[e]), "answered") \in [Messages -> Fates]
  BY <1>1, MarkType DEF Worlds
<1>3. Sound(Reset(w.ep[e])) BY SoundReset DEF SoundWorld
<1>4. Reset(w.ep[e]) \in Record BY <1>3 DEF Sound
<1>5. /\ Close(w, e) \in Worlds
      /\ Close(w, e).ep = [w.ep EXCEPT ![e] = Reset(w.ep[e])]
  BY <1>1, <1>2, <1>4 DEF Close, Worlds
<1>6. \A d \in Objects : Sound(Close(w, e).ep[d])
  BY <1>1, <1>3, <1>5 DEF SoundWorld, Worlds
<1> QED BY <1>5, <1>6 DEF SoundWorld

\* A world with other indexes is as sound as before.
LEMMA SoundIndexes ==
  ASSUME NEW w, SoundWorld(w), NEW ids \in [Ids -> Objects \cup {None}],
         NEW names \in [Names -> Objects \cup {None}]
  PROVE  SoundWorld([w EXCEPT !.byId = ids, !.byName = names])
  BY DEF SoundWorld, Worlds

LEMMA SoundRemoveId ==
  ASSUME NEW w, SoundWorld(w), NEW i
  PROVE  SoundWorld(RemoveId(w, i))
<1> DEFINE e == IF i \in Ids THEN w.byId[i] ELSE None
           v == [w EXCEPT !.byId = Erase(@, i, e), !.byName = Erase(@, w.ep[e].node.name, e)]
<1>1. CASE e = None BY <1>1 DEF RemoveId
<1>2. CASE e # None
  <2>1. e \in Objects BY <1>2 DEF SoundWorld, Worlds
  <2>2. /\ Erase(w.byId, i, e) \in [Ids -> Objects \cup {None}]
        /\ Erase(w.byName, w.ep[e].node.name, e) \in [Names -> Objects \cup {None}]
    BY EraseType DEF SoundWorld, Worlds
  <2>3. SoundWorld(v) BY <2>2, SoundIndexes
  <2>4. RemoveId(w, i) = Close(v, e) BY <1>2 DEF RemoveId
  <2> QED BY <2>1, <2>3, <2>4, SoundClose
<1> QED BY <1>1, <1>2

LEMMA SoundRemoveName ==
  ASSUME NEW w, SoundWorld(w), NEW k
  PROVE  SoundWorld(RemoveName(w, k))
<1> DEFINE e == IF k \in Names THEN w.byName[k] ELSE None
           v == [w EXCEPT !.byName = Erase(@, k, e), !.byId = Erase(@, w.ep[e].node.id, e)]
<1>1. CASE e = None BY <1>1 DEF RemoveName
<1>2. CASE e # None
  <2>1. e \in Objects BY <1>2 DEF SoundWorld, Worlds
  <2>2. /\ Erase(w.byName, k, e) \in [Names -> Objects \cup {None}]
        /\ Erase(w.byId, w.ep[e].node.id, e) \in [Ids -> Objects \cup {None}]
    BY EraseType DEF SoundWorld, Worlds
  <2>3. SoundWorld(v) BY <2>2 DEF SoundWorld, Worlds
  <2>4. RemoveName(w, k) = Close(v, e) BY <1>2 DEF RemoveName
  <2> QED BY <2>1, <2>3, <2>4, SoundClose
<1> QED BY <1>1, <1>2

LEMMA SoundRemoveEndpoint ==
  ASSUME NEW w, SoundWorld(w), NEW e \in Objects
  PROVE  SoundWorld(RemoveEndpoint(w, e))
<1> DEFINE v == [w EXCEPT !.byId = Erase(@, w.ep[e].node.id, e),
                          !.byName = Erase(@, w.ep[e].node.name, e)]
<1>1. /\ Erase(w.byId, w.ep[e].node.id, e) \in [Ids -> Objects \cup {None}]
      /\ Erase(w.byName, w.ep[e].node.name, e) \in [Names -> Objects \cup {None}]
  BY EraseType DEF SoundWorld, Worlds
<1>2. SoundWorld(v) BY <1>1, SoundIndexes
<1> QED BY <1>2, SoundClose DEF RemoveEndpoint

\* A world in which one object has another record, and some fates changed.
LEMMA SoundUpdate ==
  ASSUME NEW w, SoundWorld(w), NEW e \in Objects, NEW r, Sound(r),
         NEW f \in [Messages -> Fates]
  PROVE  SoundWorld([w EXCEPT !.ep[e] = r, !.fate = f])
<1>1. r \in Record /\ w \in Worlds BY DEF Sound, SoundWorld
<1>2. [w EXCEPT !.ep[e] = r, !.fate = f] \in Worlds BY <1>1 DEF Worlds
<1>3. [w EXCEPT !.ep[e] = r, !.fate = f].ep = [w.ep EXCEPT ![e] = r]
  BY <1>1 DEF Worlds
<1> QED BY <1>1, <1>2, <1>3 DEF SoundWorld, Worlds

LEMMA SoundObject ==
  ASSUME NEW w, SoundWorld(w), NEW e \in Objects, NEW r, Sound(r)
  PROVE  SoundWorld([w EXCEPT !.ep[e] = r])
<1>1. r \in Record /\ w \in Worlds BY DEF Sound, SoundWorld
<1>2. [w EXCEPT !.ep[e] = r] \in Worlds BY <1>1 DEF Worlds
<1>3. [w EXCEPT !.ep[e] = r].ep = [w.ep EXCEPT ![e] = r] BY <1>1 DEF Worlds
<1> QED BY <1>1, <1>2, <1>3 DEF SoundWorld, Worlds

LEMMA SoundRecycle ==
  ASSUME NEW w, SoundWorld(w), NEW e \in Objects
  PROVE  SoundWorld(Recycle(w, e))
<1>1. CASE w.ep[e].conn # "none" BY <1>1 DEF Recycle
<1>2. CASE w.ep[e].conn = "none" /\ w.ep[e].gc = 0
  BY <1>2, SoundRemoveEndpoint DEF Recycle
<1>3. CASE w.ep[e].conn = "none" /\ w.ep[e].gc # 0
  <2> DEFINE r == AddWaker(w.ep[e], w.ep[e].gc)
  <2>1. w.ep[e].gc \in Nat /\ Sound(w.ep[e]) BY DEF SoundWorld, Sound, Record
  <2>2. Sound(r) BY <2>1, AddWakerKeeps
  <2>3. Recycle(w, e) = [w EXCEPT !.ep[e] = r] BY <1>3 DEF Recycle
  <2> QED BY <2>2, <2>3, SoundObject
<1> QED BY <1>1, <1>2, <1>3

\* What no index holds is destroyed; the others stay as they are.
LEMMA SoundBecomes ==
  ASSUME NEW w, SoundWorld(w), Becomes(w)
  PROVE  /\ ep' \in [Objects -> Record]
         /\ byId' \in [Ids -> Objects \cup {None}]
         /\ byName' \in [Names -> Objects \cup {None}]
         /\ fate' \in [Messages -> Fates]
         /\ \A e \in Objects : Sound(ep'[e])
<1> DEFINE kept == {e \in Objects : Held(w.byId, w.byName, e)}
           lost == UNION {MessagesOf(w.ep[e]) : e \in Objects \ kept}
<1>1. /\ ep' = [e \in Objects |-> IF e \in kept THEN w.ep[e] ELSE Blank]
      /\ byId' = w.byId /\ byName' = w.byName
      /\ fate' = Mark(w.fate, lost, "dropped")
  BY DEF Becomes
<1>2. Sound(Blank) BY SoundBlank
<1>3. \A e \in Objects : Sound(ep'[e])
  BY <1>1, <1>2 DEF SoundWorld
<1>4. \A e \in Objects : ep'[e] \in Record BY <1>3 DEF Sound
<1>5. ep' \in [Objects -> Record] BY <1>1, <1>4
<1>6. fate' \in [Messages -> Fates]
  BY <1>1, MarkType DEF SoundWorld, Worlds, Fates
<1> QED BY <1>1, <1>3, <1>5, <1>6 DEF SoundWorld, Worlds

-----------------------------------------------------------------------------
(* The invariant. *)

EndpointInv == TypeOK /\ \A e \in Objects : Sound(ep[e])

LEMMA SoundState == ASSUME EndpointInv PROVE SoundWorld(World)
  BY DEF EndpointInv, TypeOK, Sound, SoundWorld, World, Worlds

LEMMA SoundIndexed ==
  ASSUME NEW w, SoundWorld(w), NEW n, NEW e \in Objects
  PROVE  SoundWorld(Indexed(w, n, e))
<1> DEFINE ids == [x \in Ids |-> IF x = n.id THEN e ELSE w.byId[x]]
           names == [x \in Names |-> IF x = n.name THEN e ELSE w.byName[x]]
<1>1. /\ w.byId \in [Ids -> Objects \cup {None}]
      /\ w.byName \in [Names -> Objects \cup {None}]
  BY DEF SoundWorld, Worlds
<1>2. /\ ids \in [Ids -> Objects \cup {None}]
      /\ names \in [Names -> Objects \cup {None}]
  BY <1>1
<1>3. Indexed(w, n, e) = [w EXCEPT !.byId = ids, !.byName = names] BY DEF Indexed
<1> HIDE DEF ids, names
<1>4. SoundWorld([w EXCEPT !.byId = ids, !.byName = names]) BY <1>2, SoundIndexes
<1> QED BY <1>3, <1>4

LEMMA SoundSettled ==
  ASSUME EndpointInv, NEW n \in Nodes
  PROVE  SoundWorld(Settled(n)) /\ Found(n) \in Objects \cup {None}
<1>1. SoundWorld(Settled(n)) BY SoundState, SoundRemoveId DEF Settled
<1>2. KnownById(n) \in Objects \cup {None} BY DEF EndpointInv, TypeOK, KnownById
<1>3. KnownByName(n) \in Objects \cup {None} BY DEF EndpointInv, TypeOK, KnownByName
<1> QED BY <1>1, <1>2, <1>3 DEF Found

LEMMA SoundMutable ==
  ASSUME EndpointInv, NEW n \in Nodes, NEW c \in MutableEndpoint(n)
  PROVE  c.e \in Objects /\ SoundWorld(c.w)
<1> DEFINE w == Settled(n)
           f == Found(n)
<1>1. SoundWorld(w) /\ f \in Objects \cup {None} BY SoundSettled
<1>2. CASE f # None
  <2> DEFINE v == Indexed(w, n, f)
             r == [v.ep[f] EXCEPT !.node = n]
  <2>1. f \in Objects BY <1>1, <1>2
  <2>2. c.e = f /\ c.w = [v EXCEPT !.ep[f].node = n]
    BY <1>2 DEF MutableEndpoint
  <2> HIDE DEF w, f
  <2>3. SoundWorld(v) BY <1>1, <2>1, SoundIndexed
  <2> HIDE DEF v
  <2>4. Sound(r) BY <2>1, <2>3, SoundNode DEF SoundWorld
  <2>5. [v EXCEPT !.ep[f].node = n] = [v EXCEPT !.ep[f] = r]
    BY <2>1, <2>3 DEF SoundWorld, Worlds
  <2> HIDE DEF r
  <2>6. SoundWorld([v EXCEPT !.ep[f] = r]) BY <2>1, <2>3, <2>4, SoundObject
  <2> QED BY <2>1, <2>2, <2>5, <2>6
<1>3. CASE f = None
  <2>1. PICK e \in {x \in Objects : ~Alive(x)}, r \in Created(n) :
          c = [e |-> e, w |-> [Indexed(w, n, e) EXCEPT !.ep[e] = r]]
    BY <1>3 DEF MutableEndpoint
  <2> DEFINE v == Indexed(w, n, e)
  <2>2. c.e = e /\ c.w = [v EXCEPT !.ep[e] = r] BY <2>1
  <2>3. SoundWorld(v) BY <1>1, SoundIndexed
  <2> HIDE DEF v
  <2> QED BY <2>2, <2>3, SoundCreated, SoundObject
<1> QED BY <1>2, <1>3

LEMMA SoundPushes ==
  ASSUME EndpointInv, count < MaxMessages, NEW w, SoundWorld(w), NEW e \in Objects,
         Push(w, e), count' = count + 1, UNCHANGED phase
  PROVE  EndpointInv'
<1> DEFINE m == count + 1
<1>1. m \in Messages BY EndpointAssumption DEF EndpointInv, TypeOK, Messages
<1>2. PICK p \in PushForwardMessage(w.ep[e], m) :
        /\ Becomes([w EXCEPT !.ep[e] = p.ep, !.fate[m] = p.fate])
        /\ loop' = IF p.fate = "looped" THEN Append(loop, m) ELSE loop
        /\ via' = [via EXCEPT ![m] = e]
  BY DEF Push
<1> HIDE DEF m
<1>3. Sound(p.ep) /\ p.fate \in Fates
  BY <1>1, SoundPush DEF SoundWorld, Fates
<1> DEFINE f == [w.fate EXCEPT ![m] = p.fate]
<1>4. f \in [Messages -> Fates] BY <1>3 DEF SoundWorld, Worlds
<1>5. [w EXCEPT !.ep[e] = p.ep, !.fate[m] = p.fate] = [w EXCEPT !.ep[e] = p.ep, !.fate = f]
  BY DEF SoundWorld, Worlds
<1> HIDE DEF f
<1>6. SoundWorld([w EXCEPT !.ep[e] = p.ep, !.fate[m] = p.fate])
  BY <1>3, <1>4, <1>5, SoundUpdate
<1>7. /\ ep' \in [Objects -> Record] /\ byId' \in [Ids -> Objects \cup {None}]
      /\ byName' \in [Names -> Objects \cup {None}] /\ fate' \in [Messages -> Fates]
      /\ \A d \in Objects : Sound(ep'[d])
  BY <1>2, <1>6, SoundBecomes
<1>8. loop' \in Seq(Messages) /\ via' \in [Messages -> Objects \cup {None}]
  BY <1>1, <1>2 DEF EndpointInv, TypeOK
<1>9. count' \in 0..MaxMessages BY EndpointAssumption DEF EndpointInv, TypeOK
<1> QED BY <1>7, <1>8, <1>9 DEF EndpointInv, TypeOK, Record, Sound

LEMMA InitEndpointInv == ASSUME Init PROVE EndpointInv
<1>1. \A e \in Objects : Sound(ep[e]) BY SoundBlank DEF Init
<1>2. ep \in [Objects -> Record] BY SoundBlank DEF Init, Sound
<1>3. 0 \in 0..MaxMessages /\ <<>> \in Seq(Messages) BY EndpointAssumption
<1> QED BY <1>1, <1>2, <1>3 DEF Init, EndpointInv, TypeOK, Record, Fates

\* Steps of the connector, of time and of the loopback connector.
LEMMA ObjectSteps ==
  ASSUME EndpointInv, NEW e \in Objects, NEW r, Sound(r),
         ep' = [ep EXCEPT ![e] = r],
         UNCHANGED <<byId, byName, loop, count, fate, via, phase>>
  PROVE  EndpointInv'
<1>1. r \in Record BY DEF Sound
<1>2. ep \in [Objects -> Record] BY DEF EndpointInv, TypeOK, Record
<1>3. \A d \in Objects : ep'[d] = IF d = e THEN r ELSE ep[d] BY <1>2
<1>4. ep' \in [Objects -> Record] BY <1>1, <1>2
<1>5. \A d \in Objects : Sound(ep'[d]) BY <1>3 DEF EndpointInv
<1> QED BY <1>4, <1>5 DEF EndpointInv, TypeOK, Record, Sound

LEMMA NextEndpointInv == ASSUME EndpointInv, [Next]_vars PROVE EndpointInv'
<1>1. ASSUME NEW e \in Objects, SendCached(e) PROVE EndpointInv'
  BY <1>1, SoundState, SoundPushes DEF SendCached
<1>2. ASSUME NEW n \in Nodes, SendDiscovered(n) PROVE EndpointInv'
  <2>1. PICK c \in MutableEndpoint(n) : Push(c.w, c.e) BY <1>2 DEF SendDiscovered
  <2>2. c.e \in Objects /\ SoundWorld(c.w) BY SoundMutable
  <2> QED BY <1>2, <2>1, <2>2, SoundPushes DEF SendDiscovered
<1>3. ASSUME NEW e \in Objects, HandleReady(e) PROVE EndpointInv'
  <2>1. Sound(AddWaker([ep[e] EXCEPT !.ready = TRUE], 1))
    BY SoundUnready, AddWakerKeeps DEF EndpointInv
  <2> QED BY <1>3, <2>1, ObjectSteps DEF HandleReady
<1>4. ASSUME NEW e \in Objects, HandleUnready(e) PROVE EndpointInv'
  <2>1. Sound([ep[e] EXCEPT !.ready = FALSE]) BY SoundUnready DEF EndpointInv
  <2>2. ep' = [ep EXCEPT ![e] = [ep[e] EXCEPT !.ready = FALSE]]
    BY <1>4 DEF HandleUnready, EndpointInv, TypeOK
  <2> QED BY <1>4, <2>1, <2>2, ObjectSteps DEF HandleUnready
<1>5. ASSUME NEW e \in Objects, HandleClose(e) PROVE EndpointInv'
  <2> DEFINE r == [ep[e] EXCEPT !.conn = "none", !.ready = FALSE, !.gc = GcTimeout + 1]
  <2>1. GcTimeout + 1 \in Nat BY EndpointAssumption
  <2>2. Sound(r) BY <2>1 DEF EndpointInv, Sound, Record, Recorded, Watched
  <2>3. Sound(AddWaker(r, GcTimeout + 1)) BY <2>1, <2>2, AddWakerKeeps
  <2>4. ep' = [ep EXCEPT ![e] = AddWaker(r, GcTimeout + 1)] BY <1>5 DEF HandleClose
  <2> QED BY <1>5, <2>3, <2>4, ObjectSteps DEF HandleClose
<1>6. ASSUME NEW e \in Objects, WakeUp(e) PROVE EndpointInv'
  <2> DEFINE r == [ep[e] EXCEPT !.wakers = @ \ {0}, !.nearest = IF @ = 0 THEN Never ELSE @]
  <2>1. PICK p \in RetryPendingMessages(r) :
          Becomes(Recycle([World EXCEPT
                    !.ep[e] = p.ep,
                    !.fate = Mark(Mark(@, p.ok, "sent"), p.bad, "answered")], e))
    BY <1>6 DEF WakeUp
  <2>2. r \in Record /\ Recorded(r)
    <3>1. ep[e] \in Record /\ Recorded(ep[e]) BY DEF EndpointInv, Sound
    <3>2. ep[e].nearest = 0 /\ ep[e].wakers = {0}
      BY <1>6, <3>1 DEF WakeUp, Recorded
    <3>3. Never \in Times BY DEF Times
    <3> QED BY <3>1, <3>2, <3>3 DEF Record, Recorded
  <2>3. Sound(p.ep) BY <2>2, SoundRetry
  <2> DEFINE f == Mark(Mark(fate, p.ok, "sent"), p.bad, "answered")
  <2>4. f \in [Messages -> Fates] BY MarkType DEF EndpointInv, TypeOK, Fates
  <2>5. World.fate = fate BY DEF World
  <2> HIDE DEF f
  <2>6. SoundWorld([World EXCEPT !.ep[e] = p.ep, !.fate = f])
    BY <2>3, <2>4, SoundState, SoundUpdate
  <2>7. SoundWorld(Recycle([World EXCEPT !.ep[e] = p.ep, !.fate = f], e))
    BY <2>6, SoundRecycle
  <2>8. Becomes(Recycle([World EXCEPT !.ep[e] = p.ep, !.fate = f], e))
    BY <2>1, <2>5 DEF f
  <2>9. UNCHANGED <<loop, count, via, phase>> BY <1>6 DEF WakeUp
  <2> QED
    BY <2>7, <2>8, <2>9, SoundBecomes DEF EndpointInv, TypeOK, Record, Sound
<1>7. CASE Loopback
  <2>1. Head(loop) \in Messages /\ Tail(loop) \in Seq(Messages)
    BY <1>7 DEF Loopback, EndpointInv, TypeOK
  <2> QED BY <1>7, <2>1 DEF Loopback, EndpointInv, TypeOK, Sound, Fates
<1>8. ASSUME NEW n \in Nodes, NodeDeleted(n) PROVE EndpointInv'
  <2>1. SoundWorld(RemoveName(RemoveId(World, n.id), n.name))
    BY SoundState, SoundRemoveId, SoundRemoveName
  <2>2. /\ Becomes(RemoveName(RemoveId(World, n.id), n.name))
        /\ UNCHANGED <<loop, count, via, phase>>
    BY <1>8 DEF NodeDeleted
  <2> QED
    BY <2>1, <2>2, SoundBecomes DEF EndpointInv, TypeOK, Record, Sound
<1>9. CASE Tick
  <2>1. \A e \in Objects : Sound(ep'[e])
    BY <1>9, SoundLater DEF Tick, EndpointInv
  <2>2. \A e \in Objects : ep'[e] \in Record BY <2>1 DEF Sound
  <2>3. ep' \in [Objects -> Record] BY <1>9, <2>2 DEF Tick
  <2> QED BY <1>9, <2>1, <2>3 DEF Tick, EndpointInv, TypeOK, Record, Sound
<1>10. CASE Stop BY <1>10 DEF Stop, EndpointInv, TypeOK, Sound
<1>11. CASE Destroy
  <2> DEFINE w == [ep |-> [e \in Objects |-> Reset(ep[e])],
                   byId |-> [i \in Ids |-> None], byName |-> [k \in Names |-> None],
                   fate |-> Mark(fate, UNION {Cancelled(ep[e]) : e \in Objects}, "answered")]
  <2>1. \A e \in Objects : Sound(Reset(ep[e])) BY SoundReset DEF EndpointInv
  <2>2. [e \in Objects |-> Reset(ep[e])] \in [Objects -> Record] BY <2>1 DEF Sound
  <2>3. w.fate \in [Messages -> Fates] BY MarkType DEF EndpointInv, TypeOK, Fates
  <2>4. w \in Worlds BY <2>2, <2>3 DEF Worlds
  <2>5. SoundWorld(w) BY <2>1, <2>4 DEF SoundWorld
  <2>6. Becomes(w) /\ loop' = <<>> /\ phase' = "gone" /\ UNCHANGED <<count, via>>
    BY <1>11 DEF Destroy
  <2> QED
    BY <2>5, <2>6, SoundBecomes DEF EndpointInv, TypeOK, Record, Sound
<1>12. CASE UNCHANGED vars BY <1>12 DEF vars, EndpointInv, TypeOK, Sound
<1> QED
  BY <1>1, <1>2, <1>3, <1>4, <1>5, <1>6, <1>7, <1>8, <1>9, <1>10, <1>11, <1>12
  DEF Next

LEMMA SpecEndpointInv == Spec => []EndpointInv
<1>1. EndpointInv /\ [Next]_vars => EndpointInv' BY NextEndpointInv
<1> QED BY InitEndpointInv, <1>1, PTL DEF Spec

\* add_waker() and process_internal_events(): every variable keeps its type, and
\* nearest_waker_ and endpoint_waker_ agree.
THEOREM EndpointWakersConsistent == Spec => []WakersConsistent
<1>1. EndpointInv => WakersConsistent
  BY DEF EndpointInv, WakersConsistent, WakerRecorded, Sound, Recorded
<1> QED BY SpecEndpointInv, <1>1, PTL

\* retry_pending_messages() and push_forward_message(): while the app runs, an
\* endpoint with waiting messages wakes up before the first of them expires.
THEOREM EndpointPendingWatched == Spec => []PendingWatched
<1>1. EndpointInv => PendingWatched
  BY DEF EndpointInv, PendingWatched, Sound, Watched
<1> QED BY SpecEndpointInv, <1>1, PTL

-----------------------------------------------------------------------------
(* The indexes. An entry of a node that kept its id and name is under its   *)
(* own keys, its keys lead to no other node's endpoint, and both or none of *)
(* them lead to one.                                                        *)
Placed(es, ids, names) ==
    /\ \A i \in Ids : ids[i] # None =>
         /\ es[ids[i]].node \in Nodes
         /\ Unambiguous(es[ids[i]].node) => es[ids[i]].node.id = i
    /\ \A k \in Names : names[k] # None =>
         /\ es[names[k]].node \in Nodes
         /\ Unambiguous(es[names[k]].node) => es[names[k]].node.name = k
    /\ \A n \in Nodes : Unambiguous(n) =>
         /\ n.id \in Ids => (ids[n.id] # None => es[ids[n.id]].node = n)
         /\ n.name \in Names => (names[n.name] # None => es[names[n.name]].node = n)
         /\ n.id \in Ids /\ n.name \in Names => ids[n.id] = names[n.name]

\* An idle endpoint of such a node is looked at again.
Woken(r) == r.conn = "none" /\ Unambiguous(r.node) => r.nearest # Never
Awake(es, ids, names) ==
    phase = "running" => \A e \in Objects : Held(ids, names, e) => Woken(es[e])

Reached(w) == Placed(w.ep, w.byId, w.byName) /\ Awake(w.ep, w.byId, w.byName)

ReachInv == EndpointInv /\ Reached(World)

Index(K) == [K -> Objects \cup {None}]

LEMMA KeyFacts ==
  ASSUME NEW n \in Nodes
  PROVE  /\ n.id # 0 => n.id \in Ids
         /\ n.name # "" => n.name \in Names
  BY DEF Ids, Names

\* Entries may go, if both of a node go, and records may change but for the node.
LEMMA PlacedShrinks ==
  ASSUME NEW es, NEW ids \in Index(Ids), NEW names \in Index(Names), Placed(es, ids, names),
         NEW ds, \A e \in Objects : ds[e].node = es[e].node,
         NEW is, NEW ks,
         \A i \in Ids : is[i] \in {ids[i], None},
         \A k \in Names : ks[k] \in {names[k], None},
         \A n \in Nodes : Unambiguous(n) /\ n.id \in Ids /\ n.name \in Names => is[n.id] = ks[n.name]
  PROVE  Placed(ds, is, ks)
<1>1. ASSUME NEW i \in Ids, is[i] # None
      PROVE  is[i] = ids[i] /\ ids[i] \in Objects /\ ds[is[i]].node = es[ids[i]].node
  BY <1>1 DEF Index
<1>2. ASSUME NEW k \in Names, ks[k] # None
      PROVE  ks[k] = names[k] /\ names[k] \in Objects /\ ds[ks[k]].node = es[names[k]].node
  BY <1>2 DEF Index
<1>3. ASSUME NEW i \in Ids, is[i] # None
      PROVE  ds[is[i]].node \in Nodes /\ (Unambiguous(ds[is[i]].node) => ds[is[i]].node.id = i)
  BY <1>1, <1>3 DEF Placed
<1>4. ASSUME NEW k \in Names, ks[k] # None
      PROVE  ds[ks[k]].node \in Nodes /\ (Unambiguous(ds[ks[k]].node) => ds[ks[k]].node.name = k)
  BY <1>2, <1>4 DEF Placed
<1>5. ASSUME NEW n \in Nodes, Unambiguous(n), n.id \in Ids, is[n.id] # None
      PROVE  ds[is[n.id]].node = n
  BY <1>1, <1>5 DEF Placed
<1>6. ASSUME NEW n \in Nodes, Unambiguous(n), n.name \in Names, ks[n.name] # None
      PROVE  ds[ks[n.name]].node = n
  BY <1>2, <1>6 DEF Placed
<1> QED BY <1>3, <1>4, <1>5, <1>6 DEF Placed

\* A removal erases an endpoint under a key that leads to it, or is its node's,
\* and under its node's other key: nothing is left of it, if its node kept both.
Removable(w, e, i, k) ==
    LET n == w.ep[e].node
    IN /\ n \in Nodes
       /\ \/ k = n.name /\ (i = n.id \/ (i \in Ids /\ w.byId[i] = e))
          \/ i = n.id /\ k \in Names /\ w.byName[k] = e

LEMMA PlacedErase ==
  ASSUME NEW w, SoundWorld(w), Placed(w.ep, w.byId, w.byName), NEW e \in Objects,
         NEW i, NEW k, Removable(w, e, i, k)
  PROVE  /\ Placed(w.ep, Erase(w.byId, i, e), Erase(w.byName, k, e))
         /\ Unambiguous(w.ep[e].node) => ~Held(Erase(w.byId, i, e), Erase(w.byName, k, e), e)
<1> DEFINE m == w.ep[e].node
           is == Erase(w.byId, i, e)
           ks == Erase(w.byName, k, e)
<1>0. /\ w.byId \in Index(Ids) /\ w.byName \in Index(Names) /\ m \in Nodes
      /\ e # None
  BY EndpointAssumption DEF SoundWorld, Worlds, Index, Removable
<1>1. \A x \in Ids : is[x] = IF x = i /\ w.byId[x] = e THEN None ELSE w.byId[x]
  BY <1>0 DEF Erase, Index
<1>2. \A x \in Names : ks[x] = IF x = k /\ w.byName[x] = e THEN None ELSE w.byName[x]
  BY <1>0 DEF Erase, Index
<1> HIDE DEF is, ks
<1>3. ASSUME Unambiguous(m) PROVE i = m.id /\ k = m.name
  BY <1>0, <1>3 DEF Removable, Placed
<1>4. ASSUME Unambiguous(m) PROVE ~Held(is, ks, e)
  <2>1. \A x \in Ids : w.byId[x] = e => x = m.id BY <1>0, <1>4 DEF Placed
  <2>2. \A x \in Names : w.byName[x] = e => x = m.name BY <1>0, <1>4 DEF Placed
  <2> QED BY <1>0, <1>1, <1>2, <1>3, <1>4, <2>1, <2>2 DEF Held
<1>5. ASSUME NEW n \in Nodes, Unambiguous(n), n.id \in Ids, n.name \in Names
      PROVE  is[n.id] = ks[n.name]
  <2>1. w.byId[n.id] = w.byName[n.name] BY <1>5 DEF Placed
  <2>2. w.byId[n.id] = e => m = n BY <1>0, <1>5 DEF Placed
  <2>3. CASE w.byId[n.id] = e BY <1>1, <1>2, <1>3, <1>5, <2>1, <2>2, <2>3
  <2>4. CASE w.byId[n.id] # e BY <1>1, <1>2, <1>5, <2>1, <2>4
  <2> QED BY <2>3, <2>4
<1>6. Placed(w.ep, is, ks) BY <1>0, <1>1, <1>2, <1>5, PlacedShrinks
<1> QED BY <1>4, <1>6 DEF is, ks

\* Removing an endpoint leaves the others reached.
LEMMA ReachedErase ==
  ASSUME NEW w, SoundWorld(w), Placed(w.ep, w.byId, w.byName), NEW e \in Objects,
         NEW i, NEW k, Removable(w, e, i, k),
         phase = "running" => \A d \in Objects \ {e} : Held(w.byId, w.byName, d) => Woken(w.ep[d]),
         NEW v, v = Close([w EXCEPT !.byId = Erase(@, i, e), !.byName = Erase(@, k, e)], e)
  PROVE  Reached(v)
<1> DEFINE is == Erase(w.byId, i, e)
           ks == Erase(w.byName, k, e)
<1>0. /\ w.byId \in Index(Ids) /\ w.byName \in Index(Names) /\ w.ep[e] \in Record
      /\ w.ep \in [Objects -> Record]
  BY DEF SoundWorld, Worlds, Index
<1>1. Placed(w.ep, is, ks) /\ (Unambiguous(w.ep[e].node) => ~Held(is, ks, e))
  BY PlacedErase
<1>2. \A d : Held(is, ks, d) => Held(w.byId, w.byName, d) \/ d = None
  BY <1>0 DEF Held, Erase, Index
<1>3. is \in Index(Ids) /\ ks \in Index(Names) BY <1>0, EraseType DEF Index
<1>4. v.ep = [w.ep EXCEPT ![e] = Reset(w.ep[e])] /\ v.byId = is /\ v.byName = ks
  BY DEF Close, SoundWorld, Worlds
<1> HIDE DEF is, ks
<1>5. Reset(w.ep[e]).node = w.ep[e].node BY <1>0 DEF Reset, Record
<1>6. \A d \in Objects : v.ep[d].node = w.ep[d].node /\ (d # e => v.ep[d] = w.ep[d])
  BY <1>0, <1>4, <1>5
<1>7. \A n \in Nodes : Unambiguous(n) /\ n.id \in Ids /\ n.name \in Names => is[n.id] = ks[n.name]
  BY <1>1 DEF Placed
<1>8. Placed(v.ep, is, ks) BY <1>1, <1>3, <1>6, <1>7, PlacedShrinks
<1>9. ASSUME phase = "running", NEW d \in Objects, Held(is, ks, d) PROVE Woken(v.ep[d])
  <2>1. d # None BY EndpointAssumption
  <2>2. CASE d = e BY <1>1, <1>6, <1>9, <2>2 DEF Woken
  <2>3. CASE d # e BY <1>2, <1>6, <1>9, <2>1, <2>3
  <2> QED BY <2>2, <2>3
<1> QED BY <1>4, <1>8, <1>9 DEF Reached, Awake

LEMMA ReachedRemoveId ==
  ASSUME NEW w, SoundWorld(w), Reached(w), NEW i
  PROVE  Reached(RemoveId(w, i))
<1> DEFINE e == IF i \in Ids THEN w.byId[i] ELSE None
           k == w.ep[e].node.name
           v == Close([w EXCEPT !.byId = Erase(@, i, e), !.byName = Erase(@, k, e)], e)
<1>1. CASE e = None BY <1>1 DEF RemoveId
<1>2. CASE e # None
  <2>1. e \in Objects /\ i \in Ids /\ w.byId[i] = e BY <1>2 DEF SoundWorld, Worlds
  <2>2. Removable(w, e, i, k) BY <1>2, <2>1 DEF Removable, Reached, Placed
  <2>3. RemoveId(w, i) = v BY <1>2 DEF RemoveId
  <2>4. PICK u : u = v OBVIOUS
  <2> HIDE DEF e, k
  <2>5. Reached(u) BY <2>1, <2>2, <2>4, ReachedErase DEF Reached, Awake
  <2> QED BY <2>3, <2>4, <2>5
<1> QED BY <1>1, <1>2

LEMMA ReachedRemoveName ==
  ASSUME NEW w, SoundWorld(w), Reached(w), NEW k
  PROVE  Reached(RemoveName(w, k))
<1> DEFINE e == IF k \in Names THEN w.byName[k] ELSE None
           i == w.ep[e].node.id
           v == Close([w EXCEPT !.byId = Erase(@, i, e), !.byName = Erase(@, k, e)], e)
<1>1. CASE e = None BY <1>1 DEF RemoveName
<1>2. CASE e # None
  <2>1. e \in Objects /\ k \in Names /\ w.byName[k] = e BY <1>2 DEF SoundWorld, Worlds
  <2>2. Removable(w, e, i, k) BY <1>2, <2>1 DEF Removable, Reached, Placed
  <2>3. RemoveName(w, k) = v BY <1>2 DEF RemoveName, SoundWorld, Worlds
  <2>4. PICK u : u = v OBVIOUS
  <2> HIDE DEF e, i
  <2>5. Reached(u) BY <2>1, <2>2, <2>4, ReachedErase DEF Reached, Awake
  <2> QED BY <2>3, <2>4, <2>5
<1> QED BY <1>1, <1>2

\* A new record of an endpoint of the same node.
LEMMA ReachedObject ==
  ASSUME NEW w, SoundWorld(w), Placed(w.ep, w.byId, w.byName), NEW e \in Objects,
         phase = "running" => \A d \in Objects \ {e} : Held(w.byId, w.byName, d) => Woken(w.ep[d]),
         NEW r, r.node = w.ep[e].node, phase = "running" => Woken(r),
         NEW v, v.ep = [w.ep EXCEPT ![e] = r], v.byId = w.byId, v.byName = w.byName
  PROVE  Reached(v)
<1>0. /\ w.byId \in Index(Ids) /\ w.byName \in Index(Names)
      /\ w.ep \in [Objects -> Record]
  BY DEF SoundWorld, Worlds, Index
<1>1. \A d \in Objects : v.ep[d].node = w.ep[d].node /\ v.ep[d] = IF d = e THEN r ELSE w.ep[d]
  BY <1>0
<1>2. \A n \in Nodes : Unambiguous(n) /\ n.id \in Ids /\ n.name \in Names => w.byId[n.id] = w.byName[n.name]
  BY DEF Placed
<1>3. Placed(v.ep, v.byId, v.byName) BY <1>0, <1>1, <1>2, PlacedShrinks, SMTT(30)
<1>4. Awake(v.ep, v.byId, v.byName) BY <1>1 DEF Awake
<1> QED BY <1>3, <1>4 DEF Reached

\* What is destroyed is in no index.
LEMMA ReachedBecomes ==
  ASSUME NEW w, SoundWorld(w), Reached(w), Becomes(w), phase' = phase \/ phase' # "running"
  PROVE  Reached(World)'
<1>0. w.byId \in Index(Ids) /\ w.byName \in Index(Names) BY DEF SoundWorld, Worlds, Index
<1>1. \A e \in Objects : Held(w.byId, w.byName, e) => ep'[e] = w.ep[e] BY DEF Becomes
<1>2. byId' = w.byId /\ byName' = w.byName BY DEF Becomes
<1>3. \A i \in Ids : w.byId[i] # None => ep'[w.byId[i]] = w.ep[w.byId[i]]
  BY <1>0, <1>1 DEF Held, Index
<1>4. \A k \in Names : w.byName[k] # None => ep'[w.byName[k]] = w.ep[w.byName[k]]
  BY <1>0, <1>1 DEF Held, Index
<1>5. Placed(ep', byId', byName') BY <1>2, <1>3, <1>4 DEF Placed, Reached
<1>6. Awake(ep, byId, byName)' BY <1>1, <1>2 DEF Awake, Reached, Woken
<1> QED BY <1>5, <1>6 DEF Reached, World, Placed

\* The endpoint of a pushed message is of the same node, and as much awake.
LEMMA WokenQueued ==
  ASSUME NEW r, Sound(r), NEW m \in Messages, phase = "running" => Woken(r)
  PROVE  Queued(r, m).ep.node = r.node /\ (phase = "running" => Woken(Queued(r, m).ep))
<1> DEFINE x == [msg |-> m, exp |-> MsgTimeout]
           q == [r EXCEPT !.pending = Append(@, x)]
<1>1. CASE Len(r.pending) + 1 > SendBuffer BY <1>1 DEF Queued
<1>2. CASE ~(Len(r.pending) + 1 > SendBuffer)
  <2>1. Queued(r, m).ep = AddWaker(q, MsgTimeout) BY <1>2 DEF Queued
  <2>2. x \in PendingMessage /\ MsgTimeout \in Nat
    BY EndpointAssumption DEF PendingMessage
  <2>3. r.pending \in Seq(PendingMessage) BY DEF Sound, Record
  <2>4. Append(r.pending, x) \in Seq(PendingMessage) BY <2>2, <2>3
  <2>5. q \in Record /\ Recorded(q) /\ q.node = r.node
    BY <2>4 DEF Sound, Record, Recorded
  <2> HIDE DEF q
  <2>6. AddWaker(q, MsgTimeout).node = q.node
        /\ (phase = "running" => AddWaker(q, MsgTimeout).nearest \in 0..MsgTimeout)
    BY <2>2, <2>5, SoundAddWaker
  <2>7. phase = "running" => AddWaker(q, MsgTimeout).nearest # Never
    BY <2>2, <2>6 DEF Never
  <2> QED BY <2>1, <2>5, <2>6, <2>7 DEF Woken
<1> QED BY <1>1, <1>2

LEMMA WokenPush ==
  ASSUME NEW r, Sound(r), NEW m \in Messages, NEW p \in PushForwardMessage(r, m),
         phase = "running" => Woken(r)
  PROVE  p.ep.node = r.node /\ (phase = "running" => Woken(p.ep))
<1> DEFINE q == [r EXCEPT !.ready = FALSE]
<1>1. Sound(q) /\ q.node = r.node /\ (phase = "running" => Woken(q))
  BY SoundUnready DEF Sound, Record, Woken
<1> HIDE DEF q
<1>2. CASE p = Queued(r, m) BY <1>2, WokenQueued
<1>3. CASE p = Queued(q, m) BY <1>1, <1>3, WokenQueued
<1>4. CASE p.ep = r BY <1>4
<1>5. p = Queued(r, m) \/ p = Queued(q, m) \/ p.ep = r
  BY DEF PushForwardMessage, SendRequest, q
<1> QED BY <1>2, <1>3, <1>4, <1>5

LEMMA ReachedPushes ==
  ASSUME EndpointInv, count < MaxMessages, NEW w, SoundWorld(w), Reached(w), NEW e \in Objects,
         phase = "running" => Woken(w.ep[e]), Push(w, e), UNCHANGED phase
  PROVE  Reached(World)'
<1> DEFINE m == count + 1
<1>1. m \in Messages BY EndpointAssumption DEF EndpointInv, TypeOK, Messages
<1>2. PICK p \in PushForwardMessage(w.ep[e], m) :
        Becomes([w EXCEPT !.ep[e] = p.ep, !.fate[m] = p.fate])
  BY DEF Push
<1> HIDE DEF m
<1>3. Sound(w.ep[e]) BY DEF SoundWorld
<1>4. p.ep.node = w.ep[e].node /\ (phase = "running" => Woken(p.ep))
  BY <1>1, <1>3, WokenPush
<1>5. Sound(p.ep) /\ p.fate \in Fates BY <1>1, <1>3, SoundPush DEF Fates
<1> DEFINE f == [w.fate EXCEPT ![m] = p.fate]
           v == [w EXCEPT !.ep[e] = p.ep, !.fate[m] = p.fate]
<1>6. f \in [Messages -> Fates] BY <1>5 DEF SoundWorld, Worlds
<1>7. v = [w EXCEPT !.ep[e] = p.ep, !.fate = f] BY DEF SoundWorld, Worlds
<1> HIDE DEF f
<1>8. SoundWorld(v) BY <1>5, <1>6, <1>7, SoundUpdate
<1>9. v.ep = [w.ep EXCEPT ![e] = p.ep] /\ v.byId = w.byId /\ v.byName = w.byName
  BY DEF SoundWorld, Worlds
<1>10. Becomes(v) BY <1>2
<1> HIDE DEF v
<1>11. Reached(v) BY <1>4, <1>9, ReachedObject DEF Reached, Awake
<1> QED BY <1>8, <1>10, <1>11, ReachedBecomes

\* An endpoint that was just woken is collected, or woken again.
LEMMA ReachedRecycle ==
  ASSUME NEW w, SoundWorld(w), Placed(w.ep, w.byId, w.byName), NEW e \in Objects,
         Held(w.byId, w.byName, e),
         phase = "running" => \A d \in Objects \ {e} : Held(w.byId, w.byName, d) => Woken(w.ep[d])
  PROVE  Reached(Recycle(w, e))
<1>0. Sound(w.ep[e]) /\ w.ep[e].gc \in Nat /\ w.ep \in [Objects -> Record]
  BY DEF SoundWorld, Worlds, Sound, Record
<1>1. CASE w.ep[e].conn # "none"
  <2>1. Woken(w.ep[e]) BY <1>1 DEF Woken
  <2> QED BY <1>1, <2>1 DEF Recycle, Reached, Awake
<1>2. CASE w.ep[e].conn = "none" /\ w.ep[e].gc = 0
  <2> DEFINE i == w.ep[e].node.id
             k == w.ep[e].node.name
             v == Close([w EXCEPT !.byId = Erase(@, i, e), !.byName = Erase(@, k, e)], e)
  <2>1. w.ep[e].node \in Nodes BY EndpointAssumption DEF Held, Placed
  <2>2. Removable(w, e, i, k) BY <2>1 DEF Removable
  <2>3. Recycle(w, e) = v BY <1>2 DEF Recycle, RemoveEndpoint
  <2>4. PICK u : u = v OBVIOUS
  <2> HIDE DEF i, k
  <2>5. Reached(u) BY <2>2, <2>4, ReachedErase
  <2> QED BY <2>3, <2>4, <2>5
<1>3. CASE w.ep[e].conn = "none" /\ w.ep[e].gc # 0
  <2> DEFINE r == AddWaker(w.ep[e], w.ep[e].gc)
             v == [w EXCEPT !.ep[e] = r]
  <2>1. r.node = w.ep[e].node /\ (phase = "running" => r.nearest \in 0..w.ep[e].gc)
    BY <1>0, SoundAddWaker DEF Sound
  <2>2. phase = "running" => Woken(r) BY <1>0, <2>1 DEF Woken, Never
  <2>3. Recycle(w, e) = v BY <1>3 DEF Recycle
  <2> HIDE DEF r
  <2>4. v.ep = [w.ep EXCEPT ![e] = r] /\ v.byId = w.byId /\ v.byName = w.byName
    BY DEF SoundWorld, Worlds
  <2> HIDE DEF v
  <2>5. Reached(v) BY <2>1, <2>2, <2>4, ReachedObject
  <2> QED BY <2>3, <2>5
<1> QED BY <1>1, <1>2, <1>3

\* What happens to an object in no index changes nothing.
LEMMA ReachedDead ==
  ASSUME NEW w, SoundWorld(w), Placed(w.ep, w.byId, w.byName), NEW e \in Objects,
         ~Held(w.byId, w.byName, e),
         phase = "running" => \A d \in Objects \ {e} : Held(w.byId, w.byName, d) => Woken(w.ep[d])
  PROVE  Reached(Recycle(w, e))
<1> DEFINE u == Recycle(w, e)
<1>0. w.byId \in Index(Ids) /\ w.byName \in Index(Names) /\ w.ep \in [Objects -> Record]
  BY DEF SoundWorld, Worlds, Index
<1>1. \A key : Erase(w.byId, key, e) = w.byId /\ Erase(w.byName, key, e) = w.byName
  <2> SUFFICES ASSUME NEW key
               PROVE  Erase(w.byId, key, e) = w.byId /\ Erase(w.byName, key, e) = w.byName
    OBVIOUS
  <2>1. \A i \in Ids : w.byId[i] # e BY DEF Held
  <2>2. \A k \in Names : w.byName[k] # e BY DEF Held
  <2> QED BY <1>0, <2>1, <2>2 DEF Erase, Index
<1>2. /\ u.byId = w.byId /\ u.byName = w.byName
      /\ \A d \in Objects \ {e} : u.ep[d] = w.ep[d]
  <2>1. CASE w.ep[e].conn # "none" BY <2>1 DEF Recycle
  <2>2. CASE w.ep[e].conn = "none" /\ w.ep[e].gc = 0
    <3>1. u = Close([w EXCEPT !.byId = w.byId, !.byName = w.byName], e)
      BY <1>1, <2>2 DEF Recycle, RemoveEndpoint
    <3> QED BY <1>0, <3>1 DEF Close, SoundWorld, Worlds
  <2>3. CASE w.ep[e].conn = "none" /\ w.ep[e].gc # 0
    <3>1. u = [w EXCEPT !.ep[e] = AddWaker(w.ep[e], w.ep[e].gc)] BY <2>3 DEF Recycle
    <3> QED BY <1>0, <3>1 DEF SoundWorld, Worlds
  <2> QED BY <2>1, <2>2, <2>3
<1> HIDE DEF u
<1>3. \A i \in Ids : w.byId[i] # None => w.byId[i] \in Objects \ {e}
  BY <1>0 DEF Held, Index
<1>4. \A k \in Names : w.byName[k] # None => w.byName[k] \in Objects \ {e}
  BY <1>0 DEF Held, Index
<1>5. Placed(u.ep, u.byId, u.byName) BY <1>2, <1>3, <1>4 DEF Placed
<1>6. Awake(u.ep, u.byId, u.byName) BY <1>2 DEF Awake
<1> QED BY <1>5, <1>6 DEF Reached, u

LEMMA RetryNode ==
  ASSUME NEW r \in Record, Recorded(r), NEW p \in RetryPendingMessages(r)
  PROVE  p.ep.node = r.node
<1> DEFINE k == IF r.ready THEN IF Len(r.pending) < LoopTimes THEN Len(r.pending)
                                                            ELSE LoopTimes
                           ELSE Expired(r.pending)
<1> DEFINE tried == {r.pending[i].msg : i \in 1..k}
<1>1. PICK a \in [ok : SUBSET tried, ready : BOOLEAN] :
        p = [ep |-> AfterRetry([r EXCEPT !.ready = a.ready], k), ok |-> a.ok,
             bad |-> tried \ a.ok]
  BY Zenon DEF RetryPendingMessages
<1> DEFINE q == [r EXCEPT !.ready = a.ready]
           s == [q EXCEPT !.pending = SubSeq(@, k + 1, Len(@))]
<1>2. p.ep = AfterRetry(q, k) BY <1>1
<1>3. AfterRetry(q, k) = s \/ \E t : AfterRetry(q, k) = AddWaker(s, t) BY DEF AfterRetry
<1>4. s.node = r.node BY DEF Record
<1>5. \A t : AddWaker(s, t).node = s.node
  <2>1. ASSUME NEW t PROVE [s EXCEPT !.nearest = t, !.wakers = (@ \cup {t}) \ (IF s.nearest > t THEN {s.nearest} ELSE {})].node = s.node
    BY DEF Record
  <2> QED BY <2>1 DEF AddWaker
<1> QED BY <1>2, <1>3, <1>4, <1>5

-----------------------------------------------------------------------------
(* mutable_endpoint().                                                      *)

\* A node that kept its id and name is found under both keys or under none.
LEMMA FoundNode ==
  ASSUME ReachInv, NEW n \in Nodes, Unambiguous(n)
  PROVE  /\ Settled(n) = World
         /\ Found(n) # None => ep[Found(n)].node = n
         /\ n.id \in Ids => byId[n.id] = IF n.name \in Names THEN byName[n.name] ELSE byId[n.id]
         /\ n.id \in Ids => byId[n.id] = Found(n)
         /\ n.name \in Names => byName[n.name] = Found(n)
<1>1. Placed(ep, byId, byName) BY DEF ReachInv, Reached, World
<1>2. n.id \in Ids /\ n.name \in Names => byId[n.id] = byName[n.name]
  BY <1>1 DEF Placed
<1>3. Settled(n) = World BY <1>2 DEF Settled, KnownById, KnownByName
<1>4. n.id \in Ids => byId[n.id] = Found(n)
  BY <1>2 DEF Found, KnownById, KnownByName
<1>5. n.name \in Names => byName[n.name] = Found(n)
  BY <1>2 DEF Found, KnownById, KnownByName
<1>6. Found(n) # None => n.id \in Ids \/ n.name \in Names
  BY DEF Found, KnownById, KnownByName
<1>7. Found(n) # None => ep[Found(n)].node = n
  BY <1>1, <1>4, <1>5, <1>6 DEF Placed
<1> QED BY <1>2, <1>3, <1>4, <1>5, <1>7

\* The endpoint found for a node that shares a key is not the endpoint of a
\* node that kept its own.
LEMMA FoundShared ==
  ASSUME ReachInv, NEW n \in Nodes, ~Unambiguous(n), Found(n) # None
  PROVE  ep[Found(n)].node \in Nodes /\ ~Unambiguous(ep[Found(n)].node)
<1>1. Placed(ep, byId, byName) BY DEF ReachInv, Reached, World
<1>2. \/ n.name \in Names /\ byName[n.name] = Found(n)
      \/ n.id \in Ids /\ byId[n.id] = Found(n)
  BY DEF Found, KnownById, KnownByName
<1>3. ep[Found(n)].node \in Nodes
      /\ (Unambiguous(ep[Found(n)].node) =>
            ep[Found(n)].node.name = n.name \/ ep[Found(n)].node.id = n.id)
  BY <1>1, <1>2 DEF Placed
<1> QED BY <1>3 DEF Unambiguous

\* Both keys of a node lead to an endpoint of that node.
LEMMA ReachedIndexed ==
  ASSUME NEW w, SoundWorld(w), Reached(w), NEW n \in Nodes, NEW e \in Objects,
         Unambiguous(n) =>
           /\ Held(w.byId, w.byName, e) => w.ep[e].node = n
           /\ n.id \in Ids => w.byId[n.id] \in {None, e}
           /\ n.name \in Names => w.byName[n.name] \in {None, e},
         ~Unambiguous(n) => (Held(w.byId, w.byName, e) => ~Unambiguous(w.ep[e].node)),
         NEW r, r.node = n, phase = "running" => Woken(r),
         NEW v, v = [Indexed(w, n, e) EXCEPT !.ep[e] = r]
  PROVE  Reached(v) /\ (n.id \in Ids \/ n.name \in Names => Held(v.byId, v.byName, e))
<1>0. /\ w.byId \in Index(Ids) /\ w.byName \in Index(Names)
      /\ w.ep \in [Objects -> Record] /\ e # None
  BY EndpointAssumption DEF SoundWorld, Worlds, Index
<1>1. /\ v.ep = [w.ep EXCEPT ![e] = r]
      /\ v.byId = [x \in Ids |-> IF x = n.id THEN e ELSE w.byId[x]]
      /\ v.byName = [x \in Names |-> IF x = n.name THEN e ELSE w.byName[x]]
  BY DEF Indexed, SoundWorld, Worlds
<1>2. /\ \A i \in Ids : v.byId[i] = IF i = n.id THEN e ELSE w.byId[i]
      /\ \A k \in Names : v.byName[k] = IF k = n.name THEN e ELSE w.byName[k]
      /\ \A d \in Objects : v.ep[d] = IF d = e THEN r ELSE w.ep[d]
  BY <1>0, <1>1
<1>3. Placed(w.ep, w.byId, w.byName) /\ Awake(w.ep, w.byId, w.byName) BY DEF Reached
<1>4. ASSUME NEW i \in Ids, v.byId[i] # None
      PROVE  v.ep[v.byId[i]].node \in Nodes
             /\ (Unambiguous(v.ep[v.byId[i]].node) => v.ep[v.byId[i]].node.id = i)
  <2>1. CASE v.byId[i] # e
    <3>1. v.byId[i] = w.byId[i] /\ w.byId[i] \in Objects BY <1>0, <1>2, <1>4, <2>1 DEF Index
    <3> QED BY <1>2, <1>3, <1>4, <2>1, <3>1 DEF Placed
  <2>2. CASE v.byId[i] = e
    <3>1. v.ep[v.byId[i]].node = n BY <1>2, <2>2
    <3>2. CASE i = n.id BY <3>1, <3>2
    <3>3. CASE i # n.id
      <4>1. w.byId[i] = e BY <1>2, <2>2, <3>3
      <4>2. Unambiguous(n) => w.ep[e].node = n BY <4>1 DEF Held
      <4>3. Unambiguous(n) => n.id = i BY <1>0, <1>3, <4>1, <4>2 DEF Placed
      <4> QED BY <3>1, <4>3
    <3> QED BY <3>2, <3>3
  <2> QED BY <2>1, <2>2
<1>5. ASSUME NEW k \in Names, v.byName[k] # None
      PROVE  v.ep[v.byName[k]].node \in Nodes
             /\ (Unambiguous(v.ep[v.byName[k]].node) => v.ep[v.byName[k]].node.name = k)
  <2>1. CASE v.byName[k] # e
    <3>1. v.byName[k] = w.byName[k] /\ w.byName[k] \in Objects BY <1>0, <1>2, <1>5, <2>1 DEF Index
    <3> QED BY <1>2, <1>3, <1>5, <2>1, <3>1 DEF Placed
  <2>2. CASE v.byName[k] = e
    <3>1. v.ep[v.byName[k]].node = n BY <1>2, <2>2
    <3>2. CASE k = n.name BY <3>1, <3>2
    <3>3. CASE k # n.name
      <4>1. w.byName[k] = e BY <1>2, <2>2, <3>3
      <4>2. Unambiguous(n) => w.ep[e].node = n BY <4>1 DEF Held
      <4>3. Unambiguous(n) => n.name = k BY <1>0, <1>3, <4>1, <4>2 DEF Placed
      <4> QED BY <3>1, <4>3
    <3> QED BY <3>2, <3>3
  <2> QED BY <2>1, <2>2
\* The keys of another such node lead where they did.
<1>6. ASSUME NEW x \in Nodes, Unambiguous(x), x # n
      PROVE  /\ x.id # n.id /\ x.name # n.name
             /\ x.id \in Ids => v.byId[x.id] = w.byId[x.id] /\ v.byId[x.id] # e
             /\ x.name \in Names => v.byName[x.name] = w.byName[x.name] /\ v.byName[x.name] # e
  <2>1. x.id # n.id /\ x.name # n.name BY <1>6 DEF Unambiguous
  <2>2. x.id \in Ids => w.byId[x.id] # e
    <3> SUFFICES ASSUME x.id \in Ids, w.byId[x.id] = e PROVE FALSE OBVIOUS
    <3>1. w.ep[e].node = x BY <1>0, <1>3, <1>6 DEF Placed
    <3>2. Held(w.byId, w.byName, e) BY DEF Held
    <3> QED BY <1>6, <3>1, <3>2
  <2>3. x.name \in Names => w.byName[x.name] # e
    <3> SUFFICES ASSUME x.name \in Names, w.byName[x.name] = e PROVE FALSE OBVIOUS
    <3>1. w.ep[e].node = x BY <1>0, <1>3, <1>6 DEF Placed
    <3>2. Held(w.byId, w.byName, e) BY DEF Held
    <3> QED BY <1>6, <3>1, <3>2
  <2> QED BY <1>2, <2>1, <2>2, <2>3
<1>7. ASSUME NEW x \in Nodes, Unambiguous(x)
      PROVE  /\ x.id \in Ids => (v.byId[x.id] # None => v.ep[v.byId[x.id]].node = x)
             /\ x.name \in Names => (v.byName[x.name] # None => v.ep[v.byName[x.name]].node = x)
             /\ x.id \in Ids /\ x.name \in Names => v.byId[x.id] = v.byName[x.name]
  <2>1. CASE x = n BY <1>2, <2>1
  <2>2. CASE x # n
    <3>1. ASSUME x.id \in Ids, v.byId[x.id] # None PROVE v.ep[v.byId[x.id]].node = x
      <4>1. v.byId[x.id] = w.byId[x.id] /\ v.byId[x.id] # e BY <1>6, <1>7, <2>2, <3>1
      <4>2. v.byId[x.id] \in Objects BY <1>0, <3>1, <4>1 DEF Index
      <4> QED BY <1>2, <1>3, <1>7, <3>1, <4>1, <4>2 DEF Placed
    <3>2. ASSUME x.name \in Names, v.byName[x.name] # None PROVE v.ep[v.byName[x.name]].node = x
      <4>1. v.byName[x.name] = w.byName[x.name] /\ v.byName[x.name] # e BY <1>6, <1>7, <2>2, <3>2
      <4>2. v.byName[x.name] \in Objects BY <1>0, <3>2, <4>1 DEF Index
      <4> QED BY <1>2, <1>3, <1>7, <3>2, <4>1, <4>2 DEF Placed
    <3>3. x.id \in Ids /\ x.name \in Names => v.byId[x.id] = v.byName[x.name]
      BY <1>3, <1>6, <1>7, <2>2 DEF Placed
    <3> QED BY <3>1, <3>2, <3>3
  <2> QED BY <2>1, <2>2
<1>8. Placed(v.ep, v.byId, v.byName) BY <1>4, <1>5, <1>7 DEF Placed
<1>9. ASSUME NEW d \in Objects, d # e, Held(v.byId, v.byName, d)
      PROVE  Held(w.byId, w.byName, d)
  BY <1>2, <1>9 DEF Held
<1>10. Awake(v.ep, v.byId, v.byName) BY <1>2, <1>3, <1>9 DEF Awake
<1>11. n.id \in Ids \/ n.name \in Names => Held(v.byId, v.byName, e) BY <1>2 DEF Held
<1> QED BY <1>8, <1>10, <1>11 DEF Reached

LEMMA CreatedNode ==
  ASSUME NEW n \in Nodes, NEW r \in Created(n)
  PROVE  r.node = n /\ (phase = "running" => Woken(r))
<1> DEFINE fresh == AddWaker([Blank EXCEPT !.node = n], 1)
           With(c) == [fresh EXCEPT !.conn = c, !.ready = TRUE]
<1>1. Sound([Blank EXCEPT !.node = n]) BY SoundBlank, SoundNode
<1>2. [Blank EXCEPT !.node = n].node = n BY DEF Blank
<1>3. Sound(fresh) /\ fresh.node = n /\ (phase = "running" => fresh.nearest \in 0..1)
  BY <1>1, <1>2, SoundAddWaker, AddWakerKeeps DEF Sound
<1> HIDE DEF fresh
<1>4. fresh \in Record /\ Recorded(fresh) BY <1>3 DEF Sound
<1>5. ASSUME NEW c \in {"loop", "remote"}
      PROVE  /\ With(c) \in Record /\ Recorded(With(c)) /\ With(c).node = n
             /\ With(c).conn = c
  BY <1>3, <1>4 DEF Record, Recorded
<1>6. ASSUME NEW c \in {"loop", "remote"}
      PROVE  AddWaker(With(c), 1).node = n /\ AddWaker(With(c), 1).conn = c
  <2> DEFINE x == With(c)
  <2>1. x \in Record /\ Recorded(x) /\ x.node = n /\ x.conn = c BY <1>5
  <2> HIDE DEF x
  <2>2. AddWaker(x, 1).node = x.node /\ AddWaker(x, 1).conn = x.conn
    BY <2>1, SoundAddWaker
  <2> QED BY <2>1, <2>2 DEF x
<1>7. [fresh EXCEPT !.conn = "remote"].node = n /\ [fresh EXCEPT !.conn = "remote"].conn = "remote"
  BY <1>3, <1>4 DEF Record
<1>8. r \in {AddWaker(With("loop"), 1), fresh, [fresh EXCEPT !.conn = "remote"],
              AddWaker(With("remote"), 1)}
  BY DEF Created, fresh
<1>9. CASE r = fresh
  <2>1. phase = "running" => fresh.nearest # Never BY <1>3 DEF Never
  <2> QED BY <1>3, <1>9, <2>1 DEF Woken
<1>10. CASE r # fresh
  <2>1. r.node = n /\ r.conn # "none" BY <1>6, <1>7, <1>8, <1>10
  <2> QED BY <2>1 DEF Woken
<1> QED BY <1>9, <1>10

LEMMA ReachedMutable ==
  ASSUME ReachInv, NEW n \in Nodes, NEW c \in MutableEndpoint(n)
  PROVE  Reached(c.w) /\ (phase = "running" => Woken(c.w.ep[c.e]))
<1>1. SoundWorld(World) /\ Reached(World) BY SoundState DEF ReachInv
<1> DEFINE w == Settled(n)
           f == Found(n)
<1>2. SoundWorld(w) /\ f \in Objects \cup {None} BY SoundSettled DEF ReachInv
<1>3. Reached(w) BY <1>1, ReachedRemoveId DEF Settled
\* Removing an endpoint keeps the nodes, and takes entries only.
<1>4. /\ \A d \in Objects : w.ep[d].node = ep[d].node
      /\ \A i \in Ids : w.byId[i] \in {byId[i], None}
      /\ \A k \in Names : w.byName[k] \in {byName[k], None}
  <2>1. CASE w = World BY <2>1 DEF World
  <2>2. CASE w # World
    <3> DEFINE e == IF n.id \in Ids THEN World.byId[n.id] ELSE None
               v == [World EXCEPT !.byId = Erase(@, n.id, e),
                            !.byName = Erase(@, World.ep[e].node.name, e)]
    <3>1. w = RemoveId(World, n.id) BY <2>2 DEF Settled
    <3>2. w = Close(v, e) BY <2>2, <3>1 DEF RemoveId
    <3>3. w.ep = [World.ep EXCEPT ![e] = Reset(World.ep[e])]
          /\ w.byId = Erase(byId, n.id, e) /\ w.byName = Erase(byName, World.ep[e].node.name, e)
      BY <3>2 DEF Close, World
    <3> HIDE DEF e, w
    <3>4. \A d \in Objects : Reset(ep[d]).node = ep[d].node
      BY DEF Reset, ReachInv, EndpointInv, TypeOK
    <3>5. \A d \in Objects : w.ep[d].node = ep[d].node
      <4>1. ep \in [Objects -> Record] BY DEF ReachInv, EndpointInv, TypeOK, Record
      <4> QED BY <3>3, <3>4, <4>1 DEF World
    <3>6. DOMAIN byId = Ids /\ DOMAIN byName = Names
      BY DEF ReachInv, EndpointInv, TypeOK
    <3> QED BY <3>3, <3>5, <3>6 DEF Erase
  <2> QED BY <2>1, <2>2
<1>5. \A e \in Objects : Held(w.byId, w.byName, e) => Alive(e)
  <2>1. \A e \in Objects : e # None BY EndpointAssumption
  <2> QED BY <1>4, <2>1 DEF Held, Alive
<1>6. CASE f # None
  <2> DEFINE v == Indexed(w, n, f)
             r == [v.ep[f] EXCEPT !.node = n]
             u == [v EXCEPT !.ep[f] = r]
  <2>1. f \in Objects BY <1>2, <1>6
  <2>2. c.e = f /\ c.w = [v EXCEPT !.ep[f].node = n]
    BY <1>6 DEF MutableEndpoint
  <2>3. v.ep = w.ep BY <1>2 DEF Indexed, SoundWorld, Worlds
  <2>4. Unambiguous(n) =>
           /\ w.ep[f].node = n
           /\ n.id \in Ids => w.byId[n.id] \in {None, f}
           /\ n.name \in Names => w.byName[n.name] \in {None, f}
    BY <1>4, <1>6, <2>1, FoundNode
  <2>5. ~Unambiguous(n) => ~Unambiguous(w.ep[f].node)
    BY <1>4, <1>6, <2>1, FoundShared
  <2>6. Alive(f)
    BY <1>6 DEF Found, KnownById, KnownByName, Alive, Held
  <2> HIDE DEF w
  <2>7. w.ep[f] \in Record BY <1>2, <2>1 DEF SoundWorld, Sound
  <2>8. r.node = n /\ r.conn = w.ep[f].conn /\ r.nearest = w.ep[f].nearest
    BY <2>3, <2>7 DEF Record
  <2>9. phase = "running" /\ Unambiguous(n) => Woken(w.ep[f])
    <3> SUFFICES ASSUME phase = "running", Unambiguous(n) PROVE Woken(w.ep[f]) OBVIOUS
    <3>1. w = World BY FoundNode DEF w
    <3> QED BY <1>1, <2>1, <2>6, <3>1 DEF Reached, Awake, World, Alive
  <2>10. phase = "running" => Woken(r)
    <3> SUFFICES ASSUME phase = "running", Unambiguous(n) PROVE Woken(r)
      BY <2>8 DEF Woken
    <3>1. Woken(w.ep[f]) BY <2>9
    <3> QED BY <2>4, <2>8, <3>1 DEF Woken
  <2>11. [v EXCEPT !.ep[f].node = n] = u
    BY <1>2, <2>1 DEF Indexed, SoundWorld, Worlds
  <2>12. u = [Indexed(w, n, f) EXCEPT !.ep[f] = r] OBVIOUS
  <2> HIDE DEF f, r, u
  <2>13. Reached(u) BY <1>2, <1>3, <2>1, <2>4, <2>5, <2>8, <2>10, <2>12, ReachedIndexed
  <2>14. u.ep[f] = r BY <1>2, <2>1, <2>3 DEF u, SoundWorld, Worlds, Indexed
  <2> QED BY <2>2, <2>10, <2>11, <2>13, <2>14
<1>7. CASE f = None
  <2>1. PICK e \in {x \in Objects : ~Alive(x)}, r \in Created(n) :
          c = [e |-> e, w |-> [Indexed(w, n, e) EXCEPT !.ep[e] = r]]
    BY <1>7 DEF MutableEndpoint
  <2> DEFINE u == [Indexed(w, n, e) EXCEPT !.ep[e] = r]
  <2>2. c.e = e /\ c.w = u /\ e \in Objects BY <2>1
  <2>3. r.node = n /\ (phase = "running" => Woken(r)) BY CreatedNode
  <2>4. ~Held(w.byId, w.byName, e) BY <1>5, <2>1
  <2>5. Unambiguous(n) =>
           /\ n.id \in Ids => w.byId[n.id] \in {None, e}
           /\ n.name \in Names => w.byName[n.name] \in {None, e}
    BY <1>4, <1>7, FoundNode
  <2> HIDE DEF w
  <2>6. u = [Indexed(w, n, e) EXCEPT !.ep[e] = r] OBVIOUS
  <2>7. u.ep[e] = r BY <1>2, <2>2 DEF SoundWorld, Worlds, Indexed
  <2> HIDE DEF u
  <2>8. Reached(u) BY <1>2, <1>3, <2>2, <2>3, <2>4, <2>5, <2>6, ReachedIndexed
  <2> QED BY <2>2, <2>3, <2>7, <2>8
<1> QED BY <1>2, <1>6, <1>7

-----------------------------------------------------------------------------
(* Every step keeps the endpoints in reach.                                 *)

\* A step of a connector or of time.
LEMMA ReachedRecords ==
  ASSUME ReachInv,
         \A e \in Objects : ep'[e].node = ep[e].node /\ (Woken(ep[e]) => Woken(ep'[e])),
         UNCHANGED <<byId, byName>>, phase' = phase \/ phase' # "running"
  PROVE  Reached(World)'
<1>1. byId \in Index(Ids) /\ byName \in Index(Names)
  BY DEF ReachInv, EndpointInv, TypeOK, Index
<1>2. Placed(ep, byId, byName) /\ Awake(ep, byId, byName) BY DEF ReachInv, Reached, World
<1>3. \A n \in Nodes : Unambiguous(n) /\ n.id \in Ids /\ n.name \in Names => byId[n.id] = byName[n.name]
  BY <1>2 DEF Placed
<1>4. Placed(ep', byId', byName') BY <1>1, <1>2, <1>3, PlacedShrinks
<1>5. Awake(ep, byId, byName)' BY <1>2 DEF Awake, Woken, Held
<1> QED BY <1>4, <1>5 DEF Reached, World, Placed

LEMMA NextReachInv == ASSUME ReachInv, [Next]_vars PROVE Reached(World)'
<1>0. EndpointInv /\ SoundWorld(World) /\ Reached(World) BY SoundState DEF ReachInv
<1>1. \A e \in Objects : ep[e] \in Record /\ Recorded(ep[e]) BY <1>0 DEF EndpointInv, Sound
<1>2. ep \in [Objects -> Record] BY <1>0 DEF EndpointInv, TypeOK, Record
<1>3. ASSUME NEW e \in Objects, SendCached(e) PROVE Reached(World)'
  <2>1. phase = "running" => Woken(World.ep[e])
    BY <1>0, <1>3 DEF SendCached, Alive, Reached, Awake, World
  <2> QED BY <1>0, <1>3, <2>1, ReachedPushes DEF SendCached
<1>4. ASSUME NEW n \in Nodes, SendDiscovered(n) PROVE Reached(World)'
  <2>1. PICK c \in MutableEndpoint(n) : Push(c.w, c.e) BY <1>4 DEF SendDiscovered
  <2>2. c.e \in Objects /\ SoundWorld(c.w) BY <1>0, SoundMutable
  <2>3. Reached(c.w) /\ (phase = "running" => Woken(c.w.ep[c.e])) BY ReachedMutable
  <2> QED BY <1>0, <1>4, <2>1, <2>2, <2>3, ReachedPushes DEF SendDiscovered
<1>5. ASSUME NEW e \in Objects, HandleReady(e) PROVE Reached(World)'
  <2> DEFINE q == [ep[e] EXCEPT !.ready = TRUE]
             r == AddWaker(q, 1)
  <2>1. q \in Record /\ Recorded(q) /\ q.node = ep[e].node /\ q.conn = "remote"
    BY <1>1, <1>5 DEF HandleReady, Record, Recorded
  <2>2. ep' = [ep EXCEPT ![e] = r] BY <1>5 DEF HandleReady
  <2> HIDE DEF q
  <2>3. r.node = ep[e].node /\ r.conn = "remote" BY <2>1, SoundAddWaker
  <2> HIDE DEF r
  <2>4. \A d \in Objects : ep'[d].node = ep[d].node /\ (Woken(ep[d]) => Woken(ep'[d]))
    BY <1>2, <2>2, <2>3 DEF Woken
  <2> QED BY <1>5, <2>4, ReachedRecords DEF HandleReady
<1>6. ASSUME NEW e \in Objects, HandleUnready(e) PROVE Reached(World)'
  <2>1. ep' = [ep EXCEPT ![e] = [ep[e] EXCEPT !.ready = FALSE]]
    BY <1>2, <1>6 DEF HandleUnready
  <2>2. \A d \in Objects : ep'[d].node = ep[d].node /\ (Woken(ep[d]) => Woken(ep'[d]))
    BY <1>1, <1>2, <2>1 DEF Woken, Record
  <2> QED BY <1>6, <2>2, ReachedRecords DEF HandleUnready
<1>7. ASSUME NEW e \in Objects, HandleClose(e) PROVE Reached(World)'
  <2> DEFINE q == [ep[e] EXCEPT !.conn = "none", !.ready = FALSE, !.gc = GcTimeout + 1]
             r == AddWaker(q, GcTimeout + 1)
  <2>1. GcTimeout + 1 \in Nat BY EndpointAssumption
  <2>2. q \in Record /\ Recorded(q) /\ q.node = ep[e].node
    BY <1>1, <2>1 DEF Record, Recorded
  <2>3. ep' = [ep EXCEPT ![e] = r] BY <1>7 DEF HandleClose
  <2> HIDE DEF q
  <2>4. r.node = ep[e].node /\ (phase = "running" => r.nearest \in 0..GcTimeout + 1)
    BY <2>1, <2>2, SoundAddWaker
  <2> HIDE DEF r
  <2>5. phase = "running" => Woken(r) BY <2>1, <2>4 DEF Woken, Never
  <2>6. UNCHANGED <<byId, byName, phase>> BY <1>7 DEF HandleClose
  <2>7. CASE phase = "running"
    <3>1. \A d \in Objects : ep'[d].node = ep[d].node /\ (Woken(ep[d]) => Woken(ep'[d]))
      BY <1>2, <2>3, <2>4, <2>5, <2>7
    <3> QED BY <2>6, <3>1, ReachedRecords
  <2>8. CASE phase # "running"
    <3>1. \A d \in Objects : ep'[d].node = ep[d].node BY <1>2, <2>3, <2>4
    <3>2. byId \in Index(Ids) /\ byName \in Index(Names)
      BY <1>0 DEF EndpointInv, TypeOK, Index
    <3>3. Placed(ep, byId, byName) BY <1>0 DEF Reached, World
    <3>4. \A n \in Nodes : Unambiguous(n) /\ n.id \in Ids /\ n.name \in Names
                            => byId[n.id] = byName[n.name]
      BY <3>3 DEF Placed
    <3>5. Placed(ep', byId', byName')
      BY <2>6, <3>1, <3>2, <3>3, <3>4, PlacedShrinks
    <3>6. Awake(ep, byId, byName)' BY <2>6, <2>8 DEF Awake
    <3> QED BY <3>5, <3>6 DEF Reached, World, Placed
  <2> QED BY <2>7, <2>8
<1>8. ASSUME NEW e \in Objects, WakeUp(e) PROVE Reached(World)'
  <2> DEFINE r == [ep[e] EXCEPT !.wakers = @ \ {0}, !.nearest = IF @ = 0 THEN Never ELSE @]
  <2>1. PICK p \in RetryPendingMessages(r) :
          Becomes(Recycle([World EXCEPT
                    !.ep[e] = p.ep,
                    !.fate = Mark(Mark(@, p.ok, "sent"), p.bad, "answered")], e))
    BY <1>8 DEF WakeUp
  <2>2. r \in Record /\ Recorded(r) /\ r.node = ep[e].node
    <3>1. ep[e].nearest = 0 /\ ep[e].wakers = {0}
      BY <1>1, <1>8 DEF WakeUp, Recorded
    <3>2. Never \in Times BY DEF Times
    <3> QED BY <1>1, <3>1, <3>2 DEF Record, Recorded
  <2>3. Sound(p.ep) /\ p.ep.node = ep[e].node BY <2>2, SoundRetry, RetryNode
  <2> DEFINE f == Mark(Mark(fate, p.ok, "sent"), p.bad, "answered")
             v == [World EXCEPT !.ep[e] = p.ep, !.fate = f]
  <2>4. f \in [Messages -> Fates] BY <1>0, MarkType DEF EndpointInv, TypeOK, Fates
  <2>5. World.fate = fate BY DEF World
  <2>6. Becomes(Recycle(v, e)) BY <2>1, <2>5
  <2> HIDE DEF f, r
  <2>7. SoundWorld(v) BY <1>0, <2>3, <2>4, SoundUpdate
  <2>8. v.ep = [ep EXCEPT ![e] = p.ep] /\ v.byId = byId /\ v.byName = byName
    BY DEF World
  <2> HIDE DEF v
  <2>9. \A d \in Objects : v.ep[d] = IF d = e THEN p.ep ELSE ep[d] BY <1>2, <2>8
  <2>10. Placed(v.ep, v.byId, v.byName)
    <3>1. byId \in Index(Ids) /\ byName \in Index(Names)
      BY <1>0 DEF EndpointInv, TypeOK, Index
    <3>2. Placed(ep, byId, byName) BY <1>0 DEF Reached, World
    <3>3. \A n \in Nodes : Unambiguous(n) /\ n.id \in Ids /\ n.name \in Names => byId[n.id] = byName[n.name]
      BY <3>2 DEF Placed
    <3>4. \A d \in Objects : v.ep[d].node = ep[d].node BY <2>3, <2>9
    <3> QED BY <2>8, <3>1, <3>2, <3>3, <3>4, PlacedShrinks
  <2>11. phase = "running" => \A d \in Objects \ {e} : Held(v.byId, v.byName, d) => Woken(v.ep[d])
    BY <1>0, <2>8, <2>9 DEF Reached, World, Awake
  <2>12. Reached(Recycle(v, e)) BY <2>7, <2>10, <2>11, ReachedRecycle, ReachedDead
  <2>13. SoundWorld(Recycle(v, e)) BY <2>7, SoundRecycle
  <2>14. phase' = phase BY <1>8 DEF WakeUp
  <2> QED BY <2>6, <2>12, <2>13, <2>14, ReachedBecomes
<1>9. CASE Loopback
  <2>1. \A e \in Objects : ep'[e].node = ep[e].node /\ (Woken(ep[e]) => Woken(ep'[e]))
    BY <1>9 DEF Loopback
  <2> QED BY <1>9, <2>1, ReachedRecords DEF Loopback
<1>10. ASSUME NEW n \in Nodes, NodeDeleted(n) PROVE Reached(World)'
  <2> DEFINE v == RemoveId(World, n.id)
             u == RemoveName(v, n.name)
  <2>1. SoundWorld(v) /\ Reached(v) BY <1>0, SoundRemoveId, ReachedRemoveId
  <2>2. Becomes(u) /\ phase' = phase BY <1>10 DEF NodeDeleted
  <2> HIDE DEF v
  <2>3. SoundWorld(u) /\ Reached(u) BY <2>1, SoundRemoveName, ReachedRemoveName
  <2> HIDE DEF u
  <2> QED BY <2>2, <2>3, ReachedBecomes
<1>11. CASE Tick
  <2>1. ASSUME NEW e \in Objects
        PROVE  ep'[e].node = ep[e].node /\ (Woken(ep[e]) => Woken(ep'[e]))
    <3>1. CASE ep'[e] = ep[e] BY <3>1
    <3>2. CASE ep'[e] = Later(ep[e])
      <4> DEFINE r == ep[e]
      <4>1. r \in Record BY <1>1
      <4>2. Later(r).node = r.node /\ Later(r).conn = r.conn
            /\ Later(r).nearest = Sooner(r.nearest)
        BY <4>1 DEF Later, Record
      <4>3. r.nearest # Never => Sooner(r.nearest) # Never
        BY <4>1 DEF Record, Times, Sooner, Never
      <4> QED BY <3>2, <4>2, <4>3 DEF Woken
    <3> QED BY <1>11, <3>1, <3>2 DEF Tick
  <2> QED BY <1>11, <2>1, ReachedRecords DEF Tick
<1>12. CASE Stop
  <2>1. \A e \in Objects : ep'[e].node = ep[e].node /\ (Woken(ep[e]) => Woken(ep'[e]))
    BY <1>12 DEF Stop
  <2> QED BY <1>12, <2>1, ReachedRecords DEF Stop
<1>13. CASE Destroy
  <2>1. byId' = [i \in Ids |-> None] /\ byName' = [k \in Names |-> None] /\ phase' = "gone"
    BY <1>13 DEF Destroy, Becomes
  <2>2. Placed(ep, byId, byName)' BY <2>1 DEF Placed
  <2>3. Awake(ep, byId, byName)' BY <2>1 DEF Awake
  <2> QED BY <2>2, <2>3 DEF Reached, World
<1>14. CASE UNCHANGED vars
  BY <1>0, <1>14 DEF vars, Reached, World, Placed, Awake, Woken, Held
<1> QED
  BY <1>3, <1>4, <1>5, <1>6, <1>7, <1>8, <1>9, <1>10, <1>11, <1>12, <1>13, <1>14
  DEF Next

\* An endpoint without a connection, of a node that kept its id and name, is in
\* both indexes or in none and, while the app runs, looked at again: mutable_
\* endpoint(), remove_endpoint() and the recycling leave none that is never
\* collected and in the way of a new one.
THEOREM EndpointIdleReachable == Spec => []IdleReachable
<1>1. Init => ReachInv
  <2> SUFFICES ASSUME Init PROVE ReachInv OBVIOUS
  <2>1. Placed(ep, byId, byName) BY DEF Init, Placed
  <2>2. \A e \in Objects : ~Held(byId, byName, e) BY EndpointAssumption DEF Init, Held
  <2> QED BY <2>1, <2>2, InitEndpointInv DEF ReachInv, Reached, World, Awake
<1>2. ReachInv /\ [Next]_vars => ReachInv'
  <2> SUFFICES ASSUME ReachInv, [Next]_vars PROVE ReachInv' OBVIOUS
  <2>1. EndpointInv' BY NextEndpointInv DEF ReachInv
  <2> QED BY <2>1, NextReachInv DEF ReachInv
<1>3. ReachInv => IdleReachable
  <2> SUFFICES ASSUME ReachInv PROVE IdleReachable OBVIOUS
  <2>1. IdleWatched
    BY DEF IdleWatched, Idle, Alive, ReachInv, Reached, World, Awake, Woken
  <2>2. IndexesAgree BY KeyFacts DEF IndexesAgree, ReachInv, Reached, World, Placed
  <2> QED BY <2>1, <2>2 DEF IdleReachable
<1> QED BY <1>1, <1>2, <1>3, PTL DEF Spec

-----------------------------------------------------------------------------
(***************************************************************************)
(* The order of messages: nothing waits in two places or after it was      *)
(* sent, and nothing overtakes what still waits.                           *)
(*                                                                         *)
(* The operations of an app on its endpoints only take messages off the    *)
(* front of queues and settle the fate of the messages they took (Drains); *)
(* push_forward_message() alone adds one. Both keep the invariant Ordered, *)
(* which is about the endpoints es, the fates f, the endpoints v messages  *)
(* were handed to, the number c of messages and the loopback queue l.      *)
(***************************************************************************)

Msg(es, e, i) == es[e].pending[i].msg

\* What waits was accepted, by the endpoint it waits in.
Waiting(es, f, v, c) ==
    \A e \in Objects : \A i \in DOMAIN es[e].pending :
        /\ f[Msg(es, e, i)] = "accepted" /\ v[Msg(es, e, i)] = e
        /\ Msg(es, e, i) <= c

\* A queue is in the order of the calls.
Sorted(es) ==
    \A e \in Objects : \A i, j \in DOMAIN es[e].pending :
        i < j => Msg(es, e, i) < Msg(es, e, j)

\* Numbers that were not given out have no fate.
Unsent(f, c) == \A m \in Messages : m > c => f[m] = "unsent"

\* The loopback queue holds no message twice.
Looped(f, l) ==
    /\ \A i \in DOMAIN l : f[l[i]] = "looped"
    /\ \A i, j \in DOMAIN l : l[i] = l[j] => i = j

\* Nothing handed to an endpoint went out before what waits there.
Gone == {"sent", "looped", "delivered"}
InOrder(es, f, v) ==
    \A e \in Objects : \A i \in DOMAIN es[e].pending : \A k \in Messages :
        k > Msg(es, e, i) /\ v[k] = e => f[k] \notin Gone

Ordered(es, f, v, c, l) ==
    /\ Waiting(es, f, v, c) /\ Sorted(es) /\ Unsent(f, c) /\ Looped(f, l)
    /\ InOrder(es, f, v)

OrderInv == EndpointInv /\ Ordered(ep, fate, via, count, loop)

-----------------------------------------------------------------------------
(* Taking messages off the front of queues.                                 *)

Queues == Seq(PendingMessage)

\* Queue q is what is left of queue p without its first n messages.
Left(q, p, n) ==
    /\ n \in 0..Len(p) /\ Len(q) = Len(p) - n
    /\ \A i \in 1..Len(q) : q[i].msg = p[i + n].msg

Taken(p, q) == {p[i].msg : i \in DOMAIN p} \ {q[i].msg : i \in DOMAIN q}

\* Queues lose messages at the front, and only those get another fate.
Drains(es, f, ds, g) ==
    /\ \A e \in Objects : \E n \in Nat : Left(ds[e].pending, es[e].pending, n)
    /\ \A m \in Messages : g[m] # f[m] =>
         /\ g[m] \in {"sent", "answered", "dropped"}
         /\ \E e \in Objects : m \in Taken(es[e].pending, ds[e].pending)

LEMMA QueueFacts ==
  ASSUME NEW es \in [Objects -> Record], NEW e \in Objects
  PROVE  /\ es[e].pending \in Queues /\ Len(es[e].pending) \in Nat
         /\ DOMAIN es[e].pending = 1..Len(es[e].pending)
         /\ \A i \in DOMAIN es[e].pending : Msg(es, e, i) \in Messages
<1>1. es[e].pending \in Queues BY DEF Record, Queues
<1>2. Len(es[e].pending) \in Nat /\ DOMAIN es[e].pending = 1..Len(es[e].pending)
  BY <1>1 DEF Queues
<1>3. \A i \in DOMAIN es[e].pending : es[e].pending[i] \in PendingMessage
  BY <1>1, <1>2 DEF Queues
<1>4. \A i \in DOMAIN es[e].pending : Msg(es, e, i) \in Messages
  BY <1>3 DEF PendingMessage, Msg
<1> QED BY <1>1, <1>2, <1>4

\* Where a message of the queue after was before.
LEMMA LeftIndex ==
  ASSUME NEW es \in [Objects -> Record], NEW ds \in [Objects -> Record], NEW e \in Objects,
         NEW n \in Nat, Left(ds[e].pending, es[e].pending, n)
  PROVE  /\ \A i \in DOMAIN ds[e].pending :
              i + n \in DOMAIN es[e].pending /\ Msg(ds, e, i) = Msg(es, e, i + n)
         /\ \A i \in DOMAIN es[e].pending :
              i > n => i - n \in DOMAIN ds[e].pending /\ Msg(ds, e, i - n) = Msg(es, e, i)
<1>1. /\ DOMAIN es[e].pending = 1..Len(es[e].pending) /\ Len(es[e].pending) \in Nat
      /\ DOMAIN ds[e].pending = 1..Len(ds[e].pending) /\ Len(ds[e].pending) \in Nat
  BY QueueFacts
<1>2. \A i \in DOMAIN ds[e].pending :
        i + n \in DOMAIN es[e].pending /\ Msg(ds, e, i) = Msg(es, e, i + n)
  BY <1>1, SMTT(30) DEF Left, Msg
<1>3. \A i \in DOMAIN es[e].pending : i > n => i - n \in DOMAIN ds[e].pending
  BY <1>1 DEF Left
<1>4. \A i \in DOMAIN es[e].pending : i > n => (i - n) + n = i BY <1>1
<1> QED BY <1>2, <1>3, <1>4

LEMMA DrainsKeepsOrder ==
  ASSUME NEW es \in [Objects -> Record], NEW ds \in [Objects -> Record],
         NEW f \in [Messages -> Fates], NEW g \in [Messages -> Fates],
         NEW v, NEW c \in Nat, NEW l \in Seq(Messages),
         Ordered(es, f, v, c, l), Drains(es, f, ds, g)
  PROVE  Ordered(ds, g, v, c, l)
<1>1. \A e \in Objects : \A i \in DOMAIN es[e].pending :
        /\ f[Msg(es, e, i)] = "accepted" /\ v[Msg(es, e, i)] = e /\ Msg(es, e, i) <= c
        /\ Msg(es, e, i) \in Messages
  BY QueueFacts DEF Ordered, Waiting
\* A message with another fate was accepted, by the endpoint it left.
<1>2. ASSUME NEW m \in Messages, g[m] # f[m]
      PROVE  /\ f[m] = "accepted" /\ m <= c
             /\ g[m] \in {"sent", "answered", "dropped"}
             /\ v[m] \in Objects
             /\ \E i \in DOMAIN es[v[m]].pending : m = Msg(es, v[m], i)
             /\ \A i \in DOMAIN ds[v[m]].pending : Msg(ds, v[m], i) # m
  <2>1. PICK e \in Objects : m \in Taken(es[e].pending, ds[e].pending)
    BY <1>2 DEF Drains
  <2>2. PICK i \in DOMAIN es[e].pending : m = Msg(es, e, i)
    BY <2>1 DEF Taken, Msg
  <2>3. \A j \in DOMAIN ds[e].pending : Msg(ds, e, j) # m
    BY <2>1 DEF Taken, Msg
  <2> QED BY <1>1, <1>2, <2>2, <2>3 DEF Drains
<1>3. ASSUME NEW e \in Objects, NEW i \in DOMAIN ds[e].pending
      PROVE  \E k \in DOMAIN es[e].pending : Msg(ds, e, i) = Msg(es, e, k)
  <2>1. PICK n \in Nat : Left(ds[e].pending, es[e].pending, n) BY DEF Drains
  <2> QED BY <2>1, LeftIndex
<1>4. Waiting(ds, g, v, c)
  <2> SUFFICES ASSUME NEW e \in Objects, NEW i \in DOMAIN ds[e].pending
               PROVE  /\ g[Msg(ds, e, i)] = "accepted" /\ v[Msg(ds, e, i)] = e
                      /\ Msg(ds, e, i) <= c
    BY DEF Waiting
  <2>1. /\ f[Msg(ds, e, i)] = "accepted" /\ v[Msg(ds, e, i)] = e
        /\ Msg(ds, e, i) <= c /\ Msg(ds, e, i) \in Messages
    BY <1>1, <1>3
  <2> QED BY <1>2, <2>1
<1>5. Sorted(ds)
  <2> SUFFICES ASSUME NEW e \in Objects, NEW i \in DOMAIN ds[e].pending,
                      NEW j \in DOMAIN ds[e].pending, i < j
               PROVE  Msg(ds, e, i) < Msg(ds, e, j)
    BY DEF Sorted
  <2>1. PICK n \in Nat : Left(ds[e].pending, es[e].pending, n) BY DEF Drains
  <2>2. i \in Nat /\ j \in Nat BY QueueFacts
  <2>3. i + n < j + n BY <2>2
  <2> QED BY <2>1, <2>3, LeftIndex DEF Ordered, Sorted
<1>6. Unsent(g, c)
  <2> SUFFICES ASSUME NEW m \in Messages, m > c PROVE g[m] = "unsent"
    BY DEF Unsent
  <2>1. ~(m <= c) BY DEF Messages
  <2> QED BY <1>2, <2>1 DEF Ordered, Unsent
<1>7. Looped(g, l)
  <2>1. \A i \in DOMAIN l : l[i] \in Messages OBVIOUS
  <2> QED BY <1>2, <2>1 DEF Ordered, Looped
<1>8. InOrder(ds, g, v)
  <2> SUFFICES ASSUME NEW e \in Objects, NEW i \in DOMAIN ds[e].pending,
                      NEW k \in Messages, k > Msg(ds, e, i), v[k] = e
               PROVE  g[k] \notin Gone
    BY DEF InOrder
  <2>1. PICK n \in Nat : Left(ds[e].pending, es[e].pending, n) BY DEF Drains
  <2>2. i + n \in DOMAIN es[e].pending /\ Msg(ds, e, i) = Msg(es, e, i + n)
    BY <2>1, LeftIndex
  <2>3. CASE g[k] = f[k] BY <2>2, <2>3 DEF Ordered, InOrder
  <2>4. CASE g[k] # f[k]
    \* k waited behind i before, so it would still wait.
    <3>1. PICK j \in DOMAIN es[e].pending : k = Msg(es, e, j) BY <1>2, <2>4
    <3>2. i \in Nat /\ j \in Nat BY QueueFacts
    <3>3. Msg(es, e, i + n) \in Messages /\ k \in Messages BY <1>1, <2>2
    <3>4. ~(j < i + n) /\ j # i + n
      BY <2>2, <3>1, <3>3 DEF Ordered, Sorted, Messages
    <3>5. j > n BY <3>2, <3>4
    <3>6. j - n \in DOMAIN ds[e].pending /\ Msg(ds, e, j - n) = k
      BY <2>1, <3>1, <3>5, LeftIndex
    <3> QED BY <1>2, <2>4, <3>6
  <2> QED BY <2>3, <2>4
<1> QED BY <1>4, <1>5, <1>6, <1>7, <1>8 DEF Ordered

-----------------------------------------------------------------------------
(* The operations drain.                                                    *)

LEMMA LeftSame ==
  ASSUME NEW p \in Queues, NEW q \in Queues, Len(q) = Len(p),
         \A i \in 1..Len(p) : q[i].msg = p[i].msg
  PROVE  Left(q, p, 0)
  BY DEF Left, Queues

LEMMA LeftNone == ASSUME NEW p \in Queues PROVE Left(<<>>, p, Len(p)) /\ Len(p) \in Nat
<1>1. Len(p) \in Nat /\ Len(<<>>) = 0 BY DEF Queues
<1> QED BY <1>1 DEF Left

\* One endpoint has another record.
LEMMA DrainOne ==
  ASSUME NEW es \in [Objects -> Record], NEW f \in [Messages -> Fates],
         NEW g \in [Messages -> Fates], NEW e \in Objects, NEW r \in Record,
         NEW n \in Nat, Left(r.pending, es[e].pending, n),
         \A m \in Messages : g[m] # f[m] =>
           /\ g[m] \in {"sent", "answered", "dropped"}
           /\ m \in Taken(es[e].pending, r.pending)
  PROVE  Drains(es, f, [es EXCEPT ![e] = r], g)
<1> DEFINE ds == [es EXCEPT ![e] = r]
<1>1. ds[e] = r /\ \A d \in Objects \ {e} : ds[d] = es[d] OBVIOUS
<1>2. \A d \in Objects \ {e} : Left(ds[d].pending, es[d].pending, 0)
  BY <1>1, LeftSame, QueueFacts
<1> HIDE DEF ds
<1>3. Drains(es, f, ds, g) BY <1>1, <1>2 DEF Drains
<1> QED BY <1>3 DEF ds

\* The world w, with the history of the state.
OrderedWorld(w) == SoundWorld(w) /\ Ordered(w.ep, w.fate, via, count, loop)

LEMMA OrderedObject ==
  ASSUME OrderInv, NEW w, OrderedWorld(w), NEW e \in Objects, NEW r, Sound(r),
         NEW n \in Nat, Left(r.pending, w.ep[e].pending, n)
  PROVE  OrderedWorld([w EXCEPT !.ep[e] = r])
<1> DEFINE u == [w EXCEPT !.ep[e] = r]
<1>1. /\ w.ep \in [Objects -> Record] /\ w.fate \in [Messages -> Fates] /\ r \in Record
      /\ u.ep = [w.ep EXCEPT ![e] = r] /\ u.fate = w.fate
  BY DEF OrderedWorld, SoundWorld, Worlds, Sound
<1>2. SoundWorld(u) BY SoundObject DEF OrderedWorld
<1>3. u.ep \in [Objects -> Record] BY <1>2 DEF SoundWorld, Worlds
<1>4. /\ count \in Nat /\ loop \in Seq(Messages)
      /\ Ordered(w.ep, w.fate, via, count, loop)
  BY DEF OrderInv, EndpointInv, TypeOK, OrderedWorld
<1> HIDE DEF u
<1>5. Drains(w.ep, w.fate, u.ep, u.fate)
  BY <1>1, DrainOne
<1>6. Ordered(u.ep, u.fate, via, count, loop) BY <1>1, <1>3, <1>4, <1>5, DrainsKeepsOrder
<1>7. OrderedWorld(u) BY <1>2, <1>6 DEF OrderedWorld
<1> QED BY <1>7 DEF u

LEMMA OrderedClose ==
  ASSUME OrderInv, NEW w, OrderedWorld(w), NEW e \in Objects
  PROVE  OrderedWorld(Close(w, e))
<1> DEFINE u == Close(w, e)
           r == Reset(w.ep[e])
           p == w.ep[e].pending
<1>1. /\ w.ep \in [Objects -> Record] /\ w.fate \in [Messages -> Fates]
      /\ w.ep[e] \in Record /\ Sound(w.ep[e])
  BY DEF OrderedWorld, SoundWorld, Worlds
<1>2. Sound(r) /\ r \in Record BY <1>1, SoundReset DEF Sound
<1>3. /\ u.ep = [w.ep EXCEPT ![e] = r]
      /\ u.fate = Mark(w.fate, Cancelled(w.ep[e]), "answered")
  BY DEF Close, OrderedWorld, SoundWorld, Worlds
<1>4. SoundWorld(u) BY SoundClose DEF OrderedWorld
<1>5. u.fate \in [Messages -> Fates] /\ u.ep \in [Objects -> Record]
  BY <1>4 DEF SoundWorld, Worlds
<1>6. p \in Queues /\ Len(p) \in Nat BY <1>1, QueueFacts
<1>7. ASSUME w.ep[e].ready PROVE Drains(w.ep, w.fate, u.ep, u.fate)
  <2>1. r.pending = <<>> /\ Cancelled(w.ep[e]) = MessagesOf(w.ep[e])
    BY <1>1, <1>7 DEF Reset, Record, Cancelled
  <2>2. Taken(p, <<>>) = MessagesOf(w.ep[e]) BY DEF Taken, MessagesOf
  <2>3. \A m \in Messages : u.fate[m] # w.fate[m] =>
          u.fate[m] = "answered" /\ m \in Taken(p, r.pending)
    BY <1>3, <2>1, <2>2 DEF Mark
  <2>4. Left(r.pending, p, Len(p)) BY <1>6, <2>1, LeftNone
  <2> HIDE DEF u, r
  <2> QED BY <1>1, <1>2, <1>3, <1>5, <1>6, <2>3, <2>4, DrainOne
<1>8. ASSUME ~w.ep[e].ready PROVE Drains(w.ep, w.fate, u.ep, u.fate)
  <2>1. r.pending = p /\ Cancelled(w.ep[e]) = {}
    BY <1>1, <1>8 DEF Reset, Record, Cancelled
  <2>2. \A m \in Messages : u.fate[m] = w.fate[m] BY <1>3, <2>1 DEF Mark
  <2>3. Left(r.pending, p, 0) BY <1>6, <2>1, LeftSame
  <2> HIDE DEF u, r
  <2> QED BY <1>1, <1>2, <1>3, <1>5, <2>2, <2>3, DrainOne
<1>9. Drains(w.ep, w.fate, u.ep, u.fate) BY <1>7, <1>8
<1>10. /\ count \in Nat /\ loop \in Seq(Messages)
       /\ Ordered(w.ep, w.fate, via, count, loop)
  BY DEF OrderInv, EndpointInv, TypeOK, OrderedWorld
<1> HIDE DEF u
<1>11. Ordered(u.ep, u.fate, via, count, loop) BY <1>1, <1>5, <1>9, <1>10, DrainsKeepsOrder
<1>12. OrderedWorld(u) BY <1>4, <1>11 DEF OrderedWorld
<1> QED BY <1>12 DEF u

\* Other indexes.
LEMMA OrderedSame ==
  ASSUME NEW w, OrderedWorld(w), NEW u, SoundWorld(u), u.ep = w.ep, u.fate = w.fate
  PROVE  OrderedWorld(u)
  BY DEF OrderedWorld

LEMMA OrderedRemoveId ==
  ASSUME OrderInv, NEW w, OrderedWorld(w), NEW i
  PROVE  OrderedWorld(RemoveId(w, i))
<1> DEFINE e == IF i \in Ids THEN w.byId[i] ELSE None
           v == [w EXCEPT !.byId = Erase(@, i, e), !.byName = Erase(@, w.ep[e].node.name, e)]
<1>1. CASE e = None BY <1>1 DEF RemoveId
<1>2. CASE e # None
  <2>1. e \in Objects /\ SoundWorld(w) BY <1>2 DEF OrderedWorld, SoundWorld, Worlds
  <2>2. /\ Erase(w.byId, i, e) \in [Ids -> Objects \cup {None}]
        /\ Erase(w.byName, w.ep[e].node.name, e) \in [Names -> Objects \cup {None}]
    BY <2>1, EraseType DEF SoundWorld, Worlds
  <2>3. SoundWorld(v) BY <2>1, <2>2, SoundIndexes
  <2>4. v.ep = w.ep /\ v.fate = w.fate BY <2>1 DEF SoundWorld, Worlds
  <2>5. RemoveId(w, i) = Close(v, e) BY <1>2 DEF RemoveId
  <2> HIDE DEF v
  <2>6. OrderedWorld(v) BY <2>3, <2>4, OrderedSame
  <2> QED BY <2>1, <2>5, <2>6, OrderedClose
<1> QED BY <1>1, <1>2

LEMMA OrderedRemoveName ==
  ASSUME OrderInv, NEW w, OrderedWorld(w), NEW k
  PROVE  OrderedWorld(RemoveName(w, k))
<1> DEFINE e == IF k \in Names THEN w.byName[k] ELSE None
           v == [w EXCEPT !.byName = Erase(@, k, e), !.byId = Erase(@, w.ep[e].node.id, e)]
<1>1. CASE e = None BY <1>1 DEF RemoveName
<1>2. CASE e # None
  <2>1. e \in Objects /\ SoundWorld(w) BY <1>2 DEF OrderedWorld, SoundWorld, Worlds
  <2>2. /\ Erase(w.byName, k, e) \in [Names -> Objects \cup {None}]
        /\ Erase(w.byId, w.ep[e].node.id, e) \in [Ids -> Objects \cup {None}]
    BY <2>1, EraseType DEF SoundWorld, Worlds
  <2>3. SoundWorld(v) BY <2>1, <2>2 DEF SoundWorld, Worlds
  <2>4. v.ep = w.ep /\ v.fate = w.fate BY <2>1 DEF SoundWorld, Worlds
  <2>5. RemoveName(w, k) = Close(v, e) BY <1>2 DEF RemoveName
  <2> HIDE DEF v
  <2>6. OrderedWorld(v) BY <2>3, <2>4, OrderedSame
  <2> QED BY <2>1, <2>5, <2>6, OrderedClose
<1> QED BY <1>1, <1>2

LEMMA OrderedRemoveEndpoint ==
  ASSUME OrderInv, NEW w, OrderedWorld(w), NEW e \in Objects
  PROVE  OrderedWorld(RemoveEndpoint(w, e))
<1> DEFINE v == [w EXCEPT !.byId = Erase(@, w.ep[e].node.id, e),
                          !.byName = Erase(@, w.ep[e].node.name, e)]
<1>1. SoundWorld(w) BY DEF OrderedWorld
<1>2. /\ Erase(w.byId, w.ep[e].node.id, e) \in [Ids -> Objects \cup {None}]
      /\ Erase(w.byName, w.ep[e].node.name, e) \in [Names -> Objects \cup {None}]
  BY <1>1, EraseType DEF SoundWorld, Worlds
<1>3. SoundWorld(v) BY <1>1, <1>2, SoundIndexes
<1>4. v.ep = w.ep /\ v.fate = w.fate BY <1>1 DEF SoundWorld, Worlds
<1>5. RemoveEndpoint(w, e) = Close(v, e) BY DEF RemoveEndpoint
<1> HIDE DEF v
<1>6. OrderedWorld(v) BY <1>3, <1>4, OrderedSame
<1> QED BY <1>5, <1>6, OrderedClose

LEMMA OrderedRecycle ==
  ASSUME OrderInv, NEW w, OrderedWorld(w), NEW e \in Objects
  PROVE  OrderedWorld(Recycle(w, e))
<1>1. CASE w.ep[e].conn # "none" BY <1>1 DEF Recycle
<1>2. CASE w.ep[e].conn = "none" /\ w.ep[e].gc = 0
  BY <1>2, OrderedRemoveEndpoint DEF Recycle
<1>3. CASE w.ep[e].conn = "none" /\ w.ep[e].gc # 0
  <2> DEFINE r == AddWaker(w.ep[e], w.ep[e].gc)
  <2>1. /\ w.ep \in [Objects -> Record] /\ Sound(w.ep[e]) /\ w.ep[e] \in Record
        /\ w.ep[e].gc \in Nat
    BY DEF OrderedWorld, SoundWorld, Worlds, Sound, Record
  <2>2. Sound(r) BY <2>1, AddWakerKeeps
  <2>3. r.pending = w.ep[e].pending BY <2>1, SoundAddWaker DEF Sound
  <2>4. Left(r.pending, w.ep[e].pending, 0) BY <2>1, <2>3, QueueFacts, LeftSame
  <2>5. Recycle(w, e) = [w EXCEPT !.ep[e] = r] BY <1>3 DEF Recycle
  <2> HIDE DEF r
  <2> QED BY <2>2, <2>4, <2>5, OrderedObject
<1> QED BY <1>1, <1>2, <1>3

LEMMA OrderedState == ASSUME OrderInv PROVE OrderedWorld(World)
  BY SoundState DEF OrderInv, OrderedWorld, World

LEMMA CreatedEmpty == ASSUME NEW n \in Nodes, NEW r \in Created(n) PROVE r.pending = <<>>
<1> DEFINE b == [Blank EXCEPT !.node = n]
           fresh == AddWaker(b, 1)
           With(c) == [fresh EXCEPT !.conn = c, !.ready = TRUE]
<1>1. Sound(b) BY SoundBlank, SoundNode
<1>2. b \in Record /\ Recorded(b) /\ b.pending = <<>> BY <1>1 DEF Sound, Blank
<1> HIDE DEF b
<1>3. fresh \in Record /\ Recorded(fresh) /\ fresh.pending = <<>> BY <1>2, SoundAddWaker
<1>4. r \in {AddWaker(With("loop"), 1), fresh, [fresh EXCEPT !.conn = "remote"],
              AddWaker(With("remote"), 1)}
  BY DEF Created, b
<1> HIDE DEF fresh
<1>5. ASSUME NEW c \in {"loop", "remote"}
      PROVE  /\ With(c) \in Record /\ Recorded(With(c)) /\ With(c).pending = <<>>
             /\ [fresh EXCEPT !.conn = c].pending = <<>>
  BY <1>3 DEF Record, Recorded
<1>6. ASSUME NEW c \in {"loop", "remote"} PROVE AddWaker(With(c), 1).pending = <<>>
  <2> HIDE DEF With
  <2> QED BY <1>5, SoundAddWaker
<1> QED BY <1>3, <1>4, <1>5, <1>6

LEMMA OrderedMutable ==
  ASSUME OrderInv, NEW n \in Nodes, NEW c \in MutableEndpoint(n)
  PROVE  c.e \in Objects /\ OrderedWorld(c.w)
<1> DEFINE w == Settled(n)
           f == Found(n)
<1>1. /\ EndpointInv /\ f \in Objects \cup {None} /\ SoundWorld(w)
  BY SoundSettled DEF OrderInv
<1>2. OrderedWorld(w) BY OrderedState, OrderedRemoveId DEF Settled
<1>3. ASSUME NEW e \in Objects PROVE OrderedWorld(Indexed(w, n, e))
  <2>1. SoundWorld(Indexed(w, n, e)) BY <1>1, SoundIndexed
  <2> HIDE DEF w
  <2>2. Indexed(w, n, e).ep = w.ep /\ Indexed(w, n, e).fate = w.fate
    BY <1>1 DEF Indexed, SoundWorld, Worlds
  <2> QED BY <1>2, <2>1, <2>2, OrderedSame
<1> HIDE DEF w, f
<1>4. CASE f # None
  <2> DEFINE v == Indexed(w, n, f)
             r == [v.ep[f] EXCEPT !.node = n]
  <2>1. f \in Objects BY <1>1, <1>4
  <2>2. c.e = f /\ c.w = [v EXCEPT !.ep[f].node = n]
    BY <1>4 DEF MutableEndpoint, w, f
  <2>3. OrderedWorld(v) BY <1>3, <2>1
  <2> HIDE DEF v
  <2>4. SoundWorld(v) /\ v.ep \in [Objects -> Record]
    BY <2>3 DEF OrderedWorld, SoundWorld, Worlds
  <2>5. Sound(r) /\ r.pending = v.ep[f].pending
    BY <2>1, <2>4, SoundNode DEF SoundWorld, Record
  <2>6. [v EXCEPT !.ep[f].node = n] = [v EXCEPT !.ep[f] = r]
    BY <2>1, <2>4 DEF SoundWorld, Worlds
  <2>7. Left(r.pending, v.ep[f].pending, 0) BY <2>1, <2>4, <2>5, QueueFacts, LeftSame
  <2> HIDE DEF r
  <2>8. OrderedWorld([v EXCEPT !.ep[f] = r]) BY <2>1, <2>3, <2>5, <2>7, OrderedObject
  <2> QED BY <2>1, <2>2, <2>6, <2>8
<1>5. CASE f = None
  <2>1. PICK e \in {x \in Objects : ~Alive(x)}, r \in Created(n) :
          c = [e |-> e, w |-> [Indexed(w, n, e) EXCEPT !.ep[e] = r]]
    BY <1>5 DEF MutableEndpoint, w, f
  <2> DEFINE v == Indexed(w, n, e)
  <2>2. c.e = e /\ c.w = [v EXCEPT !.ep[e] = r] BY <2>1
  <2>3. OrderedWorld(v) BY <1>3
  <2> HIDE DEF v
  <2>4. Sound(r) /\ r.pending = <<>> BY SoundCreated, CreatedEmpty
  <2>5. v.ep[e].pending \in Queues BY <2>3, QueueFacts DEF OrderedWorld, SoundWorld, Worlds
  <2>6. Left(r.pending, v.ep[e].pending, Len(v.ep[e].pending)) /\ Len(v.ep[e].pending) \in Nat
    BY <2>4, <2>5, LeftNone
  <2> QED BY <2>2, <2>3, <2>4, <2>6, OrderedObject
<1> QED BY <1>4, <1>5

\* An object that is destroyed takes its queue along.
LEMMA OrderedBecomes ==
  ASSUME NEW w, SoundWorld(w), NEW v, NEW c \in Nat, NEW l \in Seq(Messages),
         Ordered(w.ep, w.fate, v, c, l), Becomes(w)
  PROVE  Ordered(ep', fate', v, c, l)
<1> DEFINE kept == {e \in Objects : Held(w.byId, w.byName, e)}
           lost == UNION {MessagesOf(w.ep[e]) : e \in Objects \ kept}
<1>1. /\ ep' = [e \in Objects |-> IF e \in kept THEN w.ep[e] ELSE Blank]
      /\ fate' = Mark(w.fate, lost, "dropped")
  BY DEF Becomes
<1>2. /\ w.ep \in [Objects -> Record] /\ w.fate \in [Messages -> Fates]
      /\ ep' \in [Objects -> Record] /\ fate' \in [Messages -> Fates]
  BY SoundBecomes DEF SoundWorld, Worlds
<1> HIDE DEF kept
<1>3. ASSUME NEW e \in Objects
      PROVE  \E n \in Nat : Left(ep'[e].pending, w.ep[e].pending, n)
  <2>1. w.ep[e].pending \in Queues BY <1>2, QueueFacts
  <2>2. CASE e \in kept BY <1>1, <2>1, <2>2, LeftSame
  <2>3. CASE e \notin kept
    <3>1. ep'[e].pending = <<>> BY <1>1, <2>3 DEF Blank
    <3> QED BY <2>1, <3>1, LeftNone
  <2> QED BY <2>2, <2>3
<1>4. ASSUME NEW m \in Messages, fate'[m] # w.fate[m]
      PROVE  /\ fate'[m] = "dropped"
             /\ \E e \in Objects : m \in Taken(w.ep[e].pending, ep'[e].pending)
  <2>1. m \in lost /\ fate'[m] = "dropped" BY <1>1, <1>4 DEF Mark
  <2>2. PICK e \in Objects \ kept : m \in MessagesOf(w.ep[e]) BY <2>1
  <2>3. ep'[e].pending = <<>> BY <1>1, <2>2 DEF Blank
  <2>4. m \in Taken(w.ep[e].pending, ep'[e].pending) BY <2>2, <2>3 DEF Taken, MessagesOf
  <2> QED BY <2>1, <2>4
<1>5. Drains(w.ep, w.fate, ep', fate') BY <1>3, <1>4 DEF Drains
<1> QED BY <1>2, <1>5, DrainsKeepsOrder

-----------------------------------------------------------------------------
(* retry_pending_messages() settles a prefix of the queue.                  *)

LEMMA AfterRetryQueue ==
  ASSUME NEW r \in Record, Recorded(r), NEW k \in 0..Len(r.pending)
  PROVE  Left(AfterRetry(r, k).pending, r.pending, k)
<1> DEFINE q == SubSeq(r.pending, k + 1, Len(r.pending))
           s == [r EXCEPT !.pending = q]
<1>1. r.pending \in Queues /\ Len(r.pending) \in Nat BY DEF Record, Queues
<1>2. q \in Queues /\ Len(q) = Len(r.pending) - k
      /\ \A i \in 1..Len(q) : q[i] = r.pending[i + k]
  BY <1>1, SubSeqProperties DEF Queues
<1>3. Left(q, r.pending, k)
  <2> HIDE DEF q
  <2> QED BY <1>1, <1>2 DEF Left
<1>4. s \in Record /\ Recorded(s) /\ s.pending = q
  BY <1>2 DEF Record, Recorded, Queues
<1>5. CASE q = <<>> BY <1>3, <1>4, <1>5 DEF AfterRetry
<1>6. CASE q # <<>>
  <2>1. AfterRetry(r, k) = AddWaker(s, Head(q).exp) BY <1>4, <1>6 DEF AfterRetry
  <2>2. Head(q).exp \in Nat
    <3>1. Head(q) \in PendingMessage BY <1>2, <1>6 DEF Queues
    <3> QED BY <3>1 DEF PendingMessage
  <2>3. AddWaker(s, Head(q).exp).pending = q BY <1>4, <2>2, SoundAddWaker
  <2> QED BY <1>3, <2>1, <2>3
<1> QED BY <1>5, <1>6

LEMMA RetryShape ==
  ASSUME NEW r \in Record, Recorded(r), NEW p \in RetryPendingMessages(r)
  PROVE  \E k \in 0..Len(r.pending) :
           /\ Left(p.ep.pending, r.pending, k)
           /\ p.ok \cup p.bad \subseteq {r.pending[i].msg : i \in 1..k}
<1> DEFINE k == IF r.ready THEN IF Len(r.pending) < LoopTimes THEN Len(r.pending)
                                                            ELSE LoopTimes
                           ELSE Expired(r.pending)
<1>1. r.pending \in Seq(PendingMessage) /\ Len(r.pending) \in Nat BY DEF Record
<1>2. k \in 0..Len(r.pending) BY <1>1, ExpiredBound, EndpointAssumption
<1> DEFINE tried == {r.pending[i].msg : i \in 1..k}
<1>3. PICK a \in [ok : SUBSET tried, ready : BOOLEAN] :
        p = [ep |-> AfterRetry([r EXCEPT !.ready = a.ready], k), ok |-> a.ok,
             bad |-> tried \ a.ok]
  BY Zenon DEF RetryPendingMessages
<1> DEFINE s == [r EXCEPT !.ready = a.ready]
<1>4. s \in Record /\ Recorded(s) /\ s.pending = r.pending
  BY <1>3 DEF Record, Recorded
<1>5. /\ p.ep = AfterRetry(s, k) /\ p.ok \cup p.bad \subseteq tried
  BY <1>3
<1> HIDE DEF k, s
<1>6. Left(p.ep.pending, r.pending, k) BY <1>2, <1>4, <1>5, AfterRetryQueue
<1> QED BY <1>2, <1>5, <1>6

-----------------------------------------------------------------------------
(* push_forward_message() refuses a message, hands it to the connector of   *)
(* an endpoint where nothing waits, or appends it.                          *)

New(m) == [msg |-> m, exp |-> MsgTimeout]

LEMMA QueuedShape ==
  ASSUME NEW r \in Record, Recorded(r), NEW m \in Messages
  PROVE  \/ Queued(r, m).ep = r /\ Queued(r, m).fate = "refused"
         \/ /\ Queued(r, m).ep.pending = Append(r.pending, New(m))
            /\ Queued(r, m).fate = "accepted"
<1> DEFINE q == [r EXCEPT !.pending = Append(@, New(m))]
<1>1. CASE Len(r.pending) + 1 > SendBuffer BY <1>1 DEF Queued
<1>2. CASE ~(Len(r.pending) + 1 > SendBuffer)
  <2>1. /\ Queued(r, m).ep = AddWaker(q, MsgTimeout)
        /\ Queued(r, m).fate = "accepted"
    BY <1>2 DEF Queued, New
  <2>2. New(m) \in PendingMessage /\ MsgTimeout \in Nat
    BY EndpointAssumption DEF PendingMessage, New
  <2>3. Append(r.pending, New(m)) \in Seq(PendingMessage) BY <2>2 DEF Record
  <2>4. q \in Record /\ Recorded(q) /\ q.pending = Append(r.pending, New(m))
    BY <2>3 DEF Record, Recorded
  <2> HIDE DEF q
  <2>5. AddWaker(q, MsgTimeout).pending = q.pending BY <2>2, <2>4, SoundAddWaker
  <2> QED BY <2>1, <2>4, <2>5
<1> QED BY <1>1, <1>2

LEMMA PushShape ==
  ASSUME NEW r \in Record, Recorded(r), NEW m \in Messages,
         NEW p \in PushForwardMessage(r, m)
  PROVE  \/ p.ep.pending = r.pending /\ p.fate = "refused"
         \/ p.ep.pending = <<>> /\ r.pending = <<>> /\ p.fate \in {"sent", "looped"}
         \/ p.ep.pending = Append(r.pending, New(m)) /\ p.fate = "accepted"
<1> DEFINE s == [r EXCEPT !.ready = FALSE]
<1>1. s \in Record /\ Recorded(s) /\ s.pending = r.pending BY DEF Record, Recorded
<1>2. \/ p = Queued(r, m) \/ p = Queued(s, m)
      \/ p.ep = r /\ p.fate = "refused"
      \/ p.ep = r /\ r.pending = <<>> /\ p.fate \in {"sent", "looped"}
  BY DEF PushForwardMessage, SendRequest
<1> HIDE DEF s
<1>3. CASE p = Queued(r, m) BY <1>3, QueuedShape
<1>4. CASE p = Queued(s, m) BY <1>1, <1>4, QueuedShape
<1> QED BY <1>2, <1>3, <1>4

LEMMA PushKeepsOrder ==
  ASSUME NEW es \in [Objects -> Record], NEW f \in [Messages -> Fates],
         NEW v \in [Messages -> Objects \cup {None}], NEW c \in Nat, NEW l \in Seq(Messages),
         Ordered(es, f, v, c, l), c + 1 \in Messages,
         NEW e \in Objects, NEW r \in Record, NEW what \in Fates,
         \/ r.pending = es[e].pending /\ what = "refused"
         \/ r.pending = <<>> /\ es[e].pending = <<>> /\ what \in {"sent", "looped"}
         \/ r.pending = Append(es[e].pending, New(c + 1)) /\ what = "accepted"
  PROVE  Ordered([es EXCEPT ![e] = r], [f EXCEPT ![c + 1] = what], [v EXCEPT ![c + 1] = e],
                 c + 1, IF what = "looped" THEN Append(l, c + 1) ELSE l)
<1> DEFINE m == c + 1
           ds == [es EXCEPT ![e] = r]
           g == [f EXCEPT ![m] = what]
           u == [v EXCEPT ![m] = e]
           k == IF what = "looped" THEN Append(l, m) ELSE l
<1>1. /\ g[m] = what /\ u[m] = e /\ f[m] = "unsent"
      /\ \A x \in Messages \ {m} : g[x] = f[x] /\ u[x] = v[x]
      /\ \A x \in Messages : x > m => g[x] = "unsent"
  <2>1. \A x \in Messages : x > c => f[x] = "unsent" BY DEF Ordered, Unsent
  <2>2. m > c /\ \A x \in Messages : x > m => x > c /\ x # m BY DEF Messages
  <2> QED BY <2>1, <2>2
<1>2. ds[e] = r /\ (\A d \in Objects \ {e} : ds[d] = es[d]) /\ ds \in [Objects -> Record]
  OBVIOUS
<1>3. \A d \in Objects : \A i \in DOMAIN es[d].pending :
        /\ f[Msg(es, d, i)] = "accepted" /\ v[Msg(es, d, i)] = d /\ Msg(es, d, i) <= c
        /\ Msg(es, d, i) \in Messages /\ Msg(es, d, i) # m
  <2>1. \A x \in Messages : x <= c => x # m BY DEF Messages
  <2> QED BY <2>1, QueueFacts DEF Ordered, Waiting
\* What waits afterwards waited before, at the same place, or is the new message at the end.
<1>4. ASSUME NEW d \in Objects, NEW i \in DOMAIN ds[d].pending
      PROVE  /\ i \in Nat
             /\ \/ i \in DOMAIN es[d].pending /\ Msg(ds, d, i) = Msg(es, d, i)
                \/ /\ d = e /\ what = "accepted" /\ i = Len(es[e].pending) + 1
                   /\ Msg(ds, d, i) = m
  <2>1. i \in Nat BY <1>2, QueueFacts
  <2>2. CASE d # e BY <1>2, <2>1, <2>2 DEF Msg
  <2>3. CASE d = e /\ r.pending = es[e].pending BY <1>2, <2>1, <2>3 DEF Msg
  <2>4. CASE d = e /\ r.pending = Append(es[e].pending, New(m)) /\ what = "accepted"
    <3>1. es[e].pending \in Seq(PendingMessage) /\ New(m) \in PendingMessage
      BY EndpointAssumption, QueueFacts DEF Queues, New, PendingMessage
    <3>2. /\ DOMAIN r.pending = 1..(Len(es[e].pending) + 1)
          /\ \A j \in 1..Len(es[e].pending) : r.pending[j] = es[e].pending[j]
          /\ r.pending[Len(es[e].pending) + 1] = New(m)
          /\ DOMAIN es[e].pending = 1..Len(es[e].pending) /\ Len(es[e].pending) \in Nat
      BY <2>4, <3>1
    <3>3. i \in 1..Len(es[e].pending) \/ i = Len(es[e].pending) + 1
      BY <1>2, <2>4, <3>2
    <3>4. CASE i \in 1..Len(es[e].pending)
      BY <1>2, <2>1, <2>4, <3>2, <3>4 DEF Msg
    <3>5. CASE i = Len(es[e].pending) + 1
      <4>1. Msg(ds, d, i) = New(m).msg BY <1>2, <2>4, <3>2, <3>5 DEF Msg
      <4> QED BY <2>1, <2>4, <3>5, <4>1 DEF New
    <3> QED BY <3>3, <3>4, <3>5
  <2> QED BY <2>2, <2>3, <2>4
<1> HIDE DEF m, ds, g, u
<1>5. Waiting(ds, g, u, m)
  <2> SUFFICES ASSUME NEW d \in Objects, NEW i \in DOMAIN ds[d].pending
               PROVE  /\ g[Msg(ds, d, i)] = "accepted" /\ u[Msg(ds, d, i)] = d
                      /\ Msg(ds, d, i) <= m
    BY DEF Waiting
  <2>1. \A x \in Messages : x <= c => x <= m BY DEF m, Messages
  <2>2. m \in Messages /\ m <= m BY DEF m, Messages
  <2> QED BY <1>1, <1>3, <1>4, <2>1, <2>2, SMTT(30)
<1>6. Sorted(ds)
  <2> SUFFICES ASSUME NEW d \in Objects, NEW i \in DOMAIN ds[d].pending,
                      NEW j \in DOMAIN ds[d].pending, i < j
               PROVE  Msg(ds, d, i) < Msg(ds, d, j)
    BY DEF Sorted
  <2>1. \A x \in Messages : x <= c => x < m BY DEF m, Messages
  <2>2. /\ DOMAIN es[d].pending = 1..Len(es[d].pending) /\ Len(es[d].pending) \in Nat
        /\ Len(es[e].pending) \in Nat
    BY QueueFacts
  <2>3. i \in DOMAIN es[d].pending /\ Msg(ds, d, i) = Msg(es, d, i)
    <3>1. i \in Nat /\ j \in Nat BY <1>4
    <3>2. CASE j \in DOMAIN es[d].pending
      <4>1. ~(i = Len(es[d].pending) + 1) BY <2>2, <3>1, <3>2
      <4> QED BY <1>4, <4>1
    <3>3. CASE j = Len(es[e].pending) + 1
      <4>1. i # Len(es[e].pending) + 1 BY <2>2, <3>1, <3>3
      <4> QED BY <1>4, <4>1
    <3> QED BY <1>4, <3>2, <3>3
  <2>4. CASE j \in DOMAIN es[d].pending /\ Msg(ds, d, j) = Msg(es, d, j)
    BY <2>3, <2>4 DEF Ordered, Sorted
  <2>5. CASE Msg(ds, d, j) = m BY <1>3, <2>1, <2>3, <2>5
  <2> QED BY <1>4, <2>4, <2>5
<1>7. Unsent(g, m) BY <1>1 DEF Unsent
<1>8. Looped(g, k)
  <2>1. \A i \in DOMAIN l : l[i] \in Messages /\ f[l[i]] = "looped" /\ l[i] # m
    BY <1>1 DEF Ordered, Looped
  <2>2. \A i \in DOMAIN l : g[l[i]] = "looped" BY <1>1, <2>1
  <2>3. \A i, j \in DOMAIN l : l[i] = l[j] => i = j BY DEF Ordered, Looped
  <2>4. CASE what # "looped" BY <2>2, <2>3, <2>4 DEF Looped
  <2>5. CASE what = "looped"
    <3>1. /\ DOMAIN k = 1..(Len(l) + 1) /\ DOMAIN l = 1..Len(l) /\ Len(l) \in Nat
          /\ k[Len(l) + 1] = m /\ \A i \in 1..Len(l) : k[i] = l[i]
      BY <2>5 DEF m
    <3>2. \A i \in DOMAIN k : i \in 1..Len(l) \/ i = Len(l) + 1 BY <3>1
    <3>3. g[m] = "looped" BY <1>1, <2>5
    <3> HIDE DEF k
    <3>4. \A i \in DOMAIN k : g[k[i]] = "looped" BY <2>2, <3>1, <3>2, <3>3
    <3>5. \A i, j \in DOMAIN k : k[i] = k[j] => i = j BY <2>1, <2>3, <3>1, <3>2
    <3> QED BY <3>4, <3>5 DEF Looped
  <2> QED BY <2>4, <2>5
<1>9. InOrder(ds, g, u)
  <2> SUFFICES ASSUME NEW d \in Objects, NEW i \in DOMAIN ds[d].pending, NEW x \in Messages,
                      x > Msg(ds, d, i), u[x] = d
               PROVE  g[x] \notin Gone
    BY DEF InOrder
  <2>1. CASE Msg(ds, d, i) = m BY <1>1, <2>1 DEF Gone
  <2>2. CASE /\ i \in DOMAIN es[d].pending /\ Msg(ds, d, i) = Msg(es, d, i)
             /\ x # m
    BY <1>1, <2>2 DEF Ordered, InOrder
  <2>3. CASE /\ i \in DOMAIN es[d].pending /\ x = m
    \* The new message did not go out: something waits in its endpoint.
    <3>1. d = e BY <1>1, <2>3
    <3>2. es[e].pending # <<>> BY <2>3, <3>1
    <3> QED BY <1>1, <2>3, <3>2 DEF Gone
  <2> QED BY <1>4, <2>1, <2>2, <2>3
<1>10. Ordered(ds, g, u, m, k) BY <1>5, <1>6, <1>7, <1>8, <1>9 DEF Ordered
<1> QED BY <1>10 DEF m, ds, g, u, k

-----------------------------------------------------------------------------
(* Every step keeps the invariant.                                          *)

LEMMA OrderedPushes ==
  ASSUME OrderInv, count < MaxMessages, NEW w, OrderedWorld(w), NEW e \in Objects,
         Push(w, e), count' = count + 1
  PROVE  Ordered(ep', fate', via', count', loop')
<1> DEFINE m == count + 1
<1>1. /\ m \in Messages /\ count \in Nat /\ loop \in Seq(Messages)
      /\ via \in [Messages -> Objects \cup {None}]
  BY EndpointAssumption DEF OrderInv, EndpointInv, TypeOK, Messages
<1>2. PICK p \in PushForwardMessage(w.ep[e], m) :
        /\ Becomes([w EXCEPT !.ep[e] = p.ep, !.fate[m] = p.fate])
        /\ loop' = IF p.fate = "looped" THEN Append(loop, m) ELSE loop
        /\ via' = [via EXCEPT ![m] = e]
  BY DEF Push
<1>3. /\ SoundWorld(w) /\ w.ep \in [Objects -> Record] /\ w.fate \in [Messages -> Fates]
      /\ Sound(w.ep[e]) /\ w.ep[e] \in Record /\ Recorded(w.ep[e])
  BY DEF OrderedWorld, SoundWorld, Worlds, Sound
<1>4. Sound(p.ep) /\ p.fate \in Fates /\ p.ep \in Record
  BY <1>1, <1>2, <1>3, SoundPush DEF Fates, Sound
<1>5. \/ p.ep.pending = w.ep[e].pending /\ p.fate = "refused"
      \/ p.ep.pending = <<>> /\ w.ep[e].pending = <<>> /\ p.fate \in {"sent", "looped"}
      \/ p.ep.pending = Append(w.ep[e].pending, New(m)) /\ p.fate = "accepted"
  BY <1>1, <1>2, <1>3, PushShape
<1> DEFINE f == [w.fate EXCEPT ![m] = p.fate]
           u == [w EXCEPT !.ep[e] = p.ep, !.fate[m] = p.fate]
<1>6. Ordered([w.ep EXCEPT ![e] = p.ep], f, via', count', loop')
  <2>1. Ordered(w.ep, w.fate, via, count, loop) BY DEF OrderedWorld
  <2> QED BY <1>1, <1>2, <1>3, <1>4, <1>5, <2>1, PushKeepsOrder
<1>7. u.ep = [w.ep EXCEPT ![e] = p.ep] /\ u.fate = f
  BY <1>3 DEF SoundWorld, Worlds
<1>8. SoundWorld(u)
  <2>1. f \in [Messages -> Fates] BY <1>3, <1>4
  <2>2. u = [w EXCEPT !.ep[e] = p.ep, !.fate = f] BY <1>3 DEF SoundWorld, Worlds
  <2> HIDE DEF f, u
  <2> QED BY <1>3, <1>4, <2>1, <2>2, SoundUpdate
<1>9. count' \in Nat /\ loop' \in Seq(Messages) BY <1>1, <1>2
<1>10. Becomes(u) BY <1>2
<1> HIDE DEF u, f
<1> QED BY <1>6, <1>7, <1>8, <1>9, <1>10, OrderedBecomes

\* Steps that leave every queue as it is, but for the times.
LEMMA OrderedStays ==
  ASSUME OrderInv, EndpointInv', UNCHANGED <<loop, count, fate, via>>,
         \A e \in Objects : Left(ep'[e].pending, ep[e].pending, 0)
  PROVE  OrderInv'
<1>1. /\ ep \in [Objects -> Record] /\ ep' \in [Objects -> Record]
      /\ fate \in [Messages -> Fates] /\ count \in Nat /\ loop \in Seq(Messages)
  BY DEF OrderInv, EndpointInv, TypeOK, Record
<1>2. Drains(ep, fate, ep', fate) BY DEF Drains
<1>3. Ordered(ep', fate, via, count, loop) BY <1>1, <1>2, DrainsKeepsOrder DEF OrderInv
<1> QED BY <1>3 DEF OrderInv

LEMMA ObjectStays ==
  ASSUME OrderInv, EndpointInv', NEW e \in Objects, NEW r,
         ep' = [ep EXCEPT ![e] = r], r.pending = ep[e].pending,
         UNCHANGED <<loop, count, fate, via>>
  PROVE  OrderInv'
<1>1. ep \in [Objects -> Record] BY DEF OrderInv, EndpointInv, TypeOK, Record
<1>2. \A d \in Objects : ep'[d].pending = ep[d].pending BY <1>1
<1>3. \A d \in Objects : Left(ep'[d].pending, ep[d].pending, 0)
  BY <1>1, <1>2, QueueFacts, LeftSame
<1> QED BY <1>3, OrderedStays

LEMMA LaterQueue ==
  ASSUME NEW r \in Record
  PROVE  Left(Later(r).pending, r.pending, 0)
<1> DEFINE q == [i \in DOMAIN r.pending |-> ExpiresSooner(r.pending[i])]
<1>1. /\ r.pending \in Seq(PendingMessage) /\ Len(r.pending) \in Nat
      /\ DOMAIN r.pending = 1..Len(r.pending)
  BY DEF Record
<1>2. \A i \in 1..Len(r.pending) : r.pending[i] \in PendingMessage BY <1>1
<1>3. \A i \in 1..Len(r.pending) : q[i].msg = r.pending[i].msg
  BY <1>1, <1>2 DEF ExpiresSooner, PendingMessage
<1>4. Len(q) = Len(r.pending)
  <2>1. q \in [1..Len(r.pending) -> {ExpiresSooner(r.pending[i]) : i \in 1..Len(r.pending)}]
    BY <1>1
  <2>2. q \in Seq({ExpiresSooner(r.pending[i]) : i \in 1..Len(r.pending)}) BY <1>1, <2>1
  <2>3. DOMAIN q = 1..Len(r.pending) BY <1>1
  <2> HIDE DEF q
  <2> QED BY <1>1, <2>2, <2>3
<1>5. Later(r).pending = q
  <2>1. Later(r) = [r EXCEPT !.nearest = Sooner(r.nearest), !.gc = Sooner(r.gc),
                             !.wakers = {Sooner(t) : t \in r.wakers}, !.pending = q]
    BY Zenon DEF Later
  <2> HIDE DEF q
  <2> QED BY <2>1 DEF Record
<1> HIDE DEF q
<1> QED BY <1>1, <1>3, <1>4, <1>5 DEF Left

LEMMA WakeUpKeepsOrder ==
  ASSUME OrderInv, NEW e \in Objects, WakeUp(e)
  PROVE  Ordered(ep', fate', via, count, loop)
<1> DEFINE r == [ep[e] EXCEPT !.wakers = @ \ {0}, !.nearest = IF @ = 0 THEN Never ELSE @]
<1>1. PICK p \in RetryPendingMessages(r) :
        Becomes(Recycle([World EXCEPT
                  !.ep[e] = p.ep,
                  !.fate = Mark(Mark(@, p.ok, "sent"), p.bad, "answered")], e))
  BY DEF WakeUp
<1>2. /\ EndpointInv /\ ep \in [Objects -> Record] /\ fate \in [Messages -> Fates]
      /\ count \in Nat /\ loop \in Seq(Messages)
  BY DEF OrderInv, EndpointInv, TypeOK, Record
<1>3. r \in Record /\ Recorded(r) /\ r.pending = ep[e].pending
  <2>1. ep[e] \in Record /\ Recorded(ep[e]) BY <1>2 DEF EndpointInv, Sound
  <2>2. ep[e].nearest = 0 /\ ep[e].wakers = {0} BY <2>1 DEF WakeUp, Recorded
  <2>3. Never \in Times BY DEF Times
  <2> QED BY <2>1, <2>2, <2>3 DEF Record, Recorded
<1> HIDE DEF r
<1>4. Sound(p.ep) /\ p.ep \in Record BY <1>3, SoundRetry DEF Sound
<1>5. PICK k \in 0..Len(ep[e].pending) :
        /\ Left(p.ep.pending, ep[e].pending, k)
        /\ p.ok \cup p.bad \subseteq {ep[e].pending[i].msg : i \in 1..k}
  BY <1>1, <1>3, RetryShape
<1> DEFINE f == Mark(Mark(fate, p.ok, "sent"), p.bad, "answered")
           es == [ep EXCEPT ![e] = p.ep]
           u == [World EXCEPT !.ep[e] = p.ep, !.fate = f]
<1>6. f \in [Messages -> Fates] BY <1>2, MarkType DEF Fates
<1>7. ASSUME NEW m \in Messages, f[m] # fate[m]
      PROVE  /\ f[m] \in {"sent", "answered", "dropped"}
             /\ m \in Taken(ep[e].pending, p.ep.pending)
  <2>1. f[m] \in {"sent", "answered"} /\ m \in p.ok \cup p.bad BY <1>7 DEF Mark
  <2>2. PICK i \in 1..k : m = ep[e].pending[i].msg BY <1>5, <2>1
  <2>3. /\ Len(ep[e].pending) \in Nat /\ DOMAIN ep[e].pending = 1..Len(ep[e].pending)
        /\ \A j \in DOMAIN ep[e].pending : Msg(ep, e, j) \in Messages
    BY <1>2, QueueFacts
  <2>4. i \in DOMAIN ep[e].pending /\ m = Msg(ep, e, i) BY <2>2, <2>3 DEF Msg
  <2>5. ASSUME NEW j \in DOMAIN p.ep.pending PROVE p.ep.pending[j].msg # m
    <3>1. p.ep.pending \in Seq(PendingMessage) BY <1>4 DEF Record
    <3>2. j \in 1..Len(p.ep.pending) /\ Len(p.ep.pending) \in Nat BY <2>5, <3>1
    <3>3. j + k \in DOMAIN ep[e].pending /\ p.ep.pending[j].msg = Msg(ep, e, j + k)
      <4> HIDE DEF es, u
      <4>1. /\ Len(p.ep.pending) = Len(ep[e].pending) - k
            /\ p.ep.pending[j].msg = ep[e].pending[j + k].msg
        BY <1>5, <3>2 DEF Left
      <4>2. k \in 0..Len(ep[e].pending) OBVIOUS
      <4>3. j + k \in 1..Len(ep[e].pending) BY <2>3, <3>2, <4>1, <4>2
      <4> QED BY <2>3, <4>1, <4>3 DEF Msg
    <3>4. i < j + k BY <2>3, <3>2
    <3>5. Msg(ep, e, i) < Msg(ep, e, j + k)
      BY <2>4, <3>3, <3>4 DEF OrderInv, Ordered, Sorted
    <3> QED BY <2>3, <2>4, <3>3, <3>5 DEF Messages
  <2> QED BY <2>1, <2>2, <2>4, <2>5 DEF Taken
<1> HIDE DEF f
<1>8. Drains(ep, fate, es, f)
  <2>1. k \in Nat BY <1>2, QueueFacts
  <2> QED BY <1>2, <1>4, <1>5, <1>6, <1>7, <2>1, DrainOne
<1>9. es \in [Objects -> Record] BY <1>2, <1>4
<1>10. Ordered(es, f, via, count, loop)
  <2> HIDE DEF es
  <2> QED BY <1>2, <1>6, <1>8, <1>9, DrainsKeepsOrder DEF OrderInv
<1>11. SoundWorld(u) BY <1>2, <1>4, <1>6, SoundState, SoundUpdate
<1>12. u.ep = es /\ u.fate = f BY DEF World
<1>13. World.fate = fate BY DEF World
<1>14. Becomes(Recycle(u, e)) BY <1>1, <1>13 DEF f
<1> HIDE DEF u, es
<1>15. OrderedWorld(u) BY <1>10, <1>11, <1>12 DEF OrderedWorld
<1>16. OrderedWorld(Recycle(u, e)) BY <1>15, OrderedRecycle
<1> QED BY <1>2, <1>14, <1>16, OrderedBecomes DEF OrderedWorld

LEMMA DestroyKeepsOrder ==
  ASSUME OrderInv, Destroy
  PROVE  Ordered(ep', fate', via, count, <<>>)
<1> DEFINE es == [e \in Objects |-> Reset(ep[e])]
           f == Mark(fate, UNION {Cancelled(ep[e]) : e \in Objects}, "answered")
           w == [ep |-> es, byId |-> [i \in Ids |-> None], byName |-> [k \in Names |-> None],
                 fate |-> f]
<1>1. /\ EndpointInv /\ ep \in [Objects -> Record] /\ fate \in [Messages -> Fates]
      /\ count \in Nat
  BY DEF OrderInv, EndpointInv, TypeOK, Record
<1>2. \A e \in Objects : Sound(Reset(ep[e])) BY <1>1, SoundReset DEF EndpointInv
<1>3. es \in [Objects -> Record] BY <1>2 DEF Sound
<1>4. f \in [Messages -> Fates] BY <1>1, MarkType DEF Fates
<1>5. SoundWorld(w) BY <1>2, <1>3, <1>4 DEF SoundWorld, Worlds
<1>6. \A e \in Objects : es[e].pending = IF ep[e].ready THEN <<>> ELSE ep[e].pending
  BY <1>1 DEF Reset, Record
<1>7. Drains(ep, fate, es, f)
  <2>1. ASSUME NEW e \in Objects
        PROVE  \E n \in Nat : Left(es[e].pending, ep[e].pending, n)
    <3>1. ep[e].pending \in Queues BY <1>1, QueueFacts
    <3>2. es[e].pending = <<>> \/ es[e].pending = ep[e].pending BY <1>6
    <3> HIDE DEF es
    <3> QED BY <3>1, <3>2, LeftNone, LeftSame
  <2>2. ASSUME NEW m \in Messages, f[m] # fate[m]
        PROVE  /\ f[m] = "answered"
               /\ \E e \in Objects : m \in Taken(ep[e].pending, es[e].pending)
    <3>1. /\ f[m] = "answered" /\ m \in UNION {Cancelled(ep[e]) : e \in Objects}
      BY <2>2 DEF Mark
    <3>2. PICK e \in Objects : m \in Cancelled(ep[e]) BY <3>1
    <3>3. m \in MessagesOf(ep[e]) /\ es[e].pending = <<>> BY <1>6, <3>2 DEF Cancelled
    <3> HIDE DEF es
    <3>4. m \in Taken(ep[e].pending, es[e].pending) BY <3>3 DEF Taken, MessagesOf
    <3> QED BY <3>1, <3>4
  <2> QED BY <2>1, <2>2 DEF Drains
<1>8. Ordered(ep, fate, via, count, <<>>) /\ <<>> \in Seq(Messages)
  BY DEF OrderInv, Ordered, Looped
<1>9. Becomes(w) BY DEF Destroy
<1>10. w.ep = es /\ w.fate = f OBVIOUS
<1> HIDE DEF es, f, w
<1>11. Ordered(w.ep, w.fate, via, count, <<>>)
  BY <1>1, <1>3, <1>4, <1>7, <1>8, <1>10, DrainsKeepsOrder
<1> QED BY <1>1, <1>5, <1>8, <1>9, <1>11, OrderedBecomes

LEMMA InitOrderInv == ASSUME Init PROVE OrderInv
<1>1. \A e \in Objects : ep[e].pending = <<>> BY DEF Init, Blank
<1>2. loop = <<>> /\ \A m \in Messages : fate[m] = "unsent" BY DEF Init
<1>3. Waiting(ep, fate, via, count) /\ Sorted(ep) /\ InOrder(ep, fate, via)
  BY <1>1 DEF Waiting, Sorted, InOrder
<1>4. Unsent(fate, count) /\ Looped(fate, loop) BY <1>2 DEF Unsent, Looped
<1> QED BY <1>3, <1>4, InitEndpointInv DEF OrderInv, Ordered

LEMMA NextOrderInv == ASSUME OrderInv, [Next]_vars PROVE OrderInv'
<1>1. /\ EndpointInv' /\ EndpointInv /\ Ordered(ep, fate, via, count, loop)
  BY NextEndpointInv DEF OrderInv
<1>2. ep \in [Objects -> Record] BY <1>1 DEF EndpointInv, TypeOK, Record
<1>3. ASSUME NEW e \in Objects, SendCached(e) PROVE OrderInv'
  BY <1>1, <1>3, OrderedState, OrderedPushes DEF SendCached, OrderInv
<1>4. ASSUME NEW n \in Nodes, SendDiscovered(n) PROVE OrderInv'
  <2>1. PICK c \in MutableEndpoint(n) : Push(c.w, c.e) BY <1>4 DEF SendDiscovered
  <2>2. c.e \in Objects /\ OrderedWorld(c.w) BY OrderedMutable
  <2> QED BY <1>1, <1>4, <2>1, <2>2, OrderedPushes DEF SendDiscovered, OrderInv
<1>5. ASSUME NEW e \in Objects, HandleReady(e) PROVE OrderInv'
  <2> DEFINE s == [ep[e] EXCEPT !.ready = TRUE]
  <2>1. Sound(s) /\ s.pending = ep[e].pending
    BY <1>1, <1>2, SoundUnready DEF EndpointInv, Record
  <2>2. ep' = [ep EXCEPT ![e] = AddWaker(s, 1)] /\ UNCHANGED <<loop, count, fate, via>>
    BY <1>5 DEF HandleReady
  <2> HIDE DEF s
  <2>3. AddWaker(s, 1).pending = ep[e].pending BY <2>1, SoundAddWaker DEF Sound
  <2> QED BY <1>1, <2>2, <2>3, ObjectStays
<1>6. ASSUME NEW e \in Objects, HandleUnready(e) PROVE OrderInv'
  <2> DEFINE s == [ep[e] EXCEPT !.ready = FALSE]
  <2>1. s.pending = ep[e].pending BY <1>2 DEF Record
  <2>2. ep' = [ep EXCEPT ![e] = s] /\ UNCHANGED <<loop, count, fate, via>>
    BY <1>2, <1>6 DEF HandleUnready
  <2> HIDE DEF s
  <2> QED BY <1>1, <2>1, <2>2, ObjectStays
<1>7. ASSUME NEW e \in Objects, HandleClose(e) PROVE OrderInv'
  <2> DEFINE s == [ep[e] EXCEPT !.conn = "none", !.ready = FALSE, !.gc = GcTimeout + 1]
  <2>1. GcTimeout + 1 \in Nat BY EndpointAssumption
  <2>2. s \in Record /\ Recorded(s) /\ s.pending = ep[e].pending
    BY <1>1, <2>1 DEF EndpointInv, Sound, Record, Recorded
  <2>3. ep' = [ep EXCEPT ![e] = AddWaker(s, GcTimeout + 1)] /\ UNCHANGED <<loop, count, fate, via>>
    BY <1>7 DEF HandleClose
  <2> HIDE DEF s
  <2>4. AddWaker(s, GcTimeout + 1).pending = ep[e].pending BY <2>1, <2>2, SoundAddWaker
  <2> QED BY <1>1, <2>3, <2>4, ObjectStays
<1>8. ASSUME NEW e \in Objects, WakeUp(e) PROVE OrderInv'
  <2>1. UNCHANGED <<via, count, loop>> BY <1>8 DEF WakeUp
  <2> QED BY <1>1, <1>8, <2>1, WakeUpKeepsOrder DEF OrderInv
<1>9. CASE Loopback
  <2>1. /\ loop \in Seq(Messages) /\ fate \in [Messages -> Fates] /\ loop # <<>>
        /\ fate' = [fate EXCEPT ![Head(loop)] = "delivered"] /\ loop' = Tail(loop)
        /\ UNCHANGED <<ep, count, via>>
    BY <1>1, <1>9 DEF Loopback, EndpointInv, TypeOK
  <2>2. /\ Head(loop) \in Messages /\ fate[Head(loop)] = "looped" /\ Head(loop) = loop[1]
        /\ 1 \in DOMAIN loop
    BY <1>1, <2>1 DEF Ordered, Looped
  <2> DEFINE h == Head(loop)
  <2>3. /\ DOMAIN fate = Messages /\ fate'[h] = "delivered"
        /\ \A m \in Messages : m # h => fate'[m] = fate[m]
    BY <2>1, <2>2
  <2>4. \A e \in Objects : \A i \in DOMAIN ep[e].pending :
          Msg(ep, e, i) \in Messages /\ fate[Msg(ep, e, i)] = "accepted"
    BY <1>1, <1>2, QueueFacts DEF Ordered, Waiting
  <2>5. Waiting(ep, fate', via, count)
    BY <1>1, <2>2, <2>3, <2>4 DEF Ordered, Waiting
  <2>6. Unsent(fate', count)
    BY <1>1, <2>2, <2>3 DEF Ordered, Unsent
  <2>7. InOrder(ep, fate', via)
    BY <1>1, <2>2, <2>3 DEF Ordered, InOrder, Gone
  <2>8. Looped(fate', loop')
    <3>1. /\ DOMAIN loop = 1..Len(loop) /\ Len(loop) \in Nat
          /\ DOMAIN loop' = 1..(Len(loop) - 1)
          /\ \A i \in DOMAIN loop' : loop'[i] = loop[i + 1]
      BY <2>1
    <3>2. \A i \in DOMAIN loop' : i + 1 \in DOMAIN loop /\ i + 1 # 1 BY <3>1
    <3>3. \A i \in DOMAIN loop' : loop[i + 1] \in Messages /\ loop[i + 1] # h
      BY <1>1, <2>1, <2>2, <3>2 DEF Ordered, Looped
    <3>4. \A i \in DOMAIN loop' : fate'[loop'[i]] = "looped"
      BY <1>1, <2>3, <3>1, <3>2, <3>3 DEF Ordered, Looped
    <3>5. \A i, j \in DOMAIN loop' : loop'[i] = loop'[j] => i = j
      <4> SUFFICES ASSUME NEW i \in DOMAIN loop', NEW j \in DOMAIN loop',
                          loop'[i] = loop'[j]
                   PROVE  i = j
        OBVIOUS
      <4>1. i + 1 = j + 1 BY <1>1, <3>1, <3>2 DEF Ordered, Looped
      <4> QED BY <3>1, <4>1
    <3> QED BY <3>4, <3>5 DEF Looped
  <2> QED BY <1>1, <2>1, <2>5, <2>6, <2>7, <2>8 DEF OrderInv, Ordered
<1>10. ASSUME NEW n \in Nodes, NodeDeleted(n) PROVE OrderInv'
  <2> DEFINE w == RemoveName(RemoveId(World, n.id), n.name)
  <2>1. OrderedWorld(w) BY OrderedState, OrderedRemoveId, OrderedRemoveName
  <2>2. Becomes(w) /\ UNCHANGED <<loop, count, via>> BY <1>10 DEF NodeDeleted
  <2>3. count \in Nat /\ loop \in Seq(Messages) BY <1>1 DEF EndpointInv, TypeOK
  <2> HIDE DEF w
  <2>4. Ordered(ep', fate', via, count, loop)
    BY <2>1, <2>2, <2>3, OrderedBecomes DEF OrderedWorld
  <2> QED BY <1>1, <2>2, <2>4 DEF OrderInv
<1>11. CASE Tick
  <2>1. \A e \in Objects : ep'[e] = Later(ep[e]) \/ ep'[e] = ep[e] BY <1>11 DEF Tick
  <2>2. \A e \in Objects : Left(ep[e].pending, ep[e].pending, 0)
    BY <1>2, QueueFacts, LeftSame
  <2>3. \A e \in Objects : Left(Later(ep[e]).pending, ep[e].pending, 0) BY <1>2, LaterQueue
  <2>4. \A e \in Objects : Left(ep'[e].pending, ep[e].pending, 0) BY <2>1, <2>2, <2>3
  <2> QED BY <1>1, <1>11, <2>4, OrderedStays DEF Tick
<1>12. CASE Stop BY <1>1, <1>12 DEF Stop, OrderInv
<1>13. CASE Destroy
  <2>1. loop' = <<>> /\ UNCHANGED <<count, via>> BY <1>13 DEF Destroy
  <2> QED BY <1>1, <1>13, <2>1, DestroyKeepsOrder DEF OrderInv
<1>14. CASE UNCHANGED vars BY <1>1, <1>14 DEF vars, OrderInv
<1> QED
  BY <1>3, <1>4, <1>5, <1>6, <1>7, <1>8, <1>9, <1>10, <1>11, <1>12, <1>13, <1>14
  DEF Next

LEMMA SpecOrderInv == Spec => []OrderInv
<1>1. OrderInv /\ [Next]_vars => OrderInv' BY NextOrderInv
<1> QED BY InitOrderInv, <1>1, PTL DEF Spec

\* retry_pending_messages() and push_forward_message(): a message waits at one
\* place of one endpoint, and never after it was sent, answered or dropped.
THEOREM MessagesQueuedOnce == Spec => []QueuedOnce
<1>1. ASSUME OrderInv PROVE QueuedOnce
  <2> SUFFICES ASSUME NEW e \in Objects, NEW i \in DOMAIN ep[e].pending
               PROVE  /\ fate[Msg(ep, e, i)] = "accepted"
                      /\ \A d \in Objects : \A j \in DOMAIN ep[d].pending :
                           Msg(ep, d, j) = Msg(ep, e, i) => d = e /\ j = i
    BY DEF QueuedOnce, Msg
  <2>1. ep \in [Objects -> Record] BY <1>1 DEF OrderInv, EndpointInv, TypeOK, Record
  <2>2. Ordered(ep, fate, via, count, loop) BY <1>1 DEF OrderInv
  <2>3. fate[Msg(ep, e, i)] = "accepted" BY <2>2 DEF Ordered, Waiting
  <2>4. ASSUME NEW d \in Objects, NEW j \in DOMAIN ep[d].pending,
               Msg(ep, d, j) = Msg(ep, e, i)
        PROVE  d = e /\ j = i
    <3>1. d = e BY <2>2, <2>4 DEF Ordered, Waiting
    <3>2. i \in Nat /\ j \in Nat /\ Msg(ep, e, i) \in Nat
      BY <2>1, QueueFacts DEF Messages
    <3>3. ~(i < j) /\ ~(j < i) BY <2>2, <2>4, <3>1, <3>2 DEF Ordered, Sorted
    <3> QED BY <3>1, <3>2, <3>3
  <2> QED BY <2>3, <2>4
<1> QED BY SpecOrderInv, <1>1, PTL

\* push_forward_message() and retry_pending_messages(): no message goes out while
\* an earlier one that was handed to the same endpoint still waits.
THEOREM MessagesInOrder == Spec => []NoOvertaking
<1>1. ASSUME OrderInv PROVE NoOvertaking
  <2> SUFFICES ASSUME NEW e \in Objects, NEW m \in MessagesOf(ep[e]), NEW k \in Messages,
                      k > m, via[k] = via[m]
               PROVE  fate[k] \notin Gone
    BY DEF NoOvertaking, Gone
  <2>1. PICK i \in DOMAIN ep[e].pending : m = Msg(ep, e, i) BY DEF MessagesOf, Msg
  <2> QED BY <1>1, <2>1 DEF OrderInv, Ordered, Waiting, InOrder
<1> QED BY SpecOrderInv, <1>1, PTL
=============================================================================
