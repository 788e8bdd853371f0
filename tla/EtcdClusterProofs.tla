-------------------------- MODULE EtcdClusterProofs --------------------------
(***************************************************************************)
(* Proofs about the etcd client, for any hosts, paths, leases, values and  *)
(* failures.                                                               *)
(*                                                                         *)
(* Nearly everything the client does on its own - choosing a member,       *)
(* asking for a token or the lease, starting requests of keepalives and    *)
(* deletors again - relates the view before it to the view after it by     *)
(* Works, and whatever is related so keeps the invariants.  The steps that *)
(* are left take an answer or a call, and then work.                       *)
(***************************************************************************)
EXTENDS EtcdCluster, FiniteSetTheorems, TLAPS

Views == [c : Conf, q : Rpc, a : [Keys -> Actor], retry : SUBSET Keys,
          d : SUBSET Deletor, left : SUBSET Keys, pick : Hosts \cup {None}]

-----------------------------------------------------------------------------
(* The invariant of a view. *)

\* A keepalive without a value to write has written it, or is doing so; one
\* that is not registered does nothing; a get is made before the check only.
ActorOk(a) ==
    /\ a.op = "set" => a.wval \in 1 .. MaxValue /\ a.wlease # 0
    /\ a.op = "get" => ~a.run
    /\ ~a.run => a.changed
    /\ ~a.on => a.op = "none" /\ a.changed
    /\ a.op = "set" /\ ~a.changed => a.wval = a.val

\* A write that leaves nothing to write is under the present lease.
Leased(c, a) == a.op = "set" /\ ~a.changed /\ c.lease # 0 => a.wlease = c.lease

\* A renewal is of the present lease, and a grant is answered with one.
KeepOk(c, keep) ==
    /\ keep.op # "none" => c.enabled
    /\ keep.op = "grant" /\ keep.st = "ok" => keep.id # 0
    /\ keep.op = "renew" => c.lease # 0 /\ keep.id = c.lease

Silent(s) ==
    /\ s.q.member = None /\ s.q.auth = IdleAuth /\ s.q.keep = IdleKeep
    /\ s.c.lease = 0 /\ ~s.c.running /\ s.retry = {}
    /\ \A k \in Keys : ~s.a[k].on /\ s.a[k].op = "none"

Core(s) ==
    /\ s \in Views
    /\ \A k \in Keys : ActorOk(s.a[k]) /\ Leased(s.c, s.a[k])
    /\ \A k \in s.retry : s.a[k].on
    /\ s.c.lease # 0 => s.c.running /\ s.c.enabled
    /\ KeepOk(s.c, s.q.keep)
    /\ s.c.closing => Silent(s)

-----------------------------------------------------------------------------
(* What the client does on its own. *)

\* A keepalive goes on: it may get something to write and start a request, and
\* neither ends one nor takes a value for written.
GoesOn(c, a, b) ==
    /\ b.on = a.on /\ b.val = a.val
    /\ b.op = "none" /\ ~b.changed => a.op = "none" /\ ~a.changed
    /\ b.op = "set" /\ b.st = "ok" =>
         a.op = "set" /\ a.st = "ok" /\ b.wval = a.wval /\ b.wlease = a.wlease
    /\ b.wlease \in {a.wlease, c.lease}
    /\ a.on /\ ActorOk(a) => ActorOk(b)
    /\ a.on /\ Leased(c, a) => Leased(c, b)
    /\ ~a.on => b = a

\* A path that is to be deleted stays so, or is given up.
StillDeleted(s, t) ==
    /\ s.left \subseteq t.left
    /\ \A d \in s.d : d.st # "done" =>
         d.key \in t.left \/ \E e \in t.d : e.key = d.key /\ e.st # "done"
    /\ \A e \in t.d : \E d \in s.d : e.key = d.key

Works(s, t) ==
    /\ t \in Views
    /\ t.c.lease = s.c.lease /\ t.c.enabled = s.c.enabled /\ t.c.closing = s.c.closing
    /\ t.c.running = s.c.running \/ (~s.c.closing /\ t.c.running)
    /\ \A k \in Keys : GoesOn(s.c, s.a[k], t.a[k])
    /\ \A k \in t.retry : s.a[k].on
    /\ KeepOk(t.c, t.q.keep)
    /\ t.q.keep.id \in {0, s.q.keep.id, s.c.lease}
    /\ s.c.closing => t.q = s.q /\ t.retry = s.retry
    /\ StillDeleted(s, t)

LEMMA WorksRefl == ASSUME NEW s, Core(s) PROVE Works(s, s)
<1>1. \A k \in Keys : GoesOn(s.c, s.a[k], s.a[k]) BY DEF GoesOn
<1>2. StillDeleted(s, s) BY DEF StillDeleted
<1>3. s.q.keep.id \in {0, s.q.keep.id, s.c.lease} OBVIOUS
<1> QED BY <1>1, <1>2, <1>3 DEF Core, Works

LEMMA WorksTrans ==
  ASSUME NEW s, NEW t, NEW u, Works(s, t), Works(t, u)
  PROVE  Works(s, u)
<1>1. \A k \in Keys : GoesOn(s.c, s.a[k], u.a[k])
  <2> SUFFICES ASSUME NEW k \in Keys PROVE GoesOn(s.c, s.a[k], u.a[k]) OBVIOUS
  <2>1. GoesOn(s.c, s.a[k], t.a[k]) /\ GoesOn(t.c, t.a[k], u.a[k]) /\ t.c.lease = s.c.lease
    BY DEF Works
  <2> QED BY <2>1 DEF GoesOn, Leased
<1>2. StillDeleted(s, u)
  <2>1. StillDeleted(s, t) /\ StillDeleted(t, u) BY DEF Works
  <2>2. \A d \in s.d : d.st # "done" =>
         d.key \in u.left \/ \E e \in u.d : e.key = d.key /\ e.st # "done"
    <3> SUFFICES ASSUME NEW d \in s.d, d.st # "done", d.key \notin u.left
                 PROVE  \E e \in u.d : e.key = d.key /\ e.st # "done"
      OBVIOUS
    <3>1. PICK e \in t.d : e.key = d.key /\ e.st # "done" BY <2>1 DEF StillDeleted
    <3> QED BY <2>1, <3>1 DEF StillDeleted
  <2> QED BY <2>1, <2>2 DEF StillDeleted
<1>3. \A k \in u.retry : s.a[k].on
  <2>1. u.retry \subseteq Keys BY DEF Works, Views
  <2>2. \A k \in Keys : t.a[k].on = s.a[k].on BY DEF Works, GoesOn
  <2> QED BY <2>1, <2>2 DEF Works
<1> QED BY <1>1, <1>2, <1>3 DEF Works

LEMMA WorksCore ==
  ASSUME NEW s, NEW t, Core(s), Works(s, t)
  PROVE  Core(t)
<1>1. ASSUME NEW k \in Keys PROVE ActorOk(t.a[k]) /\ Leased(t.c, t.a[k])
  <2>1. GoesOn(s.c, s.a[k], t.a[k]) /\ ActorOk(s.a[k]) /\ Leased(s.c, s.a[k])
    BY DEF Core, Works
  <2>2. t.c.lease = s.c.lease BY DEF Works
  <2> QED BY <2>1, <2>2 DEF GoesOn, Leased
<1>2. \A k \in Keys : t.a[k].on = s.a[k].on BY DEF Works, GoesOn
<1>3. t.retry \subseteq Keys BY DEF Works, Views
<1>4. \A k \in t.retry : t.a[k].on BY <1>2, <1>3 DEF Works
<1>5. ASSUME t.c.closing PROVE Silent(t)
  <2>1. s.c.closing /\ Silent(s) /\ t.q = s.q /\ t.retry = s.retry
        /\ t.c.running = s.c.running /\ t.c.lease = s.c.lease
    BY <1>5 DEF Works, Core
  <2>2. \A k \in Keys : t.a[k] = s.a[k] BY <2>1 DEF Works, GoesOn, Silent
  <2> QED BY <2>1, <2>2 DEF Silent
<1> QED BY <1>1, <1>4, <1>5 DEF Core, Works

-----------------------------------------------------------------------------
(* Members and authorization. *)

\* A view that differs in the members, the token, the timers and their requests.
Aside(s, t) ==
    /\ t \in Views /\ t.a = s.a /\ t.retry = s.retry /\ t.d = s.d /\ t.left = s.left
    /\ t.q.keep = s.q.keep
    /\ t.c.lease = s.c.lease /\ t.c.enabled = s.c.enabled /\ t.c.closing = s.c.closing
    /\ t.c.running = s.c.running
    /\ s.c.closing => t.q = s.q

LEMMA AsideWorks == ASSUME NEW s, NEW t, Core(s), Aside(s, t) PROVE Works(s, t)
<1>1. \A k \in Keys : GoesOn(s.c, s.a[k], t.a[k]) BY DEF GoesOn, Aside
<1>2. StillDeleted(s, t) BY DEF StillDeleted, Aside
<1>3. KeepOk(t.c, t.q.keep) BY DEF Core, Aside, KeepOk
<1> QED BY <1>1, <1>2, <1>3 DEF Aside, Works, Core

LEMMA AsideTrans ==
  ASSUME NEW s, NEW t, NEW u, Aside(s, t), Aside(t, u)
  PROVE  Aside(s, u)
  BY DEF Aside

LEMMA DrawIn ==
  ASSUME NEW s, NEW H \in SUBSET Hosts, H # {}
  PROVE  Draw(s, H) \in H
  BY DEF Draw

LEMMA SelectAside ==
  ASSUME NEW s \in Views
  PROVE  Aside(s, Select(s))
<1> DEFINE n == IF s.c.hosts = {} THEN None ELSE Draw(s, s.c.hosts)
<1>1. n \in Hosts \cup {None} BY DrawIn DEF Views, Conf
<1>2. Select(s) = [s EXCEPT !.c.node = n] BY DEF Select
<1> HIDE DEF n
<1> QED BY <1>1, <1>2 DEF Aside, Views, Conf

LEMMA CreateMemberAside ==
  ASSUME NEW s \in Views
  PROVE  Aside(s, CreateMember(s))
<1> DEFINE t == [s EXCEPT !.c.due = @ \ {"member"}, !.q.member = None]
           m == Draw(s, IF s.c.hosts = {} THEN Hosts ELSE s.c.hosts)
           v == [t EXCEPT !.c.hosts = Hosts]
           w == [t EXCEPT !.q.member = m]
<1>1. m \in Hosts BY ClusterConstants, DrawIn DEF Views, Conf
<1>2. t \in Views /\ v \in Views BY DEF Views, Conf, Rpc
<1>3. w \in Views BY <1>1, <1>2 DEF Views, Rpc
<1>4. ~s.c.closing => Aside(s, t) /\ Aside(s, v) /\ Aside(s, w)
  <2> HIDE DEF m
  <2>1. ~s.c.closing => Aside(s, t) BY <1>2 DEF Aside, Views, Conf, Rpc
  <2>2. ~s.c.closing => Aside(s, v) BY <1>2, ZenonT(30) DEF Aside, Views, Conf, Rpc
  <2>3. ~s.c.closing => Aside(s, w) BY <1>3, ZenonT(30) DEF Aside, Views, Conf, Rpc
  <2> QED BY <2>1, <2>2, <2>3
<1>5. CreateMember(s) = IF s.c.closing THEN s
                        ELSE IF ~AutoUpdate THEN IF s.c.hosts = {} THEN Select(v) ELSE t ELSE w
  BY DEF CreateMember
<1>6. Aside(v, Select(v)) BY <1>2, SelectAside
<1>7. Aside(s, s) BY DEF Aside
<1> HIDE DEF t, v, w
<1>8. ~s.c.closing => Aside(s, Select(v)) BY <1>4, <1>6, AsideTrans
<1> QED BY <1>4, <1>5, <1>7, <1>8

LEMMA RetryMemberAside ==
  ASSUME NEW s \in Views, NEW bad
  PROVE  Aside(s, RetryMember(s, bad))
<1> DEFINE v == [s EXCEPT !.c.hosts = @ \ {bad}]
           t == IF s.c.node = None THEN Select(s)
                ELSE IF s.c.node = bad THEN Select(v) ELSE s
<1>1. v \in Views /\ Aside(s, v) BY DEF Views, Conf, Aside
<1>2. Aside(s, Select(s)) /\ Aside(v, Select(v)) BY <1>1, SelectAside
<1>3. Aside(s, Select(v)) BY <1>1, <1>2, AsideTrans
<1>4. Aside(s, s) BY DEF Aside
<1>5. Aside(s, t) BY <1>2, <1>3, <1>4
<1>6. RetryMember(s, bad) = IF "member" \in t.c.due THEN CreateMember(t) ELSE t
  BY DEF RetryMember
<1> HIDE DEF t
<1>7. t \in Views BY <1>5 DEF Aside
<1>8. Aside(s, CreateMember(t)) BY <1>5, <1>7, CreateMemberAside, AsideTrans
<1> QED BY <1>5, <1>6, <1>8

LEMMA AuthAside ==
  ASSUME NEW s \in Views
  PROVE  Aside(s, CreateAuth(s)) /\ Aside(s, CreateUser(s))
<1>1. ASSUME ~s.c.closing, s.c.node # None
      PROVE  /\ Aside(s, [s EXCEPT !.c.due = @ \ {"auth", "user"},
                                   !.q.auth = [op |-> "auth", to |-> s.c.node]])
             /\ Aside(s, [s EXCEPT !.c.due = @ \ {"user"},
                                   !.q.auth = [op |-> "user", to |-> s.c.node]])
  BY <1>1 DEF Aside, Views, Conf, Rpc
<1>2. Aside(s, s) BY DEF Aside
<1> QED BY <1>1, <1>2 DEF CreateAuth, CreateUser

LEMMA FailedAside ==
  ASSUME NEW s \in Views, NEW why, NEW to
  PROVE  Aside(s, Failed(s, why, to))
<1>1. Aside(s, [s EXCEPT !.c.token = FALSE]) BY DEF Aside, Views, Conf
<1>2. Aside(s, s) BY DEF Aside
<1> QED BY <1>1, <1>2, RetryMemberAside DEF Failed

\* Asking for the state of the cluster to be ready, or not.
LEMMA ReadyAside ==
  ASSUME NEW s \in Views
  PROVE  Aside(s, ResolveReady(s))
<1>1. Aside(s, [s EXCEPT !.c.ready = TRUE]) BY DEF Aside, Views, Conf
<1>2. Aside(s, s) BY DEF Aside
<1> QED BY <1>1, <1>2 DEF ResolveReady

-----------------------------------------------------------------------------
(* Keepalives. *)

Put(s, k, b, R) == [s EXCEPT !.a = [@ EXCEPT ![k] = b], !.retry = R]

\* What active() makes of a keepalive, which it may put in the retry list.
Turned(s, k, b, R) ==
    /\ b \in Actor /\ GoesOn(s.c, s.a[k], b)
    /\ Process(s, k) = Put(s, k, b, R)
    /\ R = s.retry \/ (R = s.retry \cup {k} /\ ~s.c.closing)

LEMMA PutTwice ==
  ASSUME NEW s \in Views, NEW k \in Keys, NEW a \in Actor, NEW b
  PROVE  [Put(s, k, a, s.retry) EXCEPT !.a[k] = b] = Put(s, k, b, s.retry)
  BY DEF Put, Views

LEMMA PutGets ==
  ASSUME NEW s \in Views, NEW k \in Keys, NEW a \in Actor
  PROVE  [Put(s, k, a, s.retry) EXCEPT !.a[k].op = "get", !.a[k].st = "sent"]
           = Put(s, k, [a EXCEPT !.op = "get", !.st = "sent"], s.retry)
  BY DEF Put, Views

LEMMA ProcessTurns ==
  ASSUME NEW s, Core(s), NEW k \in Keys, s.a[k].on
  PROVE  \E b, R : Turned(s, k, b, R)
<1> DEFINE a == IF k \in Checked THEN s.a[k]
                ELSE [s.a[k] EXCEPT !.run = TRUE, !.passed = TRUE]
           t == [s EXCEPT !.a[k] = a]
           g == [a EXCEPT !.op = "get", !.st = "sent"]
           w == [a EXCEPT !.changed = FALSE, !.op = "set", !.st = "sent",
                          !.wval = a.val, !.wlease = s.c.lease]
<1>1. s \in Views /\ s.a[k] \in Actor /\ ActorOk(s.a[k]) /\ Leased(s.c, s.a[k])
  BY DEF Core, Views
<1>2. s = Put(s, k, s.a[k], s.retry) BY <1>1 DEF Put, Views
<1>3. t = Put(s, k, a, s.retry) BY <1>1 DEF Put, Views
<1>4. AddRetry(t, k) = Put(s, k, a, IF s.c.closing THEN s.retry ELSE s.retry \cup {k})
  BY <1>1 DEF Put, Views, AddRetry
<1>5. a \in Actor BY <1>1 DEF Actor
<1>6. /\ [t EXCEPT !.a[k].op = "get", !.a[k].st = "sent"] = Put(s, k, g, s.retry)
      /\ [t EXCEPT !.a[k] = w] = Put(s, k, w, s.retry)
  <2> HIDE DEF a, t, w
  <2>1. [t EXCEPT !.a[k].op = "get", !.a[k].st = "sent"] = Put(s, k, g, s.retry)
    BY <1>1, <1>3, <1>5, PutGets
  <2>2. [t EXCEPT !.a[k] = w] = Put(s, k, w, s.retry) BY <1>1, <1>3, <1>5, PutTwice
  <2> QED BY <2>1, <2>2
<1>7. s.a[k].op = "none" => GoesOn(s.c, s.a[k], a)
  BY <1>1 DEF Actor, GoesOn, ActorOk, Leased
<1>8. s.a[k].op = "none" /\ ~a.run => g \in Actor /\ GoesOn(s.c, s.a[k], g)
  BY <1>1 DEF Actor, GoesOn, ActorOk, Leased
<1>9. s.a[k].op = "none" /\ a.run /\ CanSet(s) => w \in Actor /\ GoesOn(s.c, s.a[k], w)
  <2> SUFFICES ASSUME s.a[k].op = "none", a.run, CanSet(s)
               PROVE  w \in Actor /\ GoesOn(s.c, s.a[k], w)
    OBVIOUS
  <2>1. s.c.lease \in Leases /\ s.c.lease # 0 BY <1>1 DEF CanSet, Views, Conf
  <2>2. a \in Actor /\ a.on = s.a[k].on /\ a.val = s.a[k].val BY <1>5, <1>7 DEF GoesOn
  <2>3. a.val \in 1 .. MaxValue /\ a.val \in 0 .. MaxValue
    <3>1. a.val \in 1 .. MaxValue BY <2>2 DEF Actor
    <3> HIDE DEF a
    <3> QED BY <3>1, ClusterConstants
  <2> HIDE DEF a
  <2>4. w \in Actor BY <2>1, <2>2, <2>3 DEF Actor
  <2>5. /\ w.on = a.on /\ w.val = a.val /\ w.op = "set" /\ w.st = "sent" /\ ~w.changed
        /\ w.run = a.run /\ w.wval = a.val /\ w.wlease = s.c.lease
    BY <2>2 DEF Actor
  <2> HIDE DEF w
  <2> QED BY <1>1, <2>1, <2>2, <2>3, <2>4, <2>5 DEF GoesOn, ActorOk, Leased
<1>10. GoesOn(s.c, s.a[k], s.a[k]) BY DEF GoesOn
<1>11. Process(s, k) = IF s.a[k].op # "none" THEN s
                       ELSE IF ~a.run
                       THEN IF ~CanAsk(s) THEN AddRetry(t, k)
                            ELSE [t EXCEPT !.a[k].op = "get", !.a[k].st = "sent"]
                       ELSE IF ~a.passed \/ ~a.changed THEN t
                       ELSE IF ~CanSet(s) THEN AddRetry(t, k)
                       ELSE [t EXCEPT !.a[k] = w]
  BY DEF Process
<1> HIDE DEF a, t, g, w
<1>12. CASE s.a[k].op # "none"
  <2>1. Turned(s, k, s.a[k], s.retry) BY <1>12, <1>1, <1>2, <1>10, <1>11 DEF Turned
  <2> QED BY <2>1
<1>13. CASE s.a[k].op = "none" /\ Process(s, k) = t
  <2>1. Turned(s, k, a, s.retry) BY <1>13, <1>3, <1>5, <1>7 DEF Turned
  <2> QED BY <2>1
<1>14. CASE s.a[k].op = "none" /\ Process(s, k) = AddRetry(t, k)
  <2>1. Turned(s, k, a, IF s.c.closing THEN s.retry ELSE s.retry \cup {k})
    BY <1>14, <1>4, <1>5, <1>7 DEF Turned
  <2> QED BY <2>1
<1>15. CASE s.a[k].op = "none" /\ ~a.run
            /\ Process(s, k) = [t EXCEPT !.a[k].op = "get", !.a[k].st = "sent"]
  <2>1. Turned(s, k, g, s.retry) BY <1>15, <1>6, <1>8 DEF Turned
  <2> QED BY <2>1
<1>16. CASE s.a[k].op = "none" /\ a.run /\ CanSet(s) /\ Process(s, k) = [t EXCEPT !.a[k] = w]
  <2>1. Turned(s, k, w, s.retry) BY <1>16, <1>6, <1>9 DEF Turned
  <2> QED BY <2>1
<1> QED BY <1>11, <1>12, <1>13, <1>14, <1>15, <1>16

\* The keepalives ks of s go on, and the list keeps what it has.
LEMMA ActiveAllWorks ==
  ASSUME NEW s, Core(s), NEW ks \in SUBSET Keys, \A k \in ks : s.a[k].on
  PROVE  Works(s, ActiveAll(s, ks))
<1> DEFINE A(k) == Process(s, k).a[k]
           R(k) == Process(s, k).retry
           f == [k \in Keys |-> IF k \in ks THEN A(k) ELSE s.a[k]]
           r == s.retry \cup UNION {R(k) : k \in ks}
<1>1. ActiveAll(s, ks) = [s EXCEPT !.a = f, !.retry = r] BY DEF ActiveAll
<1>2. s \in Views BY DEF Core
<1>3. ASSUME NEW k \in ks
      PROVE  /\ A(k) \in Actor /\ GoesOn(s.c, s.a[k], A(k))
             /\ R(k) \subseteq s.retry \cup {k} /\ (s.c.closing => R(k) = s.retry)
  <2>1. PICK b, L : Turned(s, k, b, L) BY ProcessTurns
  <2>2. Process(s, k) = Put(s, k, b, L) BY <2>1 DEF Turned
  <2>3. A(k) = b /\ R(k) = L BY <1>2, <2>2 DEF Put, Views
  <2> HIDE DEF A, R
  <2> QED BY <2>1, <2>3 DEF Turned
<1> HIDE DEF A, R
<1>4. f \in [Keys -> Actor] BY <1>2, <1>3 DEF Views
<1>5. \A k \in Keys : GoesOn(s.c, s.a[k], f[k]) BY <1>3 DEF GoesOn
<1>6. r \subseteq s.retry \cup ks /\ (s.c.closing => r = s.retry) BY <1>3
<1>7. s.retry \subseteq Keys /\ \A k \in s.retry : s.a[k].on BY DEF Core, Views
<1> HIDE DEF f, r
<1> DEFINE t == [s EXCEPT !.a = f, !.retry = r]
<1>8. t \in Views /\ t.c = s.c /\ t.q = s.q /\ t.a = f /\ t.retry = r /\ t.d = s.d /\ t.left = s.left
  BY <1>2, <1>4, <1>6, <1>7 DEF Views
<1>9. StillDeleted(s, t) BY <1>8 DEF StillDeleted
<1>10. KeepOk(t.c, t.q.keep) BY <1>8 DEF Core
<1>11. t.q.keep.id \in {0, s.q.keep.id, s.c.lease} BY <1>8
<1> HIDE DEF t
<1>12. Works(s, t) BY <1>5, <1>6, <1>7, <1>8, <1>9, <1>10, <1>11 DEF Works
<1> QED BY <1>1, <1>12 DEF t

LEMMA ProcessWorks ==
  ASSUME NEW s, Core(s), NEW k \in Keys, s.a[k].on
  PROVE  Works(s, Process(s, k))
<1>1. PICK b, R : Turned(s, k, b, R) BY ProcessTurns
<1> DEFINE t == Put(s, k, b, R)
<1>2. s \in Views /\ \A j \in s.retry : s.a[j].on BY DEF Core
<1>3. Process(s, k) = t /\ b \in Actor /\ GoesOn(s.c, s.a[k], b) BY <1>1 DEF Turned
<1>4. R = s.retry \/ (R = s.retry \cup {k} /\ ~s.c.closing) BY <1>1 DEF Turned
<1>5. t \in Views /\ t.c = s.c /\ t.q = s.q /\ t.retry = R /\ t.d = s.d /\ t.left = s.left
      /\ t.a = [s.a EXCEPT ![k] = b]
  BY <1>2, <1>3, <1>4 DEF Put, Views
<1>6. s.a \in [Keys -> Actor] BY <1>2 DEF Views
<1> HIDE DEF t
<1>7. \A j \in Keys : GoesOn(s.c, s.a[j], t.a[j])
  <2>1. ASSUME NEW j \in Keys, j # k PROVE t.a[j] = s.a[j] BY <1>5, <1>6, <2>1
  <2>2. t.a[k] = b BY <1>5, <1>6
  <2> QED BY <1>3, <2>1, <2>2 DEF GoesOn
<1>8. StillDeleted(s, t) BY <1>5 DEF StillDeleted
<1>9. KeepOk(t.c, t.q.keep) BY <1>5 DEF Core
<1>10. t.q.keep.id \in {0, s.q.keep.id, s.c.lease} BY <1>5
<1>11. Works(s, t) BY <1>2, <1>4, <1>5, <1>7, <1>8, <1>9, <1>10 DEF Works
<1> QED BY <1>3, <1>11

LEMMA MarkedWorks ==
  ASSUME NEW s, Core(s), NEW ks \in SUBSET Keys, \A k \in ks : s.a[k].on
  PROVE  Works(s, Marked(s, ks))
<1> DEFINE f == [k \in Keys |-> [s.a[k] EXCEPT !.changed = @ \/ k \in ks]]
<1>1. Marked(s, ks) = [s EXCEPT !.a = f] BY DEF Marked
<1>2. s \in Views /\ s.a \in [Keys -> Actor] /\ \A k \in s.retry : s.a[k].on
  BY DEF Core, Views
<1>3. ASSUME NEW k \in Keys PROVE f[k] \in Actor /\ GoesOn(s.c, s.a[k], f[k])
  <2>1. s.a[k] \in Actor /\ ActorOk(s.a[k]) BY <1>2 DEF Core
  <2>2. CASE k \in ks
    <3>1. s.a[k].on /\ f[k] = [s.a[k] EXCEPT !.changed = TRUE] BY <2>1, <2>2
    <3> HIDE DEF f
    <3> QED BY <2>1, <3>1 DEF Actor, GoesOn, ActorOk, Leased
  <2>3. CASE k \notin ks
    <3>1. f[k] = s.a[k] BY <2>1, <2>3 DEF Actor
    <3> HIDE DEF f
    <3> QED BY <2>1, <3>1 DEF GoesOn
  <2> QED BY <2>2, <2>3
<1>4. f \in [Keys -> Actor] BY <1>3
<1> HIDE DEF f
<1> DEFINE t == [s EXCEPT !.a = f]
<1>5. t \in Views /\ t.c = s.c /\ t.q = s.q /\ t.a = f /\ t.retry = s.retry /\ t.d = s.d /\ t.left = s.left
  BY <1>2, <1>4 DEF Views
<1>6. StillDeleted(s, t) BY <1>5 DEF StillDeleted
<1>7. KeepOk(t.c, t.q.keep) BY <1>5 DEF Core
<1>8. t.q.keep.id \in {0, s.q.keep.id, s.c.lease} BY <1>5
<1> HIDE DEF t
<1>9. Works(s, t) BY <1>2, <1>3, <1>5, <1>6, <1>7, <1>8 DEF Works
<1> QED BY <1>1, <1>9 DEF t

LEMMA ReactivateWorks ==
  ASSUME NEW s, Core(s), NEW ks \in SUBSET Keys, \A k \in ks : s.a[k].on
  PROVE  Works(s, Reactivate(s, ks))
<1>1. Reactivate(s, ks) = ActiveAll(Marked(s, ks), ks) BY DEF Reactivate
<1>2. Works(s, Marked(s, ks)) BY MarkedWorks
<1>3. Core(Marked(s, ks)) BY <1>2, WorksCore
<1>4. \A k \in ks : Marked(s, ks).a[k].on BY <1>2 DEF Works, GoesOn
<1>5. Works(Marked(s, ks), ActiveAll(Marked(s, ks), ks)) BY <1>3, <1>4, ActiveAllWorks
<1> QED BY <1>1, <1>2, <1>5, WorksTrans

LEMMA RetryPendingWorks ==
  ASSUME NEW s, Core(s)
  PROVE  Works(s, RetryPending(s))
<1> DEFINE r == Reactivate(s, s.retry)
           t == IF s.c.lease = 0 THEN s ELSE [r EXCEPT !.retry = {}]
           waiting == {d \in s.d : d.st = "wait"}
           D == (t.d \ waiting) \cup {Again(s, d) : d \in {e \in waiting : ~GivenUp(e)}}
           L == t.left \cup {d.key : d \in {e \in waiting : GivenUp(e)}}
           u == [t EXCEPT !.d = D, !.left = L]
<1>1. RetryPending(s) = u BY DEF RetryPending
<1>2. s.retry \subseteq Keys /\ s \in Views /\ \A k \in s.retry : s.a[k].on BY DEF Core, Views
<1>3. Works(s, r) BY <1>2, ReactivateWorks
<1>4. r.d = s.d /\ r.left = s.left BY DEF Reactivate, ActiveAll, Marked
<1> HIDE DEF r
<1>5. s.c.lease # 0 => ~s.c.closing BY DEF Core, Silent
<1>6. Works(s, t) /\ t.d = s.d /\ t.left = s.left
  <2>1. CASE s.c.lease = 0 BY <2>1, WorksRefl
  <2>2. CASE s.c.lease # 0
    <3>1. r \in Views BY <1>3 DEF Works
    <3> DEFINE v == [r EXCEPT !.retry = {}]
    <3>2. /\ v \in Views /\ v.c = r.c /\ v.q = r.q /\ v.a = r.a /\ v.d = r.d /\ v.left = r.left
          /\ v.retry = {}
      BY <3>1 DEF Views
    <3> HIDE DEF v
    <3>3. StillDeleted(s, v) BY <1>3, <3>2 DEF StillDeleted, Works
    <3>4. Works(s, v) BY <1>3, <1>5, <2>2, <3>2, <3>3 DEF Works
    <3> QED BY <1>4, <2>2, <3>2, <3>4 DEF v
  <2> QED BY <2>1, <2>2
<1> HIDE DEF t
<1>7. t \in Views BY <1>6 DEF Works
<1>8. ASSUME NEW d \in waiting, ~GivenUp(d)
      PROVE  Again(s, d) \in Deletor /\ Again(s, d).key = d.key /\ Again(s, d).st # "done"
  <2>1. d \in Deletor /\ MaxTries \in Nat BY <1>2, ClusterConstants DEF Views
  <2>2. d.tries + 1 \in 0 .. MaxTries BY <1>8, <2>1 DEF GivenUp, Deletor
  <2> QED BY <2>1, <2>2 DEF Again, Deletor
<1>9. \A d \in waiting : d \in Deletor /\ d.key \in Keys BY <1>2 DEF Views, Deletor
<1>10. D \subseteq Deletor
  <2>1. t.d \subseteq Deletor BY <1>7 DEF Views
  <2> QED BY <1>8, <2>1
<1>11. L \subseteq Keys
  <2>1. t.left \subseteq Keys BY <1>7 DEF Views
  <2> QED BY <1>9, <2>1
<1>12. \A d \in s.d : d.st # "done" =>
          d.key \in L \/ \E e \in D : e.key = d.key /\ e.st # "done"
  <2> SUFFICES ASSUME NEW d \in s.d, d.st # "done"
               PROVE  d.key \in L \/ \E e \in D : e.key = d.key /\ e.st # "done"
    OBVIOUS
  <2>1. CASE d \notin waiting
    <3>1. d \in D BY <1>6, <2>1
    <3> QED BY <3>1
  <2>2. CASE d \in waiting /\ GivenUp(d)
    <3>1. d.key \in L BY <2>2
    <3> QED BY <3>1
  <2>3. CASE d \in waiting /\ ~GivenUp(d)
    <3>1. Again(s, d) \in D BY <2>3
    <3> QED BY <1>8, <2>3, <3>1
  <2> QED BY <2>1, <2>2, <2>3
<1>13. \A e \in D : \E d \in s.d : e.key = d.key BY <1>6, <1>8
<1>14. s.left \subseteq L BY <1>6
<1> HIDE DEF waiting, D, L
<1>15. /\ u \in Views /\ u.c = t.c /\ u.q = t.q /\ u.a = t.a /\ u.retry = t.retry
       /\ u.d = D /\ u.left = L
  BY <1>7, <1>10, <1>11 DEF Views
<1>16. StillDeleted(s, u) BY <1>12, <1>13, <1>14, <1>15 DEF StillDeleted
<1> HIDE DEF u
<1>17. Works(s, u) BY <1>6, <1>15, <1>16 DEF Works
<1> QED BY <1>1, <1>17

LEMMA CreateKeepWorks ==
  ASSUME NEW s, Core(s)
  PROVE  Works(s, CreateGrant(s)) /\ Works(s, CreateRenew(s))
<1> DEFINE Keep(q) == [s EXCEPT !.c.due = @ \ {"lease"}, !.q.keep = q]
           g == [op |-> "grant", to |-> s.c.node, id |-> 0, st |-> "sent"]
           r == [op |-> "renew", to |-> s.c.node, id |-> s.c.lease, st |-> "sent"]
<1>1. ASSUME NEW q \in {g, r}, s.c.node # None, ~s.c.closing, KeepOk(s.c, q)
      PROVE  Works(s, Keep(q))
  <2>1. s \in Views BY DEF Core
  <2>2. q \in [op : {"none", "grant", "renew"}, to : Hosts \cup {None},
               id : Leases, st : {"sent", "ok", "gone"}]
    BY <1>1, <2>1, ClusterConstants DEF Views, Conf, Leases
  <2>3. q.id \in {0, s.c.lease} BY <1>1
  <2> HIDE DEF g, r
  <2> DEFINE t == Keep(q)
  <2>4. t \in Views BY <2>1, <2>2 DEF Views, Conf, Rpc
  <2>5. /\ t.a = s.a /\ t.retry = s.retry /\ t.d = s.d /\ t.left = s.left /\ t.q.keep = q
        /\ t.c.lease = s.c.lease /\ t.c.enabled = s.c.enabled /\ t.c.closing = s.c.closing
        /\ t.c.running = s.c.running
    BY <2>1 DEF Views, Conf, Rpc
  <2> HIDE DEF t
  <2>6. \A k \in Keys : GoesOn(s.c, s.a[k], t.a[k]) BY <2>5 DEF GoesOn
  <2>7. StillDeleted(s, t) BY <2>5 DEF StillDeleted
  <2>8. KeepOk(t.c, q) BY <1>1, <2>5 DEF KeepOk
  <2>9. Works(s, t) BY <1>1, <2>3, <2>4, <2>5, <2>6, <2>7, <2>8 DEF Works, Core
  <2> QED BY <2>9 DEF t
<1>2. Works(s, s) BY WorksRefl
<1>3. CreateGrant(s) = IF s.c.node = None \/ s.c.closing \/ ~s.c.enabled \/ "lease" \notin s.c.due
                       THEN s ELSE Keep(g)
  BY DEF CreateGrant
<1>4. CreateRenew(s) = IF \/ s.c.node = None \/ s.c.closing \/ ~s.c.enabled \/ s.c.lease = 0
                          \/ "lease" \notin s.c.due
                       THEN s ELSE Keep(r)
  BY DEF CreateRenew
<1>5. s.c.enabled => KeepOk(s.c, g) BY DEF KeepOk
<1>6. s.c.enabled /\ s.c.lease # 0 => KeepOk(s.c, r) BY DEF KeepOk
<1> HIDE DEF Keep, g, r
<1> QED BY <1>1, <1>2, <1>3, <1>4, <1>5, <1>6

LEMMA TickedWorks ==
  ASSUME NEW s, Core(s)
  PROVE  Works(s, Ticked(s))
<1> DEFINE s1 == IF "member" \in s.c.due THEN CreateMember(s) ELSE s
           s2 == IF UseAuth /\ s1.q.auth.op = "none" THEN CreateUser(s1) ELSE s1
           up == [s2 EXCEPT !.c.running = TRUE]
           s3 == IF s2.c.enabled THEN CreateRenew(s2) ELSE up
           s4 == RetryPending(s3)
<1>1. s \in Views /\ Works(s, s) BY WorksRefl DEF Core
<1>2. Works(s, s1) BY <1>1, CreateMemberAside, AsideWorks
<1> HIDE DEF s1
<1>3. Core(s1) /\ s1 \in Views BY <1>2, WorksCore DEF Core
<1>4. Works(s1, s2) /\ Works(s1, CreateAuth(s1)) BY <1>3, AuthAside, AsideWorks, WorksRefl
<1> HIDE DEF s2
<1>5. Core(s2) /\ s2 \in Views BY <1>3, <1>4, WorksCore DEF Core
<1>6. ~s2.c.closing => Works(s2, up)
  <2> SUFFICES ASSUME ~s2.c.closing PROVE Works(s2, up) OBVIOUS
  <2>1. /\ up \in Views /\ up.q = s2.q /\ up.a = s2.a /\ up.retry = s2.retry /\ up.d = s2.d
        /\ up.left = s2.left /\ up.c.lease = s2.c.lease /\ up.c.enabled = s2.c.enabled
        /\ up.c.closing = s2.c.closing /\ up.c.running
    BY <1>5 DEF Views, Conf
  <2> HIDE DEF up
  <2>2. \A k \in Keys : GoesOn(s2.c, s2.a[k], up.a[k]) BY <2>1 DEF GoesOn
  <2>3. StillDeleted(s2, up) BY <2>1 DEF StillDeleted
  <2>4. KeepOk(up.c, up.q.keep) BY <1>5, <2>1 DEF KeepOk, Core
  <2> QED BY <1>5, <2>1, <2>2, <2>3, <2>4 DEF Works, Core
<1> HIDE DEF up
<1>7. ~s2.c.closing => Works(s2, s3) BY <1>5, <1>6, CreateKeepWorks
<1> HIDE DEF s3
<1>8. ~s2.c.closing => Core(s3) BY <1>5, <1>7, WorksCore
<1>9. ~s2.c.closing => Works(s3, s4) BY <1>8, RetryPendingWorks
<1> HIDE DEF s4
<1>10. ~s2.c.closing => Core(s4) /\ s4 \in Views BY <1>8, <1>9, WorksCore DEF Core
<1>11. ~s2.c.closing => Works(s4, ResolveReady(s4)) BY <1>10, ReadyAside, AsideWorks
<1>12. s.c.closing = s2.c.closing BY <1>2, <1>4 DEF Works
<1>13. Works(s, s2) BY <1>2, <1>4, WorksTrans
<1>14. ~s.c.closing => Works(s, ResolveReady(s4))
  BY <1>7, <1>9, <1>11, <1>12, <1>13, WorksTrans
<1>15. Works(s, CreateGrant(s2)) BY <1>5, <1>13, CreateKeepWorks, WorksTrans
<1>16. Works(s, CreateAuth(s1)) BY <1>2, <1>4, WorksTrans
<1>17. Ticked(s) = IF s.c.closing THEN s
                   ELSE IF s1.c.node = None THEN s1
                   ELSE IF ~Authorized(s1)
                   THEN IF s1.q.auth.op = "none" THEN CreateAuth(s1) ELSE s1
                   ELSE IF s2.c.enabled /\ s2.c.lease = 0 THEN CreateGrant(s2)
                   ELSE ResolveReady(s4)
  BY DEF Ticked, s1, s2, up, s3, s4
<1> QED BY <1>1, <1>2, <1>14, <1>15, <1>16, <1>17

\* The keepalives that are registered.
On(s) == {k \in Keys : s.a[k].on}

\* A granted lease replaces the one before, and every value is to be written
\* again under it.
Granted(s, v) ==
    Marked([s EXCEPT !.c.running = TRUE, !.c.lease = v, !.retry = {}], On(s))

LEMMA GrantedLemma ==
  ASSUME NEW s, Core(s), ~s.c.closing, s.c.enabled, s.q.keep = IdleKeep,
         NEW v \in Leases, v # 0
  PROVE  /\ Core(Granted(s, v))
         /\ Works(Granted(s, v), SetLease([s EXCEPT !.c.running = TRUE], v, TRUE))
         /\ \A k \in Keys : LET a == Granted(s, v).a[k]
                          IN /\ a.on = s.a[k].on /\ a.changed /\ a.op = s.a[k].op
                             /\ a.st = s.a[k].st /\ a.wval = s.a[k].wval
                             /\ a.wlease = s.a[k].wlease
         /\ Granted(s, v).d = s.d /\ Granted(s, v).left = s.left
         /\ Granted(s, v).c.lease = v /\ Granted(s, v).q = s.q
         /\ Granted(s, v).c.closing = s.c.closing
<1> DEFINE r == [s EXCEPT !.c.running = TRUE]
           t == [r EXCEPT !.c.lease = v]
           u == [s EXCEPT !.c.running = TRUE, !.c.lease = v, !.retry = {}]
           g == Granted(s, v)
           f == [k \in Keys |-> [s.a[k] EXCEPT !.changed = @ \/ k \in On(s)]]
<1>1. s \in Views /\ s.a \in [Keys -> Actor] BY DEF Core, Views
<1>2. u = [t EXCEPT !.retry = {}] /\ t.a = s.a BY <1>1 DEF Views, Conf
<1>3. On(s) = {k \in Keys : t.a[k].on} BY <1>2 DEF On
<1>4. SetLease(r, v, TRUE) = RetryPending(Reactivate([t EXCEPT !.retry = {}], {k \in Keys : t.a[k].on}))
  BY DEF SetLease
<1>5. Reactivate(u, On(s)) = ActiveAll(g, On(s)) BY DEF Reactivate, Granted
<1>6. SetLease(r, v, TRUE) = RetryPending(ActiveAll(g, On(s)))
  <2> HIDE DEF t, u, g, r
  <2> QED BY <1>2, <1>3, <1>4, <1>5
<1>7. g = [u EXCEPT !.a = f]
  <2>1. u.a = s.a BY <1>1 DEF Views
  <2> HIDE DEF u
  <2> QED BY <2>1 DEF Granted, Marked, u
<1>8. ASSUME NEW k \in Keys
      PROVE  /\ f[k] \in Actor /\ ActorOk(f[k]) /\ f[k].on = s.a[k].on
             /\ f[k].changed
             /\ f[k].op = s.a[k].op /\ f[k].st = s.a[k].st
             /\ f[k].wval = s.a[k].wval /\ f[k].wlease = s.a[k].wlease
  <2>1. s.a[k] \in Actor /\ ActorOk(s.a[k]) BY <1>1 DEF Core
  <2>2. f[k] = [s.a[k] EXCEPT !.changed = @ \/ s.a[k].on] BY DEF On
  <2>3. f[k] = [s.a[k] EXCEPT !.changed = TRUE] BY <2>1, <2>2 DEF ActorOk, Actor
  <2> HIDE DEF f
  <2> QED BY <2>1, <2>3 DEF ActorOk, Actor
<1>9. f \in [Keys -> Actor] BY <1>8
<1> HIDE DEF f
<1>10. /\ g \in Views /\ g.q = s.q /\ g.a = f /\ g.retry = {} /\ g.d = s.d /\ g.left = s.left
       /\ g.c.lease = v /\ g.c.running /\ g.c.enabled = s.c.enabled
       /\ g.c.closing = s.c.closing
  <2> HIDE DEF g
  <2> QED BY <1>1, <1>7, <1>9 DEF Views, Conf
<1> HIDE DEF g
<1>11. \A k \in Keys : ActorOk(g.a[k]) /\ Leased(g.c, g.a[k]) BY <1>8, <1>10 DEF Leased
<1>12. KeepOk(g.c, g.q.keep) BY <1>10 DEF KeepOk, IdleKeep
<1>13. Core(g) BY <1>10, <1>11, <1>12 DEF Core
<1>14. \A k \in On(s) : g.a[k].on BY <1>8, <1>10 DEF On
<1>15. On(s) \in SUBSET Keys BY DEF On
<1>16. Works(g, ActiveAll(g, On(s))) BY <1>13, <1>14, <1>15, ActiveAllWorks
<1>17. Works(g, RetryPending(ActiveAll(g, On(s))))
  BY <1>13, <1>16, WorksCore, RetryPendingWorks, WorksTrans
<1> HIDE DEF r
<1>18. Works(g, SetLease(r, v, TRUE)) BY <1>6, <1>17
<1> QED BY <1>8, <1>10, <1>13, <1>18 DEF g, r

-----------------------------------------------------------------------------
(* The invariant. *)

\* What the proof of BeliefTrue is about: no path is a prefix of another one, and
\* none is added again before its delete was answered.
DeletesApart == ~ReaddInDelete /\ \A k \in Keys : Under[k] = {k}

ServerOk ==
    /\ store \in [Keys -> Ours \cup {Foreign, Empty}]
    /\ granted \in Leases /\ alive \subseteq 1 .. granted /\ revoke \in Leases
    /\ removes \in 0 .. MaxRemoves /\ faults \in 0 .. MaxFaults /\ net \in 0 .. MaxNet

\* The client knows no lease that was not granted.
Known(s) ==
    /\ s.c.lease <= granted /\ s.q.keep.id <= granted
    /\ \A k \in Keys : s.a[k].wlease <= granted

\* What a keepalive holds for written, and what the server answered, is so.
Told(s) ==
    \A k \in Keys :
        /\ s.a[k].op = "none" /\ ~s.a[k].changed /\ s.c.lease \in alive
           => store[k] = [val |-> s.a[k].val, lease |-> s.c.lease]
        /\ s.a[k].op = "set" /\ s.a[k].st = "ok" /\ s.a[k].wlease \in alive
           => store[k] = [val |-> s.a[k].wval, lease |-> s.a[k].wlease]
        /\ s.a[k].on => \A d \in s.d : d.key # k

\* RemovedGone of a view.
Gone(s) ==
    \A k \in Keys :
        ~s.a[k].on /\ store[k] \in Ours /\ ~s.c.closing
        => k \in s.left \/ \E d \in s.d : d.key = k /\ d.st # "done"

Good(s) ==
    /\ Core(s) /\ Known(s) /\ Gone(s)
    /\ DeletesApart => Told(s)

ClusterInv == ServerOk /\ Good(View(None))

LEMMA WorksGood ==
  ASSUME NEW s, NEW t, ServerOk, Good(s), Works(s, t)
  PROVE  Good(t)
<1>1. Core(t) BY WorksCore DEF Good
<1>2. \A k \in Keys : GoesOn(s.c, s.a[k], t.a[k]) BY DEF Works
<1>3. t.c.lease = s.c.lease /\ t.c.closing = s.c.closing BY DEF Works
<1>4. Known(t)
  <2>1. Known(s) BY DEF Good
  <2>2. t.q.keep.id \in {0, s.q.keep.id, s.c.lease} BY DEF Works
  <2>3. \A k \in Keys : t.a[k].wlease \in {s.a[k].wlease, s.c.lease} BY <1>2 DEF GoesOn
  <2>4. ServerOk => 0 <= granted BY DEF ServerOk, Leases
  <2> QED BY <1>3, <2>1, <2>2, <2>3, <2>4 DEF Known
<1>5. Gone(t)
  <2> SUFFICES ASSUME NEW k \in Keys, ~t.a[k].on, store[k] \in Ours, ~t.c.closing
               PROVE  k \in t.left \/ \E d \in t.d : d.key = k /\ d.st # "done"
    BY DEF Gone
  <2>1. ~s.a[k].on /\ ~s.c.closing BY <1>2, <1>3 DEF GoesOn
  <2>2. k \in s.left \/ \E d \in s.d : d.key = k /\ d.st # "done" BY <2>1 DEF Good, Gone
  <2> QED BY <2>2 DEF Works, StillDeleted
<1>6. ASSUME Told(s) PROVE Told(t)
  <2> SUFFICES ASSUME NEW k \in Keys
               PROVE  /\ t.a[k].op = "none" /\ ~t.a[k].changed /\ t.c.lease \in alive
                         => store[k] = [val |-> t.a[k].val, lease |-> t.c.lease]
                      /\ t.a[k].op = "set" /\ t.a[k].st = "ok" /\ t.a[k].wlease \in alive
                         => store[k] = [val |-> t.a[k].wval, lease |-> t.a[k].wlease]
                      /\ t.a[k].on => \A d \in t.d : d.key # k
    BY DEF Told
  <2>1. GoesOn(s.c, s.a[k], t.a[k]) BY <1>2
  <2>2. \A e \in t.d : \E d \in s.d : e.key = d.key BY DEF Works, StillDeleted
  <2>3. t.a[k].op = "none" /\ ~t.a[k].changed /\ t.c.lease \in alive
        => store[k] = [val |-> t.a[k].val, lease |-> t.c.lease]
    BY <1>3, <1>6, <2>1 DEF Told, GoesOn
  <2>4. t.a[k].op = "set" /\ t.a[k].st = "ok" /\ t.a[k].wlease \in alive
        => store[k] = [val |-> t.a[k].wval, lease |-> t.a[k].wlease]
    BY <1>6, <2>1 DEF Told, GoesOn
  <2>5. t.a[k].on => \A d \in t.d : d.key # k
    <3> SUFFICES ASSUME t.a[k].on, NEW e \in t.d PROVE e.key # k OBVIOUS
    <3>1. s.a[k].on BY <2>1 DEF GoesOn
    <3>2. \A d \in s.d : d.key # k BY <1>6, <3>1 DEF Told
    <3> QED BY <2>2, <3>2
  <2> QED BY <2>3, <2>4, <2>5
<1> QED BY <1>1, <1>4, <1>5, <1>6 DEF Good

\* The step of a handler that ends in a good view.
LEMMA Ends ==
  ASSUME NEW t, Good(t), Become(t), UNCHANGED server
  PROVE  Good(View(None))'
<1>1. /\ conf' = t.c /\ rpc' = t.q /\ actors' = t.a /\ retry' = t.retry
      /\ dels' = t.d /\ left' = t.left
  BY DEF Become
<1> DEFINE v == View(None)
<1>2. /\ v.c = conf /\ v.q = rpc /\ v.a = actors /\ v.retry = retry /\ v.d = dels
      /\ v.left = left
  BY DEF View
<1>3. View(None)' \in Views BY <1>1 DEF View, Views, Good, Core
<1>4. /\ v'.c = t.c /\ v'.q = t.q /\ v'.a = t.a /\ v'.retry = t.retry /\ v'.d = t.d
      /\ v'.left = t.left
  BY <1>1 DEF View
<1> HIDE DEF v
<1>5. Core(v)' BY <1>3, <1>4 DEF v, Good, Core, Silent
<1>6. Known(v)' BY <1>4 DEF Good, Known, server
<1>7. Gone(v)' BY <1>4 DEF Good, Gone, server
<1>8. DeletesApart => Told(v)' BY <1>4 DEF Good, Told, server
<1> QED BY <1>5, <1>6, <1>7, <1>8 DEF Good, v

LEMMA Begins ==
  ASSUME ClusterInv, NEW h \in Hosts \cup {None}
  PROVE  Good(View(h))
<1> DEFINE v == View(None)
           w == View(h)
<1>1. Good(v) BY DEF ClusterInv
<1>2. /\ w.c = v.c /\ w.q = v.q /\ w.a = v.a /\ w.retry = v.retry /\ w.d = v.d /\ w.left = v.left
  BY DEF View
<1>3. w \in Views BY <1>1 DEF View, Views, Good, Core
<1> HIDE DEF v, w
<1>4. Core(w) BY <1>1, <1>2, <1>3 DEF Good, Core, Silent
<1>5. Known(w) BY <1>1, <1>2 DEF Good, Known
<1>6. Gone(w) BY <1>1, <1>2 DEF Good, Gone
<1>7. DeletesApart => Told(w) BY <1>1, <1>2 DEF Good, Told
<1>8. Good(w) BY <1>4, <1>5, <1>6, <1>7 DEF Good
<1> QED BY <1>8 DEF w

LEMMA InitGood == Init => ClusterInv
<1> SUFFICES ASSUME Init PROVE ClusterInv OBVIOUS
<1> USE ClusterConstants
<1>1. ServerOk BY DEF Init, ServerOk, Ours, Foreign, Empty, Leases
<1> DEFINE s == View(None)
<1>2. /\ s.c = conf /\ s.q = rpc /\ s.a = actors /\ s.retry = retry /\ s.d = dels
      /\ s.left = left
  BY DEF View
<1>3. /\ conf \in Conf /\ rpc \in Rpc /\ actors \in [Keys -> Actor] /\ dels = {} /\ left = {}
      /\ retry = {}
  BY DEF Init, Conf, Rpc, Actor, Leases, Timers, IdleAuth, IdleKeep
<1>4. s \in Views BY <1>3 DEF View, Views
<1> HIDE DEF s
<1>5. \A k \in Keys : actors[k].op = "none" /\ ~actors[k].on /\ ~actors[k].run /\ actors[k].changed
                      /\ actors[k].wlease = 0
  BY DEF Init
<1>6. conf.lease = 0 /\ ~conf.closing /\ rpc.keep = IdleKeep /\ granted = 0 BY DEF Init
<1>7. Core(s) BY <1>2, <1>3, <1>4, <1>5, <1>6 DEF Core, ActorOk, Leased, KeepOk, IdleKeep
<1>8. Known(s) BY <1>2, <1>5, <1>6 DEF Known, IdleKeep
<1>9. \A k \in Keys : store[k] \notin Ours BY DEF Init, Ours, Foreign, Empty
<1>10. Gone(s) BY <1>2, <1>9 DEF Gone
<1>11. Told(s) BY <1>2, <1>3, <1>5 DEF Told
<1> QED BY <1>1, <1>7, <1>8, <1>10, <1>11 DEF ClusterInv, Good, s

\* A handler prepares a good view s, works, and ends in t.
LEMMA Finishes ==
  ASSUME ServerOk, NEW s, Good(s), NEW t, Works(s, t), Become(t), UNCHANGED server
  PROVE  Good(View(None))'
  BY WorksGood, Ends

-----------------------------------------------------------------------------
(* What the app and the time do. *)

LEMMA TickGood == ASSUME ClusterInv, Tick PROVE Good(View(None))'
<1>1. PICK h \in Hosts : Become(Ticked(View(h))) /\ UNCHANGED server BY DEF Tick
<1>2. Good(View(h)) BY Begins
<1>3. Works(View(h), Ticked(View(h))) BY <1>2, TickedWorks DEF Good
<1> QED BY <1>1, <1>2, <1>3, Finishes DEF ClusterInv

LEMMA TimeGood ==
  ASSUME ClusterInv, NEW x \in Timers, TimePasses(x)
  PROVE  Good(View(None))'
<1> DEFINE s == View(None)
           t == [s EXCEPT !.c.due = @ \cup {x}]
<1>1. Good(s) BY DEF ClusterInv
<1>2. s \in Views BY <1>1 DEF Good, Core
<1>3. Aside(s, t) BY <1>2 DEF Aside, Views, Conf
<1>4. Works(s, t) BY <1>1, <1>3, AsideWorks DEF Good
<1>5. t.c = conf' /\ t.q = rpc /\ t.a = actors /\ t.retry = retry /\ t.d = dels /\ t.left = left
  BY DEF TimePasses, View
<1>6. UNCHANGED <<rpc, actors, retry, dels, left, server>> BY DEF TimePasses
<1>7. Become(t) /\ UNCHANGED server
  <2> HIDE DEF t
  <2> QED BY <1>5, <1>6 DEF Become
<1> QED BY <1>1, <1>4, <1>7, Finishes DEF ClusterInv

\* A keepalive that is to be written, with the view unchanged but for the lease
\* request and the deletors of its path.
LEMMA Begun ==
  ASSUME ServerOk, NEW s, Good(s), NEW t \in Views, NEW k \in Keys, NEW b \in Actor,
         t.c = s.c, t.q = s.q, t.retry = s.retry, t.left = s.left,
         t.a = [s.a EXCEPT ![k] = b],
         b.on, b.changed, b.op = s.a[k].op, b.st = s.a[k].st, b.wval = s.a[k].wval,
         b.wlease = s.a[k].wlease, b.run = s.a[k].run, ~s.c.closing,
         t.d \subseteq s.d, \A d \in s.d \ t.d : d.key = k,
         DeletesApart => \A d \in t.d : d.key # k
  PROVE  Good(t)
<1>1. s.a \in [Keys -> Actor] /\ Core(s) BY DEF Good, Core, Views
<1>2. t.a[k] = b /\ \A j \in Keys \ {k} : t.a[j] = s.a[j] BY <1>1
<1>3. \A j \in Keys : ActorOk(t.a[j]) /\ Leased(t.c, t.a[j])
  <2>1. ActorOk(s.a[k]) /\ s.a[k] \in Actor BY <1>1 DEF Core
  <2>2. ActorOk(b) /\ Leased(t.c, b) BY <2>1 DEF ActorOk, Leased
  <2> QED BY <1>1, <1>2, <2>2 DEF Core
<1>4. \A j \in t.retry : t.a[j].on
  <2>1. t.retry \subseteq Keys BY DEF Views
  <2> QED BY <1>1, <1>2, <2>1 DEF Core
<1>5. Core(t) BY <1>1, <1>3, <1>4 DEF Core
<1>6. Known(t)
  <2>1. Known(s) BY DEF Good
  <2> QED BY <1>2, <2>1 DEF Known
<1>7. Gone(t)
  <2> SUFFICES ASSUME NEW j \in Keys, ~t.a[j].on, store[j] \in Ours, ~t.c.closing
               PROVE  j \in t.left \/ \E d \in t.d : d.key = j /\ d.st # "done"
    BY DEF Gone
  <2>1. j # k /\ ~s.a[j].on /\ ~s.c.closing BY <1>2
  <2>2. j \in s.left \/ \E d \in s.d : d.key = j /\ d.st # "done" BY <2>1 DEF Good, Gone
  <2> QED BY <2>1, <2>2
<1>8. ASSUME DeletesApart PROVE Told(t)
  <2> SUFFICES ASSUME NEW j \in Keys
               PROVE  /\ t.a[j].op = "none" /\ ~t.a[j].changed /\ t.c.lease \in alive
                         => store[j] = [val |-> t.a[j].val, lease |-> t.c.lease]
                      /\ t.a[j].op = "set" /\ t.a[j].st = "ok" /\ t.a[j].wlease \in alive
                         => store[j] = [val |-> t.a[j].wval, lease |-> t.a[j].wlease]
                      /\ t.a[j].on => \A d \in t.d : d.key # j
    BY DEF Told
  <2>1. Told(s) BY <1>8 DEF Good
  <2>2. CASE j = k BY <1>2, <1>8, <2>1, <2>2, ZenonT(30) DEF Told
  <2>3. CASE j # k BY <1>2, <2>1, <2>3 DEF Told
  <2> QED BY <2>2, <2>3
<1> QED BY <1>5, <1>6, <1>7, <1>8 DEF Good

LEMMA AddGood ==
  ASSUME ClusterInv, NEW k \in Keys, AddKeepalive(k)
  PROVE  Good(View(None))'
<1> DEFINE s == View(None)
           enabled == [s EXCEPT !.c.enabled = TRUE]
           g == IF s.c.enabled THEN s ELSE CreateGrant(enabled)
           fresh == [s.a[k] EXCEPT !.on = TRUE]
           D == {d \in g.d : ~(d.key = k /\ d.st = "wait")}
           t == [g EXCEPT !.a[k] = fresh, !.d = D]
<1>1. Good(s) /\ s \in Views /\ Core(s) BY DEF ClusterInv, Good, Core
<1>2. ~s.a[k].on /\ ~s.c.closing /\ (ReaddInDelete \/ \A d \in s.d : d.key = k => d.st = "wait")
  BY DEF AddKeepalive, View
<1>3. Become(IF s.c.running /\ t.c.lease # 0 THEN Process(t, k) ELSE t) /\ UNCHANGED server
  BY DEF AddKeepalive
<1> HIDE DEF s
<1>4. Good(enabled)
  <2>1. /\ enabled \in Views /\ enabled.q = s.q /\ enabled.a = s.a /\ enabled.retry = s.retry
        /\ enabled.d = s.d /\ enabled.left = s.left /\ enabled.c.lease = s.c.lease
        /\ enabled.c.enabled /\ enabled.c.running = s.c.running /\ ~enabled.c.closing
    BY <1>1, <1>2 DEF Views, Conf
  <2> HIDE DEF enabled
  <2>2. Core(enabled) BY <1>1, <2>1 DEF Core, KeepOk, Leased
  <2>3. Known(enabled) BY <1>1, <2>1 DEF Good, Known
  <2>4. Gone(enabled) BY <1>1, <1>2, <2>1 DEF Good, Gone
  <2>5. DeletesApart => Told(enabled) BY <1>1, <2>1 DEF Good, Told
  <2> QED BY <2>2, <2>3, <2>4, <2>5 DEF Good
<1>5. ServerOk BY DEF ClusterInv
<1>6. /\ Good(g) /\ g \in Views /\ g.a = s.a /\ g.d = s.d /\ ~g.c.closing
  <2>1. enabled.a = s.a /\ enabled.d = s.d /\ ~enabled.c.closing BY <1>1, <1>2 DEF Views, Conf
  <2> HIDE DEF enabled
  <2>2. Good(CreateGrant(enabled)) BY <1>4, <1>5, CreateKeepWorks, WorksGood DEF Good
  <2>3. /\ CreateGrant(enabled).a = enabled.a /\ CreateGrant(enabled).d = enabled.d
        /\ CreateGrant(enabled).c.closing = enabled.c.closing
    <3>1. enabled \in Views BY <1>4 DEF Good, Core
    <3> QED BY <3>1 DEF CreateGrant, Views, Conf
  <2>4. Good(g) BY <1>1, <2>2
  <2> QED BY <1>2, <2>1, <2>3, <2>4 DEF Good, Core
<1> HIDE DEF g, enabled
<1>7. s.a[k] \in Actor /\ ActorOk(s.a[k]) BY <1>1 DEF Views, Core
<1>8. /\ fresh \in Actor /\ fresh.on /\ fresh.changed /\ fresh.op = s.a[k].op
      /\ fresh.st = s.a[k].st /\ fresh.wval = s.a[k].wval /\ fresh.wlease = s.a[k].wlease
      /\ fresh.run = s.a[k].run
  BY <1>2, <1>7 DEF Actor, ActorOk
<1> HIDE DEF fresh
<1>9. /\ D \subseteq g.d /\ \A d \in g.d \ D : d.key = k
      /\ DeletesApart => \A d \in D : d.key # k
  BY <1>2, <1>6 DEF DeletesApart
<1>10. /\ t \in Views /\ t.c = g.c /\ t.q = g.q /\ t.a = [g.a EXCEPT ![k] = fresh]
       /\ t.retry = g.retry /\ t.left = g.left /\ t.d = D
  BY <1>6, <1>8, <1>9 DEF Views
<1> HIDE DEF t, D
<1>11. Good(t) BY <1>5, <1>6, <1>8, <1>9, <1>10, Begun
<1>12. Works(t, t) /\ Works(t, Process(t, k))
  <2>1. t.a[k].on BY <1>6, <1>8, <1>10 DEF Views
  <2> QED BY <1>11, <2>1, WorksRefl, ProcessWorks DEF Good
<1> QED BY <1>3, <1>5, <1>11, <1>12, Finishes

LEMMA SetGood ==
  ASSUME ClusterInv, NEW k \in Keys, SetValue(k)
  PROVE  Good(View(None))'
<1> DEFINE s == View(None)
           t == [s EXCEPT !.a[k].val = @ + 1, !.a[k].changed = TRUE]
           b == [s.a[k] EXCEPT !.val = @ + 1, !.changed = TRUE]
<1>1. Good(s) /\ s \in Views /\ Core(s) /\ ServerOk BY DEF ClusterInv, Good, Core
<1>2. s.a[k].on /\ s.a[k].val < MaxValue BY DEF SetValue, View
<1>3. Become(IF conf.running /\ conf.lease # 0 THEN Process(t, k) ELSE t) /\ UNCHANGED server
  BY DEF SetValue
<1> HIDE DEF s
<1>4. s.a[k] \in Actor /\ MaxValue \in Nat BY <1>1, ClusterConstants DEF Views
<1>5. b \in Actor /\ t = [s EXCEPT !.a = [@ EXCEPT ![k] = b]]
  <2>1. s.a[k].val + 1 \in 1 .. MaxValue BY <1>2, <1>4 DEF Actor
  <2>2. b \in Actor BY <1>4, <2>1 DEF Actor
  <2>3. t = [s EXCEPT !.a = [@ EXCEPT ![k] = b]] BY <1>1, <1>4 DEF Views, Actor
  <2> QED BY <2>2, <2>3
<1>6. /\ b.on /\ b.changed /\ b.op = s.a[k].op /\ b.st = s.a[k].st /\ b.wval = s.a[k].wval
      /\ b.wlease = s.a[k].wlease /\ b.run = s.a[k].run
  BY <1>2, <1>4 DEF Actor
<1> HIDE DEF b
<1>7. /\ t \in Views /\ t.c = s.c /\ t.q = s.q /\ t.a = [s.a EXCEPT ![k] = b]
      /\ t.retry = s.retry /\ t.left = s.left /\ t.d = s.d
  <2> HIDE DEF t
  <2> QED BY <1>1, <1>5 DEF Views
<1> HIDE DEF t
<1>8. ~s.c.closing BY <1>1, <1>2 DEF Core, Silent
<1>9. DeletesApart => \A d \in t.d : d.key # k BY <1>1, <1>2, <1>7 DEF Good, Told
<1>10. Good(t) BY <1>1, <1>5, <1>6, <1>7, <1>8, <1>9, Begun
<1>11. Works(t, t) /\ Works(t, Process(t, k))
  <2>1. t.a[k].on BY <1>1, <1>6, <1>7 DEF Views
  <2> QED BY <1>10, <2>1, WorksRefl, ProcessWorks DEF Good
<1> QED BY <1>1, <1>3, <1>10, <1>11, Finishes

LEMMA DroppedIs ==
  ASSUME NEW a \in Actor
  PROVE  /\ Dropped(a) \in Actor /\ ~Dropped(a).on /\ Dropped(a).changed
         /\ Dropped(a).op = "none" /\ Dropped(a).wlease = 0 /\ ActorOk(Dropped(a))
<1>1. 0 \in 0 .. MaxValue /\ 0 \in Leases BY ClusterConstants DEF Leases
<1>2. Dropped(a) \in Actor BY <1>1 DEF Dropped, Ended, Actor
<1> QED BY <1>2 DEF Dropped, Ended, Actor, ActorOk

\* The deletors and the given up paths after the removal of k.
Removal(s, t, k) ==
    /\ t.c = s.c /\ t.q = s.q /\ t.a = s.a /\ t.retry = s.retry \ {k}
    /\ t.d \subseteq Deletor /\ t.left \subseteq Keys /\ s.left \subseteq t.left
    /\ \A e \in s.d : e.key # k => e \in t.d
    /\ \A e \in t.d : e \in s.d \/ e.key = k
    /\ store[k] \in Ours => k \in t.left \/ \E e \in t.d : e.key = k /\ e.st # "done"

LEMMA RemovalGood ==
  ASSUME ServerOk, NEW s, Good(s), NEW k \in Keys, s.a[k].on, NEW t, Removal(s, t, k),
         NEW u \in Views, u.c = s.c, u.q = s.q, u.a = [s.a EXCEPT ![k] = Dropped(@)],
         u.retry = t.retry, u.d = t.d, u.left = t.left
  PROVE  Good(u)
<1>1. Core(s) /\ s \in Views /\ s.a \in [Keys -> Actor] BY DEF Good, Core, Views
<1>2. u.a[k] = Dropped(s.a[k]) /\ \A j \in Keys \ {k} : u.a[j] = s.a[j] BY <1>1
<1>3. /\ ~u.a[k].on /\ u.a[k].changed /\ u.a[k].op = "none" /\ u.a[k].wlease = 0
      /\ ActorOk(u.a[k])
  BY <1>1, <1>2, DroppedIs
<1>4. ~s.c.closing BY <1>1 DEF Core, Silent
<1>5. Core(u)
  <2>1. \A j \in Keys : ActorOk(u.a[j]) /\ Leased(u.c, u.a[j])
    BY <1>1, <1>2, <1>3 DEF Core, Leased
  <2>2. \A j \in u.retry : u.a[j].on
    <3>1. u.retry = s.retry \ {k} /\ s.retry \subseteq Keys BY <1>1 DEF Removal, Views
    <3> QED BY <1>1, <1>2, <3>1 DEF Core
  <2> QED BY <1>1, <1>4, <2>1, <2>2 DEF Core
<1>6. Known(u)
  <2>1. Known(s) /\ 0 <= granted BY DEF Good, ServerOk, Leases
  <2> QED BY <1>2, <1>3, <2>1 DEF Known
<1>7. Gone(u)
  <2> SUFFICES ASSUME NEW j \in Keys, ~u.a[j].on, store[j] \in Ours
               PROVE  j \in u.left \/ \E d \in u.d : d.key = j /\ d.st # "done"
    BY DEF Gone
  <2>1. CASE j = k BY <2>1 DEF Removal
  <2>2. CASE j # k
    <3>1. j \in s.left \/ \E d \in s.d : d.key = j /\ d.st # "done"
      BY <1>2, <1>4, <2>2 DEF Good, Gone
    <3> QED BY <2>2, <3>1 DEF Removal
  <2> QED BY <2>1, <2>2
<1>8. ASSUME DeletesApart PROVE Told(u)
  <2>1. Told(s) BY <1>8 DEF Good
  <2> SUFFICES ASSUME NEW j \in Keys
               PROVE  /\ u.a[j].op = "none" /\ ~u.a[j].changed /\ u.c.lease \in alive
                         => store[j] = [val |-> u.a[j].val, lease |-> u.c.lease]
                      /\ u.a[j].op = "set" /\ u.a[j].st = "ok" /\ u.a[j].wlease \in alive
                         => store[j] = [val |-> u.a[j].wval, lease |-> u.a[j].wlease]
                      /\ u.a[j].on => \A d \in u.d : d.key # j
    BY DEF Told
  <2>2. CASE j = k BY <1>3, <2>2
  <2>3. CASE j # k BY <1>2, <2>1, <2>3 DEF Told, Removal
  <2> QED BY <2>2, <2>3
<1> QED BY <1>5, <1>6, <1>7, <1>8 DEF Good

LEMMA RemoveGood ==
  ASSUME ClusterInv, NEW k \in Keys, RemoveKeepalive(k)
  PROVE  Good(View(None))'
<1> DEFINE v == View(None)
           s == [v EXCEPT !.retry = @ \ {k}]
           d == [key |-> k, no |-> removes + 1, tries |-> 0, st |-> "wait"]
           t == IF actors[k].data THEN RemovePath(s, d, FALSE)
                ELSE [s EXCEPT !.left = IF store[k] \in Ours THEN @ \cup {k} ELSE @]
           u == [t EXCEPT !.a[k] = Dropped(@)]
<1>1. Good(v) /\ v \in Views /\ v.a \in [Keys -> Actor] /\ ServerOk
  BY DEF ClusterInv, Good, Core, Views
<1>2. v.a[k].on /\ removes < MaxRemoves /\ Become(u) /\ UNCHANGED server
  BY DEF RemoveKeepalive, View
<1> HIDE DEF v
<1>3. /\ s \in Views /\ s.c = v.c /\ s.q = v.q /\ s.a = v.a /\ s.retry = v.retry \ {k}
      /\ s.d = v.d /\ s.left = v.left
  BY <1>1 DEF Views
<1> HIDE DEF s
<1>4. d \in Deletor /\ ~GivenUp(d) /\ Again(s, d) \in Deletor /\ Again(s, d).key = k
      /\ Again(s, d).st # "done"
  <2>1. removes \in 0 .. MaxRemoves /\ {MaxTries, MaxRemoves} \subseteq Nat /\ MaxTries # 0
    BY <1>1, ClusterConstants DEF ServerOk
  <2>2. removes + 1 \in 1 .. MaxRemoves /\ 0 \in 0 .. MaxTries /\ 1 \in 0 .. MaxTries /\ ~(1 > MaxTries)
    BY <1>2, <2>1
  <2>3. d \in Deletor /\ d.tries + 1 = 1 BY <2>2 DEF Deletor
  <2>4. ~GivenUp(d) BY <2>2, <2>3 DEF GivenUp
  <2>5. Again(s, d) \in Deletor /\ Again(s, d).key = k /\ Again(s, d).st # "done"
    <3>1. Again(s, d) = [d EXCEPT !.tries = 1, !.st = IF CanAsk(s) THEN "sent" ELSE "wait"]
      BY <2>3 DEF Again
    <3> QED BY <2>2, <2>3, <3>1 DEF Deletor
  <2> QED BY <2>3, <2>4, <2>5
<1>5. t \in Views /\ Removal(v, t, k)
  <2>1. CASE actors[k].data
    <3> DEFINE D == {e \in s.d \ {d} : ~(e.key = d.key /\ e.st = "wait")}
    <3>1. t = [[s EXCEPT !.d = D] EXCEPT !.d = @ \cup {Again(s, d)}]
      BY <1>4, <2>1 DEF RemovePath, Again, CanAsk
    <3>2. \A e \in s.d : e.key # k => e \in D BY <1>4
    <3>3. D \subseteq s.d BY <1>4
    <3> HIDE DEF d, D, t
    <3>4. /\ t \in Views /\ t.c = s.c /\ t.q = s.q /\ t.a = s.a /\ t.retry = s.retry
          /\ t.left = s.left /\ t.d = D \cup {Again(s, d)}
      BY <1>3, <1>4, <3>1, <3>3 DEF Views
    <3> QED BY <1>3, <1>4, <3>2, <3>3, <3>4 DEF Removal, Views
  <2>2. CASE ~actors[k].data
    <3>1. /\ t \in Views /\ t.c = s.c /\ t.q = s.q /\ t.a = s.a /\ t.retry = s.retry
          /\ t.d = s.d /\ t.left = IF store[k] \in Ours THEN s.left \cup {k} ELSE s.left
      BY <1>3, <2>2 DEF Views
    <3> HIDE DEF t
    <3> QED BY <1>3, <3>1 DEF Removal, Views
  <2> QED BY <2>1, <2>2
<1> HIDE DEF t
<1>6. /\ u \in Views /\ u.c = t.c /\ u.q = t.q /\ u.a = [v.a EXCEPT ![k] = Dropped(@)]
      /\ u.retry = t.retry /\ u.d = t.d /\ u.left = t.left
  <2>1. t.a = v.a BY <1>5 DEF Removal
  <2>2. Dropped(v.a[k]) \in Actor BY <1>1, DroppedIs
  <2> QED BY <1>1, <1>5, <2>1, <2>2 DEF Views
<1> HIDE DEF u
<1>7. u.c = v.c /\ u.q = v.q BY <1>5, <1>6 DEF Removal
<1>8. Good(u) BY <1>1, <1>2, <1>5, <1>6, <1>7, RemovalGood
<1> QED BY <1>2, <1>8, Ends

LEMMA CloseGood ==
  ASSUME ClusterInv, NEW revoking \in BOOLEAN, Close(revoking)
  PROVE  Good(View(None))'
<1> DEFINE s == View(None)
           c == [s.c EXCEPT !.closing = TRUE, !.running = FALSE, !.lease = 0]
           q == [member |-> None, auth |-> IdleAuth, keep |-> IdleKeep]
           a == [k \in Keys |-> Dropped(s.a[k])]
           D == {d \in s.d : d.st # "wait"}
           t == [s EXCEPT !.c = c, !.q = q, !.a = a, !.retry = {}, !.d = D]
<1>1. Core(s) /\ s \in Views /\ s.a \in [Keys -> Actor] /\ ServerOk
  BY DEF ClusterInv, Good, Core, Views
<1>2. Become(t) /\ UNCHANGED server BY DEF Close
<1> HIDE DEF s
<1>3. 0 \in Leases BY ClusterConstants DEF Leases
<1>4. c \in Conf /\ c.closing /\ ~c.running /\ c.lease = 0 BY <1>1, <1>3 DEF Views, Conf
<1>5. q \in Rpc /\ q.member = None /\ q.auth = IdleAuth /\ q.keep = IdleKeep
  BY <1>3 DEF Rpc, IdleAuth, IdleKeep
<1>6. ASSUME NEW k \in Keys
      PROVE  /\ a[k] \in Actor /\ ~a[k].on /\ a[k].changed /\ a[k].op = "none"
             /\ a[k].wlease = 0 /\ ActorOk(a[k])
  BY <1>1, DroppedIs
<1>7. a \in [Keys -> Actor] BY <1>6
<1>8. D \subseteq s.d OBVIOUS
<1> HIDE DEF c, q, a, D
<1>9. /\ t \in Views /\ t.c = c /\ t.q = q /\ t.a = a /\ t.retry = {} /\ t.d = D
      /\ t.left = s.left
  BY <1>1, <1>4, <1>5, <1>7, <1>8 DEF Views
<1> HIDE DEF t
<1>10. Silent(t) BY <1>4, <1>5, <1>6, <1>9 DEF Silent
<1>11. Core(t) BY <1>4, <1>5, <1>6, <1>9, <1>10 DEF Core, Leased, KeepOk, IdleKeep
<1>12. Known(t) BY <1>1, <1>4, <1>5, <1>6, <1>9 DEF Known, IdleKeep, ServerOk, Leases
<1>13. Gone(t) BY <1>4, <1>9 DEF Gone
<1>14. Told(t) BY <1>6, <1>9 DEF Told
<1>15. Good(t) BY <1>11, <1>12, <1>13, <1>14 DEF Good
<1> QED BY <1>2, <1>15, Ends

-----------------------------------------------------------------------------
(* The server. *)

\* A step that leaves the client alone, but for what its lease request and its
\* requests of a path hold.
LEMMA Serves ==
  ASSUME ClusterInv, ServerOk', UNCHANGED <<conf, retry, left>>, Core(View(None))',
         Known(View(None))',
         \A k \in Keys : actors'[k].on = actors[k].on,
         \A k \in Keys : store'[k] \in Ours /\ ~actors[k].on => store'[k] = store[k],
         \A k \in Keys : store'[k] \in Ours =>
           \A d \in dels : d.key = k /\ d.st # "done" =>
             \E e \in dels' : e.key = k /\ e.st # "done",
         DeletesApart => Told(View(None))'
  PROVE  Good(View(None))'
<1>1. Gone(View(None)) BY DEF ClusterInv, Good
<1>2. Gone(View(None))'
  <2> SUFFICES ASSUME NEW k \in Keys, ~actors'[k].on, store'[k] \in Ours, ~conf'.closing
               PROVE  k \in left' \/ \E d \in dels' : d.key = k /\ d.st # "done"
    BY DEF Gone, View
  <2>1. ~actors[k].on /\ store[k] \in Ours /\ ~conf.closing OBVIOUS
  <2>2. k \in left \/ \E d \in dels : d.key = k /\ d.st # "done" BY <1>1, <2>1 DEF Gone, View
  <2> QED BY <2>2
<1> QED BY <1>2 DEF Good

\* A lease ends, and its keys with it.
LEMMA LeaseEndsGood ==
  ASSUME ClusterInv, NEW l \in Leases, l # 0, LeaseEnds(l), UNCHANGED client,
         revoke' \in {revoke, 0}, removes' = removes, net' = net, faults' \in 0 .. MaxFaults
  PROVE  ClusterInv'
<1> DEFINE v == View(None)
<1>1. ServerOk /\ Good(v) BY DEF ClusterInv
<1>2. /\ UNCHANGED <<conf, rpc, actors, retry, dels, left, granted>> /\ v' = v
      /\ alive' = alive \ {l}
      /\ store' = [k \in Keys |-> IF store[k].lease = l THEN Empty ELSE store[k]]
  BY DEF client, LeaseEnds, View
<1>3. v.c = conf /\ v.a = actors /\ v.d = dels BY DEF View
<1>4. ServerOk' BY <1>1, <1>2, ClusterConstants DEF ServerOk, Leases
<1>5. \A k \in Keys : store'[k] \in Ours => store'[k] = store[k]
  BY <1>2, ClusterConstants DEF Ours, Empty
<1>6. Core(v)' /\ Known(v)'
  <2>1. Core(v) /\ Known(v) BY <1>1 DEF Good
  <2> QED BY <1>2, <2>1 DEF Known, Core, Silent
<1>7. ASSUME DeletesApart PROVE Told(v)'
  <2>1. Told(v) BY <1>1, <1>7 DEF Good
  <2>2. \A x : \A k \in Keys, m \in alive' : store[k] = [val |-> x, lease |-> m] => store'[k] = store[k]
    BY <1>2
  <2> SUFFICES ASSUME NEW k \in Keys
               PROVE  /\ actors[k].op = "none" /\ ~actors[k].changed /\ conf.lease \in alive'
                         => store'[k] = [val |-> actors[k].val, lease |-> conf.lease]
                      /\ actors[k].op = "set" /\ actors[k].st = "ok" /\ actors[k].wlease \in alive'
                         => store'[k] = [val |-> actors[k].wval, lease |-> actors[k].wlease]
                      /\ actors[k].on => \A d \in dels : d.key # k
    BY <1>2, <1>3 DEF Told
  <2> QED BY <1>2, <1>3, <2>1, <2>2 DEF Told
<1>8. Good(v)' BY <1>1, <1>2, <1>4, <1>5, <1>6, <1>7, Serves
<1> QED BY <1>4, <1>8 DEF ClusterInv

LEMMA HandleKeepGood == ASSUME ClusterInv, HandleKeep PROVE ClusterInv'
<1> DEFINE v == View(None)
<1>1. ServerOk /\ Good(v) BY DEF ClusterInv
<1>2. Core(v) /\ Known(v) /\ v \in Views BY <1>1 DEF Good, Core
<1>3. UNCHANGED <<conf, actors, retry, dels, left, store, revoke, counters>> BY DEF HandleKeep
<1>4. /\ v.c = conf /\ v.q = rpc /\ v.a = actors /\ v.retry = retry /\ v.d = dels /\ v.left = left
      /\ v'.c = conf /\ v'.q = rpc' /\ v'.a = actors /\ v'.retry = retry /\ v'.d = dels
      /\ v'.left = left /\ v' = [v EXCEPT !.q = rpc']
  BY <1>3 DEF View
<1>5. rpc.keep.op # "none" BY DEF HandleKeep
<1>6. rpc \in Rpc /\ conf \in Conf BY <1>2, <1>4 DEF Views
<1>7. \/ /\ rpc.keep.op = "grant" /\ granted < MaxLease /\ granted' = granted + 1
         /\ alive' = alive \cup {granted'}
         /\ rpc' = [rpc EXCEPT !.keep.st = "ok", !.keep.id = granted']
      \/ /\ rpc.keep.op = "renew"
         /\ rpc' = [rpc EXCEPT !.keep.st = IF rpc.keep.id \in alive THEN "ok" ELSE "gone"]
         /\ UNCHANGED <<granted, alive>>
  BY DEF HandleKeep
<1>8. /\ granted \in Leases /\ MaxLease \in Nat /\ alive \subseteq 1 .. granted
  BY <1>1, ClusterConstants DEF ServerOk
<1>9. /\ rpc' \in Rpc /\ rpc'.keep.op = rpc.keep.op /\ granted' \in Leases /\ granted <= granted'
      /\ alive \subseteq alive' /\ alive' \subseteq alive \cup {granted + 1}
      /\ alive' \subseteq 1 .. granted'
      /\ \/ rpc'.keep.op = "grant" /\ rpc'.keep.id = granted' /\ granted' # 0
         \/ rpc'.keep.op = "renew" /\ rpc'.keep.id = rpc.keep.id
  <2>1. CASE rpc.keep.op = "grant"
    <3>1. granted + 1 \in Leases /\ granted + 1 # 0 /\ granted' = granted + 1
          /\ rpc' = [rpc EXCEPT !.keep.st = "ok", !.keep.id = granted']
          /\ alive' = alive \cup {granted'}
      BY <1>7, <1>8, <2>1 DEF Leases
    <3>2. rpc' \in Rpc /\ rpc'.keep.op = "grant" /\ rpc'.keep.id = granted'
      BY <1>6, <2>1, <3>1 DEF Rpc
    <3> QED BY <1>8, <2>1, <3>1, <3>2 DEF Leases
  <2>2. CASE rpc.keep.op = "renew"
    <3>1. rpc' \in Rpc /\ rpc'.keep.op = "renew" /\ rpc'.keep.id = rpc.keep.id
      BY <1>6, <1>7, <2>2 DEF Rpc
    <3>2. UNCHANGED <<granted, alive>> BY <1>7, <2>2
    <3> QED BY <1>8, <2>2, <3>1, <3>2 DEF Leases
  <2> QED BY <1>7, <2>1, <2>2
<1>10. ServerOk' BY <1>1, <1>3, <1>9 DEF ServerOk, counters
<1>11. v' \in Views BY <1>2, <1>4, <1>9 DEF Views
<1>12. KeepOk(conf, rpc'.keep) BY <1>2, <1>4, <1>5, <1>9 DEF Core, KeepOk
<1>13. ~conf.closing BY <1>2, <1>4, <1>5 DEF Core, Silent, IdleKeep
<1>14. Core(v)' BY <1>2, <1>4, <1>11, <1>12, <1>13 DEF Core
<1>15. Known(v)'
  <2>1. \A k \in Keys : actors[k] \in Actor BY <1>2, <1>4 DEF Views
  <2>2. conf.lease \in Leases /\ rpc.keep.id \in Leases /\ \A k \in Keys : actors[k].wlease \in Leases
    BY <1>6, <2>1 DEF Conf, Rpc, Actor
  <2>3. rpc'.keep.id <= granted' BY <1>2, <1>4, <1>8, <1>9, <2>2 DEF Known, Leases
  <2>4. conf.lease <= granted' /\ \A k \in Keys : actors[k].wlease <= granted'
    BY <1>2, <1>4, <1>8, <1>9, <2>2 DEF Known, Leases
  <2> QED BY <1>4, <2>3, <2>4 DEF Known
<1>16. ASSUME DeletesApart PROVE Told(v)'
  <2>1. Told(v) BY <1>1, <1>16 DEF Good
  <2>2. \A m \in Leases : m <= granted /\ m \in alive' => m \in alive BY <1>8, <1>9 DEF Leases
  <2>3. \A k \in Keys : actors[k] \in Actor BY <1>2, <1>4 DEF Views
  <2>4. conf.lease \in Leases /\ \A k \in Keys : actors[k].wlease \in Leases
    BY <1>6, <2>3 DEF Conf, Actor
  <2>5. /\ conf.lease \in alive' => conf.lease \in alive
        /\ \A k \in Keys : actors[k].wlease \in alive' => actors[k].wlease \in alive
    BY <1>2, <1>4, <2>2, <2>4 DEF Known
  <2> QED BY <1>3, <1>4, <2>1, <2>5 DEF Told
<1>17. Good(v)' BY <1>1, <1>3, <1>10, <1>14, <1>15, <1>16, Serves DEF ClusterInv
<1> QED BY <1>10, <1>17 DEF ClusterInv

LEMMA HandleKvGood ==
  ASSUME ClusterInv, NEW k \in Keys, HandleKv(k)
  PROVE  ClusterInv'
<1> DEFINE v == View(None)
           a == actors[k]
           st == IF a.op = "get" THEN IF store[k] = Foreign THEN "taken" ELSE "clear"
                 ELSE IF a.wlease \in alive THEN "ok" ELSE "bad"
           b == [a EXCEPT !.st = st]
<1>1. ServerOk /\ Good(v) BY DEF ClusterInv
<1>2. Core(v) /\ Known(v) /\ v \in Views BY <1>1 DEF Good, Core
<1>3. /\ UNCHANGED <<conf, rpc, retry, dels, left, alive, granted, revoke, counters>>
      /\ a.op # "none" /\ a.st = "sent" /\ actors' = [actors EXCEPT ![k].st = st]
      /\ store' = IF a.op = "set" /\ a.wlease \in alive
                  THEN [store EXCEPT ![k] = [val |-> a.wval, lease |-> a.wlease]] ELSE store
  BY DEF HandleKv
<1>4. /\ v.c = conf /\ v.q = rpc /\ v.a = actors /\ v.retry = retry /\ v.d = dels /\ v.left = left
      /\ v'.c = conf /\ v'.q = rpc /\ v'.a = actors' /\ v'.retry = retry /\ v'.d = dels
      /\ v'.left = left /\ v' = [v EXCEPT !.a = actors']
  BY <1>3 DEF View
<1>5. actors \in [Keys -> Actor] /\ a \in Actor /\ ActorOk(a) /\ Leased(conf, a)
  BY <1>2, <1>4 DEF Views, Core
<1>6. /\ b \in Actor /\ b.on = a.on /\ b.op = a.op /\ b.changed = a.changed /\ b.run = a.run
      /\ b.val = a.val /\ b.wval = a.wval /\ b.wlease = a.wlease /\ b.st = st /\ a.on
      /\ ActorOk(b) /\ Leased(conf, b)
  BY <1>3, <1>5 DEF Actor, ActorOk, Leased
<1>7. a.op = "set" => a.wval \in 1 .. MaxValue /\ a.wlease \in 1 .. MaxLease
  <2>1. a.wlease \in Leases /\ MaxLease \in Nat BY <1>5, ClusterConstants DEF Actor
  <2> QED BY <1>5, <2>1 DEF ActorOk, Leases
<1>8. ServerOk'
  <2>1. store \in [Keys -> Ours \cup {Foreign, Empty}] BY <1>1 DEF ServerOk
  <2>2. a.op = "set" => [val |-> a.wval, lease |-> a.wlease] \in Ours BY <1>7 DEF Ours
  <2>3. store' \in [Keys -> Ours \cup {Foreign, Empty}] BY <1>3, <2>1, <2>2
  <2> QED BY <1>1, <1>3, <2>3 DEF ServerOk, counters
<1>9. actors' = [actors EXCEPT ![k] = b] BY <1>3, <1>5 DEF Actor
<1>10. actors' \in [Keys -> Actor] /\ actors'[k] = b /\ \A j \in Keys \ {k} : actors'[j] = actors[j]
  <2> HIDE DEF b
  <2> QED BY <1>5, <1>6, <1>9
<1>11. store \in [Keys -> Ours \cup {Foreign, Empty}] BY <1>1 DEF ServerOk
<1>12. /\ \A j \in Keys \ {k} : store'[j] = store[j]
       /\ a.op = "set" /\ a.wlease \in alive => store'[k] = [val |-> a.wval, lease |-> a.wlease]
  BY <1>3, <1>11
<1>13. b.op # "none" /\ (b.op = "set" /\ b.st = "ok" => a.op = "set" /\ a.wlease \in alive)
  BY <1>3, <1>6
<1> HIDE DEF a, b, st
<1>14. \A j \in Keys : actors'[j].on = actors[j].on BY <1>6, <1>10 DEF a
<1>15. v' \in Views BY <1>2, <1>4, <1>10 DEF Views
<1>16. Core(v)'
  <2>1. \A j \in Keys : ActorOk(actors'[j]) /\ Leased(conf, actors'[j])
    BY <1>2, <1>4, <1>6, <1>10 DEF Core
  <2>2. \A j \in retry : actors'[j].on
    <3>1. retry \subseteq Keys BY <1>2, <1>4 DEF Views
    <3> QED BY <1>2, <1>4, <1>14, <3>1 DEF Core
  <2>3. ~conf.closing BY <1>2, <1>3, <1>4 DEF Core, Silent, a
  <2> QED BY <1>2, <1>4, <1>15, <2>1, <2>2, <2>3 DEF Core
<1>17. Known(v)'
  <2>1. \A j \in Keys : actors'[j].wlease = actors[j].wlease BY <1>6, <1>10 DEF a
  <2> QED BY <1>2, <1>3, <1>4, <2>1 DEF Known
<1>18. ASSUME DeletesApart PROVE Told(v)'
  <2>1. Told(v) BY <1>1, <1>18 DEF Good
  <2> SUFFICES ASSUME NEW j \in Keys
               PROVE  /\ actors'[j].op = "none" /\ ~actors'[j].changed /\ conf.lease \in alive
                         => store'[j] = [val |-> actors'[j].val, lease |-> conf.lease]
                      /\ actors'[j].op = "set" /\ actors'[j].st = "ok" /\ actors'[j].wlease \in alive
                         => store'[j] = [val |-> actors'[j].wval, lease |-> actors'[j].wlease]
                      /\ actors'[j].on => \A d \in dels : d.key # j
    BY <1>3, <1>4 DEF Told
  <2>2. CASE j = k
    <3>1. actors'[j].on => \A d \in dels : d.key # j BY <1>4, <1>14, <2>1 DEF Told
    <3> QED BY <1>6, <1>10, <1>12, <1>13, <2>2, <3>1
  <2>3. CASE j # k BY <1>3, <1>4, <1>10, <1>12, <2>1, <2>3 DEF Told
  <2> QED BY <2>2, <2>3
<1>19. \A j \in Keys : store'[j] \in Ours /\ ~actors[j].on => store'[j] = store[j]
  BY <1>6, <1>12 DEF a
<1>20. Good(v)' BY <1>3, <1>8, <1>14, <1>16, <1>17, <1>18, <1>19, Serves
<1> QED BY <1>8, <1>20 DEF ClusterInv

LEMMA HandleDeleteGood ==
  ASSUME ClusterInv, NEW d \in dels, HandleDelete(d)
  PROVE  ClusterInv'
<1> DEFINE v == View(None)
           e == [d EXCEPT !.st = "done"]
<1>1. ServerOk /\ Good(v) BY DEF ClusterInv
<1>2. Core(v) /\ Known(v) /\ v \in Views BY <1>1 DEF Good, Core
<1>3. /\ UNCHANGED <<conf, rpc, actors, retry, left, alive, granted, revoke, counters>>
      /\ store' = [k \in Keys |-> IF k \in Under[d.key] THEN Empty ELSE store[k]]
      /\ dels' = (dels \ {d}) \cup {e}
  BY DEF HandleDelete
<1>4. /\ v.c = conf /\ v.q = rpc /\ v.a = actors /\ v.retry = retry /\ v.d = dels /\ v.left = left
      /\ v'.c = conf /\ v'.q = rpc /\ v'.a = actors /\ v'.retry = retry /\ v'.d = dels'
      /\ v'.left = left /\ v' = [v EXCEPT !.d = dels']
  BY <1>3 DEF View
<1>5. dels \subseteq Deletor /\ d \in Deletor /\ e \in Deletor /\ e.key = d.key /\ d.key \in Keys
      /\ e.st = "done"
  BY <1>2, <1>4 DEF Views, Deletor
<1> HIDE DEF e
<1>6. dels' \subseteq Deletor BY <1>3, <1>5
<1>7. \A k \in Keys : k \in Under[k] BY ClusterConstants
<1>8. \A k \in Keys : store'[k] = store[k] \/ (k \in Under[d.key] /\ store'[k] = Empty)
  BY <1>3
<1>9. Empty \notin Ours BY ClusterConstants DEF Empty, Ours
<1>10. ServerOk' BY <1>1, <1>3 DEF ServerOk, counters
<1>11. v' \in Views BY <1>2, <1>4, <1>6 DEF Views
<1>12. Core(v)' BY <1>2, <1>4, <1>11 DEF Core, Silent
<1>13. Known(v)' BY <1>2, <1>3, <1>4 DEF Known
<1>14. ASSUME DeletesApart PROVE Told(v)'
  <2>1. Told(v) BY <1>1, <1>14 DEF Good
  <2> SUFFICES ASSUME NEW j \in Keys
               PROVE  /\ actors[j].op = "none" /\ ~actors[j].changed /\ conf.lease \in alive
                         => store'[j] = [val |-> actors[j].val, lease |-> conf.lease]
                      /\ actors[j].op = "set" /\ actors[j].st = "ok" /\ actors[j].wlease \in alive
                         => store'[j] = [val |-> actors[j].wval, lease |-> actors[j].wlease]
                      /\ actors[j].on => \A x \in dels' : x.key # j
    BY <1>3, <1>4 DEF Told
  <2>2. CASE actors[j].on
    <3>1. \A x \in dels : x.key # j BY <1>4, <2>1, <2>2 DEF Told
    <3>2. j \notin Under[d.key] BY <1>5, <1>14, <3>1 DEF DeletesApart
    <3>3. store'[j] = store[j] BY <1>8, <3>2
    <3>4. \A x \in dels' : x.key # j BY <1>3, <1>5, <3>1
    <3> QED BY <1>4, <2>1, <3>3, <3>4 DEF Told
  <2>3. CASE ~actors[j].on
    <3>1. actors[j].op = "none" /\ actors[j].changed BY <1>2, <1>4, <2>3 DEF Core, ActorOk
    <3> QED BY <2>3, <3>1
  <2> QED BY <2>2, <2>3
<1>15. \A k \in Keys : store'[k] \in Ours => store'[k] = store[k] BY <1>8, <1>9
<1>16. \A k \in Keys : store'[k] \in Ours =>
          \A x \in dels : x.key = k /\ x.st # "done" =>
            \E y \in dels' : y.key = k /\ y.st # "done"
  <2> SUFFICES ASSUME NEW k \in Keys, store'[k] \in Ours, NEW x \in dels, x.key = k, x.st # "done"
               PROVE  \E y \in dels' : y.key = k /\ y.st # "done"
    OBVIOUS
  <2>1. x # d BY <1>3, <1>7, <1>9
  <2>2. x \in dels' BY <1>3, <2>1
  <2> QED BY <2>2
<1>17. Good(v)' BY <1>3, <1>10, <1>12, <1>13, <1>14, <1>15, <1>16, Serves
<1> QED BY <1>10, <1>17 DEF ClusterInv

-----------------------------------------------------------------------------
(* Answers and failures. *)

\* A view with its lease request answered, failed or without one.
LEMMA IdleWorks ==
  ASSUME NEW s, Core(s)
  PROVE  Works(s, [s EXCEPT !.q.keep = IdleKeep])
<1> DEFINE t == [s EXCEPT !.q.keep = IdleKeep]
<1>1. s \in Views /\ IdleKeep \in [op : {"none", "grant", "renew"}, to : Hosts \cup {None},
                                   id : Leases, st : {"sent", "ok", "gone"}]
  BY ClusterConstants DEF Core, IdleKeep, Leases
<1>2. /\ t \in Views /\ t.c = s.c /\ t.a = s.a /\ t.retry = s.retry /\ t.d = s.d
      /\ t.left = s.left /\ t.q = [s.q EXCEPT !.keep = IdleKeep] /\ t.q.keep = IdleKeep
  BY <1>1 DEF Views, Rpc
<1> HIDE DEF t
<1>3. \A k \in Keys : GoesOn(s.c, s.a[k], t.a[k]) BY <1>2 DEF GoesOn
<1>4. StillDeleted(s, t) BY <1>2 DEF StillDeleted
<1>5. KeepOk(t.c, t.q.keep) BY <1>2 DEF KeepOk, IdleKeep
<1>6. t.q.keep.id = 0 BY <1>2 DEF IdleKeep
<1>7. s.c.closing => t.q = s.q BY <1>1, <1>2 DEF Core, Silent, Views, Rpc
<1>8. Works(s, t) BY <1>2, <1>3, <1>4, <1>5, <1>6, <1>7, Zenon DEF Works, Core
<1> QED BY <1>8 DEF t

LEMMA FailedWorks ==
  ASSUME NEW s, Core(s), NEW why, NEW to
  PROVE  Works(s, Failed(s, why, to))
  BY FailedAside, AsideWorks DEF Core

LEMMA MemberAnsweredGood == ASSUME ClusterInv, MemberAnswered PROVE Good(View(None))'
<1>1. PICK h \in Hosts :
        LET s == [View(h) EXCEPT !.q.member = None, !.c.hosts = Hosts]
            t == IF s.c.node \in Hosts THEN s ELSE Select(s)
        IN Become(Ticked([t EXCEPT !.c.due = @ \ {"member"}])) /\ UNCHANGED server
  BY DEF MemberAnswered
<1> DEFINE v == View(h)
           s == [v EXCEPT !.q.member = None, !.c.hosts = Hosts]
           t == IF s.c.node \in Hosts THEN s ELSE Select(s)
           u == [t EXCEPT !.c.due = @ \ {"member"}]
<1>2. Good(v) /\ Core(v) /\ v \in Views BY Begins DEF Good, Core
<1>3. ~v.c.closing BY <1>2 DEF MemberAnswered, Core, Silent, View
<1> HIDE DEF v
<1>4. Aside(v, s) BY <1>2, <1>3 DEF Aside, Views, Conf, Rpc
<1> HIDE DEF s
<1>5. Aside(s, t) /\ t \in Views
  <2>1. s \in Views BY <1>4 DEF Aside
  <2>2. Aside(s, s) BY <2>1 DEF Aside
  <2>3. Aside(s, t) BY <2>1, <2>2, SelectAside
  <2> QED BY <2>3 DEF Aside
<1> HIDE DEF t
<1>6. Aside(t, u) BY <1>5 DEF Aside, Views, Conf
<1> HIDE DEF u
<1>7. Works(v, u) BY <1>2, <1>4, <1>5, <1>6, AsideTrans, AsideWorks
<1>8. Works(u, Ticked(u)) BY <1>2, <1>7, WorksCore, TickedWorks
<1>9. Works(v, Ticked(u)) BY <1>7, <1>8, WorksTrans
<1>10. Become(Ticked(u)) /\ UNCHANGED server BY <1>1 DEF u, t, s, v
<1> QED BY <1>2, <1>9, <1>10, Finishes DEF ClusterInv

LEMMA AuthAnsweredGood ==
  ASSUME ClusterInv, AuthAnswered \/ UserAnswered PROVE Good(View(None))'
<1> DEFINE v == View(None)
           s == [v EXCEPT !.q.auth = IdleAuth, !.c.token = TRUE]
           w == [v EXCEPT !.q.auth = IdleAuth]
           r == RetryPending(s)
           u == [r EXCEPT !.c.due = @ \ {"user"}]
<1>1. Good(v) /\ Core(v) /\ v \in Views /\ ServerOk BY DEF ClusterInv, Good, Core
<1>2. \/ Become(u) /\ UNCHANGED server
      \/ Become(RetryPending(w)) /\ UNCHANGED server
  BY DEF AuthAnswered, UserAnswered
<1>3. ~v.c.closing
  BY <1>1 DEF AuthAnswered, UserAnswered, Core, Silent, IdleAuth, View
<1> HIDE DEF v
<1>4. Aside(v, s) /\ Aside(v, w)
  <2>1. IdleAuth \in [op : {"none", "auth", "user"}, to : Hosts \cup {None}] BY DEF IdleAuth
  <2> QED BY <1>1, <1>3, <2>1 DEF Aside, Views, Conf, Rpc
<1> HIDE DEF s, w
<1>5. Works(v, s) /\ Works(v, w) BY <1>1, <1>4, AsideWorks
<1>6. Core(s) /\ Core(w) BY <1>1, <1>5, WorksCore
<1>7. Works(v, r) /\ Works(v, RetryPending(w))
  BY <1>5, <1>6, RetryPendingWorks, WorksTrans
<1> HIDE DEF r
<1>8. Core(r) /\ r \in Views BY <1>1, <1>7, WorksCore DEF Core
<1>9. Aside(r, u) BY <1>8 DEF Aside, Views, Conf
<1>10. Works(v, u) BY <1>7, <1>8, <1>9, AsideWorks, WorksTrans
<1> QED BY <1>1, <1>2, <1>7, <1>10, Finishes

LEMMA KeepAnsweredGood == ASSUME ClusterInv, KeepAnswered PROVE Good(View(None))'
<1> DEFINE v == View(None)
           q == rpc.keep
           s == [v EXCEPT !.q.keep = IdleKeep]
           r == [s EXCEPT !.c.running = TRUE]
           z == SetLease(s, 0, FALSE)
<1>1. Good(v) /\ Core(v) /\ v \in Views /\ ServerOk /\ v.c = conf /\ v.q = rpc
  BY DEF ClusterInv, Good, Core, View
<1>2. /\ q.op # "none" /\ q.st # "sent" /\ UNCHANGED server
      /\ Become(IF q.st = "gone" THEN CreateGrant(z) ELSE SetLease(r, q.id, q.op = "grant"))
  BY DEF KeepAnswered
<1>3. /\ q.op \in {"none", "grant", "renew"} /\ q.st \in {"sent", "ok", "gone"} /\ q.id \in Leases
      /\ KeepOk(conf, q) /\ q.id <= granted
  BY <1>1 DEF Views, Rpc, Core, Good, Known
<1>4. conf.enabled /\ ~conf.closing BY <1>1, <1>2, <1>3 DEF KeepOk, Core, Silent, IdleKeep
<1> HIDE DEF v
<1>5. Works(v, s) BY <1>1, IdleWorks
<1>6. Good(s) BY <1>1, <1>5, WorksGood
<1>7. /\ s \in Views /\ s.c = conf /\ s.q.keep = IdleKeep /\ Core(s)
  <2>1. IdleKeep \in [op : {"none", "grant", "renew"}, to : Hosts \cup {None},
                      id : Leases, st : {"sent", "ok", "gone"}]
    BY ClusterConstants DEF IdleKeep, Leases
  <2> QED BY <1>1, <1>6 DEF Good, Core, Views, Rpc
<1> HIDE DEF s, q
<1>8. CASE q.st = "gone"
  <2>1. z = [s EXCEPT !.c.lease = 0] BY DEF SetLease
  <2>2. /\ z \in Views /\ z.q = s.q /\ z.a = s.a /\ z.retry = s.retry /\ z.d = s.d
        /\ z.left = s.left /\ z.c.lease = 0 /\ z.c.closing = s.c.closing
        /\ z.c.enabled = s.c.enabled /\ z.c.running = s.c.running
    <3>1. 0 \in Leases BY ClusterConstants DEF Leases
    <3> QED BY <1>7, <2>1, <3>1, ZenonT(30) DEF Views, Conf
  <2> HIDE DEF z
  <2>3. Core(z) BY <1>4, <1>7, <2>2 DEF Core, Leased, KeepOk, IdleKeep
  <2>4. Known(z) BY <1>1, <1>6, <2>2 DEF Good, Known, ServerOk, Leases
  <2>5. Gone(z) BY <1>6, <2>2 DEF Good, Gone
  <2>6. 0 \notin alive BY <1>1 DEF ServerOk, Leases
  <2>7. DeletesApart => Told(z) BY <1>6, <2>2, <2>6, ZenonT(30) DEF Good, Told
  <2>8. Good(z) BY <2>3, <2>4, <2>5, <2>7 DEF Good
  <2>9. Works(z, CreateGrant(z)) BY <2>3, CreateKeepWorks
  <2> QED BY <1>1, <1>2, <1>8, <2>8, <2>9, Finishes
<1>9. CASE q.st # "gone" /\ q.op = "grant"
  <2>1. q.id # 0 BY <1>2, <1>3, <1>9 DEF KeepOk
  <2> DEFINE g == Granted(s, q.id)
  <2>2. /\ Core(g) /\ Works(g, SetLease(r, q.id, TRUE))
        /\ \A k \in Keys : LET a == g.a[k]
                           IN /\ a.on = s.a[k].on /\ a.changed /\ a.op = s.a[k].op
                              /\ a.st = s.a[k].st /\ a.wval = s.a[k].wval
                              /\ a.wlease = s.a[k].wlease
        /\ g.d = s.d /\ g.left = s.left /\ g.c.lease = q.id /\ g.q = s.q
        /\ g.c.closing = s.c.closing
    <3>1. ~s.c.closing /\ s.c.enabled /\ s.q.keep = IdleKeep /\ Core(s) BY <1>4, <1>7
    <3> HIDE DEF r
    <3> QED BY <1>3, <2>1, <3>1, GrantedLemma, ZenonT(30) DEF r
  <2> HIDE DEF r
  <2>3. ASSUME NEW k \in Keys
        PROVE  /\ g.a[k].on = s.a[k].on /\ g.a[k].changed
               /\ g.a[k].op = s.a[k].op /\ g.a[k].st = s.a[k].st
               /\ g.a[k].wval = s.a[k].wval /\ g.a[k].wlease = s.a[k].wlease
    BY <2>2
  <2>4. g.d = s.d /\ g.left = s.left /\ g.c.lease = q.id /\ g.q = s.q /\ g.c.closing = s.c.closing
    BY <2>2
  <2> HIDE DEF g
  <2>5. Known(g) BY <1>3, <1>6, <2>3, <2>4 DEF Good, Known
  <2>6. Gone(g) BY <1>6, <2>3, <2>4 DEF Good, Gone
  <2>7. ASSUME DeletesApart PROVE Told(g)
    <3>1. Told(s) BY <1>6, <2>7 DEF Good
    <3>2. ASSUME NEW k \in Keys
          PROVE  /\ ~(g.a[k].op = "none" /\ ~g.a[k].changed)
                 /\ g.a[k].op = "set" /\ g.a[k].st = "ok" /\ g.a[k].wlease \in alive
                    => store[k] = [val |-> g.a[k].wval, lease |-> g.a[k].wlease]
                 /\ g.a[k].on => \A d \in g.d : d.key # k
      BY <2>3, <2>4, <3>1, ZenonT(30) DEF Told
    <3> QED BY <3>2 DEF Told
  <2>8. Good(g) BY <2>2, <2>5, <2>6, <2>7 DEF Good
  <2>9. Become(SetLease(r, q.id, TRUE)) /\ UNCHANGED server BY <1>2, <1>9
  <2> QED BY <1>1, <2>2, <2>8, <2>9, Finishes
<1>10. CASE q.st # "gone" /\ q.op = "renew"
  <2>1. q.id = conf.lease /\ conf.lease # 0 /\ conf.running BY <1>1, <1>3, <1>10 DEF KeepOk, Core
  <2>2. r = s /\ [r EXCEPT !.c.lease = q.id] = s BY <1>7, <2>1 DEF Views, Conf
  <2>3. SetLease(r, q.id, FALSE) = RetryPending(s)
    <3>1. r.c.lease = q.id BY <1>7, <2>1, <2>2
    <3> HIDE DEF r
    <3> QED BY <2>1, <2>2, <3>1 DEF SetLease
  <2>4. Become(RetryPending(s)) /\ UNCHANGED server BY <1>2, <1>10, <2>3
  <2>5. Works(s, RetryPending(s)) BY <1>7, RetryPendingWorks
  <2> QED BY <1>1, <1>6, <2>4, <2>5, Finishes
<1> QED BY <1>2, <1>3, <1>8, <1>9, <1>10

LEMMA EndedIs ==
  ASSUME NEW a \in Actor
  PROVE  /\ Ended(a) \in Actor /\ Ended(a).on = a.on /\ Ended(a).val = a.val
         /\ Ended(a).changed = a.changed /\ Ended(a).run = a.run
         /\ Ended(a).op = "none" /\ Ended(a).wlease = 0
<1>1. 0 \in 0 .. MaxValue /\ 0 \in Leases BY ClusterConstants DEF Leases
<1> QED BY <1>1 DEF Ended, Actor

\* A request of a keepalive has ended, with nothing left to write only if it
\* wrote the present value.
LEMMA EndsRequest ==
  ASSUME ServerOk, NEW s, Good(s), NEW k \in Keys, s.a[k].op # "none",
         NEW b \in Actor, b.on, b.op = "none", b.val = s.a[k].val, ActorOk(b),
         b.wlease \in {0, s.a[k].wlease},
         b.changed \/ (s.a[k].op = "set" /\ s.a[k].st = "ok" /\ ~s.a[k].changed)
  PROVE  Good(Put(s, k, b, s.retry))
<1> DEFINE t == Put(s, k, b, s.retry)
<1>1. Core(s) /\ s \in Views /\ s.a \in [Keys -> Actor] BY DEF Good, Core, Views
<1>2. ActorOk(s.a[k]) /\ Leased(s.c, s.a[k]) BY <1>1 DEF Core
<1>3. s.a[k].on BY <1>1, <1>2 DEF ActorOk
<1>4. /\ t \in Views /\ t.c = s.c /\ t.q = s.q /\ t.retry = s.retry /\ t.d = s.d /\ t.left = s.left
      /\ t.a = [s.a EXCEPT ![k] = b]
  BY <1>1 DEF Put, Views
<1> HIDE DEF t
<1>5. t.a[k] = b /\ \A j \in Keys \ {k} : t.a[j] = s.a[j] BY <1>1, <1>4
<1>6. \A j \in Keys : t.a[j].on = s.a[j].on
  <2>1. b.on = TRUE /\ s.a[k].on = TRUE BY <1>1, <1>3 DEF Actor
  <2> QED BY <1>5, <2>1
<1>7. Core(t)
  <2>1. \A j \in Keys : ActorOk(t.a[j]) /\ Leased(t.c, t.a[j])
    BY <1>1, <1>4, <1>5 DEF Core, Leased
  <2>2. \A j \in t.retry : t.a[j].on
    <3>1. s.retry \subseteq Keys BY <1>1 DEF Views
    <3> QED BY <1>1, <1>4, <1>6, <3>1 DEF Core
  <2>3. ~s.c.closing BY <1>1, <1>3 DEF Core, Silent
  <2> QED BY <1>1, <1>4, <2>1, <2>2, <2>3 DEF Core
<1>8. Known(t)
  <2>1. Known(s) /\ 0 <= granted BY DEF Good, ServerOk, Leases
  <2> QED BY <1>4, <1>5, <2>1 DEF Known
<1>9. Gone(t) BY <1>4, <1>6 DEF Good, Gone
<1>10. ASSUME DeletesApart PROVE Told(t)
  <2>1. Told(s) BY <1>10 DEF Good
  <2> SUFFICES ASSUME NEW j \in Keys
               PROVE  /\ t.a[j].op = "none" /\ ~t.a[j].changed /\ s.c.lease \in alive
                         => store[j] = [val |-> t.a[j].val, lease |-> s.c.lease]
                      /\ t.a[j].op = "set" /\ t.a[j].st = "ok" /\ t.a[j].wlease \in alive
                         => store[j] = [val |-> t.a[j].wval, lease |-> t.a[j].wlease]
                      /\ t.a[j].on => \A d \in s.d : d.key # j
    BY <1>4 DEF Told
  <2>2. CASE j # k BY <1>5, <2>1, <2>2 DEF Told
  <2>3. CASE j = k
    <3>1. 0 \notin alive BY DEF ServerOk, Leases
    <3>2. ASSUME ~b.changed, s.c.lease \in alive
          PROVE  store[k] = [val |-> b.val, lease |-> s.c.lease]
      <4>1. s.a[k].op = "set" /\ s.a[k].st = "ok" /\ ~s.a[k].changed BY <3>2
      <4>2. s.a[k].wval = s.a[k].val BY <1>2, <4>1 DEF ActorOk
      <4>3. s.a[k].wlease = s.c.lease BY <1>2, <3>1, <3>2, <4>1 DEF Leased
      <4> QED BY <2>1, <3>2, <4>1, <4>2, <4>3 DEF Told
    <3>3. \A d \in s.d : d.key # k BY <1>3, <2>1 DEF Told
    <3> QED BY <1>5, <2>3, <3>2, <3>3
  <2> QED BY <2>2, <2>3
<1> QED BY <1>7, <1>8, <1>9, <1>10 DEF Good, t

LEMMA KvFailedGood ==
  ASSUME ServerOk, NEW s, Good(s), NEW k \in Keys, s.a[k].op # "none", NEW why
  PROVE  Good(KvFailed(s, k, why))
<1> DEFINE b == [Ended(s.a[k]) EXCEPT !.changed = @ \/ s.a[k].op = "set"]
           t == [s EXCEPT !.a[k] = [Ended(s.a[k]) EXCEPT !.changed = @ \/ s.a[k].op = "set"]]
           p == Put(s, k, b, s.retry)
           r == AddRetry(p, k)
<1>1. Core(s) /\ s \in Views /\ s.a[k] \in Actor BY DEF Good, Core, Views
<1>2. ActorOk(s.a[k]) BY <1>1 DEF Core
<1>3. s.a[k].on /\ (s.a[k].changed \/ s.a[k].op = "set") BY <1>1, <1>2 DEF ActorOk, Actor
<1>4. t = p
  <2>1. t = [s EXCEPT !.a[k] = b] OBVIOUS
  <2> HIDE DEF t, b
  <2> QED BY <1>1, <2>1 DEF Put, Views
<1>5. /\ b \in Actor /\ b.on /\ b.op = "none" /\ b.val = s.a[k].val /\ ActorOk(b)
      /\ b.wlease = 0 /\ b.changed
  <2> DEFINE e == Ended(s.a[k])
  <2>1. /\ e \in Actor /\ e.on = s.a[k].on /\ e.val = s.a[k].val /\ e.changed = s.a[k].changed
        /\ e.run = s.a[k].run /\ e.op = "none" /\ e.wlease = 0
    BY <1>1, EndedIs
  <2> HIDE DEF e
  <2>2. b = [e EXCEPT !.changed = @ \/ s.a[k].op = "set"] BY DEF e
  <2>3. b = [e EXCEPT !.changed = TRUE] BY <1>3, <2>1, <2>2 DEF Actor
  <2> HIDE DEF b
  <2> QED BY <1>3, <2>1, <2>3 DEF Actor, ActorOk
<1> HIDE DEF t, b
<1>6. Good(p) BY <1>1, <1>5, EndsRequest
<1>7. p.a[k].on BY <1>1, <1>5 DEF Put, Views
<1> HIDE DEF p
<1>8. Works(p, r)
  <2>1. p \in Views /\ Core(p) BY <1>6 DEF Good, Core
  <2>2. Works(p, p) BY <2>1, WorksRefl
  <2>3. CASE ~p.c.closing
    <3>1. /\ r \in Views /\ r.c = p.c /\ r.q = p.q /\ r.a = p.a /\ r.retry = p.retry \cup {k}
          /\ r.d = p.d /\ r.left = p.left
      BY <2>1, <2>3 DEF AddRetry, Views
    <3>2. \A j \in r.retry : p.a[j].on BY <1>7, <2>1, <3>1 DEF Core
    <3> HIDE DEF r
    <3>3. StillDeleted(p, r) BY <3>1 DEF StillDeleted
    <3>4. \A j \in Keys : GoesOn(p.c, p.a[j], r.a[j]) BY <2>2, <3>1 DEF Works
    <3> QED BY <2>2, <2>3, <3>1, <3>2, <3>3, <3>4 DEF Works
  <2>4. CASE p.c.closing BY <2>2, <2>4 DEF AddRetry
  <2> QED BY <2>3, <2>4
<1> HIDE DEF r
<1>9. Good(r) BY <1>6, <1>8, WorksGood
<1>10. Good(Failed(r, why, None)) BY <1>9, FailedWorks, WorksGood DEF Good
<1>11. KvFailed(s, k, why) = Failed(r, why, None)
  <2>1. KvFailed(s, k, why) = Failed(AddRetry(t, k), why, None) BY DEF KvFailed, t
  <2> QED BY <1>4, <2>1 DEF r
<1> QED BY <1>10, <1>11

LEMMA KvAnsweredGood ==
  ASSUME ClusterInv, NEW k \in Keys, GetAnswered(k) \/ SetAnswered(k)
  PROVE  Good(View(None))'
<1> DEFINE v == View(None)
           a == v.a[k]
           ok == actors[k].st = "clear"
           g == [v EXCEPT !.a[k] = [Ended(@) EXCEPT !.run = TRUE, !.passed = ok]]
           gb == [Ended(a) EXCEPT !.run = TRUE, !.passed = ok]
           w == [v EXCEPT !.a[k] = [Ended(@) EXCEPT !.data = TRUE]]
           wb == [Ended(a) EXCEPT !.data = TRUE]
<1>1. Good(v) /\ Core(v) /\ v \in Views /\ v.a = actors /\ ServerOk
  BY DEF ClusterInv, Good, Core, View
<1>2. \/ /\ a.op = "get" /\ UNCHANGED server
         /\ Become(IF ok THEN ResolveReady(Process(g, k)) ELSE Process(g, k))
      \/ /\ a.op = "set" /\ UNCHANGED server
         /\ Become(IF a.st = "ok" THEN Process(w, k) ELSE KvFailed(v, k, "http"))
  BY <1>1 DEF GetAnswered, SetAnswered
<1> HIDE DEF v, ok
<1>3. a \in Actor /\ ActorOk(a) /\ (a.op # "none" => a.on) BY <1>1 DEF Views, Core, ActorOk
<1>4. CASE a.op = "get"
  <2>1. /\ gb \in Actor /\ gb.on /\ gb.op = "none" /\ gb.val = a.val /\ ActorOk(gb)
        /\ gb.wlease = 0 /\ gb.changed
    <3>1. ok \in BOOLEAN BY DEF ok
    <3>2. a.on /\ a.changed BY <1>3, <1>4 DEF ActorOk
    <3> DEFINE e == Ended(a)
    <3>3. /\ e \in Actor /\ e.on /\ e.val = a.val /\ e.changed /\ e.op = "none" /\ e.wlease = 0
      BY <1>3, <3>2, EndedIs
    <3> HIDE DEF e
    <3>4. gb = [e EXCEPT !.run = TRUE, !.passed = ok] BY DEF e
    <3> HIDE DEF gb
    <3> QED BY <3>1, <3>3, <3>4 DEF Actor, ActorOk
  <2>2. g = Put(v, k, gb, v.retry) BY <1>1 DEF Put, Views
  <2>3. a.op # "none" BY <1>4
  <2> HIDE DEF g, gb
  <2>5. Good(g) /\ g.a[k].on
    <3>1. Good(g) BY <1>1, <2>1, <2>2, <2>3, EndsRequest
    <3>2. g.a[k] = gb BY <1>1, <2>2 DEF Put, Views
    <3> QED BY <2>1, <3>1, <3>2
  <2>6. Works(g, Process(g, k)) BY <2>5, ProcessWorks DEF Good
  <2>7. Core(Process(g, k)) BY <2>5, <2>6, WorksCore DEF Good
  <2>8. Works(Process(g, k), ResolveReady(Process(g, k))) BY <2>7, ReadyAside, AsideWorks DEF Core
  <2>9. Works(g, ResolveReady(Process(g, k))) BY <2>6, <2>8, WorksTrans
  <2> QED BY <1>1, <1>2, <1>4, <2>5, <2>6, <2>9, Finishes
<1>5. CASE a.op = "set"
  <2>1. a.op # "none" BY <1>5
  <2>2. CASE a.st = "ok"
    <3>1. /\ wb \in Actor /\ wb.on /\ wb.op = "none" /\ wb.val = a.val /\ ActorOk(wb)
          /\ wb.wlease = 0 /\ wb.changed = a.changed
      <4> DEFINE e == Ended(a)
      <4>1. /\ e \in Actor /\ e.on /\ e.val = a.val /\ e.changed = a.changed /\ e.op = "none"
            /\ e.wlease = 0 /\ e.run = a.run
        BY <1>3, <1>5, EndedIs
      <4> HIDE DEF e
      <4>2. wb = [e EXCEPT !.data = TRUE] BY DEF e
      <4> HIDE DEF wb
      <4> QED BY <1>3, <1>5, <4>1, <4>2 DEF Actor, ActorOk
    <3>2. w = Put(v, k, wb, v.retry) BY <1>1 DEF Put, Views
    <3>3. wb.changed \/ (a.op = "set" /\ a.st = "ok" /\ ~a.changed) BY <1>5, <2>2, <3>1
    <3> HIDE DEF w, wb
    <3>5. Good(w) /\ w.a[k].on
      <4>1. Good(w) BY <1>1, <2>1, <3>1, <3>2, <3>3, EndsRequest
      <4>2. w.a[k] = wb BY <1>1, <3>2 DEF Put, Views
      <4> QED BY <3>1, <4>1, <4>2
    <3>6. Works(w, Process(w, k)) BY <3>5, ProcessWorks DEF Good
    <3> QED BY <1>1, <1>2, <1>5, <2>2, <3>5, <3>6, Finishes
  <2>3. CASE a.st # "ok"
    <3>1. Good(KvFailed(v, k, "http")) BY <1>1, <2>1, KvFailedGood
    <3> QED BY <1>2, <1>5, <2>3, <3>1, Ends
  <2> QED BY <2>2, <2>3
<1> QED BY <1>2, <1>4, <1>5

LEMMA FailsGood ==
  ASSUME ClusterInv,
         MemberFails \/ AuthFails \/ KeepFails \/ \E k \in Keys : KvFails(k)
  PROVE  Good(View(None))'
<1> DEFINE m(h) == [View(h) EXCEPT !.q.member = None]
           a(h) == [View(h) EXCEPT !.q.auth = IdleAuth]
           q(h) == [View(h) EXCEPT !.q.keep = IdleKeep]
<1>1. UNCHANGED server /\ ServerOk
  BY DEF MemberFails, AuthFails, KeepFails, KvFails, Fault, ClusterInv
<1>2. ASSUME NEW h \in Hosts
      PROVE  /\ Good(View(h)) /\ Core(View(h))
             /\ rpc.member # None => Works(View(h), m(h))
             /\ rpc.auth.op # "none" => Works(View(h), a(h))
             /\ Works(View(h), q(h))
  <2> DEFINE v == View(h)
  <2>1. Good(v) /\ Core(v) /\ v \in Views /\ v.q = rpc BY Begins DEF Good, Core, View
  <2> HIDE DEF v
  <2>2. v.c.closing => rpc.member = None /\ rpc.auth.op = "none"
    BY <2>1 DEF Core, Silent, IdleAuth
  <2>3. IdleAuth \in [op : {"none", "auth", "user"}, to : Hosts \cup {None}] BY DEF IdleAuth
  <2>4. rpc.member # None => Aside(v, [v EXCEPT !.q.member = None])
    BY <2>1, <2>2 DEF Aside, Views, Rpc
  <2>5. rpc.auth.op # "none" => Aside(v, [v EXCEPT !.q.auth = IdleAuth])
    BY <2>1, <2>2, <2>3 DEF Aside, Views, Rpc
  <2>6. Works(v, [v EXCEPT !.q.keep = IdleKeep]) BY <2>1, IdleWorks
  <2>7. /\ rpc.member # None => Works(v, [v EXCEPT !.q.member = None])
        /\ rpc.auth.op # "none" => Works(v, [v EXCEPT !.q.auth = IdleAuth])
    BY <2>1, <2>4, <2>5, AsideWorks
  <2> QED BY <2>1, <2>6, <2>7 DEF v
<1>3. ASSUME NEW s, NEW t, NEW why, NEW to, Good(s), Works(s, t), Become(Failed(t, why, to))
      PROVE  Good(View(None))'
  <2>1. Works(s, Failed(t, why, to)) BY <1>3, WorksCore, FailedWorks, WorksTrans DEF Good
  <2> QED BY <1>1, <1>3, <2>1, Finishes
<1>4. CASE MemberFails
  <2>1. PICK h \in Hosts, why \in Reasons \ {"auth"} :
          rpc.member # None /\ Become(Failed(m(h), why, rpc.member))
    BY <1>4 DEF MemberFails
  <2> QED BY <1>2, <1>3, <2>1
<1>5. CASE AuthFails
  <2>1. PICK h \in Hosts, why \in Reasons :
          rpc.auth.op # "none" /\ Become(Failed(a(h), why, rpc.auth.to))
    BY <1>5 DEF AuthFails
  <2> QED BY <1>2, <1>3, <2>1
<1>6. CASE KeepFails
  <2>1. PICK h \in Hosts, why \in Reasons : Become(Failed(q(h), why, rpc.keep.to))
    BY <1>6 DEF KeepFails
  <2> QED BY <1>2, <1>3, <2>1
<1>7. CASE \E k \in Keys : KvFails(k)
  <2>1. PICK k \in Keys, why \in {"http", "auth"} :
          actors[k].op # "none" /\ Become(KvFailed(View(None), k, why))
    BY <1>7 DEF KvFails
  <2>2. View(None).a = actors /\ Good(View(None)) BY DEF View, ClusterInv
  <2>3. Good(KvFailed(View(None), k, why)) BY <1>1, <2>1, <2>2, KvFailedGood
  <2> QED BY <1>1, <2>1, <2>3, Ends
<1> QED BY <1>4, <1>5, <1>6, <1>7

\* A delete that failed waits to be asked for again.
LEMMA WaitsWorks ==
  ASSUME NEW s, Core(s), NEW d \in s.d
  PROVE  Works(s, RemovePath(s, d, TRUE))
<1> DEFINE D == {e \in s.d \ {d} : ~(e.key = d.key /\ e.st = "wait")}
           w == [d EXCEPT !.st = "wait"]
           t == [s EXCEPT !.d = D \cup {w}]
<1>1. s \in Views /\ d \in Deletor /\ Works(s, s) BY WorksRefl DEF Core, Views
<1>2. RemovePath(s, d, TRUE) = t BY DEF RemovePath
<1>3. w \in Deletor /\ w.key = d.key /\ w.st # "done" BY <1>1 DEF Deletor
<1> HIDE DEF w
<1>4. \A e \in s.d : e.st # "done" => \E x \in D \cup {w} : x.key = e.key /\ x.st # "done"
  <2> SUFFICES ASSUME NEW e \in s.d, e.st # "done"
               PROVE  \E x \in D \cup {w} : x.key = e.key /\ x.st # "done"
    OBVIOUS
  <2>1. CASE e.key = d.key
    <3>1. w \in D \cup {w} OBVIOUS
    <3> QED BY <1>3, <2>1, <3>1
  <2>2. CASE e.key # d.key
    <3>1. e \in D \cup {w} BY <2>2
    <3> QED BY <3>1
  <2> QED BY <2>1, <2>2
<1>5. \A x \in D \cup {w} : \E e \in s.d : x.key = e.key BY <1>3
<1>6. D \subseteq s.d OBVIOUS
<1> HIDE DEF D
<1>7. /\ t \in Views /\ t.c = s.c /\ t.q = s.q /\ t.a = s.a /\ t.retry = s.retry
      /\ t.left = s.left /\ t.d = D \cup {w}
  BY <1>1, <1>3, <1>6 DEF Views
<1> HIDE DEF t
<1>8. StillDeleted(s, t) BY <1>4, <1>5, <1>7 DEF StillDeleted
<1>9. Works(s, t) BY <1>1, <1>7, <1>8 DEF Works
<1> QED BY <1>2, <1>9

LEMMA DeletesGood ==
  ASSUME ClusterInv, NEW d \in dels, DeleteAnswered(d) \/ DeleteRefused(d) \/ DeleteFails(d)
  PROVE  Good(View(None))'
<1> DEFINE v == View(None)
<1>1. Good(v) /\ Core(v) /\ v \in Views /\ ServerOk /\ v.d = dels
  BY DEF ClusterInv, Good, Core, View
<1>2. CASE DeleteAnswered(d)
  <2> DEFINE t == [v EXCEPT !.d = @ \ {d}]
  <2>1. d.st = "done" /\ dels' = dels \ {d} /\ UNCHANGED <<conf, rpc, actors, retry, left, server>>
    BY <1>2 DEF DeleteAnswered
  <2>2. Become(t) BY <2>1 DEF Become, View
  <2> HIDE DEF v
  <2>3. /\ t \in Views /\ t.c = v.c /\ t.q = v.q /\ t.a = v.a /\ t.retry = v.retry
        /\ t.left = v.left /\ t.d = v.d \ {d}
    BY <1>1 DEF Views
  <2> HIDE DEF t
  <2>4. StillDeleted(v, t) BY <2>1, <2>3 DEF StillDeleted
  <2>5. Works(v, v) BY <1>1, WorksRefl
  <2>6. Works(v, t) BY <2>3, <2>4, <2>5 DEF Works
  <2> QED BY <1>1, <2>1, <2>2, <2>6, Finishes DEF v
<1>3. CASE DeleteRefused(d)
  <2>1. Become(RemovePath(v, d, TRUE)) /\ UNCHANGED server BY <1>3 DEF DeleteRefused
  <2> HIDE DEF v
  <2>2. Works(v, RemovePath(v, d, TRUE)) BY <1>1, WaitsWorks
  <2> QED BY <1>1, <2>1, <2>2, Finishes
<1>4. CASE DeleteFails(d)
  <2>1. PICK h \in Hosts, to \in Hosts, why \in Reasons \ {"http"} :
          Become(RemovePath(Failed(View(h), why, to), d, TRUE)) /\ UNCHANGED server
    BY <1>4 DEF DeleteFails, Fault
  <2> DEFINE w == View(h)
             f == Failed(w, why, to)
  <2>2. Good(w) /\ Core(w) /\ w \in Views /\ w.d = dels BY Begins DEF Good, Core, View
  <2> HIDE DEF w
  <2>3. Works(w, f) /\ f.d = dels
    <3>1. Aside(w, f) BY <2>2, FailedAside
    <3> QED BY <2>2, <3>1, AsideWorks DEF Aside
  <2> HIDE DEF f
  <2>4. Core(f) BY <2>2, <2>3, WorksCore
  <2>5. Works(f, RemovePath(f, d, TRUE)) BY <2>3, <2>4, WaitsWorks
  <2>6. Works(w, RemovePath(f, d, TRUE)) BY <2>3, <2>5, WorksTrans
  <2>7. Become(RemovePath(f, d, TRUE)) /\ UNCHANGED server BY <2>1 DEF f, w
  <2> QED BY <1>1, <2>2, <2>6, <2>7, Finishes
<1> QED BY <1>2, <1>3, <1>4

-----------------------------------------------------------------------------

LEMMA UsesServer ==
  ASSUME ServerOk, View(None) \in Views, UNCHANGED server,
         revoke' \in {revoke, 0, conf.lease},
         removes' \in 0 .. MaxRemoves /\ faults' \in 0 .. MaxFaults /\ net' \in 0 .. MaxNet
  PROVE  ServerOk'
<1>1. 0 \in Leases /\ conf.lease \in Leases BY ClusterConstants DEF Leases, View, Views, Conf
<1> QED BY <1>1 DEF ServerOk, server

LEMMA FaultServer ==
  ASSUME ServerOk, NEW why \in Reasons, Fault(why), View(None) \in Views
  PROVE  ServerOk'
<1>1. UNCHANGED <<server, revoke, removes>> /\ faults < MaxFaults /\ faults' = faults + 1
      /\ net' = IF why = "net" THEN net + 1 ELSE net
  BY DEF Fault
<1>2. why = "net" => net < MaxNet BY DEF Reasons
<1>3. /\ removes \in 0 .. MaxRemoves /\ faults \in 0 .. MaxFaults /\ net \in 0 .. MaxNet
      /\ MaxFaults \in Nat /\ MaxNet \in Nat
  BY ClusterConstants DEF ServerOk
<1>4. faults' \in 0 .. MaxFaults /\ net' \in 0 .. MaxNet BY <1>1, <1>2, <1>3
<1> QED BY <1>1, <1>3, <1>4, UsesServer

LEMMA ServerKept ==
  ASSUME ClusterInv,
         \/ Tick \/ (\E x \in Timers : TimePasses(x)) \/ Uses \/ Answers
         \/ MemberFails \/ AuthFails \/ KeepFails \/ RevokeFails
         \/ (\E k \in Keys : KvFails(k))
         \/ \E d \in dels : DeleteFails(d) \/ DeleteRefused(d)
  PROVE  ServerOk' /\ UNCHANGED server
<1>1. ServerOk /\ View(None) \in Views BY DEF ClusterInv, Good, Core
<1>2. /\ removes \in 0 .. MaxRemoves /\ faults \in 0 .. MaxFaults /\ net \in 0 .. MaxNet
      /\ MaxRemoves \in Nat /\ MaxFaults \in Nat
  BY <1>1, ClusterConstants DEF ServerOk
<1>3. faults < MaxFaults => faults + 1 \in 0 .. MaxFaults BY <1>2
<1>4. removes < MaxRemoves => removes + 1 \in 0 .. MaxRemoves BY <1>2
<1>5. CASE UNCHANGED <<server, revoke, counters>>
  BY <1>1, <1>2, <1>5, UsesServer DEF counters
<1>6. CASE Tick BY <1>5, <1>6 DEF Tick
<1>7. CASE \E x \in Timers : TimePasses(x)
  <2>1. PICK x \in Timers : TimePasses(x) BY <1>7
  <2>2. /\ UNCHANGED <<server, revoke>>
        /\ \/ UNCHANGED counters
           \/ faults < MaxFaults /\ faults' = faults + 1 /\ UNCHANGED <<removes, net>>
    BY <2>1 DEF TimePasses
  <2> QED BY <1>1, <1>2, <1>3, <2>2, UsesServer DEF counters
<1>8. CASE Uses
  <2>1. CASE \E k \in Keys : AddKeepalive(k) \/ SetValue(k)
    BY <1>5, <2>1 DEF AddKeepalive, SetValue
  <2>2. CASE \E k \in Keys : RemoveKeepalive(k)
    <3>1. /\ UNCHANGED <<server, revoke, faults, net>> /\ removes < MaxRemoves
          /\ removes' = removes + 1
      BY <2>2 DEF RemoveKeepalive
    <3> QED BY <1>1, <1>2, <1>4, <3>1, UsesServer
  <2>3. CASE \E revoking \in BOOLEAN : Close(revoking)
    <3>1. UNCHANGED <<server, counters>> /\ revoke' \in {0, conf.lease}
      BY <2>3 DEF Close
    <3> QED BY <1>1, <1>2, <3>1, UsesServer DEF counters
  <2> QED BY <1>8, <2>1, <2>2, <2>3 DEF Uses
<1>9. CASE Answers
  BY <1>5, <1>9 DEF Answers, MemberAnswered, AuthAnswered, UserAnswered, KeepAnswered,
                    GetAnswered, SetAnswered, DeleteAnswered, server
<1>10. CASE \E why \in Reasons : Fault(why)
  <2>1. UNCHANGED server BY <1>10 DEF Fault
  <2> QED BY <1>1, <1>10, <2>1, FaultServer
<1>11. CASE MemberFails \/ AuthFails \/ KeepFails BY <1>10, <1>11 DEF MemberFails, AuthFails, KeepFails
<1>12. CASE \E k \in Keys : KvFails(k) BY <1>10, <1>12 DEF KvFails, Reasons
<1>13. CASE RevokeFails
  <2>1. /\ UNCHANGED <<server, removes, net>> /\ revoke' = 0 /\ faults < MaxFaults
        /\ faults' = faults + 1
    BY <1>13 DEF RevokeFails
  <2>2. 0 \in Leases BY ClusterConstants DEF Leases
  <2> QED BY <1>1, <1>2, <1>3, <2>1, <2>2 DEF ServerOk, server
<1>14. CASE \E d \in dels : DeleteFails(d) BY <1>10, <1>14 DEF DeleteFails
<1>15. CASE \E d \in dels : DeleteRefused(d) BY <1>5, <1>15 DEF DeleteRefused
<1> QED BY <1>6, <1>7, <1>8, <1>9, <1>11, <1>12, <1>13, <1>14, <1>15

LEMMA NextGood == ASSUME ClusterInv, Next PROVE ClusterInv'
<1>1. CASE HandleKeep BY <1>1, HandleKeepGood
<1>2. CASE HandleRevoke \/ \E l \in alive : Expire(l)
  <2>1. ServerOk BY DEF ClusterInv
  <2>2. /\ alive \subseteq Leases \ {0} /\ revoke \in Leases
        /\ faults \in 0 .. MaxFaults /\ MaxFaults \in Nat
    BY <2>1, ClusterConstants DEF ServerOk, Leases
  <2>3. CASE HandleRevoke
    <3>1. revoke # 0 /\ LeaseEnds(revoke) /\ revoke' = 0 /\ UNCHANGED <<client, counters>>
      BY <2>3 DEF HandleRevoke
    <3> QED BY <2>2, <3>1, LeaseEndsGood DEF counters
  <2>4. CASE \E l \in alive : Expire(l)
    <3>1. PICK l \in alive : Expire(l) BY <2>4
    <3>2. /\ faults < MaxFaults /\ faults' = faults + 1 /\ LeaseEnds(l)
          /\ UNCHANGED <<client, revoke, removes, net>>
      BY <3>1 DEF Expire
    <3>3. faults' \in 0 .. MaxFaults BY <2>2, <3>2
    <3> QED BY <2>2, <3>2, <3>3, LeaseEndsGood
  <2> QED BY <1>2, <2>3, <2>4
<1>3. CASE \E k \in Keys : HandleKv(k) BY <1>3, HandleKvGood
<1>4. CASE \E d \in dels : HandleDelete(d) BY <1>4, HandleDeleteGood
<1>5. CASE Tick BY <1>5, ServerKept, TickGood DEF ClusterInv
<1>6. CASE \E x \in Timers : TimePasses(x) BY <1>6, ServerKept, TimeGood DEF ClusterInv
<1>7. CASE Uses
  <2>1. Good(View(None))' BY <1>7, AddGood, SetGood, RemoveGood, CloseGood DEF Uses
  <2> QED BY <1>7, <2>1, ServerKept DEF ClusterInv
<1>8. CASE Answers
  <2>1. Good(View(None))'
    BY <1>8, MemberAnsweredGood, AuthAnsweredGood, KeepAnsweredGood, KvAnsweredGood,
       DeletesGood DEF Answers
  <2> QED BY <1>8, <2>1, ServerKept DEF ClusterInv
<1>9. CASE MemberFails \/ AuthFails \/ KeepFails \/ \E k \in Keys : KvFails(k)
  <2>1. ServerOk' BY <1>9, ServerKept
  <2> QED BY <1>9, <2>1, FailsGood DEF ClusterInv
<1>10. CASE \E d \in dels : DeleteFails(d) \/ DeleteRefused(d)
  <2>1. ServerOk' BY <1>10, ServerKept
  <2> QED BY <1>10, <2>1, DeletesGood DEF ClusterInv
<1>11. CASE RevokeFails
  <2>1. ServerOk' /\ UNCHANGED server BY <1>11, ServerKept
  <2>2. UNCHANGED client /\ Good(View(None)) BY <1>11 DEF RevokeFails, ClusterInv
  <2>3. View(None)' = View(None) BY <2>2 DEF client, View
  <2>4. Good(View(None))' BY <2>1, <2>2, <2>3 DEF server, Good, Core, Known, Gone, Told, Silent
  <2> QED BY <2>1, <2>4 DEF ClusterInv
<1> QED
  BY <1>1, <1>2, <1>3, <1>4, <1>5, <1>6, <1>7, <1>8, <1>9, <1>10, <1>11
  DEF Next, Handles, Faults

LEMMA StutterGood == ASSUME ClusterInv, UNCHANGED vars PROVE ClusterInv'
<1>1. UNCHANGED <<client, server, revoke, counters>> BY DEF vars
<1>2. View(None)' = View(None) BY <1>1 DEF client, View
<1>3. ServerOk' BY <1>1 DEF ClusterInv, ServerOk, server, counters
<1>4. Good(View(None))' BY <1>1, <1>2 DEF ClusterInv, server, Good, Core, Known, Gone, Told, Silent
<1> QED BY <1>3, <1>4 DEF ClusterInv

THEOREM ClusterInvariant == Spec => []ClusterInv
<1>1. Init => ClusterInv BY InitGood
<1>2. ClusterInv /\ [Next]_vars => ClusterInv' BY NextGood, StutterGood
<1> QED BY <1>1, <1>2, PTL DEF Spec

\* The client is well formed in every state, and a closed one holds nothing: no
\* failure, late answer or lost member of the cluster wakes it up again
\* (etcd_cluster::close(), etcd_cluster.cpp:305).
THEOREM EtcdPhaseConsistent == Spec => []PhaseConsistent
<1>1. ClusterInv => PhaseConsistent
  <2> SUFFICES ASSUME ClusterInv PROVE PhaseConsistent OBVIOUS
  <2>1. ServerOk /\ Core(View(None)) BY DEF ClusterInv, Good
  <2>2. /\ conf \in Conf /\ rpc \in Rpc /\ actors \in [Keys -> Actor] /\ retry \subseteq Keys
        /\ dels \subseteq Deletor /\ left \subseteq Keys
    BY <2>1 DEF Core, View, Views
  <2>3. alive \subseteq 1 .. MaxLease BY <2>1, ClusterConstants DEF ServerOk, Leases
  <2>4. TypeOK BY <2>1, <2>2, <2>3 DEF ServerOk, TypeOK
  <2>5. conf.closing => Silent(View(None)) BY <2>1 DEF Core, View
  <2>6. QuietAfterClose BY <2>5 DEF QuietAfterClose, Silent, View
  <2> QED BY <2>4, <2>6 DEF PhaseConsistent
<1> QED BY <1>1, ClusterInvariant, PTL

\* A keepalive with nothing to send has its value on the server under the live
\* lease, whatever failed, expired or was set while a write was in flight, as
\* long as no delete can hit the path of another keepalive (set_lease(),
\* etcd_cluster.cpp:919; the active() of the callbacks).
THEOREM EtcdBeliefTrue == ASSUME DeletesApart PROVE Spec => []BeliefTrue
<1>1. ClusterInv => BeliefTrue
  BY DEF ClusterInv, Good, Told, View, BeliefTrue
<1> QED BY <1>1, ClusterInvariant, PTL

\* A value left on the server has somebody who deletes it until that is given up
\* (remove_keepalive_path(), etcd_cluster.cpp:740).
THEOREM EtcdRemovedGone == Spec => []RemovedGone
<1>1. ClusterInv => RemovedGone
  BY DEF ClusterInv, Good, Gone, View, RemovedGone
<1> QED BY <1>1, ClusterInvariant, PTL

-----------------------------------------------------------------------------
(* What waits is started again.  retry_pending_actions() forgets what it could *)
(* not start, which needs a member of the cluster: the proof is about clusters *)
(* that do not lose all their members to network failures.                     *)

Manned == IsFiniteSet(Hosts) /\ MaxNet < Cardinality(Hosts)

\* A member is in use from the first one on, and a failure costs one at most.
Steered(c, n) ==
    /\ n \in 0 .. MaxNet
    /\ c.node = None => c.hosts = {}
    /\ c.node # None => Cardinality(Hosts \ c.hosts) <= n

\* There is a member wherever there is a lease, or may be one.
Led(s) == (s.c.lease # 0 \/ s.q.keep.op # "none") => s.c.node # None

\* A keepalive that only the retry list would start again.
Owes(a) == a.on /\ a.op = "none" /\ a.changed /\ ~(a.run /\ ~a.passed)

Awaits(s, k) == Owes(s.a[k]) /\ s.c.running /\ s.c.lease # 0 => k \in s.retry

Minds(s, n) ==
    /\ Steered(s.c, n) /\ Led(s)
    /\ \A k \in Keys : Awaits(s, k)

LEMMA HostsLeft ==
  ASSUME Manned, NEW c, NEW n, Steered(c, n), c.node # None
  PROVE  c.hosts # {}
<1>1. MaxNet \in Nat /\ n \in 0 .. MaxNet BY ClusterConstants DEF Steered
<1>2. Cardinality(Hosts) \in Nat BY FS_CardinalityType DEF Manned
<1>3. Hosts \ {} = Hosts OBVIOUS
<1> QED BY <1>1, <1>2, <1>3 DEF Manned, Steered

LEMMA OneLess ==
  ASSUME Manned, NEW H \in SUBSET Hosts, NEW bad
  PROVE  /\ Cardinality(Hosts \ (H \ {bad})) <= Cardinality(Hosts \ H) + 1
         /\ Cardinality(Hosts \ H) \in Nat
         /\ Cardinality(Hosts \ Hosts) = 0
<1> DEFINE S == Hosts \ H
           T == Hosts \ (H \ {bad})
<1>1. IsFiniteSet(S) BY FS_Subset DEF Manned
<1>2. IsFiniteSet(S \cup {bad}) /\ Cardinality(S \cup {bad}) \in {Cardinality(S), Cardinality(S) + 1}
  BY <1>1, FS_AddElement
<1>3. T \in SUBSET (S \cup {bad}) OBVIOUS
<1>4. IsFiniteSet(T) /\ Cardinality(T) <= Cardinality(S \cup {bad}) BY <1>2, <1>3, FS_Subset
<1>5. Cardinality(S) \in Nat /\ Cardinality(T) \in Nat BY <1>1, <1>4, FS_CardinalityType
<1>6. Cardinality(Hosts \ Hosts) = 0
  <2>1. Hosts \ Hosts = {} OBVIOUS
  <2> QED BY <2>1, FS_EmptySet
<1> HIDE DEF S, T
<1>7. Cardinality(T) <= Cardinality(S) + 1 BY <1>2, <1>4, <1>5
<1> QED BY <1>5, <1>6, <1>7 DEF S, T

\* A step beside the keepalives that keeps the member in use, or another one.
LEMMA AsideMinds ==
  ASSUME NEW s, NEW t, NEW n, NEW m, Minds(s, n), Aside(s, t), Steered(t.c, m),
         s.c.node # None => t.c.node # None
  PROVE  Minds(t, m)
<1>1. /\ t.a = s.a /\ t.retry = s.retry /\ t.q.keep = s.q.keep /\ t.c.lease = s.c.lease
      /\ t.c.running = s.c.running
  BY DEF Aside
<1>2. Led(t) BY <1>1 DEF Minds, Led
<1>3. \A k \in Keys : Awaits(t, k) BY <1>1 DEF Minds, Awaits
<1> QED BY <1>2, <1>3 DEF Minds

LEMMA SelectIs ==
  ASSUME NEW s \in Views
  PROVE  /\ Select(s).c.hosts = s.c.hosts /\ Select(s).c.due = s.c.due
         /\ s.c.hosts # {} => Select(s).c.node # None
         /\ s.c.hosts = {} => Select(s).c.node = None
<1> DEFINE n == IF s.c.hosts = {} THEN None ELSE Draw(s, s.c.hosts)
<1>1. s.c.hosts # {} => n # None BY DrawIn, ClusterConstants DEF Views, Conf
<1>2. Select(s) = [s EXCEPT !.c.node = n] BY DEF Select
<1>3. s.c.hosts = {} => n = None OBVIOUS
<1> HIDE DEF n
<1> QED BY <1>1, <1>2, <1>3 DEF Views, Conf

LEMMA CreateMemberMinds ==
  ASSUME Manned, NEW s \in Views, NEW n, Minds(s, n)
  PROVE  Minds(CreateMember(s), n)
<1> DEFINE t == [s EXCEPT !.c.due = @ \ {"member"}, !.q.member = None]
           m == Draw(s, IF s.c.hosts = {} THEN Hosts ELSE s.c.hosts)
           v == [t EXCEPT !.c.hosts = Hosts]
           w == [t EXCEPT !.q.member = m]
           r == CreateMember(s)
<1>1. r = IF s.c.closing THEN s
          ELSE IF ~AutoUpdate THEN IF s.c.hosts = {} THEN Select(v) ELSE t ELSE w
  BY DEF CreateMember
<1>2. /\ t.c.node = s.c.node /\ t.c.hosts = s.c.hosts /\ w.c = t.c /\ v.c.hosts = Hosts
      /\ v \in Views
  <2> HIDE DEF m
  <2> QED BY DEF Views, Conf, Rpc
<1>3. Aside(s, r) BY CreateMemberAside
<1> HIDE DEF t, v, w, r
<1>4. Select(v).c.node # None /\ Select(v).c.hosts = Hosts BY <1>2, SelectIs, ClusterConstants
<1>5. s.c.hosts \in SUBSET Hosts /\ Steered(s.c, n) BY DEF Minds, Views, Conf
<1>6. Cardinality(Hosts \ Hosts) <= n
  <2>1. Cardinality(Hosts \ Hosts) = 0 BY <1>5, OneLess
  <2>2. n \in 0 .. MaxNet /\ MaxNet \in Nat BY <1>5, ClusterConstants DEF Steered
  <2> QED BY <2>1, <2>2
<1>7. Steered(Select(v).c, n) BY <1>4, <1>5, <1>6 DEF Steered
<1>8. Steered(t.c, n) /\ Steered(w.c, n) BY <1>2, <1>5 DEF Steered
<1>9. Steered(r.c, n) /\ (s.c.node # None => r.c.node # None)
  BY <1>1, <1>2, <1>4, <1>5, <1>7, <1>8
<1>10. Minds(r, n) BY <1>3, <1>9, AsideMinds
<1> QED BY <1>10 DEF r

LEMMA FailedMinds ==
  ASSUME Manned, NEW s \in Views, NEW n, Minds(s, n), NEW why, NEW to,
         why = "net" => n < MaxNet
  PROVE  Minds(Failed(s, why, to), IF why = "net" THEN n + 1 ELSE n)
<1> DEFINE v == [s EXCEPT !.c.hosts = @ \ {to}]
           t == IF s.c.node = None THEN Select(s)
                ELSE IF s.c.node = to THEN Select(v) ELSE s
           r == RetryMember(s, to)
           e == [s EXCEPT !.c.token = FALSE]
<1>1. s.c.hosts \in SUBSET Hosts /\ Steered(s.c, n) /\ n \in 0 .. MaxNet /\ MaxNet \in Nat
  BY ClusterConstants DEF Minds, Steered, Views, Conf
<1>2. CASE why = "net"
  <2>1. n + 1 \in 0 .. MaxNet BY <1>1, <1>2
  <2>2. v \in Views /\ v.c.hosts = s.c.hosts \ {to} /\ Aside(s, v) BY DEF Views, Conf, Aside
  <2>3. Aside(s, t)
    <3>1. Aside(s, Select(s)) /\ Aside(v, Select(v)) BY <2>2, SelectAside
    <3>2. Aside(s, Select(v)) BY <2>2, <3>1, AsideTrans
    <3>3. Aside(s, s) BY DEF Aside
    <3> QED BY <3>1, <3>2, <3>3
  <2>4. /\ Cardinality(Hosts \ v.c.hosts) <= Cardinality(Hosts \ s.c.hosts) + 1
        /\ Cardinality(Hosts \ s.c.hosts) \in Nat
    BY <1>1, <2>2, OneLess
  <2> HIDE DEF v
  <2>5. Steered(t.c, n + 1) /\ (s.c.node # None => t.c.node # None)
    <3>1. CASE s.c.node = None
      <4>1. s.c.hosts = {} /\ t = Select(s) BY <1>1, <3>1 DEF Steered
      <4>2. t.c.node = None /\ t.c.hosts = {} BY <4>1, SelectIs
      <4> QED BY <2>1, <3>1, <4>2 DEF Steered
    <3>2. CASE s.c.node # None /\ s.c.node = to
      <4>1. Cardinality(Hosts \ s.c.hosts) <= n BY <1>1, <3>2 DEF Steered
      <4>2. Cardinality(Hosts \ v.c.hosts) <= n + 1
        <5>1. Cardinality(Hosts \ v.c.hosts) \in Nat
          <6>1. v.c.hosts \in SUBSET Hosts BY <2>2 DEF Views, Conf
          <6> QED BY <6>1, OneLess
        <5> QED BY <1>1, <2>4, <4>1, <5>1
      <4>3. v.c.hosts # {}
        <5>1. Hosts \ {} = Hosts OBVIOUS
        <5>2. Cardinality(Hosts) \in Nat /\ MaxNet < Cardinality(Hosts)
          BY FS_CardinalityType DEF Manned
        <5> QED BY <1>1, <2>1, <4>2, <5>1, <5>2
      <4>4. t = Select(v) BY <3>2
      <4>5. t.c.node # None /\ t.c.hosts = v.c.hosts BY <2>2, <4>3, <4>4, SelectIs
      <4> QED BY <2>1, <4>2, <4>5 DEF Steered
    <3>3. CASE s.c.node # None /\ s.c.node # to
      <4>1. t = s /\ Cardinality(Hosts \ s.c.hosts) <= n BY <1>1, <3>3 DEF Steered
      <4>2. Cardinality(Hosts \ s.c.hosts) <= n + 1 BY <1>1, <2>4, <4>1
      <4> QED BY <2>1, <3>3, <4>1, <4>2 DEF Steered
    <3> QED BY <3>1, <3>2, <3>3
  <2>6. r = IF "member" \in t.c.due THEN CreateMember(t) ELSE t BY DEF RetryMember, v
  <2> HIDE DEF t, r
  <2>7. Minds(t, n + 1) /\ t \in Views
    BY <2>3, <2>5, AsideMinds DEF Aside
  <2>8. Minds(CreateMember(t), n + 1) BY <2>7, CreateMemberMinds
  <2>9. Minds(r, n + 1) BY <2>6, <2>7, <2>8
  <2> QED BY <1>2, <2>9 DEF Failed, r
<1>3. CASE why # "net"
  <2>1. Aside(s, e) /\ e.c.node = s.c.node /\ e.c.hosts = s.c.hosts BY DEF Aside, Views, Conf
  <2> HIDE DEF e
  <2>2. Steered(e.c, n) BY <1>1, <2>1 DEF Steered
  <2>3. Minds(e, n) BY <2>1, <2>2, AsideMinds
  <2>4. Failed(s, why, to) \in {e, s} BY <1>3 DEF Failed, e
  <2> QED BY <1>3, <2>3, <2>4
<1> QED BY <1>2, <1>3

\* active() starts what is to be written, or puts the keepalive in the list.
LEMMA ProcessOwes ==
  ASSUME NEW s \in Views, NEW k \in Keys, ~s.c.closing
  PROVE  /\ Process(s, k).c = s.c /\ Process(s, k).q = s.q
         /\ \A j \in Keys \ {k} : Process(s, k).a[j] = s.a[j]
         /\ s.retry \subseteq Process(s, k).retry
         /\ Owes(Process(s, k).a[k]) => k \in Process(s, k).retry /\ ~CanSet(s)
<1> DEFINE a == IF k \in Checked THEN s.a[k]
                ELSE [s.a[k] EXCEPT !.run = TRUE, !.passed = TRUE]
           t == [s EXCEPT !.a[k] = a]
           g == [a EXCEPT !.op = "get", !.st = "sent"]
           w == [a EXCEPT !.changed = FALSE, !.op = "set", !.st = "sent",
                          !.wval = a.val, !.wlease = s.c.lease]
           R == s.retry \cup {k}
           p == Process(s, k)
<1>1. s.a[k] \in Actor /\ a \in Actor
  <2>1. s.a[k] \in Actor BY DEF Views
  <2> QED BY <2>1 DEF Actor
<1>2. p = IF s.a[k].op # "none" THEN s
          ELSE IF ~a.run
          THEN IF ~CanAsk(s) THEN AddRetry(t, k)
               ELSE [t EXCEPT !.a[k].op = "get", !.a[k].st = "sent"]
          ELSE IF ~a.passed \/ ~a.changed THEN t
          ELSE IF ~CanSet(s) THEN AddRetry(t, k)
          ELSE [t EXCEPT !.a[k] = w]
  BY DEF Process
<1>3. t = Put(s, k, a, s.retry) BY DEF Put, Views
<1>4. AddRetry(t, k) = Put(s, k, a, R) BY DEF Put, Views, AddRetry
<1>5. /\ [t EXCEPT !.a[k].op = "get", !.a[k].st = "sent"] = Put(s, k, g, s.retry)
      /\ [t EXCEPT !.a[k] = w] = Put(s, k, w, s.retry)
  <2> HIDE DEF a, t, w
  <2>1. [t EXCEPT !.a[k].op = "get", !.a[k].st = "sent"] = Put(s, k, g, s.retry)
    BY <1>1, <1>3, PutGets
  <2>2. [t EXCEPT !.a[k] = w] = Put(s, k, w, s.retry) BY <1>1, <1>3, PutTwice
  <2> QED BY <2>1, <2>2
<1>6. ~Owes(g) /\ ~Owes(w) BY <1>1 DEF Owes, Actor
<1> HIDE DEF a, t, g, w, R, p
<1>7. \A b, L : /\ Put(s, k, b, L).a[k] = b /\ Put(s, k, b, L).retry = L
                /\ Put(s, k, b, L).c = s.c /\ Put(s, k, b, L).q = s.q
                /\ \A j \in Keys \ {k} : Put(s, k, b, L).a[j] = s.a[j]
  BY DEF Put, Views
<1>8. R = s.retry \cup {k} BY DEF R
<1>9. p = s \/ \E b, L : p = Put(s, k, b, L) BY <1>2, <1>3, <1>4, <1>5
<1>10. p.c = s.c /\ p.q = s.q /\ \A j \in Keys \ {k} : p.a[j] = s.a[j] BY <1>7, <1>9
<1>11. /\ s.retry \subseteq p.retry
       /\ Owes(p.a[k]) => k \in p.retry /\ ~CanSet(s)
  <2>1. CASE s.a[k].op # "none" BY <1>2, <2>1 DEF Owes
  <2>2. CASE s.a[k].op = "none" /\ ~a.run /\ ~CanAsk(s)
    BY <1>2, <1>4, <1>7, <1>8, <2>2 DEF CanSet
  <2>3. CASE s.a[k].op = "none" /\ ~a.run /\ CanAsk(s)
    <3>1. p = Put(s, k, g, s.retry) BY <1>2, <1>5, <2>3
    <3>2. p.a[k] = g /\ p.retry = s.retry BY <1>7, <3>1
    <3> QED BY <1>6, <3>2
  <2>4. CASE s.a[k].op = "none" /\ a.run /\ (~a.passed \/ ~a.changed)
    <3>1. ~Owes(a) BY <2>4 DEF Owes
    <3>2. p.a[k] = a /\ p.retry = s.retry BY <1>2, <1>3, <1>7, <2>4
    <3> QED BY <3>1, <3>2
  <2>5. CASE s.a[k].op = "none" /\ a.run /\ a.passed /\ a.changed /\ ~CanSet(s)
    BY <1>2, <1>4, <1>7, <1>8, <2>5
  <2>6. CASE s.a[k].op = "none" /\ a.run /\ a.passed /\ a.changed /\ CanSet(s)
    <3>1. p = Put(s, k, w, s.retry) BY <1>2, <1>5, <2>6
    <3>2. p.a[k] = w /\ p.retry = s.retry BY <1>7, <3>1
    <3> QED BY <1>6, <3>2
  <2> QED BY <2>1, <2>2, <2>3, <2>4, <2>5, <2>6
<1> QED BY <1>10, <1>11 DEF p

LEMMA ActiveAllOwes ==
  ASSUME NEW s \in Views, NEW ks \in SUBSET Keys, ~s.c.closing
  PROVE  LET r == ActiveAll(s, ks)
         IN /\ r.c = s.c /\ r.q = s.q /\ s.retry \subseteq r.retry
            /\ \A k \in ks : Owes(r.a[k]) => k \in r.retry /\ ~CanSet(s)
            /\ \A k \in Keys \ ks : r.a[k] = s.a[k]
<1> DEFINE A(k) == Process(s, k).a[k]
           R(k) == Process(s, k).retry
           f == [k \in Keys |-> IF k \in ks THEN A(k) ELSE s.a[k]]
           L == s.retry \cup UNION {R(k) : k \in ks}
           r == ActiveAll(s, ks)
<1>1. r = [s EXCEPT !.a = f, !.retry = L] BY DEF ActiveAll
<1>2. \A k \in ks : Owes(A(k)) => k \in R(k) /\ ~CanSet(s) BY ProcessOwes
<1> HIDE DEF A, R, r
<1>3. s.retry \subseteq L /\ \A k \in ks : R(k) \subseteq L OBVIOUS
<1>4. /\ \A k \in ks : f[k] = A(k)
      /\ \A k \in Keys \ ks : f[k] = s.a[k]
  OBVIOUS
<1> HIDE DEF f, L
<1>5. r.c = s.c /\ r.q = s.q /\ r.a = f /\ r.retry = L BY <1>1 DEF Views
<1>6. \A k \in ks : Owes(r.a[k]) => k \in r.retry /\ ~CanSet(s) BY <1>2, <1>3, <1>4, <1>5
<1>7. \A k \in Keys \ ks : r.a[k] = s.a[k] BY <1>4, <1>5
<1> QED BY <1>3, <1>5, <1>6, <1>7 DEF r

LEMMA MarkedIs ==
  ASSUME NEW s \in Views, NEW ks \in SUBSET Keys
  PROVE  LET m == Marked(s, ks)
         IN /\ m \in Views /\ m.c = s.c /\ m.q = s.q /\ m.retry = s.retry
            /\ \A k \in Keys \ ks : m.a[k] = s.a[k]
<1> DEFINE f == [k \in Keys |-> [s.a[k] EXCEPT !.changed = @ \/ k \in ks]]
           m == Marked(s, ks)
<1>1. m = [s EXCEPT !.a = f] BY DEF Marked
<1>2. \A k \in Keys : s.a[k] \in Actor BY DEF Views
<1>3. \A k \in Keys : f[k] \in Actor
  <2> SUFFICES ASSUME NEW k \in Keys PROVE f[k] \in Actor OBVIOUS
  <2>1. f[k] = [s.a[k] EXCEPT !.changed = @ \/ k \in ks] OBVIOUS
  <2> HIDE DEF f
  <2> QED BY <1>2, <2>1 DEF Actor
<1>4. \A k \in Keys \ ks : f[k] = s.a[k]
  <2> SUFFICES ASSUME NEW k \in Keys, k \notin ks PROVE f[k] = s.a[k] OBVIOUS
  <2>1. f[k] = [s.a[k] EXCEPT !.changed = @ \/ k \in ks] OBVIOUS
  <2> HIDE DEF f
  <2> QED BY <1>2, <2>1 DEF Actor
<1>5. f \in [Keys -> Actor] BY <1>3
<1> HIDE DEF f, m
<1>6. m \in Views /\ m.c = s.c /\ m.q = s.q /\ m.retry = s.retry /\ m.a = f
  BY <1>1, <1>5 DEF Views
<1>7. \A k \in Keys \ ks : m.a[k] = s.a[k] BY <1>4, <1>6
<1> QED BY <1>6, <1>7 DEF m

LEMMA ReactivateOwes ==
  ASSUME NEW s \in Views, NEW ks \in SUBSET Keys, ~s.c.closing
  PROVE  LET r == Reactivate(s, ks)
         IN /\ r.c = s.c /\ r.q = s.q /\ s.retry \subseteq r.retry
            /\ \A k \in ks : Owes(r.a[k]) => k \in r.retry /\ ~CanSet(s)
            /\ \A k \in Keys \ ks : r.a[k] = s.a[k]
<1> DEFINE m == Marked(s, ks)
           r == ActiveAll(m, ks)
<1>1. /\ m \in Views /\ m.c = s.c /\ m.q = s.q /\ m.retry = s.retry
      /\ \A k \in Keys \ ks : m.a[k] = s.a[k]
  BY MarkedIs
<1>2. CanSet(m) = CanSet(s) BY <1>1 DEF CanSet, CanAsk
<1> HIDE DEF m
<1>3. /\ r.c = m.c /\ r.q = m.q /\ m.retry \subseteq r.retry
      /\ \A k \in ks : Owes(r.a[k]) => k \in r.retry /\ ~CanSet(m)
      /\ \A k \in Keys \ ks : r.a[k] = m.a[k]
  BY <1>1, ActiveAllOwes
<1>4. Reactivate(s, ks) = r BY DEF Reactivate, m
<1> HIDE DEF r
<1> QED BY <1>1, <1>2, <1>3, <1>4

\* What waits in the list is started; there is a member and a lease for it.
LEMMA RetryPendingMinds ==
  ASSUME NEW s, Core(s), NEW n, Minds(s, n)
  PROVE  Minds(RetryPending(s), n)
<1> DEFINE r == Reactivate(s, s.retry)
           t == IF s.c.lease = 0 THEN s ELSE [r EXCEPT !.retry = {}]
           u == RetryPending(s)
<1>1. s \in Views /\ s.retry \in SUBSET Keys BY DEF Core, Views
<1>2. u.c = t.c /\ u.q = t.q /\ u.a = t.a /\ u.retry = t.retry
  <2>1. r \in Views
    <3>1. Works(s, r) BY <1>1, ReactivateWorks DEF Core
    <3> QED BY <3>1 DEF Works
  <2>2. t \in Views
    <3> HIDE DEF r
    <3> QED BY <1>1, <2>1 DEF Views
  <2>3. \E D, L : u = [t EXCEPT !.d = D, !.left = L] BY DEF RetryPending
  <2> HIDE DEF t, u
  <2> QED BY <2>2, <2>3 DEF Views
<1> HIDE DEF u
<1>3. CASE s.c.lease = 0
  <2>1. t = s BY <1>3
  <2> QED BY <1>2, <2>1 DEF Minds, Led, Awaits, u
<1>4. CASE s.c.lease # 0
  <2>1. ~s.c.closing /\ CanSet(s)
    BY <1>4 DEF Core, Silent, Minds, Led, CanSet, CanAsk
  <2>2. /\ r.c = s.c /\ r.q = s.q
        /\ \A k \in s.retry : Owes(r.a[k]) => k \in r.retry /\ ~CanSet(s)
        /\ \A k \in Keys \ s.retry : r.a[k] = s.a[k]
    BY <1>1, <2>1, ReactivateOwes
  <2>3. r \in Views
    <3>1. Works(s, r) BY <1>1, ReactivateWorks DEF Core
    <3> QED BY <3>1 DEF Works
  <2> HIDE DEF r
  <2>4. t = [r EXCEPT !.retry = {}] BY <1>4
  <2>5. t.c = s.c /\ t.q = s.q /\ t.a = r.a BY <2>2, <2>3, <2>4 DEF Views
  <2>6. \A k \in Keys : ~(Owes(t.a[k]) /\ s.c.running)
    BY <1>4, <2>1, <2>2, <2>5 DEF Minds, Awaits
  <2> HIDE DEF t
  <2> QED BY <1>2, <2>5, <2>6 DEF Minds, Led, Awaits, u
<1> QED BY <1>3, <1>4

\* active() of one keepalive, which alone may be without anybody to start it.
LEMMA ProcessMinds ==
  ASSUME NEW s \in Views, NEW k \in Keys, ~s.c.closing, NEW n, Steered(s.c, n), Led(s),
         \A j \in Keys \ {k} : Awaits(s, j)
  PROVE  Minds(Process(s, k), n)
<1> DEFINE p == Process(s, k)
<1>1. /\ p.c = s.c /\ p.q = s.q /\ s.retry \subseteq p.retry
      /\ \A j \in Keys \ {k} : p.a[j] = s.a[j]
      /\ Owes(p.a[k]) => k \in p.retry
  BY ProcessOwes
<1> HIDE DEF p
<1>2. \A j \in Keys : Awaits(p, j) BY <1>1 DEF Awaits
<1>3. Minds(p, n) BY <1>1, <1>2 DEF Minds, Led
<1> QED BY <1>3 DEF p

\* A view with a request more or less, and the keepalives as they were.
LEMMA SameMinds ==
  ASSUME NEW s, NEW t, NEW n, Minds(s, n), t.a = s.a, s.retry \subseteq t.retry,
         t.c.lease = s.c.lease, t.c.running = s.c.running,
         t.c.node = s.c.node, t.c.hosts = s.c.hosts,
         t.q.keep.op = "none" \/ t.q.keep.op = s.q.keep.op \/ s.c.node # None
  PROVE  Minds(t, n)
<1>1. Steered(t.c, n) BY DEF Minds, Steered
<1>2. Led(t) BY DEF Minds, Led
<1>3. \A k \in Keys : Awaits(t, k) BY DEF Minds, Awaits
<1> QED BY <1>1, <1>2, <1>3 DEF Minds

\* A delete that is asked for, put off or given up is nothing to the keepalives.
Deleting(s, D, L) == [s EXCEPT !.d = D, !.left = L]

LEMMA RemovePathIs ==
  ASSUME NEW s \in Views, NEW d, NEW r \in {RemovePath(s, d, TRUE), RemovePath(s, d, FALSE)}
  PROVE  \E D, L : r = Deleting(s, D, L)
<1> DEFINE D == {e \in s.d \ {d} : ~(e.key = d.key /\ e.st = "wait")}
           t == [s EXCEPT !.d = D]
<1>1. t.d = D /\ t.left = s.left BY DEF Views
<1>2. r \in {[t EXCEPT !.d = @ \cup {[d EXCEPT !.st = "wait"]}],
             [t EXCEPT !.left = @ \cup {d.key}], [t EXCEPT !.d = @ \cup {Again(s, d)}]}
  BY DEF RemovePath, Again, CanAsk
<1>3. \A E : [t EXCEPT !.d = E] = Deleting(s, E, s.left) BY DEF Views, Deleting
<1>4. \A L : [t EXCEPT !.left = L] = Deleting(s, D, L) BY DEF Views, Deleting
<1> HIDE DEF D, t
<1>5. \/ \E E : r = [t EXCEPT !.d = E]
      \/ \E L : r = [t EXCEPT !.left = L]
  BY <1>1, <1>2
<1>6. \E E, L : r = Deleting(s, E, L)
  <2>1. CASE \E E : r = [t EXCEPT !.d = E]
    <3>1. PICK E : r = [t EXCEPT !.d = E] BY <2>1
    <3>2. r = Deleting(s, E, s.left) BY <1>3, <3>1
    <3> QED BY <3>2
  <2>2. CASE \E L : r = [t EXCEPT !.left = L]
    <3>1. PICK L : r = [t EXCEPT !.left = L] BY <2>2
    <3>2. r = Deleting(s, D, L) BY <1>4, <3>1
    <3> QED BY <3>2
  <2> QED BY <1>5, <2>1, <2>2
<1> QED BY <1>6

LEMMA CreateKeepMinds ==
  ASSUME NEW s \in Views, NEW n, Minds(s, n)
  PROVE  Minds(CreateGrant(s), n) /\ Minds(CreateRenew(s), n)
<1> DEFINE Keep(q) == [s EXCEPT !.c.due = @ \ {"lease"}, !.q.keep = q]
           g == [op |-> "grant", to |-> s.c.node, id |-> 0, st |-> "sent"]
           r == [op |-> "renew", to |-> s.c.node, id |-> s.c.lease, st |-> "sent"]
<1>1. ASSUME NEW q, s.c.node # None PROVE Minds(Keep(q), n)
  <2> DEFINE t == Keep(q)
  <2>1. /\ t.a = s.a /\ t.retry = s.retry /\ t.c.lease = s.c.lease
        /\ t.c.running = s.c.running /\ t.c.node = s.c.node /\ t.c.hosts = s.c.hosts
    BY DEF Views, Conf
  <2> HIDE DEF t
  <2>2. Minds(t, n) BY <1>1, <2>1, SameMinds
  <2> QED BY <2>2 DEF t
<1>2. CreateGrant(s) = IF s.c.node = None \/ s.c.closing \/ ~s.c.enabled \/ "lease" \notin s.c.due
                       THEN s ELSE Keep(g)
  BY DEF CreateGrant
<1>3. CreateRenew(s) = IF \/ s.c.node = None \/ s.c.closing \/ ~s.c.enabled \/ s.c.lease = 0
                          \/ "lease" \notin s.c.due
                       THEN s ELSE Keep(r)
  BY DEF CreateRenew
<1> HIDE DEF Keep, g, r
<1> QED BY <1>1, <1>2, <1>3

LEMMA AuthMinds ==
  ASSUME NEW s \in Views, NEW n, Minds(s, n)
  PROVE  Minds(CreateAuth(s), n) /\ Minds(CreateUser(s), n)
<1>1. ASSUME NEW t \in {CreateAuth(s), CreateUser(s)}
      PROVE  Minds(t, n)
  <2>1. t.c.node = s.c.node /\ t.c.hosts = s.c.hosts
    <3>1. t = s \/ \E D, a : t = [s EXCEPT !.c.due = D, !.q.auth = a]
      BY <1>1 DEF CreateAuth, CreateUser
    <3> QED BY <3>1, ZenonT(30) DEF Views, Conf
  <2>2. Aside(s, t) BY <1>1, AuthAside
  <2>3. Steered(t.c, n) BY <2>1 DEF Minds, Steered
  <2> QED BY <2>1, <2>2, <2>3, AsideMinds
<1> QED BY <1>1

LEMMA TickedMinds ==
  ASSUME Manned, NEW s, Core(s), NEW n, Minds(s, n)
  PROVE  Minds(Ticked(s), n)
<1> DEFINE s1 == IF "member" \in s.c.due THEN CreateMember(s) ELSE s
           s2 == IF UseAuth /\ s1.q.auth.op = "none" THEN CreateUser(s1) ELSE s1
           up == [s2 EXCEPT !.c.running = TRUE]
           s3 == IF s2.c.enabled THEN CreateRenew(s2) ELSE up
           s4 == RetryPending(s3)
<1>1. s \in Views /\ Works(s, s) BY WorksRefl DEF Core
<1>2. Minds(s1, n) /\ Works(s, s1)
  BY <1>1, CreateMemberMinds, CreateMemberAside, AsideWorks
<1> HIDE DEF s1
<1>3. Core(s1) /\ s1 \in Views BY <1>2, WorksCore DEF Core
<1>4. Minds(s2, n) /\ Works(s1, s2) /\ Minds(CreateAuth(s1), n)
  BY <1>2, <1>3, AuthMinds, AuthAside, AsideWorks, WorksRefl
<1> HIDE DEF s2
<1>5. Core(s2) /\ s2 \in Views BY <1>3, <1>4, WorksCore DEF Core
<1>6. ~s2.c.enabled /\ ~s2.c.closing => Minds(up, n) /\ Core(up)
  <2> SUFFICES ASSUME ~s2.c.enabled, ~s2.c.closing PROVE Minds(up, n) /\ Core(up) OBVIOUS
  <2>1. s2.c.lease = 0 BY <1>5 DEF Core
  <2>2. /\ up \in Views /\ up.q = s2.q /\ up.a = s2.a /\ up.retry = s2.retry
        /\ up.c.lease = s2.c.lease /\ up.c.node = s2.c.node /\ up.c.hosts = s2.c.hosts
        /\ up.c.enabled = s2.c.enabled /\ up.c.closing = s2.c.closing
    BY <1>5 DEF Views, Conf
  <2> HIDE DEF up
  <2>3. Steered(up.c, n) /\ Led(up) BY <1>4, <2>2 DEF Minds, Steered, Led
  <2>4. \A k \in Keys : Awaits(up, k) BY <2>1, <2>2 DEF Awaits
  <2>5. Core(up) BY <1>5, <2>1, <2>2 DEF Core, KeepOk, Leased
  <2> QED BY <2>3, <2>4, <2>5 DEF Minds
<1> HIDE DEF up
<1>7. ~s2.c.closing => Minds(s3, n) /\ Core(s3)
  <2>1. Minds(CreateRenew(s2), n) /\ Core(CreateRenew(s2))
    BY <1>4, <1>5, CreateKeepMinds, CreateKeepWorks, WorksCore
  <2> QED BY <1>6, <2>1
<1> HIDE DEF s3
<1>8. ~s2.c.closing => Minds(s4, n) /\ s4 \in Views
  <2>1. ~s2.c.closing => Works(s3, s4) BY <1>7, RetryPendingWorks
  <2> QED BY <1>7, <2>1, RetryPendingMinds DEF Works
<1> HIDE DEF s4
<1>9. ~s2.c.closing => Minds(ResolveReady(s4), n)
  <2> SUFFICES ASSUME ~s2.c.closing PROVE Minds(ResolveReady(s4), n) OBVIOUS
  <2> DEFINE t == [s4 EXCEPT !.c.ready = TRUE]
  <2>1. /\ t.q = s4.q /\ t.a = s4.a /\ t.retry = s4.retry /\ t.c.lease = s4.c.lease
        /\ t.c.running = s4.c.running /\ t.c.node = s4.c.node /\ t.c.hosts = s4.c.hosts
    BY <1>8 DEF Views, Conf
  <2>2. ResolveReady(s4) \in {t, s4} BY DEF ResolveReady
  <2> HIDE DEF t
  <2>3. Minds(t, n) BY <1>8, <2>1, SameMinds
  <2> QED BY <1>8, <2>2, <2>3
<1>10. s.c.closing = s2.c.closing BY <1>2, <1>4 DEF Works
<1>11. Minds(CreateGrant(s2), n) BY <1>4, <1>5, CreateKeepMinds
<1>12. Ticked(s) = IF s.c.closing THEN s
                   ELSE IF s1.c.node = None THEN s1
                   ELSE IF ~Authorized(s1)
                   THEN IF s1.q.auth.op = "none" THEN CreateAuth(s1) ELSE s1
                   ELSE IF s2.c.enabled /\ s2.c.lease = 0 THEN CreateGrant(s2)
                   ELSE ResolveReady(s4)
  BY DEF Ticked, s1, s2, up, s3, s4
<1> QED BY <1>2, <1>4, <1>9, <1>10, <1>11, <1>12

-----------------------------------------------------------------------------

WaitInv == Minds(View(None), net)

LEMMA EndsMinding ==
  ASSUME NEW t, Minds(t, net'), Become(t)
  PROVE  WaitInv'
<1>1. conf' = t.c /\ rpc' = t.q /\ actors' = t.a /\ retry' = t.retry BY DEF Become
<1>2. /\ View(None)'.c = t.c /\ View(None)'.q = t.q /\ View(None)'.a = t.a
      /\ View(None)'.retry = t.retry
  BY <1>1 DEF View
<1>3. Led(View(None))' BY <1>2 DEF Minds, Led
<1>4. \A k \in Keys : Awaits(View(None), k)' BY <1>2 DEF Minds, Awaits
<1> QED BY <1>2, <1>3, <1>4 DEF WaitInv, Minds

LEMMA BeginsMinding ==
  ASSUME ClusterInv, WaitInv, NEW h \in Hosts \cup {None}
  PROVE  /\ Minds(View(h), net) /\ Core(View(h)) /\ View(h) \in Views
         /\ View(h).c = conf /\ View(h).q = rpc /\ View(h).a = actors
         /\ View(h).retry = retry /\ View(h).d = dels /\ View(h).left = left
<1>1. /\ View(h).c = conf /\ View(h).q = rpc /\ View(h).a = actors /\ View(h).retry = retry
      /\ View(h).d = dels /\ View(h).left = left
      /\ View(None).c = conf /\ View(None).q = rpc /\ View(None).a = actors
      /\ View(None).retry = retry
  BY DEF View
<1>2. Core(View(h)) BY Begins DEF Good
<1>3. Minds(View(h), net) BY <1>1 DEF WaitInv, Minds, Led, Awaits
<1> QED BY <1>1, <1>2, <1>3 DEF Core

LEMMA InitMinds == Init => WaitInv
<1> SUFFICES ASSUME Init PROVE WaitInv OBVIOUS
<1>1. 0 \in 0 .. MaxNet BY ClusterConstants
<1>2. /\ conf.node = None /\ conf.hosts = {} /\ conf.lease = 0 /\ rpc.keep.op = "none"
      /\ net = 0
  BY DEF Init, IdleKeep
<1> QED BY <1>1, <1>2 DEF WaitInv, Minds, Steered, Led, Awaits, View

LEMMA UsesMind ==
  ASSUME Manned, ClusterInv, WaitInv,
         Tick \/ (\E x \in Timers : TimePasses(x)) \/ Uses
  PROVE  WaitInv'
<1> DEFINE v == View(None)
<1>1. /\ Minds(v, net) /\ Core(v) /\ v \in Views
      /\ v.c = conf /\ v.q = rpc /\ v.a = actors /\ v.retry = retry
  BY BeginsMinding
<1>2. CASE Tick
  <2>1. PICK h \in Hosts : Become(Ticked(View(h))) /\ net' = net BY <1>2 DEF Tick, counters
  <2>2. Minds(Ticked(View(h)), net) BY BeginsMinding, TickedMinds
  <2> QED BY <2>1, <2>2, EndsMinding
<1>3. CASE \E x \in Timers : TimePasses(x)
  <2>1. PICK x \in Timers : TimePasses(x) BY <1>3
  <2> DEFINE t == [v EXCEPT !.c.due = @ \cup {x}]
  <2>2. net' = net /\ UNCHANGED <<rpc, actors, retry, dels, left>>
        /\ conf' = [conf EXCEPT !.due = @ \cup {x}]
    BY <2>1 DEF TimePasses, counters
  <2>3. Become(t) BY <2>2 DEF Become, View
  <2> HIDE DEF v
  <2>4. /\ t.q = v.q /\ t.a = v.a /\ t.retry = v.retry /\ t.c.lease = v.c.lease
        /\ t.c.running = v.c.running /\ t.c.node = v.c.node /\ t.c.hosts = v.c.hosts
    BY <1>1 DEF Views, Conf
  <2> HIDE DEF t
  <2>5. Minds(t, net) BY <1>1, <2>4, SameMinds
  <2> QED BY <2>2, <2>3, <2>5, EndsMinding
<1>4. ASSUME NEW k \in Keys, AddKeepalive(k) PROVE WaitInv'
  <2> DEFINE enabled == [v EXCEPT !.c.enabled = TRUE]
             g == IF v.c.enabled THEN v ELSE CreateGrant(enabled)
             fresh == [v.a[k] EXCEPT !.on = TRUE]
             t == [g EXCEPT !.a[k] = fresh, !.d = {d \in @ : ~(d.key = k /\ d.st = "wait")}]
             p == IF v.c.running /\ t.c.lease # 0 THEN Process(t, k) ELSE t
  <2>1. Become(p) /\ net' = net /\ ~conf.closing BY <1>4 DEF AddKeepalive, counters
  <2> HIDE DEF v
  <2>2. /\ enabled \in Views /\ enabled.q = v.q /\ enabled.a = v.a /\ enabled.retry = v.retry
        /\ enabled.c.lease = v.c.lease /\ enabled.c.running = v.c.running
        /\ enabled.c.node = v.c.node /\ enabled.c.hosts = v.c.hosts
        /\ enabled.c.closing = v.c.closing
    BY <1>1 DEF Views, Conf
  <2> HIDE DEF enabled
  <2>3. /\ Minds(g, net) /\ g.a = v.a /\ g.retry = v.retry /\ g.c.running = v.c.running
        /\ g.c.closing = v.c.closing /\ g \in Views
    <3>1. Minds(enabled, net) BY <1>1, <2>2, SameMinds
    <3> DEFINE e == CreateGrant(enabled)
    <3>2. Minds(e, net) BY <2>2, <3>1, CreateKeepMinds
    <3> DEFINE q == [op |-> "grant", to |-> enabled.c.node, id |-> 0, st |-> "sent"]
    <3>3. e = enabled
          \/ (enabled.c.node # None /\ e = [enabled EXCEPT !.c.due = @ \ {"lease"}, !.q.keep = q])
      BY DEF CreateGrant
    <3>4. q \in [op : {"none", "grant", "renew"}, to : Hosts \cup {None},
                id : Leases, st : {"sent", "ok", "gone"}]
      BY <2>2, ClusterConstants DEF Views, Conf, Leases
    <3> HIDE DEF q, e
    <3>5. e \in Views
      <4>1. [enabled EXCEPT !.c.due = @ \ {"lease"}, !.q.keep = q] \in Views
        BY <2>2, <3>4 DEF Views, Conf, Rpc
      <4> QED BY <2>2, <3>3, <4>1
    <3>6. /\ e.a = enabled.a /\ e.retry = enabled.retry
          /\ e.c.running = enabled.c.running /\ e.c.closing = enabled.c.closing
      BY <2>2, <3>3 DEF Views, Conf
    <3> QED BY <1>1, <2>2, <3>2, <3>5, <3>6 DEF e
  <2> HIDE DEF g
  <2>4. fresh \in Actor
    <3>1. v.a[k] \in Actor BY <1>1 DEF Views
    <3> QED BY <3>1 DEF Actor
  <2> HIDE DEF fresh
  <2>5. /\ t \in Views /\ t.c = g.c /\ t.q = g.q /\ t.retry = g.retry
        /\ \A j \in Keys \ {k} : t.a[j] = g.a[j]
    BY <2>3, <2>4 DEF Views
  <2> HIDE DEF t
  <2>6. /\ Steered(t.c, net) /\ Led(t) /\ ~t.c.closing
        /\ \A j \in Keys \ {k} : Awaits(t, j)
    BY <1>1, <2>1, <2>3, <2>5 DEF Minds, Led, Awaits
  <2>7. Minds(Process(t, k), net) BY <2>5, <2>6, ProcessMinds
  <2>8. ~(t.c.running /\ t.c.lease # 0) => Minds(t, net) BY <2>6 DEF Minds, Awaits
  <2>9. Minds(p, net) BY <2>3, <2>5, <2>7, <2>8
  <2> QED BY <2>1, <2>9, EndsMinding
<1>5. ASSUME NEW k \in Keys, SetValue(k) PROVE WaitInv'
  <2> DEFINE t == [v EXCEPT !.a[k].val = @ + 1, !.a[k].changed = TRUE]
             p == IF conf.running /\ conf.lease # 0 THEN Process(t, k) ELSE t
  <2>1. Become(p) /\ net' = net /\ actors[k].on /\ actors[k].val < MaxValue
    BY <1>5 DEF SetValue, counters
  <2>2. ~conf.closing BY <1>1, <2>1 DEF Core, Silent
  <2> HIDE DEF v
  <2> DEFINE b == [v.a[k] EXCEPT !.val = @ + 1, !.changed = TRUE]
  <2>3. v.a[k] \in Actor /\ MaxValue \in Nat BY <1>1, ClusterConstants DEF Views
  <2>4. t = [v EXCEPT !.a = [@ EXCEPT ![k] = b]] BY <1>1, <2>3 DEF Views, Actor
  <2>5. b \in Actor
    <3>1. v.a[k].val + 1 \in 1 .. MaxValue BY <1>1, <2>1, <2>3 DEF Actor
    <3> QED BY <2>3, <3>1 DEF Actor
  <2> HIDE DEF t, b
  <2>6. /\ t \in Views /\ t.c = v.c /\ t.q = v.q /\ t.retry = v.retry
        /\ \A j \in Keys \ {k} : t.a[j] = v.a[j]
    BY <1>1, <2>4, <2>5 DEF Views
  <2>7. /\ Steered(t.c, net) /\ Led(t) /\ ~t.c.closing
        /\ \A j \in Keys \ {k} : Awaits(t, j)
    BY <1>1, <2>2, <2>6 DEF Minds, Led, Awaits
  <2>8. Minds(Process(t, k), net) BY <2>6, <2>7, ProcessMinds
  <2>9. ~(t.c.running /\ t.c.lease # 0) => Minds(t, net) BY <2>7 DEF Minds, Awaits
  <2>10. Minds(p, net) BY <1>1, <2>6, <2>8, <2>9
  <2> QED BY <2>1, <2>10, EndsMinding
<1>6. ASSUME NEW k \in Keys, RemoveKeepalive(k) PROVE WaitInv'
  <2> DEFINE s == [v EXCEPT !.retry = @ \ {k}]
             d == [key |-> k, no |-> removes + 1, tries |-> 0, st |-> "wait"]
             t == IF actors[k].data THEN RemovePath(s, d, FALSE)
                  ELSE [s EXCEPT !.left = IF store[k] \in Ours THEN @ \cup {k} ELSE @]
             u == [t EXCEPT !.a[k] = Dropped(@)]
  <2>1. Become(u) /\ net' = net BY <1>6 DEF RemoveKeepalive
  <2> HIDE DEF v
  <2>2. /\ s \in Views /\ s.c = v.c /\ s.q = v.q /\ s.a = v.a /\ s.retry = v.retry \ {k}
    BY <1>1 DEF Views
  <2> HIDE DEF s
  <2>3. \E D, L : t = Deleting(s, D, L)
    <3>1. CASE actors[k].data
      <4>1. t = RemovePath(s, d, FALSE) BY <3>1
      <4> HIDE DEF t, d
      <4>2. \E D, L : t = Deleting(s, D, L) BY <2>2, <4>1, RemovePathIs
      <4> QED BY <4>2
    <3>2. CASE ~actors[k].data
      <4> DEFINE L == IF store[k] \in Ours THEN s.left \cup {k} ELSE s.left
      <4>1. t = Deleting(s, s.d, L) BY <2>2, <3>2 DEF Views, Deleting
      <4> QED BY <4>1
    <3> QED BY <3>1, <3>2
  <2> HIDE DEF t
  <2>4. /\ t.c = s.c /\ t.q = s.q /\ t.a = s.a /\ t.retry = s.retry
        /\ \A a : [t EXCEPT !.a = a].a = a
    BY <2>2, <2>3 DEF Views, Deleting
  <2>5. /\ u.c = v.c /\ u.q = v.q /\ u.retry = v.retry \ {k}
        /\ u.a = [v.a EXCEPT ![k] = Dropped(@)]
    BY <2>2, <2>3, <2>4 DEF Views, Deleting
  <2> HIDE DEF u
  <2>6. /\ \A j \in Keys \ {k} : u.a[j] = v.a[j]
        /\ u.a[k] = Dropped(v.a[k]) /\ v.a[k] \in Actor
    BY <1>1, <2>5 DEF Views
  <2>7. ~Owes(u.a[k]) BY <2>6, DroppedIs DEF Owes
  <2>8. \A j \in Keys : Awaits(u, j) BY <1>1, <2>5, <2>6, <2>7 DEF Minds, Awaits
  <2>9. Minds(u, net) BY <1>1, <2>5, <2>8 DEF Minds, Led
  <2> QED BY <2>1, <2>9, EndsMinding
<1>7. ASSUME NEW revoking \in BOOLEAN, Close(revoking) PROVE WaitInv'
  <2> DEFINE c == [conf EXCEPT !.closing = TRUE, !.running = FALSE, !.lease = 0]
  <2>1. conf' = c /\ rpc' = [member |-> None, auth |-> IdleAuth, keep |-> IdleKeep] /\ net' = net
    BY <1>7, ZenonT(30) DEF Close, Become, View, counters
  <2>2. conf'.lease = 0 /\ conf'.node = conf.node /\ conf'.hosts = conf.hosts
        /\ rpc'.keep.op = "none"
    BY <1>1, <2>1 DEF Views, Conf, IdleKeep
  <2>3. Steered(conf', net') BY <1>1, <2>1, <2>2 DEF Minds, Steered
  <2>4. View(None)'.c = conf' /\ View(None)'.q = rpc' BY DEF View
  <2>5. Led(View(None))' BY <2>2, <2>4 DEF Led
  <2>6. \A k \in Keys : Awaits(View(None), k)' BY <2>2, <2>4 DEF Awaits
  <2> QED BY <2>3, <2>4, <2>5, <2>6 DEF WaitInv, Minds
<1> QED BY <1>2, <1>3, <1>4, <1>5, <1>6, <1>7 DEF Uses

-----------------------------------------------------------------------------
(* Answers. *)

LEMMA MemberAnsweredMinds == ASSUME Manned, ClusterInv, WaitInv, MemberAnswered PROVE WaitInv'
<1>1. PICK h \in Hosts :
        LET s == [View(h) EXCEPT !.q.member = None, !.c.hosts = Hosts]
            t == IF s.c.node \in Hosts THEN s ELSE Select(s)
        IN Become(Ticked([t EXCEPT !.c.due = @ \ {"member"}])) /\ net' = net
  BY DEF MemberAnswered, counters
<1> DEFINE v == View(h)
           s == [v EXCEPT !.q.member = None, !.c.hosts = Hosts]
           t == IF s.c.node \in Hosts THEN s ELSE Select(s)
           u == [t EXCEPT !.c.due = @ \ {"member"}]
<1>2. Minds(v, net) /\ Core(v) /\ v \in Views /\ v.q = rpc BY BeginsMinding
<1>3. ~v.c.closing BY <1>2 DEF MemberAnswered, Core, Silent
<1>4. Become(Ticked(u)) /\ net' = net BY <1>1
<1> HIDE DEF v
<1>5. Aside(v, s) /\ s.c.hosts = Hosts /\ s.c.node = v.c.node
  BY <1>2, <1>3 DEF Aside, Views, Conf, Rpc
<1> HIDE DEF s
<1>6. Aside(s, t) /\ t \in Views /\ t.c.hosts = Hosts /\ t.c.node # None
  <2>1. s \in Views /\ Hosts # {} /\ None \notin Hosts BY <1>5, ClusterConstants DEF Aside
  <2>2. Aside(s, s) BY <2>1 DEF Aside
  <2>3. Aside(s, t) BY <2>1, <2>2, SelectAside
  <2>4. Select(s).c.hosts = Hosts /\ Select(s).c.node # None BY <1>5, <2>1, SelectIs
  <2> QED BY <1>5, <2>1, <2>3, <2>4 DEF Aside
<1> HIDE DEF t
<1>7. Aside(v, t) BY <1>5, <1>6, AsideTrans
<1>8. Steered(t.c, net)
  <2>1. Cardinality(Hosts \ Hosts) = 0
    <3>1. v.c.hosts \in SUBSET Hosts BY <1>2 DEF Views, Conf
    <3> QED BY <3>1, OneLess
  <2>2. net \in 0 .. MaxNet /\ MaxNet \in Nat BY <1>2, ClusterConstants DEF Minds, Steered
  <2> QED BY <1>6, <2>1, <2>2 DEF Steered
<1>9. Minds(t, net) BY <1>2, <1>6, <1>7, <1>8, AsideMinds
<1>10. /\ u.q = t.q /\ u.a = t.a /\ u.retry = t.retry /\ u.c.lease = t.c.lease
       /\ u.c.running = t.c.running /\ u.c.node = t.c.node /\ u.c.hosts = t.c.hosts
       /\ Aside(t, u)
  BY <1>6 DEF Aside, Views, Conf
<1> HIDE DEF u
<1>11. Minds(u, net) BY <1>9, <1>10, SameMinds
<1>12. Core(u)
  <2>1. Aside(v, u) BY <1>7, <1>10, AsideTrans
  <2> QED BY <1>2, <2>1, AsideWorks, WorksCore
<1>13. Minds(Ticked(u), net) BY <1>11, <1>12, TickedMinds
<1> QED BY <1>4, <1>13, EndsMinding

LEMMA AuthAnsweredMinds ==
  ASSUME ClusterInv, WaitInv, AuthAnswered \/ UserAnswered PROVE WaitInv'
<1> DEFINE v == View(None)
           s == [v EXCEPT !.q.auth = IdleAuth, !.c.token = TRUE]
           w == [v EXCEPT !.q.auth = IdleAuth]
           r == RetryPending(s)
           u == [r EXCEPT !.c.due = @ \ {"user"}]
<1>1. Minds(v, net) /\ Core(v) /\ v \in Views BY BeginsMinding
<1>2. net' = net /\ (Become(u) \/ Become(RetryPending(w)))
  BY DEF AuthAnswered, UserAnswered, counters
<1>3. ~v.c.closing
  BY <1>1 DEF AuthAnswered, UserAnswered, Core, Silent, IdleAuth, View
<1> HIDE DEF v
<1>4. /\ Aside(v, s) /\ s.c.node = v.c.node /\ s.c.hosts = v.c.hosts
      /\ Aside(v, w) /\ w.c.node = v.c.node /\ w.c.hosts = v.c.hosts
  <2>1. IdleAuth \in [op : {"none", "auth", "user"}, to : Hosts \cup {None}] BY DEF IdleAuth
  <2> QED BY <1>1, <1>3, <2>1 DEF Aside, Views, Conf, Rpc
<1> HIDE DEF s, w
<1>5. Steered(s.c, net) /\ Steered(w.c, net) BY <1>1, <1>4 DEF Minds, Steered
<1>6. Minds(s, net) /\ Minds(w, net) BY <1>1, <1>4, <1>5, AsideMinds
<1>7. Core(s) /\ Core(w) BY <1>1, <1>4, AsideWorks, WorksCore
<1>8. Minds(r, net) /\ Minds(RetryPending(w), net) BY <1>6, <1>7, RetryPendingMinds
<1>9. r \in Views BY <1>7, RetryPendingWorks DEF Works
<1> HIDE DEF r
<1>10. /\ u.q = r.q /\ u.a = r.a /\ u.retry = r.retry /\ u.c.lease = r.c.lease
       /\ u.c.running = r.c.running /\ u.c.node = r.c.node /\ u.c.hosts = r.c.hosts
  BY <1>9 DEF Views, Conf
<1> HIDE DEF u
<1>11. Minds(u, net) BY <1>8, <1>10, SameMinds
<1> QED BY <1>2, <1>8, <1>11, EndsMinding

\* The new lease has every registered keepalive active, which starts it or puts
\* it in the list; what is not registered owes nothing.
LEMMA GrantedMinds ==
  ASSUME NEW s, Core(s), NEW n, ~s.c.closing, s.c.enabled, s.q.keep = IdleKeep,
         NEW v \in Leases, v # 0, Steered(s.c, n), s.c.node # None
  PROVE  Minds(SetLease([s EXCEPT !.c.running = TRUE], v, TRUE), n)
<1> DEFINE r == [s EXCEPT !.c.running = TRUE]
           t == [r EXCEPT !.c.lease = v]
           u == [t EXCEPT !.retry = {}]
           g == Granted(s, v)
           x == ActiveAll(g, On(s))
<1>1. s \in Views /\ s.a \in [Keys -> Actor] BY DEF Core, Views
<1>2. u = [s EXCEPT !.c.running = TRUE, !.c.lease = v, !.retry = {}] /\ t.a = s.a
  BY <1>1 DEF Views, Conf
<1>3. On(s) = {k \in Keys : t.a[k].on} /\ On(s) \in SUBSET Keys BY <1>2 DEF On
<1>4. SetLease(r, v, TRUE) = RetryPending(Reactivate([t EXCEPT !.retry = {}], {k \in Keys : t.a[k].on}))
  BY DEF SetLease
<1>5. g = Marked(u, On(s)) BY <1>2 DEF Granted
<1>6. SetLease(r, v, TRUE) = RetryPending(x)
  <2>1. Reactivate(u, On(s)) = ActiveAll(Marked(u, On(s)), On(s)) BY DEF Reactivate
  <2> HIDE DEF t, g, r
  <2> QED BY <1>3, <1>4, <1>5, <2>1
<1>7. u \in Views /\ u.c.node = s.c.node /\ u.c.hosts = s.c.hosts
      /\ u.c.closing = s.c.closing /\ u.q = s.q /\ u.a = s.a
  BY <1>1 DEF Views, Conf
<1>8. /\ g \in Views /\ g.c = u.c /\ g.q = u.q
      /\ \A k \in Keys \ On(s) : g.a[k] = u.a[k]
  <2> HIDE DEF u
  <2>1. LET m == Marked(u, On(s))
        IN /\ m \in Views /\ m.c = u.c /\ m.q = u.q /\ m.retry = u.retry
           /\ \A k \in Keys \ On(s) : m.a[k] = u.a[k]
    BY <1>3, <1>7, MarkedIs
  <2> HIDE DEF g
  <2> QED BY <1>5, <2>1
<1>9. /\ Core(g) /\ \A k \in Keys : g.a[k].on = s.a[k].on
  BY GrantedLemma, ZenonT(30)
<1> HIDE DEF r, t, u, g
<1>10. CanSet(g) <=> g.c.lease # 0
  BY <1>7, <1>8 DEF CanSet, CanAsk
<1>11. g.c.lease = v BY GrantedLemma DEF g
<1>12. /\ x.c = g.c /\ x.q = g.q
       /\ \A k \in On(s) : Owes(x.a[k]) => k \in x.retry /\ ~CanSet(g)
       /\ \A k \in Keys \ On(s) : x.a[k] = g.a[k]
  <2>1. ~g.c.closing BY <1>7, <1>8
  <2> HIDE DEF x
  <2> QED BY <1>3, <1>8, <2>1, ActiveAllOwes DEF x
<1>13. Core(x)
  <2>1. \A k \in On(s) : g.a[k].on BY <1>9 DEF On
  <2>2. Works(g, x) BY <1>3, <1>9, <2>1, ActiveAllWorks
  <2> QED BY <1>9, <2>2, WorksCore
<1> HIDE DEF x
<1>14. \A k \in Keys : Awaits(x, k)
  <2> SUFFICES ASSUME NEW k \in Keys, Owes(x.a[k]) PROVE k \in x.retry BY DEF Awaits
  <2>1. CASE k \in On(s) BY <1>12, <2>1
  <2>2. CASE k \notin On(s)
    <3>1. ~s.a[k].on BY <2>2 DEF On
    <3> QED BY <1>9, <1>12, <2>2, <3>1 DEF Owes
  <2> QED BY <2>1, <2>2
<1>15. Steered(x.c, n) BY <1>7, <1>8, <1>12 DEF Steered
<1>16. Minds(x, n) BY <1>7, <1>8, <1>12, <1>14, <1>15 DEF Minds, Led
<1> QED BY <1>6, <1>13, <1>16, RetryPendingMinds DEF r

\* Whatever becomes of the lease request, it is over.
LEMMA IdleMinds ==
  ASSUME NEW s, Core(s), NEW n, Minds(s, n)
  PROVE  /\ Minds([s EXCEPT !.q.keep = IdleKeep], n)
         /\ [s EXCEPT !.q.keep = IdleKeep].c = s.c
         /\ [s EXCEPT !.q.keep = IdleKeep].q.keep = IdleKeep
<1> DEFINE t == [s EXCEPT !.q.keep = IdleKeep]
<1>1. s \in Views BY DEF Core
<1>2. t.c = s.c /\ t.a = s.a /\ t.retry = s.retry /\ t.q.keep = IdleKeep
  BY <1>1 DEF Views, Rpc
<1> HIDE DEF t
<1>3. t.q.keep.op = "none" BY <1>2 DEF IdleKeep
<1>4. Minds(t, n) BY <1>2, <1>3, SameMinds
<1> QED BY <1>2, <1>4 DEF t

LEMMA KeepAnsweredMinds == ASSUME ClusterInv, WaitInv, KeepAnswered PROVE WaitInv'
<1> DEFINE v == View(None)
           q == rpc.keep
           s == [v EXCEPT !.q.keep = IdleKeep]
           r == [s EXCEPT !.c.running = TRUE]
           z == SetLease(s, 0, FALSE)
<1>1. Minds(v, net) /\ Core(v) /\ v \in Views /\ v.c = conf /\ v.q = rpc
  BY BeginsMinding
<1>2. /\ q.op # "none" /\ q.st # "sent" /\ net' = net
      /\ Become(IF q.st = "gone" THEN CreateGrant(z) ELSE SetLease(r, q.id, q.op = "grant"))
  BY DEF KeepAnswered, counters
<1>3. /\ q.op \in {"none", "grant", "renew"} /\ q.st \in {"sent", "ok", "gone"} /\ q.id \in Leases
      /\ KeepOk(conf, q)
  BY <1>1 DEF Views, Rpc, Core
<1>4. conf.enabled /\ ~conf.closing /\ conf.node # None
  BY <1>1, <1>2, <1>3 DEF KeepOk, Core, Silent, IdleKeep, Minds, Led
<1> HIDE DEF v
<1>5. Minds(s, net) /\ s.c = conf /\ s.q.keep = IdleKeep BY <1>1, IdleMinds
<1>6. Core(s) /\ s \in Views BY <1>1, IdleWorks, WorksCore DEF Core
<1> HIDE DEF s, q
<1>7. CASE q.st = "gone"
  <2>1. z = [s EXCEPT !.c.lease = 0] BY DEF SetLease
  <2>2. /\ z \in Views /\ z.q = s.q /\ z.a = s.a /\ z.retry = s.retry /\ z.c.lease = 0
        /\ z.c.node = s.c.node /\ z.c.hosts = s.c.hosts
    <3>1. 0 \in Leases BY ClusterConstants DEF Leases
    <3> QED BY <1>6, <2>1, <3>1, ZenonT(30) DEF Views, Conf
  <2> HIDE DEF z
  <2>3. Steered(z.c, net) /\ Led(z) BY <1>4, <1>5, <2>2 DEF Minds, Steered, Led
  <2>4. \A k \in Keys : Awaits(z, k) BY <2>2 DEF Awaits
  <2>5. Minds(z, net) BY <2>3, <2>4 DEF Minds
  <2>6. Minds(CreateGrant(z), net) BY <2>2, <2>5, CreateKeepMinds
  <2> QED BY <1>2, <1>7, <2>6, EndsMinding
<1>8. CASE q.st # "gone" /\ q.op = "grant"
  <2>1. q.id # 0 BY <1>2, <1>3, <1>8 DEF KeepOk
  <2>2. Steered(s.c, net) BY <1>5 DEF Minds
  <2>3. Minds(SetLease(r, q.id, TRUE), net)
    <3>1. ~s.c.closing /\ s.c.enabled /\ s.c.node # None BY <1>4, <1>5
    <3> HIDE DEF r
    <3> QED BY <1>3, <1>5, <1>6, <2>1, <2>2, <3>1, GrantedMinds DEF r
  <2>4. Become(SetLease(r, q.id, TRUE)) BY <1>2, <1>8
  <2> QED BY <1>2, <2>3, <2>4, EndsMinding
<1>9. CASE q.st # "gone" /\ q.op = "renew"
  <2>1. q.id = conf.lease /\ conf.lease # 0 /\ conf.running BY <1>1, <1>3, <1>9 DEF KeepOk, Core
  <2>2. r = s /\ [r EXCEPT !.c.lease = q.id] = s BY <1>5, <1>6, <2>1, ZenonT(30) DEF Views, Conf
  <2>3. SetLease(r, q.id, FALSE) = RetryPending(s)
    <3>1. r.c.lease = q.id BY <1>5, <2>1, <2>2
    <3> HIDE DEF r
    <3> QED BY <2>1, <2>2, <3>1 DEF SetLease
  <2>4. Become(RetryPending(s)) BY <1>2, <1>9, <2>3
  <2>5. Minds(RetryPending(s), net) BY <1>5, <1>6, RetryPendingMinds
  <2> QED BY <1>2, <2>4, <2>5, EndsMinding
<1> QED BY <1>2, <1>3, <1>7, <1>8, <1>9

\* One keepalive of a view changes, and nothing else.
LEMMA PutIs ==
  ASSUME NEW s \in Views, NEW k \in Keys, NEW b \in Actor, NEW R \in SUBSET Keys
  PROVE  /\ Put(s, k, b, R) \in Views /\ Put(s, k, b, R).c = s.c /\ Put(s, k, b, R).q = s.q
         /\ Put(s, k, b, R).retry = R /\ Put(s, k, b, R).a[k] = b
         /\ \A j \in Keys \ {k} : Put(s, k, b, R).a[j] = s.a[j]
  BY DEF Put, Views

LEMMA ReadyMinds ==
  ASSUME NEW s \in Views, NEW n, Minds(s, n)
  PROVE  Minds(ResolveReady(s), n)
<1> DEFINE t == [s EXCEPT !.c.ready = TRUE]
<1>1. /\ t.q = s.q /\ t.a = s.a /\ t.retry = s.retry /\ t.c.lease = s.c.lease
      /\ t.c.running = s.c.running /\ t.c.node = s.c.node /\ t.c.hosts = s.c.hosts
  BY DEF Views, Conf
<1>2. ResolveReady(s) \in {t, s} BY DEF ResolveReady
<1> HIDE DEF t
<1>3. Minds(t, n) BY <1>1, SameMinds
<1> QED BY <1>2, <1>3

LEMMA ProcessTyped ==
  ASSUME NEW s \in Views, NEW k \in Keys
  PROVE  Process(s, k) \in Views
<1> DEFINE a == IF k \in Checked THEN s.a[k]
                ELSE [s.a[k] EXCEPT !.run = TRUE, !.passed = TRUE]
           t == [s EXCEPT !.a[k] = a]
           g == [a EXCEPT !.op = "get", !.st = "sent"]
           w == [a EXCEPT !.changed = FALSE, !.op = "set", !.st = "sent",
                          !.wval = a.val, !.wlease = s.c.lease]
<1>1. s.a[k] \in Actor /\ s.retry \in SUBSET Keys /\ s.c.lease \in Leases
  BY DEF Views, Conf
<1>2. a \in Actor BY <1>1 DEF Actor
<1>3. Process(s, k) \in {s, AddRetry(t, k), t, [t EXCEPT !.a[k].op = "get", !.a[k].st = "sent"],
                         [t EXCEPT !.a[k] = w]}
  BY DEF Process
<1>4. t = Put(s, k, a, s.retry) BY DEF Put, Views
<1>5. AddRetry(t, k) = Put(s, k, a, IF s.c.closing THEN s.retry ELSE s.retry \cup {k})
  BY DEF Put, Views, AddRetry
<1>6. /\ [t EXCEPT !.a[k].op = "get", !.a[k].st = "sent"] = Put(s, k, g, s.retry)
      /\ [t EXCEPT !.a[k] = w] = Put(s, k, w, s.retry)
  <2> HIDE DEF a, t, w
  <2>1. [t EXCEPT !.a[k].op = "get", !.a[k].st = "sent"] = Put(s, k, g, s.retry)
    BY <1>2, <1>4, PutGets
  <2>2. [t EXCEPT !.a[k] = w] = Put(s, k, w, s.retry) BY <1>2, <1>4, PutTwice
  <2> QED BY <2>1, <2>2
<1>7. g \in Actor /\ w \in Actor
  <2> HIDE DEF a
  <2>1. a.val \in 1 .. MaxValue BY <1>2 DEF Actor
  <2>2. a.val \in 0 .. MaxValue BY <2>1, ClusterConstants
  <2> QED BY <1>1, <1>2, <2>2 DEF Actor
<1> HIDE DEF a, t, g, w
<1> QED BY <1>1, <1>2, <1>3, <1>4, <1>5, <1>6, <1>7, PutIs

LEMMA KvFailedMinds ==
  ASSUME Manned, NEW s, Core(s), NEW n, Minds(s, n), NEW k \in Keys,
         s.a[k].op # "none", NEW why, why # "net"
  PROVE  Minds(KvFailed(s, k, why), n)
<1> DEFINE b == [Ended(s.a[k]) EXCEPT !.changed = @ \/ s.a[k].op = "set"]
           t == [s EXCEPT !.a[k] = [Ended(s.a[k]) EXCEPT !.changed = @ \/ s.a[k].op = "set"]]
           r == Put(s, k, b, s.retry \cup {k})
<1>1. s \in Views /\ s.a[k] \in Actor /\ ~s.c.closing /\ s.retry \cup {k} \in SUBSET Keys
  BY DEF Core, Silent, Views
<1>2. AddRetry(t, k) = r
  <2>1. t = [s EXCEPT !.a[k] = b] OBVIOUS
  <2> HIDE DEF t, b
  <2> QED BY <1>1, <2>1 DEF AddRetry, Put, Views
<1>3. b \in Actor
  <2> DEFINE e == Ended(s.a[k])
  <2>1. e \in Actor BY <1>1, EndedIs
  <2>2. b = [e EXCEPT !.changed = @ \/ s.a[k].op = "set"] OBVIOUS
  <2> HIDE DEF e, b
  <2> QED BY <2>1, <2>2 DEF Actor
<1> HIDE DEF t, b
<1>4. /\ r \in Views /\ r.c = s.c /\ r.q = s.q /\ r.retry = s.retry \cup {k}
      /\ \A j \in Keys \ {k} : r.a[j] = s.a[j]
  BY <1>1, <1>3, PutIs
<1> HIDE DEF r
<1>5. \A j \in Keys : Awaits(r, j) BY <1>4 DEF Minds, Awaits
<1>6. Minds(r, n) BY <1>4, <1>5 DEF Minds, Led
<1>7. Minds(Failed(r, why, None), n) BY <1>4, <1>6, FailedMinds
<1>8. KvFailed(s, k, why) = Failed(AddRetry(t, k), why, None) BY DEF KvFailed, t
<1> QED BY <1>2, <1>7, <1>8

LEMMA KvAnsweredMinds ==
  ASSUME Manned, ClusterInv, WaitInv, NEW k \in Keys, GetAnswered(k) \/ SetAnswered(k)
  PROVE  WaitInv'
<1> DEFINE v == View(None)
           a == v.a[k]
           ok == actors[k].st = "clear"
           g == [v EXCEPT !.a[k] = [Ended(@) EXCEPT !.run = TRUE, !.passed = ok]]
           gb == [Ended(a) EXCEPT !.run = TRUE, !.passed = ok]
           w == [v EXCEPT !.a[k] = [Ended(@) EXCEPT !.data = TRUE]]
           wb == [Ended(a) EXCEPT !.data = TRUE]
<1>1. Minds(v, net) /\ Core(v) /\ v \in Views /\ v.a = actors BY BeginsMinding
<1>2. /\ net' = net /\ a.op # "none"
      /\ \/ Become(IF ok THEN ResolveReady(Process(g, k)) ELSE Process(g, k))
         \/ Become(Process(w, k))
         \/ Become(KvFailed(v, k, "http"))
  BY <1>1 DEF GetAnswered, SetAnswered, counters
<1> HIDE DEF v, ok
<1>3. a \in Actor /\ ~v.c.closing BY <1>1, <1>2 DEF Views, Core, Silent
<1>4. gb \in Actor /\ wb \in Actor
  <2>1. ok \in BOOLEAN BY DEF ok
  <2> DEFINE e == Ended(a)
  <2>2. e \in Actor BY <1>3, EndedIs
  <2>3. gb = [e EXCEPT !.run = TRUE, !.passed = ok] /\ wb = [e EXCEPT !.data = TRUE]
    OBVIOUS
  <2> HIDE DEF e, gb, wb
  <2> QED BY <2>1, <2>2, <2>3 DEF Actor
<1>5. g = Put(v, k, gb, v.retry) /\ w = Put(v, k, wb, v.retry) BY <1>1 DEF Put, Views
<1> HIDE DEF g, w, gb, wb
<1>6. ASSUME NEW t \in {g, w} PROVE Minds(Process(t, k), net) /\ Process(t, k) \in Views
  <2>1. v.retry \in SUBSET Keys BY <1>1 DEF Views
  <2>2. /\ t \in Views /\ t.c = v.c /\ t.q = v.q /\ t.retry = v.retry
        /\ \A j \in Keys \ {k} : t.a[j] = v.a[j]
    BY <1>1, <1>4, <1>5, <1>6, <2>1, PutIs
  <2>3. Steered(t.c, net) /\ Led(t) /\ \A j \in Keys \ {k} : Awaits(t, j)
    BY <1>1, <2>2 DEF Minds, Led, Awaits
  <2>4. Minds(Process(t, k), net) BY <1>3, <2>2, <2>3, ProcessMinds
  <2> QED BY <2>2, <2>4, ProcessTyped
<1>7. Minds(ResolveReady(Process(g, k)), net) BY <1>6, ReadyMinds
<1>8. Minds(KvFailed(v, k, "http"), net) BY <1>1, <1>2, KvFailedMinds
<1> QED BY <1>2, <1>6, <1>7, <1>8, EndsMinding

-----------------------------------------------------------------------------
(* Failures. *)

LEMMA FaultCounts ==
  ASSUME WaitInv, NEW why \in Reasons, Fault(why)
  PROVE  /\ why = "net" => net < MaxNet
         /\ net' = IF why = "net" THEN net + 1 ELSE net
  BY DEF Fault, Reasons

LEMMA FailsMind ==
  ASSUME Manned, ClusterInv, WaitInv,
         MemberFails \/ AuthFails \/ KeepFails \/ \E k \in Keys : KvFails(k)
  PROVE  WaitInv'
<1> DEFINE m(h) == [View(h) EXCEPT !.q.member = None]
           a(h) == [View(h) EXCEPT !.q.auth = IdleAuth]
           q(h) == [View(h) EXCEPT !.q.keep = IdleKeep]
<1>1. ASSUME NEW h \in Hosts
      PROVE  /\ rpc.member # None => m(h) \in Views /\ Minds(m(h), net)
             /\ rpc.auth.op # "none" => a(h) \in Views /\ Minds(a(h), net)
             /\ q(h) \in Views /\ Minds(q(h), net)
  <2> DEFINE v == View(h)
  <2>1. Minds(v, net) /\ Core(v) /\ v \in Views /\ v.q = rpc BY BeginsMinding
  <2> HIDE DEF v
  <2>2. v.c.closing => rpc.member = None /\ rpc.auth.op = "none"
    BY <2>1 DEF Core, Silent, IdleAuth
  <2>3. IdleAuth \in [op : {"none", "auth", "user"}, to : Hosts \cup {None}] BY DEF IdleAuth
  <2> DEFINE x == [v EXCEPT !.q.member = None]
             y == [v EXCEPT !.q.auth = IdleAuth]
             z == [v EXCEPT !.q.keep = IdleKeep]
  <2>4. rpc.member # None => Aside(v, x) /\ x.c = v.c
    BY <2>1, <2>2 DEF Aside, Views, Rpc
  <2>5. rpc.auth.op # "none" => Aside(v, y) /\ y.c = v.c
    BY <2>1, <2>2, <2>3 DEF Aside, Views, Rpc
  <2>6. Minds(z, net) /\ z \in Views
    <3>1. Works(v, z) BY <2>1, IdleWorks
    <3> QED BY <2>1, <3>1, IdleMinds DEF Works
  <2> HIDE DEF x, y, z
  <2>7. /\ rpc.member # None => Minds(x, net) /\ x \in Views
        /\ rpc.auth.op # "none" => Minds(y, net) /\ y \in Views
    BY <2>1, <2>4, <2>5, AsideMinds DEF Minds, Aside
  <2> QED BY <2>6, <2>7 DEF v, x, y, z
<1>2. ASSUME NEW s \in Views, Minds(s, net), NEW why \in Reasons, Fault(why), NEW to,
             Become(Failed(s, why, to))
      PROVE  WaitInv'
  <2>1. /\ why = "net" => net < MaxNet
        /\ net' = IF why = "net" THEN net + 1 ELSE net
    BY <1>2, FaultCounts
  <2>2. Minds(Failed(s, why, to), net') BY <1>2, <2>1, FailedMinds
  <2> QED BY <1>2, <2>2, EndsMinding
<1>3. CASE MemberFails
  <2>1. PICK h \in Hosts, why \in Reasons \ {"auth"} :
          rpc.member # None /\ Fault(why) /\ Become(Failed(m(h), why, rpc.member))
    BY <1>3 DEF MemberFails
  <2> QED BY <1>1, <1>2, <2>1
<1>4. CASE AuthFails
  <2>1. PICK h \in Hosts, why \in Reasons :
          rpc.auth.op # "none" /\ Fault(why) /\ Become(Failed(a(h), why, rpc.auth.to))
    BY <1>4 DEF AuthFails
  <2> QED BY <1>1, <1>2, <2>1
<1>5. CASE KeepFails
  <2>1. PICK h \in Hosts, why \in Reasons : Fault(why) /\ Become(Failed(q(h), why, rpc.keep.to))
    BY <1>5 DEF KeepFails
  <2> QED BY <1>1, <1>2, <2>1
<1>6. CASE \E k \in Keys : KvFails(k)
  <2>1. PICK k \in Keys, why \in {"http", "auth"} :
          actors[k].op # "none" /\ Fault(why) /\ Become(KvFailed(View(None), k, why))
    BY <1>6 DEF KvFails
  <2>2. net' = net /\ why # "net" BY <2>1 DEF Fault
  <2>3. Minds(View(None), net) /\ Core(View(None)) /\ View(None).a = actors BY BeginsMinding
  <2>4. Minds(KvFailed(View(None), k, why), net') BY <2>1, <2>2, <2>3, KvFailedMinds
  <2> QED BY <2>1, <2>4, EndsMinding
<1> QED BY <1>3, <1>4, <1>5, <1>6

LEMMA DeletingMinds ==
  ASSUME NEW s \in Views, NEW n, Minds(s, n), NEW d
  PROVE  Minds(RemovePath(s, d, TRUE), n)
<1> DEFINE r == RemovePath(s, d, TRUE)
<1>1. r \in {RemovePath(s, d, TRUE), RemovePath(s, d, FALSE)} OBVIOUS
<1> HIDE DEF r
<1>2. PICK D, L : r = Deleting(s, D, L) BY <1>1, RemovePathIs
<1>3. r.c = s.c /\ r.q = s.q /\ r.a = s.a /\ r.retry = s.retry BY <1>2 DEF Deleting, Views
<1>4. Minds(r, n) BY <1>3 DEF Minds, Led, Awaits
<1> QED BY <1>4 DEF r

LEMMA DeletesMind ==
  ASSUME Manned, ClusterInv, WaitInv, NEW d \in dels, DeleteRefused(d) \/ DeleteFails(d)
  PROVE  WaitInv'
<1>1. CASE DeleteRefused(d)
  <2>1. Become(RemovePath(View(None), d, TRUE)) /\ net' = net
    BY <1>1 DEF DeleteRefused, counters
  <2>2. Minds(RemovePath(View(None), d, TRUE), net) BY BeginsMinding, DeletingMinds
  <2> QED BY <2>1, <2>2, EndsMinding
<1>2. CASE DeleteFails(d)
  <2>1. PICK h \in Hosts, to \in Hosts, why \in Reasons \ {"http"} :
          Become(RemovePath(Failed(View(h), why, to), d, TRUE)) /\ Fault(why)
    BY <1>2 DEF DeleteFails
  <2> DEFINE f == Failed(View(h), why, to)
  <2>2. /\ why = "net" => net < MaxNet
        /\ net' = IF why = "net" THEN net + 1 ELSE net
    BY <2>1, FaultCounts
  <2>3. View(h) \in Views /\ Minds(View(h), net) BY BeginsMinding
  <2>4. Minds(f, net') BY <2>2, <2>3, FailedMinds
  <2>5. f \in Views BY <2>3, FailedAside DEF Aside
  <2> HIDE DEF f
  <2>6. Minds(RemovePath(f, d, TRUE), net') BY <2>4, <2>5, DeletingMinds
  <2> QED BY <2>1, <2>6, EndsMinding DEF f
<1> QED BY <1>1, <1>2

-----------------------------------------------------------------------------

\* What the server does, and the end of a delete, change no keepalive but for
\* the answer it gets.
LEMMA StaysMinding ==
  ASSUME WaitInv, UNCHANGED <<conf, retry, net>>, rpc'.keep.op = rpc.keep.op,
         \A k \in Keys : Owes(actors'[k]) => Owes(actors[k])
  PROVE  WaitInv'
<1>1. /\ View(None).c = conf /\ View(None).q = rpc /\ View(None).a = actors
      /\ View(None).retry = retry
      /\ View(None)'.c = conf' /\ View(None)'.q = rpc' /\ View(None)'.a = actors'
      /\ View(None)'.retry = retry'
  BY DEF View
<1>2. Led(View(None))' BY <1>1 DEF WaitInv, Minds, Led
<1>3. \A k \in Keys : Awaits(View(None), k)' BY <1>1 DEF WaitInv, Minds, Awaits
<1>4. Steered(conf', net') BY <1>1 DEF WaitInv, Minds
<1> QED BY <1>1, <1>2, <1>3, <1>4 DEF WaitInv, Minds

LEMMA NextMinds == ASSUME Manned, ClusterInv, WaitInv, Next PROVE WaitInv'
<1>1. actors \in [Keys -> Actor] /\ rpc \in Rpc BY DEF ClusterInv, Good, Core, Views, View
<1>2. CASE Tick \/ (\E x \in Timers : TimePasses(x)) \/ Uses BY <1>2, UsesMind
<1>3. CASE Answers
  <2>1. CASE \E d \in dels : DeleteAnswered(d)
    <3>1. UNCHANGED <<conf, rpc, actors, retry, net>> BY <2>1 DEF DeleteAnswered, counters
    <3> QED BY <3>1, StaysMinding
  <2> QED BY <1>3, <2>1, MemberAnsweredMinds, AuthAnsweredMinds, KeepAnsweredMinds, KvAnsweredMinds
          DEF Answers
<1>4. CASE HandleKeep
  <2>1. UNCHANGED <<conf, actors, retry, net>> BY <1>4 DEF HandleKeep, counters
  <2>2. rpc'.keep.op = rpc.keep.op
    <3>1. CASE rpc' = [rpc EXCEPT !.keep.st = "ok", !.keep.id = granted']
      BY <1>1, <3>1 DEF Rpc
    <3>2. CASE rpc' = [rpc EXCEPT !.keep.st = IF rpc.keep.id \in alive THEN "ok" ELSE "gone"]
      BY <1>1, <3>2 DEF Rpc
    <3> QED BY <1>4, <3>1, <3>2 DEF HandleKeep
  <2> QED BY <2>1, <2>2, StaysMinding
<1>5. CASE \E k \in Keys : HandleKv(k)
  <2>1. PICK k \in Keys : HandleKv(k) BY <1>5
  <2>2. UNCHANGED <<conf, rpc, retry, net>> /\ actors[k].op # "none"
        /\ \E st : actors' = [actors EXCEPT ![k].st = st]
    BY <2>1 DEF HandleKv, counters
  <2>3. \A j \in Keys : Owes(actors'[j]) => Owes(actors[j])
    <3> SUFFICES ASSUME NEW j \in Keys PROVE Owes(actors'[j]) => Owes(actors[j]) OBVIOUS
    <3>1. PICK st : actors' = [actors EXCEPT ![k].st = st] BY <2>2
    <3>2. actors'[j] = actors[j] \/ (j = k /\ actors'[k].op = actors[k].op)
      <4>1. actors[k] \in Actor BY <1>1
      <4>2. actors'[k] = [actors[k] EXCEPT !.st = st] BY <1>1, <3>1
      <4>3. actors'[k].op = actors[k].op BY <4>1, <4>2 DEF Actor
      <4>4. j # k => actors'[j] = actors[j] BY <1>1, <3>1
      <4> QED BY <4>3, <4>4
    <3> QED BY <2>2, <3>2 DEF Owes
  <2> QED BY <2>2, <2>3, StaysMinding
<1>6. CASE HandleRevoke \/ RevokeFails \/ (\E d \in dels : HandleDelete(d)) \/ \E l \in alive : Expire(l)
  <2>1. UNCHANGED <<conf, rpc, actors, retry, net>>
    BY <1>6 DEF HandleRevoke, RevokeFails, HandleDelete, Expire, client, counters
  <2> QED BY <2>1, StaysMinding
<1>7. CASE MemberFails \/ AuthFails \/ KeepFails \/ \E k \in Keys : KvFails(k)
  BY <1>7, FailsMind
<1>8. CASE \E d \in dels : DeleteFails(d) \/ DeleteRefused(d) BY <1>8, DeletesMind
<1> QED BY <1>2, <1>3, <1>4, <1>5, <1>6, <1>7, <1>8 DEF Next, Handles, Faults

\* As long as the network failures cannot take every member from the client, a
\* value that is still to be written has somebody who writes it, and one that is
\* left has somebody who deletes it: the list is cleared only after everything in
\* it was started, since there is a member and a lease whenever it is
\* (retry_pending_actions(), etcd_cluster.cpp:889).
THEOREM EtcdNothingForgotten == ASSUME Manned PROVE Spec => []NothingForgotten
<1>1. Init => WaitInv BY InitMinds
<1>2. ClusterInv /\ WaitInv /\ [Next]_vars => WaitInv'
  <2>1. ASSUME WaitInv, UNCHANGED vars PROVE WaitInv'
    <3>1. UNCHANGED <<conf, rpc, actors, retry, net>> BY <2>1 DEF vars, client, counters
    <3> QED BY <2>1, <3>1, StaysMinding
  <2> QED BY <2>1, NextMinds
<1>3. WaitInv => PendingRetried
  <2> SUFFICES ASSUME WaitInv, NEW k \in Keys, actors[k].on, conf.running, conf.lease # 0,
                      actors[k].changed, ~(actors[k].run /\ ~actors[k].passed)
               PROVE  actors[k].op # "none" \/ k \in retry
    BY DEF PendingRetried
  <2>1. Awaits(View(None), k) BY DEF WaitInv, Minds
  <2> QED BY <2>1 DEF Awaits, Owes, View
<1>4. PendingRetried /\ RemovedGone => NothingForgotten BY DEF NothingForgotten
<1> QED BY <1>1, <1>2, <1>3, <1>4, ClusterInvariant, EtcdRemovedGone, PTL DEF Spec
=============================================================================
