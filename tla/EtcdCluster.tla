----------------------------- MODULE EtcdCluster -----------------------------
(***************************************************************************)
(* The etcd client (etcdcli/etcd_cluster.cpp, etcd_keepalive.cpp) against  *)
(* an etcd server: the choice of a member, the authorization token, the    *)
(* lease, the keepalives that keep a value under a path while the lease    *)
(* lives, the list of keepalives to retry and the deletors of removed      *)
(* paths.                                                                  *)
(*                                                                         *)
(* The client runs on one thread: tick() and the completion callback of a  *)
(* request are one step each, written as operators from a view of the      *)
(* client to the view after them, in the order of the code.  A request is  *)
(* in flight between the step that starts it and its callback, the server  *)
(* handles it somewhere in between, and it fails at any point: the request *)
(* or the answer is lost, the server refuses it, or the token is not       *)
(* accepted.  A request that is stopped calls nothing back, and if the     *)
(* server has not handled it yet it never will.                            *)
(*                                                                         *)
(* Time is the set `due' of the next_update times that have passed.        *)
(***************************************************************************)
EXTENDS Integers, FiniteSets

CONSTANTS
    Hosts,          \* conf_hosts, which are also the members of the cluster
    Keys,           \* the paths of keepalives
    Checked,        \* the paths whose keepalive has a checker
    Taken,          \* the paths that another node holds at the beginning
    Under,          \* for each path, the paths it is a prefix of (itself too)
    None,           \* no host, no value
    UseAuth,        \* an authorization is configured
    AutoUpdate,     \* auto_update_hosts
    ReaddInDelete,  \* a path is added again while its delete is in flight
    MaxTries,       \* keepalive_retry_times of a deletor
    MaxLease, MaxValue, MaxRemoves, \* bounds: leases, values, removals
    MaxFaults, MaxNet               \* bounds: failures, network failures

ASSUME ClusterConstants ==
    /\ Hosts # {} /\ None \notin Hosts
    /\ Checked \subseteq Keys /\ Taken \subseteq Keys
    /\ Under \in [Keys -> SUBSET Keys] /\ \A k \in Keys : k \in Under[k]
    /\ UseAuth \in BOOLEAN /\ AutoUpdate \in BOOLEAN /\ ReaddInDelete \in BOOLEAN
    /\ {MaxTries, MaxLease, MaxValue} \subseteq Nat \ {0}
    /\ {MaxRemoves, MaxFaults, MaxNet} \subseteq Nat
    /\ MaxLease > MaxFaults \* a failure costs at most one lease

VARIABLES
    conf,       \* conf_ and flags_ of the cluster
    rpc,        \* rpc_update_members_, rpc_authenticate_ and rpc_keepalive_
    actors,     \* the keepalives, by path
    retry,      \* keepalive_retry_actors_
    dels,       \* the deletors: in keepalive_deletors_ ("wait") or in flight
    store, alive, granted,  \* the server: its keys, live leases, last lease
    revoke,     \* the lease the revoke request of close() is about, or 0
    left,       \* the paths removed without a delete reaching the server
    removes, faults, net    \* counters of the bounds

client == <<conf, rpc, actors, retry, dels, left>>
server == <<store, alive, granted>>
counters == <<removes, faults, net>>
vars == <<client, server, revoke, counters>>

Leases == 0 .. MaxLease
Timers == {"member", "auth", "user", "lease"}

\* What the server keeps under a path: nothing, a value of another node, or
\* one of ours with its lease (0: none).
Ours == [val : 1 .. MaxValue, lease : 1 .. MaxLease]
Foreign == [val |-> 0, lease |-> 0]
Empty == [val |-> None, lease |-> 0]

Conf ==
    [hosts : SUBSET Hosts, node : Hosts \cup {None}, token : BOOLEAN,
     running : BOOLEAN, ready : BOOLEAN, closing : BOOLEAN, enabled : BOOLEAN,
     lease : Leases, due : SUBSET Timers]

\* A lease request is "sent", answered with a lease ("ok") or without ("gone").
Rpc ==
    [member : Hosts \cup {None},
     auth : [op : {"none", "auth", "user"}, to : Hosts \cup {None}],
     keep : [op : {"none", "grant", "renew"}, to : Hosts \cup {None},
             id : Leases, st : {"sent", "ok", "gone"}]]

\* A get is answered "clear" (nothing, or our identity) or "taken", a set "ok"
\* or "bad" (the lease is gone); `wval' and `wlease' are what the set carries.
Actor ==
    [on : BOOLEAN, val : 1 .. MaxValue, changed : BOOLEAN, run : BOOLEAN,
     passed : BOOLEAN, data : BOOLEAN, op : {"none", "get", "set"},
     st : {"sent", "clear", "taken", "ok", "bad"},
     wval : 0 .. MaxValue, wlease : Leases]

Deletor ==
    [key : Keys, no : 1 .. MaxRemoves, tries : 0 .. MaxTries,
     st : {"wait", "sent", "done"}]

IdleAuth == [op |-> "none", to |-> None]
IdleKeep == [op |-> "none", to |-> None, id |-> 0, st |-> "sent"]

\* The view a handler works on.  `pick' is the host that random_generator_
\* gives wherever the handler draws one.
View(h) ==
    [c |-> conf, q |-> rpc, a |-> actors, retry |-> retry, d |-> dels,
     left |-> left, pick |-> h]

Become(s) ==
    \E t \in {s} :
        /\ conf' = t.c /\ rpc' = t.q /\ actors' = t.a /\ retry' = t.retry
        /\ dels' = t.d /\ left' = t.left

Draw(s, H) == IF s.pick \in H THEN s.pick ELSE CHOOSE h \in H : TRUE

-----------------------------------------------------------------------------
(* Members and authorization. *)

\* select_cluster_member()
Select(s) ==
    [s EXCEPT !.c.node = IF s.c.hosts = {} THEN None ELSE Draw(s, s.c.hosts)]

\* Slip: a closed cluster asks for the members.
SlipCreateMember(s) ==
    LET t == [s EXCEPT !.c.due = @ \ {"member"}, !.q.member = None]
    IN [t EXCEPT !.q.member = Draw(s, IF s.c.hosts = {} THEN Hosts ELSE s.c.hosts)]

\* create_request_member_update()
CreateMember(s) ==
    LET t == [s EXCEPT !.c.due = @ \ {"member"}, !.q.member = None]
    IN IF s.c.closing THEN s
       ELSE IF ~AutoUpdate
       THEN IF s.c.hosts = {} THEN Select([t EXCEPT !.c.hosts = Hosts]) ELSE t
       ELSE [t EXCEPT !.q.member =
                 Draw(s, IF s.c.hosts = {} THEN Hosts ELSE s.c.hosts)]

\* retry_request_member_update()
RetryMember(s, bad) ==
    LET t == IF s.c.node = None THEN Select(s)
             ELSE IF s.c.node = bad
             THEN Select([s EXCEPT !.c.hosts = @ \ {bad}]) ELSE s
    IN IF "member" \in t.c.due THEN CreateMember(t) ELSE t

\* check_authorization()
Authorized(s) == ~UseAuth \/ s.c.token

\* create_request_auth_authenticate()
CreateAuth(s) ==
    IF s.c.closing \/ s.c.node = None \/ ~UseAuth \/ "auth" \notin s.c.due THEN s
    ELSE [s EXCEPT !.c.due = @ \ {"auth", "user"},
                   !.q.auth = [op |-> "auth", to |-> s.c.node]]

\* create_request_auth_user_get()
CreateUser(s) ==
    IF s.c.closing \/ s.c.node = None \/ ~UseAuth \/ "user" \notin s.c.due THEN s
    ELSE [s EXCEPT !.c.due = @ \ {"user"},
                   !.q.auth = [op |-> "user", to |-> s.c.node]]

\* What a failed request does before anything of its own: a network failure
\* (of the requests that ask for it) looks for another member, and an answer
\* that refuses the token clears it (check_authorization_expired()).
Failed(s, why, to) ==
    IF why = "net" THEN RetryMember(s, to)
    ELSE IF why = "auth" THEN [s EXCEPT !.c.token = FALSE] ELSE s

-----------------------------------------------------------------------------
(* Keepalives. *)

\* Whether create_request_kv_get(), _kv_del() and _kv_set() make a request.
CanAsk(s) == s.c.node # None /\ ~s.c.closing
CanSet(s) == CanAsk(s) /\ s.c.lease # 0

\* add_retry_keepalive(); the lease is enabled since add_keepalive().
AddRetry(s, k) == IF s.c.closing THEN s ELSE [s EXCEPT !.retry = @ \cup {k}]

\* A keepalive whose request is over.
Ended(a) == [a EXCEPT !.op = "none", !.st = "sent", !.wval = 0, !.wlease = 0]

\* active() and process()
Process(s, k) ==
    LET a == IF k \in Checked THEN s.a[k]
             ELSE [s.a[k] EXCEPT !.run = TRUE, !.passed = TRUE]
        t == [s EXCEPT !.a[k] = a]
    IN IF s.a[k].op # "none" THEN s
       ELSE IF ~a.run
       THEN IF ~CanAsk(s) THEN AddRetry(t, k)
            ELSE [t EXCEPT !.a[k].op = "get", !.a[k].st = "sent"]
       ELSE IF ~a.passed \/ ~a.changed THEN t
       ELSE IF ~CanSet(s) THEN AddRetry(t, k)
       ELSE [t EXCEPT !.a[k] = [a EXCEPT !.changed = FALSE, !.op = "set", !.st = "sent",
                                         !.wval = a.val, !.wlease = s.c.lease]]

\* What active() does to the keepalives ks of s, which do not touch each other.
ActiveAll(s, ks) ==
    LET After(k) == Process(s, k)
    IN [s EXCEPT !.a = [k \in Keys |-> IF k \in ks THEN After(k).a[k] ELSE @[k]],
                 !.retry = @ \cup UNION {After(k).retry : k \in ks}]

\* Slip: active() without reset_value_changed().
SlipReactivate(s, ks) == ActiveAll(s, ks)

\* reset_value_changed() of the keepalives ks.
Marked(s, ks) ==
    [s EXCEPT !.a = [k \in Keys |-> [s.a[k] EXCEPT !.changed = @ \/ k \in ks]]]

\* reset_value_changed() and active() of every keepalive of a list.
Reactivate(s, ks) == ActiveAll(Marked(s, ks), ks)

\* resolve_ready()
ResolveReady(s) ==
    IF /\ s.c.running
       /\ \A k \in Keys : s.a[k].on => s.a[k].run /\ s.a[k].passed
    THEN [s EXCEPT !.c.ready = TRUE] ELSE s

\* remove_keepalive_path(): the delete of a path is asked for, or waits; one that
\* was asked for too often is given up.
GivenUp(d) == d.tries + 1 > MaxTries
Again(s, d) == [d EXCEPT !.tries = @ + 1, !.st = IF CanAsk(s) THEN "sent" ELSE "wait"]

\* A deletor of the same path that waits is deleted.
RemovePath(s, d, delay) ==
    LET t == [s EXCEPT !.d = {e \in @ \ {d} : ~(e.key = d.key /\ e.st = "wait")}]
    IN IF delay THEN [t EXCEPT !.d = @ \cup {[d EXCEPT !.st = "wait"]}]
       ELSE IF GivenUp(d) THEN [t EXCEPT !.left = @ \cup {d.key}]
       ELSE [t EXCEPT !.d = @ \cup {Again(s, d)}]

\* retry_pending_actions(): add_retry_keepalive() refuses a keepalive that is
\* still in the list, and the list is cleared after the loop.  The watchers it
\* activates are modelled in EtcdWatcher.  No two deletors of a path wait.
RetryPending(s) ==
    LET t == IF s.c.lease = 0 THEN s
             ELSE [Reactivate(s, s.retry) EXCEPT !.retry = {}]
        waiting == {d \in s.d : d.st = "wait"}
    IN [t EXCEPT !.d = (@ \ waiting) \cup {Again(s, d) : d \in {e \in waiting : ~GivenUp(e)}},
                 !.left = @ \cup {d.key : d \in {e \in waiting : GivenUp(e)}}]

\* set_lease()
SetLease(s, v, force) ==
    LET t == [s EXCEPT !.c.lease = v]
    IN IF v = 0 THEN t
       ELSE IF s.c.lease = v /\ ~force THEN RetryPending(t)
       ELSE RetryPending(Reactivate([t EXCEPT !.retry = {}],
                                    {k \in Keys : t.a[k].on}))

\* create_request_lease_grant()
CreateGrant(s) ==
    IF s.c.node = None \/ s.c.closing \/ ~s.c.enabled \/ "lease" \notin s.c.due THEN s
    ELSE [s EXCEPT !.c.due = @ \ {"lease"},
                   !.q.keep = [op |-> "grant", to |-> s.c.node, id |-> 0, st |-> "sent"]]

\* create_request_lease_keepalive()
CreateRenew(s) ==
    IF \/ s.c.node = None \/ s.c.closing \/ ~s.c.enabled \/ s.c.lease = 0
       \/ "lease" \notin s.c.due
    THEN s
    ELSE [s EXCEPT !.c.due = @ \ {"lease"},
                   !.q.keep = [op |-> "renew", to |-> s.c.node, id |-> s.c.lease,
                               st |-> "sent"]]

\* tick()
Ticked(s) ==
    LET s1 == IF "member" \in s.c.due THEN CreateMember(s) ELSE s
        s2 == IF UseAuth /\ s1.q.auth.op = "none" THEN CreateUser(s1) ELSE s1
        s3 == IF s2.c.enabled THEN CreateRenew(s2)
              ELSE [s2 EXCEPT !.c.running = TRUE]
        s4 == RetryPending(s3)
    IN IF s.c.closing THEN s
       ELSE IF s1.c.node = None THEN s1
       ELSE IF ~Authorized(s1)
       THEN IF s1.q.auth.op = "none" THEN CreateAuth(s1) ELSE s1
       ELSE IF s2.c.enabled /\ s2.c.lease = 0 THEN CreateGrant(s2)
       ELSE ResolveReady(s4)

-----------------------------------------------------------------------------
(* What the app and the time do. *)

Init ==
    /\ conf = [hosts |-> {}, node |-> None, token |-> FALSE, running |-> FALSE,
               ready |-> FALSE, closing |-> FALSE, enabled |-> FALSE,
               lease |-> 0, due |-> Timers]
    /\ rpc = [member |-> None, auth |-> IdleAuth, keep |-> IdleKeep]
    /\ actors = [k \in Keys |->
                   [on |-> FALSE, val |-> 1, changed |-> TRUE, run |-> FALSE,
                    passed |-> FALSE, data |-> FALSE, op |-> "none",
                    st |-> "sent", wval |-> 0, wlease |-> 0]]
    /\ retry = {} /\ dels = {} /\ left = {}
    /\ store = [k \in Keys |-> IF k \in Taken THEN Foreign ELSE Empty]
    /\ alive = {} /\ granted = 0 /\ revoke = 0
    /\ removes = 0 /\ faults = 0 /\ net = 0

Tick ==
    \E h \in Hosts : Become(Ticked(View(h))) /\ UNCHANGED <<server, revoke, counters>>

Busy(x) ==
    CASE x = "member" -> rpc.member # None
      [] x = "lease"  -> rpc.keep.op # "none"
      [] OTHER        -> rpc.auth.op # "none"

\* A next_update time passes.  A request times out no later than its timer,
\* but curl may notice the timeout later than tick() the timer, which then
\* stops the request and makes another.
TimePasses(x) ==
    /\ x \notin conf.due /\ ~conf.closing
    /\ conf' = [conf EXCEPT !.due = @ \cup {x}]
    /\ \/ ~Busy(x) /\ UNCHANGED counters
       \/ /\ Busy(x) /\ faults < MaxFaults /\ faults' = faults + 1
          /\ UNCHANGED <<removes, net>>
    /\ UNCHANGED <<rpc, actors, retry, dels, left, server, revoke>>

\* add_keepalive() of a new keepalive of path k
AddKeepalive(k) ==
    LET s == View(None)
        fresh == [s.a[k] EXCEPT !.on = TRUE]
        grant == CreateGrant([s EXCEPT !.c.enabled = TRUE])
        t == [(IF s.c.enabled THEN s ELSE grant) EXCEPT
                 !.a[k] = fresh,
                 !.d = {d \in @ : ~(d.key = k /\ d.st = "wait")}]
    IN /\ ~actors[k].on /\ ~conf.closing
       /\ ReaddInDelete \/ \A d \in dels : d.key = k => d.st = "wait"
       /\ Become(IF s.c.running /\ t.c.lease # 0 THEN Process(t, k) ELSE t)
       /\ UNCHANGED <<server, revoke, counters>>

\* set_value()
SetValue(k) ==
    LET s == [View(None) EXCEPT !.a[k].val = @ + 1, !.a[k].changed = TRUE]
    IN /\ actors[k].on /\ actors[k].val < MaxValue
       /\ Become(IF conf.running /\ conf.lease # 0 THEN Process(s, k) ELSE s)
       /\ UNCHANGED <<server, revoke, counters>>

\* etcd_keepalive::close(), after which the object is dropped.
Dropped(a) ==
    [Ended(a) EXCEPT !.on = FALSE, !.changed = TRUE, !.run = FALSE, !.passed = FALSE,
                     !.data = FALSE]

\* remove_keepalive()
RemoveKeepalive(k) ==
    LET s == [View(None) EXCEPT !.retry = @ \ {k}]
        d == [key |-> k, no |-> removes + 1, tries |-> 0, st |-> "wait"]
        t == IF actors[k].data THEN RemovePath(s, d, FALSE)
             ELSE [s EXCEPT !.left = IF store[k] \in Ours THEN @ \cup {k} ELSE @]
    IN /\ actors[k].on /\ removes < MaxRemoves /\ removes' = removes + 1
       /\ Become([t EXCEPT !.a[k] = Dropped(@)])
       /\ UNCHANGED <<server, revoke, faults, net>>

\* close(): deletors in flight are not in keepalive_deletors_ and go on.
Close(revoking) ==
    LET s == View(None)
        sends == revoking /\ conf.lease # 0 /\ conf.node # None
    IN /\ ~conf.closing
       /\ Become([s EXCEPT
              !.c = [@ EXCEPT !.closing = TRUE, !.running = FALSE, !.lease = 0],
              !.q = [member |-> None, auth |-> IdleAuth, keep |-> IdleKeep],
              !.a = [k \in Keys |-> Dropped(@[k])],
              !.retry = {}, !.d = {d \in @ : d.st # "wait"}])
       /\ revoke' = IF sends THEN conf.lease ELSE 0
       /\ UNCHANGED <<server, counters>>

-----------------------------------------------------------------------------
(* The server. *)

\* A lease ends, with every key that is under it.
LeaseEnds(l) ==
    /\ alive' = alive \ {l}
    /\ store' = [k \in Keys |-> IF store[k].lease = l THEN Empty ELSE store[k]]
    /\ UNCHANGED granted

\* It is revoked, or it was not renewed in time.
HandleRevoke ==
    /\ revoke # 0 /\ LeaseEnds(revoke) /\ revoke' = 0
    /\ UNCHANGED <<client, counters>>

Expire(l) ==
    /\ faults < MaxFaults /\ faults' = faults + 1
    /\ LeaseEnds(l)
    /\ UNCHANGED <<client, revoke, removes, net>>

HandleKeep ==
    /\ rpc.keep.op # "none" /\ rpc.keep.st = "sent"
    /\ \/ /\ rpc.keep.op = "grant" /\ granted < MaxLease
          /\ granted' = granted + 1 /\ alive' = alive \cup {granted'}
          /\ rpc' = [rpc EXCEPT !.keep.st = "ok", !.keep.id = granted']
       \/ /\ rpc.keep.op = "renew"
          /\ rpc' = [rpc EXCEPT !.keep.st = IF rpc.keep.id \in alive THEN "ok" ELSE "gone"]
          /\ UNCHANGED <<granted, alive>>
    /\ UNCHANGED <<conf, actors, retry, dels, left, store, revoke, counters>>

HandleKv(k) ==
    LET a == actors[k]
        lives == a.wlease \in alive
    IN /\ a.op # "none" /\ a.st = "sent"
       /\ actors' = [actors EXCEPT ![k].st =
                        IF a.op = "get"
                        THEN IF store[k] = Foreign THEN "taken" ELSE "clear"
                        ELSE IF lives THEN "ok" ELSE "bad"]
       /\ store' = IF a.op = "set" /\ lives
                   THEN [store EXCEPT ![k] = [val |-> a.wval, lease |-> a.wlease]]
                   ELSE store
       /\ UNCHANGED <<conf, rpc, retry, dels, left, alive, granted, revoke, counters>>

\* The delete asks for the range from the path to "+1": all it is a prefix of.
HandleDelete(d) ==
    /\ d.st = "sent"
    /\ store' = [k \in Keys |-> IF k \in Under[d.key] THEN Empty ELSE store[k]]
    /\ dels' = (dels \ {d}) \cup {[d EXCEPT !.st = "done"]}
    /\ UNCHANGED <<conf, rpc, actors, retry, left, alive, granted, revoke, counters>>

-----------------------------------------------------------------------------
(* Completion callbacks. *)

\* libcurl_callback_on_member_update()
MemberAnswered ==
    \E h \in Hosts :
        LET s == [View(h) EXCEPT !.q.member = None, !.c.hosts = Hosts]
            t == IF s.c.node \in Hosts THEN s ELSE Select(s)
        IN /\ rpc.member # None
           /\ Become(Ticked([t EXCEPT !.c.due = @ \ {"member"}]))
           /\ UNCHANGED <<server, revoke, counters>>

\* libcurl_callback_on_auth_authenticate()
AuthAnswered ==
    LET s == [View(None) EXCEPT !.q.auth = IdleAuth, !.c.token = TRUE]
    IN /\ rpc.auth.op = "auth"
       /\ Become([RetryPending(s) EXCEPT !.c.due = @ \ {"user"}])
       /\ UNCHANGED <<server, revoke, counters>>

\* libcurl_callback_on_auth_user_get()
UserAnswered ==
    /\ rpc.auth.op = "user"
    /\ Become(RetryPending([View(None) EXCEPT !.q.auth = IdleAuth]))
    /\ UNCHANGED <<server, revoke, counters>>

\* Slip: a lease that is not found is kept.
SlipKeepAnswered ==
    LET q == rpc.keep
        s == [View(None) EXCEPT !.q.keep = IdleKeep]
    IN /\ q.op # "none" /\ q.st # "sent"
       /\ Become(IF q.st = "gone" THEN CreateGrant(s)
                 ELSE SetLease([s EXCEPT !.c.running = TRUE], q.id, q.op = "grant"))
       /\ UNCHANGED <<server, revoke, counters>>

\* libcurl_callback_on_lease_keepalive(), with a lease or without
KeepAnswered ==
    LET q == rpc.keep
        s == [View(None) EXCEPT !.q.keep = IdleKeep]
    IN /\ q.op # "none" /\ q.st # "sent"
       /\ Become(IF q.st = "gone" THEN CreateGrant(SetLease(s, 0, FALSE))
                 ELSE SetLease([s EXCEPT !.c.running = TRUE], q.id, q.op = "grant"))
       /\ UNCHANGED <<server, revoke, counters>>

\* Slip: a failed request of a keepalive is not put in the retry list.
SlipKvFailed(s, k, why) ==
    Failed([s EXCEPT !.a[k] = [Ended(s.a[k]) EXCEPT !.changed = @ \/ s.a[k].op = "set"]],
           why, None)

\* The failure branches of libcurl_callback_on_get_data() and _on_set_data();
\* a network failure of a keepalive asks for no other member.
KvFailed(s, k, why) ==
    Failed(AddRetry([s EXCEPT !.a[k] = [Ended(s.a[k]) EXCEPT !.changed = @ \/ s.a[k].op = "set"]],
                    k), why, None)

\* libcurl_callback_on_get_data()
GetAnswered(k) ==
    LET ok == actors[k].st = "clear"
        s == [View(None) EXCEPT !.a[k] = [Ended(@) EXCEPT !.run = TRUE, !.passed = ok]]
        t == Process(s, k)
    IN /\ actors[k].op = "get" /\ actors[k].st # "sent"
       /\ Become(IF ok THEN ResolveReady(t) ELSE t)
       /\ UNCHANGED <<server, revoke, counters>>

\* libcurl_callback_on_set_data()
SetAnswered(k) ==
    LET s == [View(None) EXCEPT !.a[k] = [Ended(@) EXCEPT !.data = TRUE]]
    IN /\ actors[k].op = "set" /\ actors[k].st # "sent"
       /\ Become(IF actors[k].st = "ok" THEN Process(s, k)
                 ELSE KvFailed(View(None), k, "http"))
       /\ UNCHANGED <<server, revoke, counters>>

\* libcurl_callback_on_remove_keepalive_path(), success
DeleteAnswered(d) ==
    /\ d.st = "done"
    /\ dels' = dels \ {d}
    /\ UNCHANGED <<conf, rpc, actors, retry, left, server, revoke, counters>>

Reasons == {"http", "auth"} \cup (IF net < MaxNet THEN {"net"} ELSE {})

\* A request fails, whatever the server did with it.
Fault(why) ==
    /\ faults < MaxFaults /\ faults' = faults + 1
    /\ net' = IF why = "net" THEN net + 1 ELSE net
    /\ UNCHANGED <<server, revoke, removes>>

MemberFails ==
    \E h \in Hosts, why \in Reasons \ {"auth"} :
        /\ rpc.member # None /\ Fault(why)
        /\ Become(Failed([View(h) EXCEPT !.q.member = None], why, rpc.member))

AuthFails ==
    \E h \in Hosts, why \in Reasons :
        /\ rpc.auth.op # "none" /\ Fault(why)
        /\ Become(Failed([View(h) EXCEPT !.q.auth = IdleAuth], why, rpc.auth.to))

KeepFails ==
    \E h \in Hosts, why \in Reasons :
        /\ rpc.keep.op # "none" /\ Fault(why)
        /\ Become(Failed([View(h) EXCEPT !.q.keep = IdleKeep], why, rpc.keep.to))

KvFails(k) ==
    \E why \in {"http", "auth"} :
        /\ actors[k].op # "none" /\ Fault(why)
        /\ Become(KvFailed(View(None), k, why))

\* A delete that the server refuses, as often as it is tried.
DeleteRefused(d) ==
    /\ d.st # "wait"
    /\ Become(RemovePath(View(None), d, TRUE))
    /\ UNCHANGED <<server, revoke, counters>>

\* The member the delete was sent to is the one the cluster uses, or another.
DeleteFails(d) ==
    \E h \in Hosts, to \in Hosts, why \in Reasons \ {"http"} :
        /\ d.st # "wait" /\ Fault(why)
        /\ Become(RemovePath(Failed(View(h), why, to), d, TRUE))

RevokeFails ==
    /\ revoke # 0 /\ revoke' = 0
    /\ faults < MaxFaults /\ faults' = faults + 1
    /\ UNCHANGED <<client, server, removes, net>>

-----------------------------------------------------------------------------

Answers ==
    \/ MemberAnswered \/ AuthAnswered \/ UserAnswered \/ KeepAnswered
    \/ \E k \in Keys : GetAnswered(k) \/ SetAnswered(k)
    \/ \E d \in dels : DeleteAnswered(d)

Handles ==
    \/ HandleKeep \/ HandleRevoke
    \/ \E k \in Keys : HandleKv(k)
    \/ \E d \in dels : HandleDelete(d)

Faults ==
    \/ MemberFails \/ AuthFails \/ KeepFails \/ RevokeFails
    \/ \E k \in Keys : KvFails(k)
    \/ \E d \in dels : DeleteFails(d) \/ DeleteRefused(d)
    \/ \E l \in alive : Expire(l)

Uses ==
    \/ \E k \in Keys : AddKeepalive(k) \/ SetValue(k) \/ RemoveKeepalive(k)
    \/ \E revoking \in BOOLEAN : Close(revoking)

Next ==
    \/ Tick \/ \E x \in Timers : TimePasses(x)
    \/ Uses \/ Answers \/ Handles \/ Faults

Spec == Init /\ [][Next]_vars

\* The app ticks the cluster from its loop until a tick has nothing to do, the
\* time of every timer comes, and every request ends: the server handles what
\* reaches it, curl calls back, and its timeout ends what is lost.
Fair ==
    /\ []<>(\E h \in Hosts : Ticked(View(h)) = View(h))
    /\ \A x \in Timers : []<>(x \in conf.due \/ conf.closing)
    /\ []<>(rpc.member = None) /\ []<>(rpc.auth.op = "none")
    /\ []<>(rpc.keep.op = "none")
    /\ \A k \in Keys : []<>(actors[k].op = "none")
    /\ []<>(\A d \in dels : d.st = "wait")

FairSpec == Spec /\ Fair

-----------------------------------------------------------------------------

\* The state is well formed: no deletor outlives its tries, no request or lease
\* is of an unknown kind.
TypeOK ==
    /\ conf \in Conf /\ rpc \in Rpc /\ actors \in [Keys -> Actor]
    /\ retry \subseteq Keys /\ dels \subseteq Deletor /\ left \subseteq Keys
    /\ store \in [Keys -> Ours \cup {Foreign, Empty}]
    /\ alive \subseteq 1 .. MaxLease /\ granted \in Leases /\ revoke \in Leases
    /\ removes \in 0 .. MaxRemoves /\ faults \in 0 .. MaxFaults /\ net \in 0 .. MaxNet

\* A keepalive whose check has not failed and whose value is still to be
\* written has a request in flight or waits in the retry list, as long as there
\* is a lease: nothing else would ever start it again (etcd_cluster.cpp:889).
PendingRetried ==
    \A k \in Keys :
        LET a == actors[k]
        IN a.on /\ conf.running /\ conf.lease # 0 /\ a.changed /\ ~(a.run /\ ~a.passed)
           => a.op # "none" \/ k \in retry

\* A keepalive that has nothing to send has its present value on the server
\* under the present lease, unless that lease has ended: a value written under
\* an older lease, or a value set while a write was in flight, is written again
\* (set_lease(), etcd_cluster.cpp:919; the active() of the callbacks).
BeliefTrue ==
    \A k \in Keys :
        LET a == actors[k]
        IN a.on /\ a.op = "none" /\ ~a.changed /\ conf.lease \in alive
           => store[k] = [val |-> a.val, lease |-> conf.lease]

\* A value of ours under a path that no keepalive holds any more is about to be
\* deleted, unless the removal gave up or came before the first answer
\* (remove_keepalive(), etcd_cluster.cpp:639).
RemovedGone ==
    \A k \in Keys :
        ~actors[k].on /\ store[k] \in Ours /\ ~conf.closing
        => k \in left \/ \E d \in dels : d.key = k /\ d.st # "done"

\* What is still to be written or deleted has somebody who does it, after every
\* failure, lost answer and change of the lease.
NothingForgotten == PendingRetried /\ RemovedGone

\* After close() no callback starts anything again: a delete that was in flight
\* and fails afterwards asks for no member and retries no keepalive
\* (etcd_cluster.cpp:820).
QuietAfterClose ==
    conf.closing =>
        /\ rpc.member = None /\ rpc.auth = IdleAuth /\ rpc.keep = IdleKeep
        /\ conf.lease = 0 /\ ~conf.running /\ retry = {}
        /\ \A k \in Keys : ~actors[k].on /\ actors[k].op = "none"

\* The client is in a state of its phase: well formed, and with nothing in
\* flight or in wait once close() was called.
PhaseConsistent == TypeOK /\ QuietAfterClose

Stored(k) ==
    /\ store[k] = [val |-> actors[k].val, lease |-> conf.lease]
    /\ conf.lease \in alive

\* Once the failures are over, every registered keepalive whose path no other
\* node holds has its value on the server for good, and every deletor has done
\* its work (tick(), etcd_cluster.cpp:386).
Settles ==
    <>[](conf.closing
         \/ /\ dels = {}
            /\ \A k \in Keys :
                 actors[k].on => Stored(k) \/ (actors[k].run /\ ~actors[k].passed))
==============================================================================
