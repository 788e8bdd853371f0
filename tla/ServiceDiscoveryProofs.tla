------------------------ MODULE ServiceDiscoveryProofs ------------------------
(***************************************************************************)
(* Proofs about ServiceDiscovery.                                          *)
(*                                                                         *)
(* The watchers: what a watcher has delivered adds up to its directory at  *)
(* the revision it knows.                                                  *)
(*                                                                         *)
(* The set: its two indexes agree, its caches are fresh, the application   *)
(* knows what is in it, and a context's nodes are left to its watchers.    *)
(* A set in order stays so when one node comes or goes; so every event,    *)
(* and with it any sequence of events, leads from order to order; and the  *)
(* events a watcher delivers are those of nodes its context may register.  *)
(*                                                                         *)
(* In sync: one event turns the nodes that are known, the last event of a  *)
(* key decides what becomes of it, and an answer tells of every key; so    *)
(* what is known is, at rest, what the directories hold.                   *)
(***************************************************************************)
EXTENDS ServiceDiscovery, Recursion, FiniteSetTheorems, WellFoundedInduction,
        NaturalsInduction, TLAPS

-----------------------------------------------------------------------------
(* The last change of a key, as a function of the history of a cluster. *)

Touching(l, d, k, r) == {n \in 1 .. r - 1 : d \in l[n].dirs /\ l[n].key = k}
Between(l, d, k, a, r) == {n \in a .. r - 1 : d \in l[n].dirs /\ l[n].key = k}
LastTouch(l, d, k, r) == W!Max({0} \cup Touching(l, d, k, r))
Holds(l, d, k, r) == LET n == LastTouch(l, d, k, r) IN IF n = 0 THEN None ELSE l[n].val
State(l, d, r) == [k \in UsedKeys |-> Holds(l, d, k, r)]

\* What a directory holds at a revision depends on the history of its cluster
\* only.
LEMMA StateOfLog ==
  ASSUME NEW c, NEW d, NEW r
  PROVE  W!StateAt(c, d, r) = State(log[c], d, r)
  BY DEF W!StateAt, W!ValueAt, W!LastChange, State, Holds, LastTouch, Touching

\* A non-empty set of naturals has a least element.
LEMMA Least ==
  ASSUME NEW S, S \subseteq Nat, S # {}
  PROVE  \E x \in S : \A y \in S : x <= y
<1> DEFINE R == OpToRel(<, Nat)
<1>1. IsWellFoundedOn(R, Nat) BY NatLessThanWellFounded
<1>2. \A x, y \in Nat : <<y, x>> \in R <=> y < x
  BY DEF OpToRel
<1> HIDE DEF R
<1>3. PICK x \in S : \A y \in S : ~(<<y, x>> \in R)
  BY <1>1, WFMin
<1>4. \A y \in S : ~(y < x) BY <1>2, <1>3
<1>5. \A y \in S : x \in Nat /\ y \in Nat OBVIOUS
<1>6. \A y \in S : x <= y BY <1>4, <1>5
<1> QED BY <1>6

\* The maximum of a bounded non-empty set of naturals is its greatest element.
LEMMA Greatest ==
  ASSUME NEW S, S \subseteq Nat, S # {}, NEW b \in Nat, \A x \in S : x <= b
  PROVE  W!Max(S) \in S /\ \A y \in S : y <= W!Max(S)
<1> DEFINE D == {n \in Nat : \E x \in S : n = b - x}
<1>0. PICK z \in S : TRUE OBVIOUS
<1>1. D \subseteq Nat /\ D # {}
  <2>1. b - z \in Nat OBVIOUS
  <2>2. b - z \in D BY <2>1
  <2> QED BY <2>2
<1>2. PICK n \in D : \A m \in D : n <= m
  <2> HIDE DEF D
  <2> QED BY <1>1, Least
<1>3. PICK x \in S : n = b - x BY <1>2
<1>4. \A y \in S : y <= x
  <2> SUFFICES ASSUME NEW y \in S PROVE y <= x OBVIOUS
  <2>1. b - y \in D OBVIOUS
  <2>2. n <= b - y BY <1>2, <2>1
  <2> QED BY <1>3, <2>2
<1>5. \E u \in S : \A y \in S : u >= y BY <1>4
<1>6. W!Max(S) \in S /\ \A y \in S : W!Max(S) >= y
  BY <1>5, Zenon DEF W!Max
<1>7. \A y \in S : y \in Nat /\ W!Max(S) \in Nat BY <1>6
<1> QED BY <1>6, <1>7

\* The last change of a key comes after every other one, or is 0.
LEMMA LastFacts ==
  ASSUME NEW l, NEW d, NEW k, NEW r \in Nat
  PROVE  /\ LastTouch(l, d, k, r) \in {0} \cup Touching(l, d, k, r)
         /\ \A n \in Touching(l, d, k, r) : n <= LastTouch(l, d, k, r)
         /\ LastTouch(l, d, k, r) \in Nat
<1> DEFINE S == {0} \cup Touching(l, d, k, r)
<1>1. S \subseteq Nat /\ S # {} BY DEF Touching
<1>2. \A x \in S : x <= r BY DEF Touching
<1>3. \A n \in Touching(l, d, k, r) : n \in S OBVIOUS
<1>4. W!Max(S) = LastTouch(l, d, k, r) BY DEF LastTouch
<1> HIDE DEF S
<1>5. W!Max(S) \in S /\ \A y \in S : y <= W!Max(S)
  BY <1>1, <1>2, Greatest
<1> QED BY <1>1, <1>3, <1>4, <1>5 DEF S

\* A later change does not touch what was before it.
LEMMA AppendKeeps ==
  ASSUME NEW T, NEW l \in Seq(T), NEW x \in T, NEW d, NEW r \in 0 .. Len(l) + 1
  PROVE  State(Append(l, x), d, r) = State(l, d, r)
<1>1. \A n \in 1 .. Len(l) : Append(l, x)[n] = l[n] OBVIOUS
<1>2. \A n \in 1 .. r - 1 : n \in 1 .. Len(l)
  <2>1. Len(l) \in Nat OBVIOUS
  <2> QED BY <2>1
<1>3. ASSUME NEW k PROVE Touching(Append(l, x), d, k, r) = Touching(l, d, k, r)
  BY <1>1, <1>2 DEF Touching
<1>4. ASSUME NEW k PROVE LastTouch(Append(l, x), d, k, r) = LastTouch(l, d, k, r)
  BY <1>3 DEF LastTouch
<1>5. ASSUME NEW k PROVE Holds(Append(l, x), d, k, r) = Holds(l, d, k, r)
  <2> DEFINE n == LastTouch(l, d, k, r)
  <2>1. r \in Nat OBVIOUS
  <2>2. n \in {0} \cup Touching(l, d, k, r) BY <2>1, LastFacts
  <2>3. n = 0 \/ n \in 1 .. r - 1 BY <2>2 DEF Touching
  <2>4. LastTouch(Append(l, x), d, k, r) = n BY <1>4
  <2> HIDE DEF n
  <2>5. n = 0 \/ Append(l, x)[n] = l[n] BY <2>3, <1>1, <1>2
  <2>6. LastTouch(l, d, k, r) = n BY DEF n
  <2> QED BY <2>4, <2>5, <2>6 DEF Holds
<1> QED BY <1>5 DEF State

\* The state at a revision is the state at an earlier one with the changes
\* between the two on top of it.
LEMMA StateFollows ==
  ASSUME NEW l, NEW d, NEW k, NEW a \in Nat, NEW r \in Nat, a < r, a # 0
  PROVE  Holds(l, d, k, r) =
            IF Between(l, d, k, a, r) = {} THEN Holds(l, d, k, a)
            ELSE l[W!Max(Between(l, d, k, a, r))].val
<1> DEFINE H == Between(l, d, k, a, r)
<1>0. H = {n \in a .. r - 1 : d \in l[n].dirs /\ l[n].key = k} BY DEF Between
<1> HIDE DEF H
<1>1. Touching(l, d, k, r) = Touching(l, d, k, a) \cup H
  <2>1. \A n : n \in 1 .. r - 1 <=> (n \in 1 .. a - 1 \/ n \in a .. r - 1) OBVIOUS
  <2> QED BY <1>0, <2>1 DEF Touching
<1>2. CASE H = {}
  <2>1. LastTouch(l, d, k, r) = LastTouch(l, d, k, a) BY <1>1, <1>2 DEF LastTouch
  <2> QED BY <2>1, <1>2 DEF Holds, H
<1>3. CASE H # {}
  <2>1. H \subseteq Nat /\ \A x \in H : x <= r BY <1>0
  <2>2. W!Max(H) \in H /\ \A y \in H : y <= W!Max(H)
    BY <2>1, <1>3, Greatest
  <2>3. PICK m \in H : m = W!Max(H) BY <2>2
  <2>4. PICK q \in Nat : q = LastTouch(l, d, k, r) BY LastFacts
  <2>5. q \in {0} \cup Touching(l, d, k, r) /\ \A n \in Touching(l, d, k, r) : n <= q
    BY <2>4, LastFacts
  <2>6. m <= q BY <2>5, <1>1
  <2>7. m \in a .. r - 1 BY <1>0
  <2>8. q # 0 /\ q >= a BY <2>6, <2>7
  <2>9. q \notin Touching(l, d, k, a) BY <2>8 DEF Touching
  <2>10. q \in H BY <2>5, <2>8, <2>9, <1>1
  <2>11. q <= m BY <2>10, <2>2, <2>3
  <2>12. q = m BY <2>6, <2>7, <2>11
  <2> QED BY <2>12, <2>8, <2>3, <2>4, <1>3 DEF Holds, H
<1> QED BY <1>2, <1>3

-----------------------------------------------------------------------------
(* The invariant: a watcher knows no revision the server has not reached,  *)
(* a watch has sent its events up to the revision the watcher knows, and   *)
(* these add up to the directory at that revision.                         *)

Ahead(w) ==
    /\ watch[w].rev <= W!Now(CtxOf[w])
    /\ watch[w].rpc = "watch" => watch[w].at = watch[w].rev /\ watch[w].rev # 0

WatchInv ==
    /\ W!WatcherTypeOK
    /\ setup \subseteq Watchers
    /\ \A w \in Watchers : Ahead(w)
    /\ NothingSkipped

\* The values a directory holds are of the right type.
LEMMA StateType ==
  ASSUME NEW l \in Seq(W!Change), NEW d, NEW r \in 0 .. Len(l) + 1
  PROVE  State(l, d, r) \in [UsedKeys -> AllItems \cup {None}]
<1> SUFFICES ASSUME NEW k \in UsedKeys PROVE Holds(l, d, k, r) \in AllItems \cup {None}
  BY DEF State
<1>1. r \in Nat /\ Len(l) \in Nat OBVIOUS
<1>2. PICK n \in Nat : n = LastTouch(l, d, k, r) BY <1>1, LastFacts
<1>3. n = 0 \/ n \in 1 .. r - 1 BY <1>1, <1>2, LastFacts DEF Touching
<1>4. CASE n = 0 BY <1>2, <1>4 DEF Holds
<1>5. CASE n # 0
  <2>1. n \in 1 .. Len(l) BY <1>1, <1>3, <1>5
  <2>2. l[n] \in W!Change BY <2>1
  <2> QED BY <2>2, <1>2, <1>5 DEF Holds, W!Change
<1> QED BY <1>4, <1>5

\* process() keeps the revision, and watches from it.
LEMMA ProcessFacts ==
  ASSUME NEW x \in W!WatcherRec, NEW now \in Nat
  PROVE  /\ W!Process(x, now) \in W!WatcherRec
         /\ W!Process(x, now).rev = x.rev
         /\ W!Process(x, now).rpc = "watch" =>
              W!Process(x, now).at = x.rev /\ x.rev # 0
  BY DEF W!Process, W!WatcherRec

\* The revision of a server is a number.
LEMMA NowType ==
  ASSUME W!WatcherTypeOK, NEW w \in Watchers
  PROVE  /\ CtxOf[w] \in Contexts
         /\ log[CtxOf[w]] \in Seq(W!Change)
         /\ W!Now(CtxOf[w]) \in Nat
         /\ W!Now(CtxOf[w]) = Len(log[CtxOf[w]]) + 1
  BY DiscoveryConstants DEF W!WatcherTypeOK, W!Now

\* A step of one watcher without an event keeps the invariant, if the watcher
\* knows the same revision after it or none.
LEMMA QuietStep ==
  ASSUME WatchInv, NEW w \in Watchers, NEW y \in W!WatcherRec,
         watch' = [watch EXCEPT ![w] = y],
         y.rev \in {0, watch[w].rev},
         y.rpc = "watch" => y.at = y.rev /\ y.rev # 0,
         UNCHANGED <<log, seen, setup>>,
         floor' \in [Contexts -> Nat], upsets' \in 0 .. MaxUpsets
  PROVE  WatchInv'
<1>1. W!WatcherTypeOK' BY DEF WatchInv, W!WatcherTypeOK
<1>2. ASSUME NEW v \in Watchers PROVE Ahead(v)'
  <2>0. W!Now(CtxOf[v])' = W!Now(CtxOf[v]) BY DEF W!Now
  <2>1. W!Now(CtxOf[v]) \in Nat BY NowType DEF WatchInv
  <2>2. CASE v = w
    <3>1. watch'[v] = y BY <2>2 DEF WatchInv, W!WatcherTypeOK
    <3>2. 0 <= W!Now(CtxOf[v]) /\ watch[w].rev <= W!Now(CtxOf[v])
      BY <2>1, <2>2 DEF WatchInv, Ahead
    <3> QED BY <2>0, <3>1, <3>2 DEF Ahead
  <2>3. CASE v # w
    <3>1. watch'[v] = watch[v] BY <2>3 DEF WatchInv, W!WatcherTypeOK
    <3> QED BY <2>0, <3>1 DEF WatchInv, Ahead
  <2> QED BY <2>2, <2>3
<1>3. ASSUME NEW v \in Watchers, watch'[v].rev # 0
      PROVE  seen'[v] = W!StateAt(CtxOf[v], DirOf[v], watch[v].rev)'
  <2>1. watch'[v].rev = watch[v].rev
    BY <1>3 DEF WatchInv, W!WatcherTypeOK
  <2>2. seen[v] = W!StateAt(CtxOf[v], DirOf[v], watch[v].rev)
    BY <1>3, <2>1 DEF WatchInv, NothingSkipped, W!NothingSkipped
  <2>3. W!StateAt(CtxOf[v], DirOf[v], watch[v].rev)' = State(log[CtxOf[v]], DirOf[v], watch'[v].rev)
    BY DEF W!StateAt, W!ValueAt, W!LastChange, State, Holds, LastTouch, Touching
  <2> QED BY <2>1, <2>2, <2>3, StateOfLog
<1>4. NothingSkipped' BY <1>3 DEF NothingSkipped, W!NothingSkipped
<1> QED BY <1>1, <1>2, <1>4 DEF WatchInv

\* A step of one watcher with events keeps the invariant, if they bring what
\* it has delivered to the directory at the revision it then knows.
LEMMA EventStep ==
  ASSUME WatchInv, NEW w \in Watchers, NEW y \in W!WatcherRec, NEW r \in 1 .. W!Now(CtxOf[w]),
         watch' = [watch EXCEPT ![w] = y],
         y.rev = r,
         y.rpc = "watch" => y.at = r,
         seen' = [seen EXCEPT ![w] = State(log[CtxOf[w]], DirOf[w], r)],
         UNCHANGED <<log, setup, floor, upsets>>
  PROVE  WatchInv'
<1> DEFINE c == CtxOf[w]
<1>0. W!Now(c) \in Nat /\ log[c] \in Seq(W!Change) /\ W!Now(c) = Len(log[c]) + 1
  BY NowType DEF WatchInv
<1>1. State(log[c], DirOf[w], r) \in [UsedKeys -> AllItems \cup {None}]
  <2>1. r \in 0 .. Len(log[c]) + 1 BY <1>0
  <2> HIDE DEF c
  <2> QED BY <1>0, <2>1, StateType
<1>2. W!WatcherTypeOK' BY <1>1 DEF WatchInv, W!WatcherTypeOK
<1>3. ASSUME NEW v \in Watchers PROVE Ahead(v)'
  <2>0. W!Now(CtxOf[v])' = W!Now(CtxOf[v]) BY DEF W!Now
  <2>1. CASE v = w
    <3>1. watch'[v] = y BY <2>1 DEF WatchInv, W!WatcherTypeOK
    <3>2. r <= W!Now(c) /\ r # 0 BY <1>0
    <3> QED BY <2>0, <2>1, <3>1, <3>2 DEF Ahead
  <2>2. CASE v # w
    <3>1. watch'[v] = watch[v] BY <2>2 DEF WatchInv, W!WatcherTypeOK
    <3> QED BY <2>0, <3>1 DEF WatchInv, Ahead
  <2> QED BY <2>1, <2>2
<1>4. ASSUME NEW v \in Watchers, watch'[v].rev # 0
      PROVE  seen'[v] = W!StateAt(CtxOf[v], DirOf[v], watch[v].rev)'
  <2>0. W!StateAt(CtxOf[v], DirOf[v], watch[v].rev)' = State(log[CtxOf[v]], DirOf[v], watch'[v].rev)
    BY DEF W!StateAt, W!ValueAt, W!LastChange, State, Holds, LastTouch, Touching
  <2>1. CASE v = w
    <3>1. watch'[v].rev = r BY <2>1 DEF WatchInv, W!WatcherTypeOK
    <3>2. seen'[v] = State(log[CtxOf[w]], DirOf[w], r)
      BY <2>1 DEF WatchInv, W!WatcherTypeOK
    <3> QED BY <2>0, <2>1, <3>1, <3>2
  <2>2. CASE v # w
    <3>1. watch'[v] = watch[v] /\ seen'[v] = seen[v]
      BY <2>2 DEF WatchInv, W!WatcherTypeOK
    <3>2. seen[v] = W!StateAt(CtxOf[v], DirOf[v], watch[v].rev)
      BY <1>4, <3>1 DEF WatchInv, NothingSkipped, W!NothingSkipped
    <3>3. seen[v] = State(log[CtxOf[v]], DirOf[v], watch[v].rev)
      BY <3>2, StateOfLog
    <3> QED BY <2>0, <3>1, <3>3
  <2> QED BY <2>1, <2>2
<1>5. NothingSkipped' BY <1>4 DEF NothingSkipped, W!NothingSkipped
<1> QED BY <1>2, <1>3, <1>5 DEF WatchInv

\* A change of a cluster keeps the invariant: what came before it stays.
LEMMA ChangeStep ==
  ASSUME WatchInv, NEW c \in Contexts, NEW x \in W!Change,
         log' = [log EXCEPT ![c] = Append(@, x)],
         UNCHANGED <<floor, watch, seen, upsets, setup>>
  PROVE  WatchInv'
<1>0. ASSUME NEW e \in Contexts
      PROVE  log'[e] = IF e = c THEN Append(log[c], x) ELSE log[e]
  BY DEF WatchInv, W!WatcherTypeOK
<1>1. log[c] \in Seq(W!Change) /\ Append(log[c], x) \in Seq(W!Change)
      /\ Len(Append(log[c], x)) = Len(log[c]) + 1 /\ Len(log[c]) \in Nat
  <2>1. log[c] \in Seq(W!Change) BY DEF WatchInv, W!WatcherTypeOK
  <2> QED BY <2>1
<1>2. W!WatcherTypeOK' BY <1>1 DEF WatchInv, W!WatcherTypeOK
<1>3. ASSUME NEW v \in Watchers PROVE Ahead(v)'
  <2>1. CtxOf[v] \in Contexts /\ W!Now(CtxOf[v]) \in Nat BY NowType DEF WatchInv
  <2>2. W!Now(CtxOf[v])' = W!Now(CtxOf[v]) \/ W!Now(CtxOf[v])' = W!Now(CtxOf[v]) + 1
    BY <1>0, <1>1, <2>1 DEF W!Now
  <2>3. PICK n \in Nat : n = W!Now(CtxOf[v]) BY <2>1
  <2>4. watch[v].rev \in Nat BY DEF WatchInv, W!WatcherTypeOK, W!WatcherRec
  <2>5. watch[v].rev <= n BY <2>3 DEF WatchInv, Ahead
  <2>6. watch[v].rev <= n + 1 BY <2>3, <2>4, <2>5
  <2>7. watch[v].rev <= W!Now(CtxOf[v])' BY <2>2, <2>3, <2>5, <2>6
  <2> QED BY <2>7 DEF WatchInv, Ahead
<1>4. ASSUME NEW v \in Watchers, watch'[v].rev # 0
      PROVE  seen'[v] = W!StateAt(CtxOf[v], DirOf[v], watch[v].rev)'
  <2> DEFINE l == log[CtxOf[v]]
             r == watch[v].rev
  <2>0. W!StateAt(CtxOf[v], DirOf[v], watch[v].rev)' = State(log'[CtxOf[v]], DirOf[v], r)
    BY DEF W!StateAt, W!ValueAt, W!LastChange, State, Holds, LastTouch, Touching
  <2>1. seen[v] = State(l, DirOf[v], r)
    BY <1>4, StateOfLog DEF WatchInv, NothingSkipped, W!NothingSkipped
  <2>2. CtxOf[v] \in Contexts /\ l \in Seq(W!Change) /\ W!Now(CtxOf[v]) = Len(l) + 1
    BY NowType DEF WatchInv
  <2>3. r \in Nat /\ r <= W!Now(CtxOf[v])
    BY DEF WatchInv, W!WatcherTypeOK, W!WatcherRec, Ahead
  <2>4. r \in 0 .. Len(l) + 1
    <3>1. Len(l) \in Nat BY <2>2
    <3> QED BY <2>2, <2>3, <3>1
  <2> HIDE DEF l, r
  <2>5. State(Append(l, x), DirOf[v], r) = State(l, DirOf[v], r)
    BY <2>2, <2>4, AppendKeeps
  <2>6. log'[CtxOf[v]] = Append(l, x) \/ log'[CtxOf[v]] = l BY <1>0, <2>2 DEF l
  <2> QED BY <2>0, <2>1, <2>5, <2>6
<1>5. NothingSkipped' BY <1>4 DEF NothingSkipped, W!NothingSkipped
<1> QED BY <1>2, <1>3, <1>5 DEF WatchInv

\* A step that leaves the histories alone and makes every watcher a new one, or
\* leaves it alone, keeps the invariant.
LEMMA RenewalStep ==
  ASSUME WatchInv,
         watch' \in [Watchers -> W!WatcherRec],
         \A w \in Watchers : \/ watch'[w] = watch[w] /\ seen'[w] = seen[w]
                             \/ watch'[w].rev = 0 /\ watch'[w].rpc # "watch",
         seen' \in [Watchers -> [UsedKeys -> AllItems \cup {None}]],
         floor' \in [Contexts -> Nat], upsets' \in 0 .. MaxUpsets,
         UNCHANGED <<log, setup>>
  PROVE  WatchInv'
<1>1. W!WatcherTypeOK' BY DEF WatchInv, W!WatcherTypeOK
<1>2. ASSUME NEW v \in Watchers PROVE Ahead(v)'
  <2>0. W!Now(CtxOf[v])' = W!Now(CtxOf[v]) BY DEF W!Now
  <2>1. W!Now(CtxOf[v]) \in Nat BY NowType DEF WatchInv
  <2>2. CASE watch'[v] = watch[v] BY <2>0, <2>2 DEF WatchInv, Ahead
  <2>3. CASE watch'[v].rev = 0 /\ watch'[v].rpc # "watch"
    BY <2>0, <2>1, <2>3 DEF Ahead
  <2> QED BY <2>2, <2>3
<1>3. ASSUME NEW v \in Watchers, watch'[v].rev # 0
      PROVE  seen'[v] = W!StateAt(CtxOf[v], DirOf[v], watch[v].rev)'
  <2>0. W!StateAt(CtxOf[v], DirOf[v], watch[v].rev)' = State(log[CtxOf[v]], DirOf[v], watch'[v].rev)
    BY DEF W!StateAt, W!ValueAt, W!LastChange, State, Holds, LastTouch, Touching
  <2>1. watch'[v] = watch[v] /\ seen'[v] = seen[v] BY <1>3
  <2>2. seen[v] = State(log[CtxOf[v]], DirOf[v], watch[v].rev)
    BY <1>3, <2>1, StateOfLog DEF WatchInv, NothingSkipped, W!NothingSkipped
  <2> QED BY <2>0, <2>1, <2>2
<1>4. NothingSkipped' BY <1>3 DEF NothingSkipped, W!NothingSkipped
<1> QED BY <1>1, <1>2, <1>4 DEF WatchInv

-----------------------------------------------------------------------------
(* Every step keeps the invariant. *)

\* At the start no watcher has delivered anything.
LEMMA InitWatch == Init => WatchInv
<1> SUFFICES ASSUME Init PROVE WatchInv OBVIOUS
<1>1. W!Created0 \in W!WatcherRec /\ W!Off \in W!WatcherRec
      /\ W!Created0.rev = 0 /\ W!Off.rev = 0
      /\ W!Created0.rpc = "none" /\ W!Off.rpc = "off"
  BY DEF W!Created0, W!Off, W!WatcherRec
<1>2. watch \in [Watchers -> W!WatcherRec] BY <1>1 DEF Init
<1>3. W!WatcherTypeOK
  <2>1. <<>> \in Seq(W!Change) OBVIOUS
  <2> QED BY <1>2, <2>1, DiscoveryConstants DEF Init, W!WatcherTypeOK
<1>4. setup \subseteq Watchers BY DiscoveryConstants DEF Init
<1>5. ASSUME NEW w \in Watchers PROVE watch[w].rev = 0 /\ watch[w].rpc # "watch"
  BY <1>1 DEF Init
<1>6. ASSUME NEW w \in Watchers PROVE Ahead(w)
  <2>1. W!Now(CtxOf[w]) \in Nat BY <1>3, NowType
  <2> QED BY <1>5, <2>1 DEF Ahead
<1>7. NothingSkipped BY <1>5 DEF NothingSkipped, W!NothingSkipped
<1> QED BY <1>3, <1>4, <1>6, <1>7 DEF WatchInv

\* A range answer brings its watcher to the revision it has.
LEMMA WatchRange ==
  ASSUME WatchInv, NEW w \in Watchers, NEW r \in 1 .. W!Now(CtxOf[w]), RangeAnswered(w, r)
  PROVE  WatchInv'
<1> DEFINE x == [watch[w] EXCEPT !.rev = r]
           y == W!Process(x, r)
<1>0. r \in Nat /\ r # 0 OBVIOUS
<1>1. x \in W!WatcherRec /\ x.rev = r
  BY <1>0 DEF WatchInv, W!WatcherTypeOK, W!WatcherRec
<1>2. watch' = [watch EXCEPT ![w] = y]
  BY DEF RangeAnswered, W!RangeAnswered, WatchInv, W!WatcherTypeOK
<1>3. seen' = [seen EXCEPT ![w] = State(log[CtxOf[w]], DirOf[w], r)]
  BY StateOfLog DEF RangeAnswered, W!RangeAnswered
<1>4. UNCHANGED <<log, setup, floor, upsets>>
  BY DEF RangeAnswered, W!RangeAnswered, flags
<1> HIDE DEF x
<1>5. y \in W!WatcherRec /\ y.rev = r /\ (y.rpc = "watch" => y.at = r)
  BY <1>0, <1>1, ProcessFacts
<1> HIDE DEF y
<1> QED BY <1>2, <1>3, <1>4, <1>5, EventStep

\* The changes of a watch bring its watcher to the revision they end at.
LEMMA WatchWrites ==
  ASSUME WatchInv, NEW w \in Watchers, NEW r \in 1 .. W!Now(CtxOf[w]), WatchWrite(w, r)
  PROVE  WatchInv'
<1> DEFINE y == [watch[w] EXCEPT !.rev = r, !.at = r]
           l == log[CtxOf[w]]
           a == watch[w].at
           Hits(k) == Between(l, DirOf[w], k, a, r)
<1>0. r \in Nat /\ r # 0 OBVIOUS
<1>1. watch[w] \in W!WatcherRec BY DEF WatchInv, W!WatcherTypeOK
<1>2. y \in W!WatcherRec /\ y.rev = r /\ y.at = r BY <1>0, <1>1 DEF W!WatcherRec
<1>3. watch' = [watch EXCEPT ![w] = y]
  BY DEF WatchWrite, W!WatchWrite, WatchInv, W!WatcherTypeOK
<1>4. a \in Nat /\ a # 0 /\ a = watch[w].rev /\ a < r
  <2>1. a \in Nat /\ a = watch[w].rev /\ a # 0
    BY <1>1 DEF WatchWrite, W!WatchWrite, WatchInv, Ahead, W!WatcherRec
  <2>2. r \in a + 1 .. W!Now(CtxOf[w]) BY DEF WatchWrite, W!WatchWrite
  <2> QED BY <2>1, <2>2
<1>5. seen[w] = State(l, DirOf[w], a)
  BY <1>4, StateOfLog DEF WatchInv, NothingSkipped, W!NothingSkipped
<1>6. ASSUME NEW k \in UsedKeys
      PROVE  Holds(l, DirOf[w], k, r) = IF Hits(k) = {} THEN seen[w][k] ELSE l[W!Max(Hits(k))].val
  <2>1. seen[w][k] = Holds(l, DirOf[w], k, a) BY <1>5 DEF State
  <2> HIDE DEF l, a
  <2> QED BY <1>0, <1>4, <2>1, StateFollows
<1>7. ASSUME NEW k
      PROVE  Hits(k) = {n \in W!Unsent(w, r) : log[CtxOf[w]][n].key = k}
  BY DEF W!Unsent, Between
<1>8. seen' = [seen EXCEPT ![w] = [k \in UsedKeys |->
          IF Hits(k) = {} THEN seen[w][k] ELSE l[W!Max(Hits(k))].val]]
  <2> HIDE DEF Hits
  <2> QED BY <1>7 DEF WatchWrite, W!WatchWrite
<1>9. seen' = [seen EXCEPT ![w] = State(log[CtxOf[w]], DirOf[w], r)]
  <2> HIDE DEF Hits
  <2> QED BY <1>6, <1>8 DEF State
<1>10. UNCHANGED <<log, setup, floor, upsets>>
  BY DEF WatchWrite, W!WatchWrite, flags
<1> HIDE DEF y
<1> QED BY <1>2, <1>3, <1>9, <1>10, EventStep

\* What a watcher does without an event.
LEMMA WatchQuietly ==
  ASSUME WatchInv, ~NotifiedAhead, NEW w \in Watchers, Quietly(w)
  PROVE  WatchInv'
<1>0. setup' = setup /\ floor \in [Contexts -> Nat] /\ upsets \in 0 .. MaxUpsets
      /\ MaxUpsets \in Nat
  BY DiscoveryConstants DEF Quietly, flags, WatchInv, W!WatcherTypeOK
<1>1. watch[w] \in W!WatcherRec /\ W!Now(CtxOf[w]) \in Nat /\ watch[w].rev \in Nat
  BY NowType DEF WatchInv, W!WatcherTypeOK, W!WatcherRec
<1>2. watch[w].rpc = "watch" => watch[w].at = watch[w].rev /\ watch[w].rev # 0
  BY DEF WatchInv, Ahead
<1>3. upsets < MaxUpsets => upsets + 1 \in 0 .. MaxUpsets BY <1>0
<1>4. CASE W!Poll(w)
  <2> DEFINE y == W!Process(watch[w], W!Now(CtxOf[w]))
  <2>1. watch' = [watch EXCEPT ![w] = y] /\ UNCHANGED <<log, floor, seen, upsets>>
    BY <1>4 DEF W!Poll
  <2>2. y \in W!WatcherRec /\ y.rev = watch[w].rev
        /\ (y.rpc = "watch" => y.at = y.rev /\ y.rev # 0)
    BY <1>1, ProcessFacts
  <2> HIDE DEF y
  <2> QED BY <1>0, <2>1, <2>2, QuietStep
<1>5. CASE W!ProbeAnswered(w)
  <2> DEFINE x == [watch[w] EXCEPT !.retry = FALSE]
             y == W!Process(x, W!Now(CtxOf[w]))
  <2>1. watch' = [watch EXCEPT ![w] = y] /\ UNCHANGED <<log, floor, seen, upsets>>
    BY <1>5 DEF W!ProbeAnswered
  <2>2. x \in W!WatcherRec /\ x.rev = watch[w].rev BY <1>1 DEF W!WatcherRec
  <2> HIDE DEF x
  <2>3. y \in W!WatcherRec /\ y.rev = watch[w].rev
        /\ (y.rpc = "watch" => y.at = y.rev /\ y.rev # 0)
    BY <1>1, <2>2, ProcessFacts
  <2> HIDE DEF y
  <2> QED BY <1>0, <2>1, <2>3, QuietStep
<1>6. CASE W!RangeFails(w)
  <2> DEFINE y == [watch[w] EXCEPT !.rpc = "none", !.at = 0]
  <2>1. watch' = [watch EXCEPT ![w] = y]
    BY <1>6 DEF W!RangeFails, WatchInv, W!WatcherTypeOK
  <2>2. UNCHANGED <<log, floor, seen>> /\ upsets' \in 0 .. MaxUpsets
    BY <1>6, <1>3 DEF W!RangeFails
  <2>3. y \in W!WatcherRec /\ y.rev = watch[w].rev /\ y.rpc # "watch"
    BY <1>1 DEF W!WatcherRec
  <2> HIDE DEF y
  <2> QED BY <1>0, <2>1, <2>2, <2>3, QuietStep
<1>7. CASE W!WatchNotified(w)
  <2> DEFINE y == [watch[w] EXCEPT !.rev = watch[w].at]
  <2>1. watch' = [watch EXCEPT ![w] = y] /\ UNCHANGED <<log, floor, seen, upsets>>
    BY <1>7 DEF W!WatchNotified, WatchInv, W!WatcherTypeOK
  <2>2. watch[w].rpc = "watch" BY <1>7 DEF W!WatchNotified
  <2>3. y \in W!WatcherRec /\ y.rev = watch[w].rev /\ y.at = y.rev /\ y.rev # 0
    BY <1>1, <1>2, <2>2 DEF W!WatcherRec
  <2> HIDE DEF y
  <2> QED BY <1>0, <2>1, <2>3, QuietStep
<1>8. CASE W!WatchCancelled(w)
  <2> DEFINE q == IF watch[w].rev < floor[CtxOf[w]] THEN 0 ELSE watch[w].rev
             y == [watch[w] EXCEPT !.rpc = "stopped", !.at = 0, !.rev = q]
  <2>1. watch' = [watch EXCEPT ![w] = y]
    BY <1>8 DEF W!WatchCancelled, WatchInv, W!WatcherTypeOK
  <2>2. UNCHANGED <<log, floor, seen, upsets>> BY <1>8 DEF W!WatchCancelled
  <2>3. q \in {0, watch[w].rev} OBVIOUS
  <2> HIDE DEF q
  <2>4. q \in Nat BY <1>1, <2>3
  <2>5. y \in W!WatcherRec /\ y.rev = q /\ y.rpc # "watch"
    BY <1>1, <2>4 DEF W!WatcherRec
  <2> HIDE DEF y
  <2> QED BY <1>0, <2>1, <2>2, <2>3, <2>5, QuietStep
<1>9. ASSUME NEW later \in BOOLEAN, W!WatchCompleted(w, later) PROVE WatchInv'
  <2> DEFINE x == [watch[w] EXCEPT !.rpc = "none", !.retry = TRUE, !.at = 0]
             y == IF later THEN x ELSE W!Process(x, W!Now(CtxOf[w]))
  <2>1. watch' = [watch EXCEPT ![w] = y] /\ UNCHANGED <<log, floor, seen>>
    BY <1>9 DEF W!WatchCompleted
  <2>2. upsets' \in 0 .. MaxUpsets BY <1>9, <1>0, <1>3 DEF W!WatchCompleted
  <2>3. x \in W!WatcherRec /\ x.rev = watch[w].rev /\ x.rpc = "none"
    BY <1>1 DEF W!WatcherRec
  <2> HIDE DEF x
  <2>4. W!Process(x, W!Now(CtxOf[w])) \in W!WatcherRec
        /\ W!Process(x, W!Now(CtxOf[w])).rev = x.rev
        /\ (W!Process(x, W!Now(CtxOf[w])).rpc = "watch" =>
              W!Process(x, W!Now(CtxOf[w])).at = x.rev /\ x.rev # 0)
    BY <1>1, <2>3, ProcessFacts
  <2>5. y \in W!WatcherRec /\ y.rev = watch[w].rev
        /\ (y.rpc = "watch" => y.at = y.rev /\ y.rev # 0)
    BY <2>3, <2>4
  <2> HIDE DEF y
  <2> QED BY <1>0, <2>1, <2>2, <2>5, QuietStep
<1> QED BY <1>4, <1>5, <1>6, <1>7, <1>8, <1>9 DEF Quietly

\* The server only appends to its history, and what is known stays so.
LEMMA WatchServer ==
  ASSUME WatchInv, Server
  PROVE  WatchInv'
<1>0. setup' = setup BY DEF Server, flags
<1>1. PICK c \in Contexts :
        \/ \E ds \in (SUBSET Dirs(c)) \ {{}} : W!ServerPut(c, ds) \/ W!ServerDelete(c, ds)
        \/ W!ServerCompact(c)
  BY DEF Server
<1>2. CASE W!ServerCompact(c)
  <2>1. W!Now(c) \in Nat
    <3>1. log[c] \in Seq(W!Change) BY DEF WatchInv, W!WatcherTypeOK
    <3> QED BY <3>1 DEF W!Now
  <2>2. floor' \in [Contexts -> Nat] BY <1>2, <2>1 DEF W!ServerCompact, WatchInv, W!WatcherTypeOK
  <2>3. upsets \in 0 .. MaxUpsets /\ MaxUpsets \in Nat
    BY DiscoveryConstants DEF WatchInv, W!WatcherTypeOK
  <2>4. upsets' \in 0 .. MaxUpsets BY <1>2, <2>3 DEF W!ServerCompact
  <2>5. UNCHANGED <<log, watch, seen>> BY <1>2 DEF W!ServerCompact
  <2>6. watch' \in [Watchers -> W!WatcherRec]
        /\ seen' \in [Watchers -> [UsedKeys -> AllItems \cup {None}]]
    BY <2>5 DEF WatchInv, W!WatcherTypeOK
  <2> QED BY <1>0, <2>2, <2>4, <2>5, <2>6, RenewalStep
<1>3. ASSUME NEW ds \in (SUBSET Dirs(c)) \ {{}}, W!ServerPut(c, ds) PROVE WatchInv'
  <2>1. PICK kv \in ItemWrites[c] :
          log' = [log EXCEPT ![c] = Append(@, [dirs |-> ds, key |-> kv[1], val |-> kv[2]])]
    BY <1>3 DEF W!ServerPut
  <2>2. PICK i \in Items[c] : kv = <<KeyOf(i), i>> BY DEF ItemWrites
  <2>3. i \in AllItems BY DEF AllItems
  <2>4. KeyOf(i) \in UsedKeys BY <2>3 DEF UsedKeys
  <2>5. ds \in SUBSET {DirOf[w] : w \in Watchers} BY DEF Dirs, WatchInv
  <2>6. [dirs |-> ds, key |-> kv[1], val |-> kv[2]] \in W!Change
    BY <2>2, <2>3, <2>4, <2>5 DEF W!Change
  <2>7. UNCHANGED <<floor, watch, seen, upsets>> BY <1>3 DEF W!ServerPut
  <2> QED BY <1>0, <2>1, <2>6, <2>7, ChangeStep
<1>4. ASSUME NEW ds \in (SUBSET Dirs(c)) \ {{}}, W!ServerDelete(c, ds) PROVE WatchInv'
  <2>1. PICK k \in UsedKeys :
          log' = [log EXCEPT ![c] = Append(@, [dirs |-> ds, key |-> k, val |-> None])]
    BY <1>4 DEF W!ServerDelete
  <2>2. ds \in SUBSET {DirOf[w] : w \in Watchers} BY DEF Dirs, WatchInv
  <2>3. [dirs |-> ds, key |-> k, val |-> None] \in W!Change
    BY <2>2 DEF W!Change
  <2>4. UNCHANGED <<floor, watch, seen, upsets>> BY <1>4 DEF W!ServerDelete
  <2> QED BY <1>0, <2>1, <2>3, <2>4, ChangeStep
<1> QED BY <1>1, <1>2, <1>3, <1>4

\* The module creates and removes watchers.
LEMMA WatchModule ==
  ASSUME WatchInv, Toggle \/ Tick \/ Stop \/ (\E rule \in Rules : Lookup(rule)) \/ UNCHANGED vars
  PROVE  WatchInv'
<1>0. floor \in [Contexts -> Nat] /\ upsets \in 0 .. MaxUpsets /\ MaxUpsets \in Nat
      /\ watch \in [Watchers -> W!WatcherRec]
      /\ seen \in [Watchers -> [UsedKeys -> AllItems \cup {None}]]
  BY DiscoveryConstants DEF WatchInv, W!WatcherTypeOK
<1>1. W!Created0 \in W!WatcherRec /\ W!Off \in W!WatcherRec
      /\ W!Created0.rev = 0 /\ W!Off.rev = 0
      /\ W!Created0.rpc # "watch" /\ W!Off.rpc # "watch"
  BY DEF W!Created0, W!Off, W!WatcherRec
<1>2. CASE Toggle
  <2>1. upsets' \in 0 .. MaxUpsets BY <1>0, <1>2 DEF Toggle
  <2>2. UNCHANGED <<log, floor, watch, seen, setup>> BY <1>2 DEF Toggle
  <2> QED BY <1>0, <2>1, <2>2, RenewalStep
<1>3. ASSUME Reset, UNCHANGED <<log, floor, upsets, setup>> PROVE WatchInv'
  <2>1. watch' = [w \in Watchers |-> W!Off]
        /\ seen' = [w \in Watchers |-> [k \in UsedKeys |-> None]]
    BY <1>3 DEF Reset, W!Closed
  <2>2. watch' \in [Watchers -> W!WatcherRec]
        /\ seen' \in [Watchers -> [UsedKeys -> AllItems \cup {None}]]
        /\ \A w \in Watchers : watch'[w].rev = 0 /\ watch'[w].rpc # "watch"
    BY <1>1, <2>1
  <2> QED BY <1>0, <1>3, <2>2, RenewalStep
<1>4. CASE Tick
  <2>1. UNCHANGED <<log, floor, upsets, setup>> BY <1>4 DEF Tick
  <2>2. CASE enabled
    <3>1. watch' = [w \in Watchers |-> IF w \in setup THEN W!Created0 ELSE W!Off] /\ seen' = seen
      BY <1>4, <2>2 DEF Tick, Create
    <3>2. watch' \in [Watchers -> W!WatcherRec]
          /\ \A w \in Watchers : watch'[w].rev = 0 /\ watch'[w].rpc # "watch"
      BY <1>1, <3>1
    <3> QED BY <1>0, <2>1, <3>1, <3>2, RenewalStep
  <2>3. CASE ~enabled BY <1>3, <1>4, <2>1, <2>3 DEF Tick
  <2> QED BY <2>2, <2>3
<1>5. CASE Stop BY <1>3, <1>5 DEF Stop
<1>6. CASE UNCHANGED <<etcd, flags>>
  <2>1. UNCHANGED <<log, floor, watch, seen, upsets, setup>> BY <1>6 DEF etcd, flags
  <2> QED BY <1>0, <2>1, RenewalStep
<1>7. ASSUME NEW rule \in Rules, Lookup(rule) PROVE WatchInv'
  BY <1>6, <1>7 DEF Lookup
<1>8. CASE UNCHANGED vars BY <1>6, <1>8 DEF vars
<1> QED BY <1>2, <1>4, <1>5, <1>7, <1>8

\* The invariant is inductive when an answer without events has the revision
\* up to which the watch has sent its events.
THEOREM WatchersKeepUp ==
  ASSUME ~NotifiedAhead
  PROVE  Spec => []WatchInv
<1>1. ASSUME WatchInv, [Next]_vars PROVE WatchInv'
  <2>1. ASSUME NEW w \in Watchers, Quietly(w) PROVE WatchInv'
    BY <1>1, <2>1, WatchQuietly
  <2>2. ASSUME NEW w \in Watchers, NEW r \in 1 .. W!Now(CtxOf[w]), RangeAnswered(w, r)
        PROVE  WatchInv'
    BY <1>1, <2>2, WatchRange
  <2>3. ASSUME NEW w \in Watchers, NEW r \in 1 .. W!Now(CtxOf[w]), WatchWrite(w, r)
        PROVE  WatchInv'
    BY <1>1, <2>3, WatchWrites
  <2>4. CASE Server BY <1>1, <2>4, WatchServer
  <2>5. CASE Toggle \/ Tick \/ Stop \/ (\E rule \in Rules : Lookup(rule)) \/ UNCHANGED vars
    BY <1>1, <2>5, WatchModule
  <2> QED BY <1>1, <2>1, <2>2, <2>3, <2>4, <2>5 DEF Next
<1> QED BY <1>1, InitWatch, PTL DEF Spec

\* What a watcher has delivered is, at every moment, the directory at the
\* revision the watcher will resume from: neither a failed range request, nor a
\* watch that ends, is cancelled by a compaction or is answered late, makes
\* process() and libcurl_callback_on_watch_write() skip a change.
THEOREM WatchersSkipNothing ==
  ASSUME ~NotifiedAhead
  PROVE  Spec => []NothingSkipped
<1>1. WatchInv => NothingSkipped BY DEF WatchInv
<1> QED BY <1>1, WatchersKeepUp, PTL

-----------------------------------------------------------------------------
(* The discovery set.  N are the nodes it may hold.                        *)

Held(s) == {o \in Objects : s.node[o] # None}

\* The indexes lead to the nodes they name and to no others, and a cache is
\* empty or holds the nodes that match its rule.
Tidy(s, N) ==
    /\ s \in Sets
    /\ IsFiniteSet(Held(s))
    /\ \A o \in Held(s) : s.node[o] \in N
    /\ \A i \in Ids, o \in Objects :
          s.byId[i] = o <=> s.node[o] # None /\ s.node[o].info.id = i
    /\ \A n \in Names, o \in Objects :
          s.byName[n] = o <=> s.node[o] # None /\ s.node[o].info.name = n
    /\ \A r \in Rules :
          s.cache[r] # {} => s.cache[r] = {o \in Held(s) : Match(r, s.node[o].info.meta)}

\* The parts of a node that may be registered.
LEMMA NodeFields ==
  ASSUME NEW N, Keyed(N), NEW x \in N
  PROVE  /\ x \in Nodes /\ x # None /\ x.ctx \in Contexts /\ x.info \in Infos
         /\ x.info.id \in Ids \cup {None} /\ x.info.name \in Names \cup {None}
         /\ x.info.id # None \/ x.info.name # None
         /\ x.info.meta \subseteq Labels
BY SetConstants DEF Keyed, Nodes, Infos

\* The parts of a set.
LEMMA SetFields ==
  ASSUME NEW s \in Sets
  PROVE  /\ s.byId \in [Ids -> Objects \cup {None}] /\ s.byName \in [Names -> Objects \cup {None}]
         /\ s.node \in [Objects -> Nodes \cup {None}] /\ s.cache \in [Rules -> SUBSET Objects]
         /\ s = [byId |-> s.byId, byName |-> s.byName, node |-> s.node, cache |-> s.cache]
BY DEF Sets

\* In a set in order the objects under the keys are those that exist.
LEMMA TidyIndexed ==
  ASSUME NEW N, Keyed(N), NEW s, Tidy(s, N)
  PROVE  Indexed(s) = Held(s)
<1>1. s \in Sets /\ s.byId \in [Ids -> Objects \cup {None}] /\ s.byName \in [Names -> Objects \cup {None}]
  BY SetFields DEF Tidy
<1>2. ASSUME NEW o \in Indexed(s) PROVE o \in Held(s)
  <2>1. o # None /\ ((\E i \in Ids : o = s.byId[i]) \/ (\E n \in Names : o = s.byName[n]))
    BY DEF Indexed
  <2>2. o \in Objects BY <1>1, <2>1
  <2> QED BY <2>1, <2>2 DEF Tidy, Held
<1>3. ASSUME NEW o \in Held(s) PROVE o \in Indexed(s)
  <2>1. o \in Objects /\ s.node[o] \in N /\ s.node[o] # None BY DEF Tidy, Held
  <2>2. /\ s.node[o].info.id \in Ids \cup {None} /\ s.node[o].info.name \in Names \cup {None}
        /\ s.node[o].info.id # None \/ s.node[o].info.name # None
    BY <2>1, NodeFields
  <2>3. o # None BY <2>1, SetConstants
  <2>4. CASE s.node[o].info.id # None
    <3>1. s.byId[s.node[o].info.id] = o BY <2>1, <2>2, <2>4 DEF Tidy
    <3> QED BY <2>2, <2>3, <2>4, <3>1 DEF Indexed
  <2>5. CASE s.node[o].info.name # None
    <3>1. s.byName[s.node[o].info.name] = o BY <2>1, <2>2, <2>5 DEF Tidy
    <3> QED BY <2>2, <2>3, <2>5, <3>1 DEF Indexed
  <2> QED BY <2>2, <2>4, <2>5
<1> QED BY <1>2, <1>3

\* The caches that clear_cache() leaves alone
Kept(c, meta, o) ==
    [r \in Rules |-> IF r = {} \/ c[r] \cap {o} # {} \/ (meta # {} /\ Match(r, meta)) THEN {} ELSE c[r]]

\* The set with the node x at the object o, and the set without the object p
With(s, o, x) ==
    [byId |-> [i \in Ids |-> IF i = x.info.id THEN o ELSE s.byId[i]],
     byName |-> [n \in Names |-> IF n = x.info.name THEN o ELSE s.byName[n]],
     node |-> [s.node EXCEPT ![o] = x],
     cache |-> Kept(s.cache, x.info.meta, o)]
Without(s, p) ==
    [byId |-> [i \in Ids |-> IF s.byId[i] = p THEN None ELSE s.byId[i]],
     byName |-> [n \in Names |-> IF s.byName[n] = p THEN None ELSE s.byName[n]],
     node |-> [s.node EXCEPT ![p] = None],
     cache |-> Kept(s.cache, s.node[p].info.meta, p)]

\* x can be stored in o: no other object has its id or its name, and o has both
\* if it is in use.
Fits(s, o, x) ==
    /\ \A p \in Held(s) : p # o =>
          /\ x.info.id = None \/ s.node[p].info.id # x.info.id
          /\ x.info.name = None \/ s.node[p].info.name # x.info.name
    /\ o \in Held(s) => KeyOf(s.node[o].info) = KeyOf(x.info)

\* A key is an id and a name.
LEMMA KeyFields ==
  ASSUME NEW i, NEW j PROVE KeyOf(i) = KeyOf(j) <=> i.id = j.id /\ i.name = j.name
BY DEF KeyOf

\* What nothing points to is all that Collect destroys.
LEMMA CollectTidy ==
  ASSUME NEW N, Keyed(N), NEW u, Tidy(u, N), NEW m \in [Objects -> Nodes \cup {None}],
         \A o \in Held(u) : m[o] = u.node[o]
  PROVE  Collect([u EXCEPT !.node = m]) = u
<1> DEFINE t == [u EXCEPT !.node = m]
           used == Indexed(t) \cup UNION {t.cache[r] : r \in Rules}
<1>1. u \in Sets /\ u.node \in [Objects -> Nodes \cup {None}] BY SetFields DEF Tidy
<1>2. t.byId = u.byId /\ t.byName = u.byName /\ t.cache = u.cache /\ t.node = m
  BY <1>1 DEF Sets
<1>3. Indexed(t) = Held(u)
  <2>1. Indexed(t) = Indexed(u) BY <1>2 DEF Indexed
  <2> QED BY <2>1, TidyIndexed
<1>4. \A r \in Rules : t.cache[r] \subseteq Held(u) BY <1>2 DEF Tidy
<1>5. used = Held(u) BY <1>3, <1>4
<1>6. Collect(t) = [t EXCEPT !.node = [o \in Objects |-> IF o \in used THEN t.node[o] ELSE None]]
  BY DEF Collect
<1> HIDE DEF used
<1>7. [o \in Objects |-> IF o \in used THEN t.node[o] ELSE None] = u.node
  BY <1>1, <1>2, <1>5 DEF Held
<1>8. Collect(t) = [t EXCEPT !.node = u.node] BY <1>6, <1>7
<1> QED BY <1>1, <1>8 DEF Sets

\* The caches that clear_cache() keeps are those it had.
LEMMA KeptTyped ==
  ASSUME NEW c \in [Rules -> SUBSET Objects], NEW meta, NEW o
  PROVE  /\ Kept(c, meta, o) \in [Rules -> SUBSET Objects]
         /\ \A r \in Rules : Kept(c, meta, o)[r] # {} =>
               Kept(c, meta, o)[r] = c[r] /\ o \notin c[r] /\ ~Match(r, meta)
BY SetConstants DEF Kept, Match

\* A set in order stays so when a node comes in that fits.
LEMMA WithTidy ==
  ASSUME NEW N, Keyed(N), NEW s, Tidy(s, N), NEW o \in Objects, NEW x \in N, Fits(s, o, x)
  PROVE  Tidy(With(s, o, x), N) /\ Held(With(s, o, x)) = Held(s) \cup {o}
<1> DEFINE r == With(s, o, x)
           ids == [i \in Ids |-> IF i = x.info.id THEN o ELSE s.byId[i]]
           names == [n \in Names |-> IF n = x.info.name THEN o ELSE s.byName[n]]
           nodes1 == [s.node EXCEPT ![o] = x]
           kept == Kept(s.cache, x.info.meta, o)
<1>0. /\ s \in Sets /\ s.node \in [Objects -> Nodes \cup {None}]
      /\ s.byId \in [Ids -> Objects \cup {None}] /\ s.byName \in [Names -> Objects \cup {None}]
      /\ s.cache \in [Rules -> SUBSET Objects]
  BY SetFields DEF Tidy
<1>1. x \in Nodes /\ x # None /\ x.info.id \in Ids \cup {None} /\ x.info.name \in Names \cup {None}
  BY NodeFields
<1>2. r.byId = ids /\ r.byName = names /\ r.node = nodes1 /\ r.cache = kept BY DEF With
<1>3. ids \in [Ids -> Objects \cup {None}] /\ names \in [Names -> Objects \cup {None}]
      /\ nodes1 \in [Objects -> Nodes \cup {None}] /\ kept \in [Rules -> SUBSET Objects]
  BY <1>0, <1>1, KeptTyped
<1>4. r \in Sets BY <1>3 DEF Sets, With
<1>5. nodes1[o] = x /\ \A p \in Objects : p # o => nodes1[p] = s.node[p] BY <1>0
<1> HIDE DEF r, ids, names, nodes1, kept
<1>6. Held(r) = Held(s) \cup {o} BY <1>1, <1>2, <1>5 DEF Held
<1>7. IsFiniteSet(Held(r)) BY <1>6, FS_AddElement DEF Tidy
<1>8. \A p \in Held(r) : r.node[p] \in N BY <1>2, <1>5, <1>6 DEF Tidy, Held
<1>9. ASSUME NEW i \in Ids, NEW p \in Objects
      PROVE  r.byId[i] = p <=> r.node[p] # None /\ r.node[p].info.id = i
  <2>1. s.byId[i] = p <=> s.node[p] # None /\ s.node[p].info.id = i BY DEF Tidy
  <2>2. r.byId[i] = IF i = x.info.id THEN o ELSE s.byId[i] BY <1>2 DEF ids
  <2>3. CASE p = o
    <3>1. r.node[p] = x BY <1>2, <1>5, <2>3
    <3>2. s.byId[i] = o => i = x.info.id
      BY <2>1, <2>3, KeyFields DEF Fits, Held
    <3> QED BY <3>1, <3>2, <1>1, <2>2, <2>3
  <2>4. CASE p # o
    <3>1. r.node[p] = s.node[p] BY <1>2, <1>5, <2>4
    <3>2. i = x.info.id => s.byId[i] # p
      BY <2>1, <2>4, SetConstants DEF Fits, Held
    <3> QED BY <3>1, <3>2, <2>1, <2>2, <2>4
  <2> QED BY <2>3, <2>4
<1>10. ASSUME NEW n \in Names, NEW p \in Objects
      PROVE  r.byName[n] = p <=> r.node[p] # None /\ r.node[p].info.name = n
  <2>1. s.byName[n] = p <=> s.node[p] # None /\ s.node[p].info.name = n BY DEF Tidy
  <2>2. r.byName[n] = IF n = x.info.name THEN o ELSE s.byName[n] BY <1>2 DEF names
  <2>3. CASE p = o
    <3>1. r.node[p] = x BY <1>2, <1>5, <2>3
    <3>2. s.byName[n] = o => n = x.info.name
      BY <2>1, <2>3, KeyFields DEF Fits, Held
    <3> QED BY <3>1, <3>2, <1>1, <2>2, <2>3
  <2>4. CASE p # o
    <3>1. r.node[p] = s.node[p] BY <1>2, <1>5, <2>4
    <3>2. n = x.info.name => s.byName[n] # p
      BY <2>1, <2>4, SetConstants DEF Fits, Held
    <3> QED BY <3>1, <3>2, <2>1, <2>2, <2>4
  <2> QED BY <2>3, <2>4
<1>11. ASSUME NEW rule \in Rules, r.cache[rule] # {}
       PROVE  r.cache[rule] = {p \in Held(r) : Match(rule, r.node[p].info.meta)}
  <2>1. r.cache[rule] = s.cache[rule] /\ o \notin s.cache[rule] /\ ~Match(rule, x.info.meta)
    BY <1>0, <1>2, <1>11, KeptTyped DEF kept
  <2>2. s.cache[rule] = {p \in Held(s) : Match(rule, s.node[p].info.meta)}
    BY <1>11, <2>1 DEF Tidy
  <2>3. ASSUME NEW p \in Objects
        PROVE  p \in s.cache[rule] <=> p \in Held(r) /\ Match(rule, r.node[p].info.meta)
    <3>1. CASE p = o BY <3>1, <2>1, <1>2, <1>5
    <3>2. CASE p # o BY <3>2, <2>2, <1>2, <1>5, <1>6
    <3> QED BY <3>1, <3>2
  <2>4. s.cache[rule] \subseteq Objects /\ Held(r) \subseteq Objects BY <1>0 DEF Held
  <2> QED BY <2>1, <2>3, <2>4
<1>12. Tidy(r, N) BY <1>4, <1>7, <1>8, <1>9, <1>10, <1>11 DEF Tidy
<1> QED BY <1>6, <1>12 DEF r

\* A set in order stays so when a node goes.
LEMMA WithoutTidy ==
  ASSUME NEW N, Keyed(N), NEW s, Tidy(s, N), NEW p \in Held(s)
  PROVE  Tidy(Without(s, p), N) /\ Held(Without(s, p)) = Held(s) \ {p}
<1> DEFINE r == Without(s, p)
           ids == [i \in Ids |-> IF s.byId[i] = p THEN None ELSE s.byId[i]]
           names == [n \in Names |-> IF s.byName[n] = p THEN None ELSE s.byName[n]]
           nodes1 == [s.node EXCEPT ![p] = None]
           kept == Kept(s.cache, s.node[p].info.meta, p)
<1>0. /\ s \in Sets /\ s.node \in [Objects -> Nodes \cup {None}]
      /\ s.byId \in [Ids -> Objects \cup {None}] /\ s.byName \in [Names -> Objects \cup {None}]
      /\ s.cache \in [Rules -> SUBSET Objects] /\ p \in Objects /\ s.node[p] # None
  BY SetFields DEF Tidy, Held
<1>2. r.byId = ids /\ r.byName = names /\ r.node = nodes1 /\ r.cache = kept BY DEF Without
<1>3. ids \in [Ids -> Objects \cup {None}] /\ names \in [Names -> Objects \cup {None}]
      /\ nodes1 \in [Objects -> Nodes \cup {None}] /\ kept \in [Rules -> SUBSET Objects]
  BY <1>0, KeptTyped
<1>4. r \in Sets BY <1>3 DEF Sets, Without
<1>5. nodes1[p] = None /\ \A o \in Objects : o # p => nodes1[o] = s.node[o] BY <1>0
<1> HIDE DEF r, ids, names, nodes1, kept
<1>6. Held(r) = Held(s) \ {p} BY <1>2, <1>5 DEF Held
<1>7. IsFiniteSet(Held(r)) BY <1>6, FS_Subset DEF Tidy
<1>8. \A o \in Held(r) : r.node[o] \in N BY <1>2, <1>5, <1>6 DEF Tidy, Held
<1>9. ASSUME NEW i \in Ids, NEW o \in Objects
      PROVE  r.byId[i] = o <=> r.node[o] # None /\ r.node[o].info.id = i
  <2>1. s.byId[i] = o <=> s.node[o] # None /\ s.node[o].info.id = i BY DEF Tidy
  <2>2. r.byId[i] = IF s.byId[i] = p THEN None ELSE s.byId[i] BY <1>2 DEF ids
  <2>3. o # None BY SetConstants
  <2> QED BY <1>2, <1>5, <2>1, <2>2, <2>3
<1>10. ASSUME NEW n \in Names, NEW o \in Objects
      PROVE  r.byName[n] = o <=> r.node[o] # None /\ r.node[o].info.name = n
  <2>1. s.byName[n] = o <=> s.node[o] # None /\ s.node[o].info.name = n BY DEF Tidy
  <2>2. r.byName[n] = IF s.byName[n] = p THEN None ELSE s.byName[n] BY <1>2 DEF names
  <2>3. o # None BY SetConstants
  <2> QED BY <1>2, <1>5, <2>1, <2>2, <2>3
<1>11. ASSUME NEW rule \in Rules, r.cache[rule] # {}
       PROVE  r.cache[rule] = {o \in Held(r) : Match(rule, r.node[o].info.meta)}
  <2>1. r.cache[rule] = s.cache[rule] /\ p \notin s.cache[rule]
    BY <1>0, <1>2, <1>11, KeptTyped DEF kept
  <2>2. s.cache[rule] = {o \in Held(s) : Match(rule, s.node[o].info.meta)}
    BY <1>11, <2>1 DEF Tidy
  <2>3. ASSUME NEW o \in Objects
        PROVE  o \in s.cache[rule] <=> o \in Held(r) /\ Match(rule, r.node[o].info.meta)
    BY <2>1, <2>2, <1>2, <1>5, <1>6
  <2>4. s.cache[rule] \subseteq Objects /\ Held(r) \subseteq Objects BY <1>0 DEF Held
  <2> QED BY <2>1, <2>3, <2>4
<1>12. Tidy(r, N) BY <1>4, <1>7, <1>8, <1>9, <1>10, <1>11 DEF Tidy
<1> QED BY <1>6, <1>12 DEF r

\* The value with its indexes replaced
Reindexed(v, ids, names) == [v EXCEPT !.byId = ids, !.byName = names]

\* New indexes leave the nodes and the caches.
LEMMA ReindexedFields ==
  ASSUME NEW i, NEW n, NEW m, NEW c, NEW j, NEW k, NEW v,
         v = [byId |-> i, byName |-> n, node |-> m, cache |-> c]
  PROVE  Reindexed(v, j, k) = [byId |-> j, byName |-> k, node |-> m, cache |-> c]
<1> DEFINE q == [v EXCEPT !.byId = j]
<1>1. q = [byId |-> j, byName |-> n, node |-> m, cache |-> c] OBVIOUS
<1>2. Reindexed(v, j, k) = [q EXCEPT !.byName = k] BY DEF Reindexed
<1> HIDE DEF q
<1>3. [[byId |-> j, byName |-> n, node |-> m, cache |-> c] EXCEPT !.byName = k]
        = [byId |-> j, byName |-> k, node |-> m, cache |-> c]
  OBVIOUS
<1> QED BY <1>1, <1>2, <1>3

\* add_node() of an object that was given its node.
LEMMA AddFacts ==
  ASSUME NEW N, Keyed(N), NEW s, Tidy(s, N), NEW o \in Objects, NEW x \in N, Fits(s, o, x)
  PROVE  AddNode([s EXCEPT !.node = [s.node EXCEPT ![o] = x]], o) = With(s, o, x)
<1> DEFINE m == [s.node EXCEPT ![o] = x]
           t == [s EXCEPT !.node = m]
           u == With(s, o, x)
           info == t.node[o].info
           atId == ById(t, info.id)
           atName == ByName(t, info.name)
           replaced == {atId, atName} \ {None, o}
           oldName == IF atId \in replaced /\ t.node[atId].info.name # info.name
                      THEN t.node[atId].info.name ELSE None
           oldId == IF atName \in replaced /\ t.node[atName].info.id # info.id
                    THEN t.node[atName].info.id ELSE None
           ids == [i \in Ids |-> IF i = info.id THEN o
                                 ELSE IF i = oldId /\ t.byId[i] # o THEN None ELSE t.byId[i]]
           names == [n \in Names |-> IF n = info.name THEN o
                                 ELSE IF n = oldName /\ t.byName[n] # o THEN None ELSE t.byName[n]]
           cleared == IF replaced = {} THEN {o} ELSE replaced
<1>0. /\ s \in Sets /\ s.node \in [Objects -> Nodes \cup {None}]
      /\ s.byId \in [Ids -> Objects \cup {None}] /\ s.byName \in [Names -> Objects \cup {None}]
      /\ s.cache \in [Rules -> SUBSET Objects]
  BY SetFields DEF Tidy
<1>1. x \in Nodes /\ x # None BY NodeFields
<1>2. m \in [Objects -> Nodes \cup {None}] /\ m[o] = x BY <1>0, <1>1
<1>3. t.byId = s.byId /\ t.byName = s.byName /\ t.cache = s.cache /\ t.node = m
  BY <1>0 DEF Sets
<1>15. t = [byId |-> s.byId, byName |-> s.byName, node |-> m, cache |-> s.cache] BY <1>0 DEF Sets
<1>4. AddNode(t, o) = Collect(ClearCache([t EXCEPT !.byId = ids, !.byName = names], info.meta, cleared))
  BY DEF AddNode
<1>5. info = x.info BY <1>2, <1>3
<1>6. atId \in {None, o}
  <2>1. CASE x.info.id \notin Ids BY <1>5, <2>1 DEF ById
  <2>2. CASE x.info.id \in Ids
    <3>1. atId = s.byId[x.info.id] BY <1>3, <1>5, <2>2 DEF ById
    <3>2. atId \in Objects \cup {None} BY <1>0, <2>2, <3>1
    <3>3. x.info.id # None BY <2>2, SetConstants
    <3> HIDE DEF atId
    <3>4. atId \in Objects => atId \in Held(s) /\ s.node[atId].info.id = x.info.id
      BY <2>2, <3>1 DEF Tidy, Held
    <3> QED BY <3>2, <3>3, <3>4 DEF Fits
  <2> QED BY <2>1, <2>2
<1>7. atName \in {None, o}
  <2>1. CASE x.info.name \notin Names BY <1>5, <2>1 DEF ByName
  <2>2. CASE x.info.name \in Names
    <3>1. atName = s.byName[x.info.name] BY <1>3, <1>5, <2>2 DEF ByName
    <3>2. atName \in Objects \cup {None} BY <1>0, <2>2, <3>1
    <3>3. x.info.name # None BY <2>2, SetConstants
    <3> HIDE DEF atName
    <3>4. atName \in Objects => atName \in Held(s) /\ s.node[atName].info.name = x.info.name
      BY <2>2, <3>1 DEF Tidy, Held
    <3> QED BY <3>2, <3>3, <3>4 DEF Fits
  <2> QED BY <2>1, <2>2
<1>8. replaced = {} BY <1>6, <1>7
<1>9. oldName = None /\ oldId = None /\ cleared = {o}
  <2> HIDE DEF replaced
  <2> QED BY <1>8
<1> HIDE DEF info, atId, atName, replaced, oldName, oldId, cleared
<1>10. ids = u.byId /\ names = u.byName BY <1>3, <1>5, <1>9, SetConstants DEF With
<1> HIDE DEF ids, names
<1>11. ClearCache([t EXCEPT !.byId = ids, !.byName = names], info.meta, cleared) = [u EXCEPT !.node = m]
  <2> DEFINE w == [t EXCEPT !.byId = ids, !.byName = names]
  <2>1. w = [byId |-> ids, byName |-> names, node |-> m, cache |-> s.cache]
    <3>1. w = Reindexed(t, ids, names) BY DEF Reindexed
    <3> HIDE DEF t, m, w
    <3> QED BY <1>15, <3>1, ReindexedFields
  <2> HIDE DEF w
  <2>2. [r \in Rules |-> IF \/ r = {} \/ w.cache[r] \cap cleared # {}
                            \/ info.meta # {} /\ Match(r, info.meta)
                         THEN {} ELSE w.cache[r]] = Kept(s.cache, x.info.meta, o)
    BY <2>1, <1>5, <1>9 DEF Kept
  <2>3. ClearCache(w, info.meta, cleared) = [w EXCEPT !.cache = Kept(s.cache, x.info.meta, o)]
    BY <2>2 DEF ClearCache
  <2> QED BY <1>10, <2>1, <2>3 DEF With, w
<1>12. Tidy(u, N) BY WithTidy
<1>13. u.node = m BY DEF With
<1> HIDE DEF u, m, t
<1>14. Collect([u EXCEPT !.node = m]) = u BY <1>2, <1>12, <1>13, CollectTidy
<1> QED BY <1>4, <1>11, <1>14 DEF u, m, t

\* remove_node() of a node of the set, whatever nodes the objects outside it
\* were given.
LEMMA RemoveFacts ==
  ASSUME NEW N, Keyed(N), NEW s, Tidy(s, N), NEW p \in Held(s),
         NEW m \in [Objects -> Nodes \cup {None}], \A o \in Held(s) : m[o] = s.node[o]
  PROVE  RemoveNode([s EXCEPT !.node = m], p) = Without(s, p)
<1> DEFINE t == [s EXCEPT !.node = m]
           u == Without(s, p)
           info == t.node[p].info
           ids == [i \in Ids |-> IF i = info.id /\ t.byId[i] = p THEN None ELSE t.byId[i]]
           names == [n \in Names |-> IF n = info.name /\ t.byName[n] = p THEN None
                                     ELSE t.byName[n]]
           q == [t EXCEPT !.byId = ids, !.byName = names]
<1>0. /\ s \in Sets /\ s.node \in [Objects -> Nodes \cup {None}]
      /\ s.byId \in [Ids -> Objects \cup {None}] /\ s.byName \in [Names -> Objects \cup {None}]
      /\ s.cache \in [Rules -> SUBSET Objects] /\ p \in Objects /\ s.node[p] # None
  BY SetFields DEF Tidy, Held
<1>1. s.node[p] \in N BY DEF Tidy
<1>3. t.byId = s.byId /\ t.byName = s.byName /\ t.cache = s.cache /\ t.node = m
  BY <1>0 DEF Sets
<1>16. t = [byId |-> s.byId, byName |-> s.byName, node |-> m, cache |-> s.cache] BY <1>0 DEF Sets
<1>4. RemoveNode(t, p) = IF q = t THEN t ELSE Collect(ClearCache(q, info.meta, {p}))
  BY DEF RemoveNode
<1>5. info = s.node[p].info BY <1>3
<1>6. /\ info.id \in Ids \cup {None} /\ info.name \in Names \cup {None}
      /\ info.id # None \/ info.name # None
  BY <1>1, <1>5, NodeFields
<1>7. \A i \in Ids : s.byId[i] = p <=> i = info.id BY <1>0, <1>5 DEF Tidy
<1>8. \A n \in Names : s.byName[n] = p <=> n = info.name BY <1>0, <1>5 DEF Tidy
<1> HIDE DEF info
<1>9. ids = u.byId /\ names = u.byName BY <1>3, <1>7, <1>8 DEF Without
<1>10. q = [byId |-> ids, byName |-> names, node |-> m, cache |-> s.cache]
  <2> HIDE DEF t, ids, names
  <2>1. q = Reindexed(t, ids, names) BY DEF Reindexed
  <2> HIDE DEF q
  <2> QED BY <1>16, <2>1, ReindexedFields
<1>11. q # t
  <2>1. p # None BY <1>0, SetConstants
  <2>2. CASE info.id # None
    <3>1. ids[info.id] = None /\ s.byId[info.id] = p BY <1>3, <1>6, <1>7, <2>2
    <3>2. ids # t.byId BY <2>1, <3>1, <1>3
    <3>3. q.byId = ids BY <1>10
    <3> QED BY <3>2, <3>3
  <2>3. CASE info.name # None
    <3>1. names[info.name] = None /\ s.byName[info.name] = p BY <1>3, <1>6, <1>8, <2>3
    <3>2. names # t.byName BY <2>1, <3>1, <1>3
    <3>3. q.byName = names BY <1>10
    <3> QED BY <3>2, <3>3
  <2> QED BY <1>6, <2>2, <2>3
<1> HIDE DEF ids, names, q
<1>12. ClearCache(q, info.meta, {p}) = [u EXCEPT !.node = m]
  <2>1. [r \in Rules |-> IF \/ r = {} \/ q.cache[r] \cap {p} # {}
                            \/ info.meta # {} /\ Match(r, info.meta)
                         THEN {} ELSE q.cache[r]] = Kept(s.cache, s.node[p].info.meta, p)
    BY <1>10, <1>5 DEF Kept
  <2>2. ClearCache(q, info.meta, {p}) = [q EXCEPT !.cache = Kept(s.cache, s.node[p].info.meta, p)]
    BY <2>1 DEF ClearCache
  <2> DEFINE k == Kept(s.cache, s.node[p].info.meta, p)
  <2>3. u = [byId |-> u.byId, byName |-> u.byName, node |-> u.node, cache |-> k] BY DEF Without
  <2> HIDE DEF u, k
  <2>4. [q EXCEPT !.cache = k] = [byId |-> ids, byName |-> names, node |-> m, cache |-> k]
    BY <1>10
  <2>5. [u EXCEPT !.node = m] = [byId |-> u.byId, byName |-> u.byName, node |-> m, cache |-> k]
    BY <2>3
  <2> QED BY <1>9, <2>2, <2>4, <2>5 DEF k
<1>13. Tidy(u, N) /\ Held(u) = Held(s) \ {p} BY WithoutTidy
<1>14. \A o \in Held(u) : m[o] = u.node[o]
  <2>1. u.node = [s.node EXCEPT ![p] = None] BY DEF Without
  <2> QED BY <1>0, <1>13, <2>1 DEF Held
<1> HIDE DEF u, t
<1>15. Collect([u EXCEPT !.node = m]) = u BY <1>13, <1>14, CollectTidy
<1> QED BY <1>4, <1>11, <1>12, <1>15 DEF u, t

\* Two objects of the set have different keys.
LEMMA HeldDiffer ==
  ASSUME NEW N, Keyed(N), NEW s, Tidy(s, N), NEW o \in Held(s), NEW p \in Held(s),
         KeyOf(s.node[o].info) = KeyOf(s.node[p].info)
  PROVE  o = p
<1>1. /\ o \in Objects /\ p \in Objects /\ s.node[o] # None /\ s.node[p] # None
      /\ s.node[o] \in N
  BY DEF Tidy, Held
<1>2. s.node[o].info.id = s.node[p].info.id /\ s.node[o].info.name = s.node[p].info.name
  BY KeyFields
<1>3. /\ s.node[o].info.id \in Ids \cup {None} /\ s.node[o].info.name \in Names \cup {None}
      /\ s.node[o].info.id # None \/ s.node[o].info.name # None
  BY <1>1, NodeFields
<1>4. CASE s.node[o].info.id \in Ids
  <2>1. s.byId[s.node[o].info.id] = o /\ s.byId[s.node[o].info.id] = p
    BY <1>1, <1>2, <1>4 DEF Tidy
  <2> QED BY <2>1
<1>5. CASE s.node[o].info.name \in Names
  <2>1. s.byName[s.node[o].info.name] = o /\ s.byName[s.node[o].info.name] = p
    BY <1>1, <1>2, <1>5 DEF Tidy
  <2> QED BY <2>1
<1> QED BY <1>3, <1>4, <1>5

\* There is an object for a new node.
LEMMA FreshFacts ==
  ASSUME NEW N, Keyed(N), Roomy(N), NEW s, Tidy(s, N)
  PROVE  Fresh(s) \in Objects \ Held(s)
<1> DEFINE free == {o \in Objects : s.node[o] = None}
           keys == {KeyOf(x.info) : x \in N}
           f == [o \in Objects |-> KeyOf(s.node[o].info)]
<1>1. free # {}
  <2> SUFFICES ASSUME free = {} PROVE FALSE OBVIOUS
  <2>1. Objects = Held(s) BY DEF Held
  <2>2. IsFiniteSet(Objects) BY <2>1 DEF Tidy
  <2>3. IsFiniteSet(keys) /\ Cardinality(keys) < Cardinality(Objects) BY <2>2 DEF Roomy
  <2>4. f \in [Objects -> keys] BY <2>1 DEF Tidy
  <2>5. \A o, p \in Objects : f[o] = f[p] => o = p BY <2>1, HeldDiffer
  <2>6. f \in Injection(Objects, keys)
    <3> HIDE DEF f, keys
    <3> QED BY <2>4, <2>5 DEF Injection, IsInjective
  <2> HIDE DEF f, keys
  <2>7. Cardinality(Objects) <= Cardinality(keys) BY <2>3, <2>6, FS_Injection
  <2>8. Cardinality(Objects) \in Nat /\ Cardinality(keys) \in Nat BY <2>2, <2>3, FS_CardinalityType
  <2> QED BY <2>3, <2>7, <2>8
<1>2. free \subseteq Nat BY SetConstants
<1>3. \E o \in free : \A p \in free : o <= p
  <2> HIDE DEF free
  <2> QED BY <1>1, <1>2, Least
<1>4. Fresh(s) = CHOOSE o \in free : \A p \in free : o <= p BY DEF Fresh
<1>5. Fresh(s) \in free
  <2> HIDE DEF free
  <2> QED BY <1>3, <1>4, Zenon
<1> QED BY <1>5 DEF Held

\* rebuild_cache() finds every node of the set.
LEMMA RebuildFacts ==
  ASSUME NEW N, Keyed(N), NEW s, Tidy(s, N), NEW rule \in Rules
  PROVE  LET r == RebuildCache(s, rule)
         IN Tidy(r, N) /\ r.node = s.node /\ r.byId = s.byId /\ Held(r) = Held(s)
<1> DEFINE named == {s.byName[n] : n \in Names} \ {None}
           others == {o \in {s.byId[i] : i \in Ids} \ {None} : s.node[o].info.name = None}
           all == {o \in named : s.node[o].info.name # None} \cup others
           match == {o \in all : Match(rule, s.node[o].info.meta)}
           c == [s.cache EXCEPT ![rule] = IF s.cache[rule] # {} THEN s.cache[rule] ELSE match]
           r == RebuildCache(s, rule)
<1>0. /\ s \in Sets /\ s.node \in [Objects -> Nodes \cup {None}]
      /\ s.byId \in [Ids -> Objects \cup {None}] /\ s.byName \in [Names -> Objects \cup {None}]
      /\ s.cache \in [Rules -> SUBSET Objects]
  BY SetFields DEF Tidy
<1>1. all = Held(s)
  <2>1. ASSUME NEW o \in all PROVE o \in Held(s)
    <3>1. o \in Indexed(s) BY DEF Indexed
    <3> QED BY <3>1, TidyIndexed
  <2>2. ASSUME NEW o \in Held(s) PROVE o \in all
    <3>1. o \in Objects /\ s.node[o] # None /\ s.node[o] \in N BY DEF Tidy, Held
    <3>2. /\ s.node[o].info.id \in Ids \cup {None} /\ s.node[o].info.name \in Names \cup {None}
          /\ s.node[o].info.id # None \/ s.node[o].info.name # None
      BY <3>1, NodeFields
    <3>3. o # None BY <3>1, SetConstants
    <3>4. CASE s.node[o].info.name # None
      <4>1. s.byName[s.node[o].info.name] = o BY <3>1, <3>2, <3>4 DEF Tidy
      <4> QED BY <3>2, <3>3, <3>4, <4>1
    <3>5. CASE s.node[o].info.name = None
      <4>1. s.byId[s.node[o].info.id] = o BY <3>1, <3>2, <3>5 DEF Tidy
      <4> QED BY <3>2, <3>3, <3>5, <4>1
    <3> QED BY <3>4, <3>5
  <2> QED BY <2>1, <2>2
<1>2. match = {o \in Held(s) : Match(rule, s.node[o].info.meta)} BY <1>1
<1> HIDE DEF named, others, all
<1>3. match \subseteq Objects BY <1>2 DEF Held
<1>4. r = [s EXCEPT !.cache = c]
  <2>1. r = [s EXCEPT !.cache[rule] = IF @ # {} THEN @ ELSE match]
    BY DEF RebuildCache, named, others, all
  <2> QED BY <2>1, <1>0 DEF Sets
<1>5. c \in [Rules -> SUBSET Objects] BY <1>0, <1>3
<1>6. \A q \in Rules : c[q] # {} => c[q] = {o \in Held(s) : Match(q, s.node[o].info.meta)}
  <2> SUFFICES ASSUME NEW q \in Rules, c[q] # {}
               PROVE  c[q] = {o \in Held(s) : Match(q, s.node[o].info.meta)}
    OBVIOUS
  <2>1. CASE c[q] = s.cache[q] BY <2>1 DEF Tidy
  <2>2. CASE c[q] # s.cache[q]
    <3>1. q = rule /\ c[q] = match BY <2>2, <1>0
    <3> QED BY <3>1, <1>2
  <2> QED BY <2>1, <2>2
<1> HIDE DEF match, c, r
<1>7. r.node = s.node /\ r.byId = s.byId /\ r.byName = s.byName /\ r.cache = c /\ r \in Sets
  BY <1>0, <1>4, <1>5 DEF Sets
<1>8. Held(r) = Held(s) BY <1>7 DEF Held
<1>9. Tidy(r, N) BY <1>6, <1>7, <1>8 DEF Tidy
<1> QED BY <1>7, <1>8, <1>9 DEF r

\* The picture of a set that its events give
ToldOf(s) == [i \in Ids |-> IF s.byId[i] = None THEN None ELSE s.node[s.byId[i]].info]

\* What the application knows after a node is added.
LEMMA ToldWith ==
  ASSUME NEW N, Keyed(N), NEW s, Tidy(s, N), NEW o \in Objects, NEW x \in N, Fits(s, o, x)
  PROVE  ToldOf(With(s, o, x)) = IF x.info.id = None THEN ToldOf(s)
                                 ELSE [ToldOf(s) EXCEPT ![x.info.id] = x.info]
<1> DEFINE r == With(s, o, x)
<1>0. /\ s.node \in [Objects -> Nodes \cup {None}] /\ s.byId \in [Ids -> Objects \cup {None}]
      /\ x.info.id \in Ids \cup {None} /\ None \notin Ids /\ None \notin Objects
  BY SetFields, SetConstants, NodeFields DEF Tidy
<1>1. r.byId = [i \in Ids |-> IF i = x.info.id THEN o ELSE s.byId[i]]
      /\ r.node = [s.node EXCEPT ![o] = x]
  BY DEF With
<1> HIDE DEF r
<1>2. ASSUME NEW i \in Ids
      PROVE  ToldOf(r)[i] = IF i = x.info.id THEN x.info ELSE ToldOf(s)[i]
  <2>1. CASE i = x.info.id
    <3>1. r.byId[i] = o /\ r.node[o] = x BY <1>0, <1>1, <2>1
    <3>2. o # None BY <1>0
    <3> QED BY <2>1, <3>1, <3>2 DEF ToldOf
  <2>2. CASE i # x.info.id
    <3>1. r.byId[i] = s.byId[i] BY <1>1, <2>2
    <3>2. s.byId[i] # o
      <4> SUFFICES ASSUME s.byId[i] = o PROVE FALSE OBVIOUS
      <4>1. s.node[o] # None /\ s.node[o].info.id = i BY DEF Tidy
      <4>2. s.node[o].info.id = x.info.id BY <4>1, KeyFields DEF Fits, Held
      <4> QED BY <4>1, <4>2, <2>2
    <3>3. s.byId[i] # None => r.node[s.byId[i]] = s.node[s.byId[i]] BY <1>0, <1>1, <3>2
    <3> QED BY <2>2, <3>1, <3>3 DEF ToldOf
  <2> QED BY <2>1, <2>2
<1>3. ToldOf(r) = [i \in Ids |-> IF i = x.info.id THEN x.info ELSE ToldOf(s)[i]]
  <2> HIDE DEF r
  <2>1. ToldOf(r) = [i \in Ids |-> ToldOf(r)[i]] BY DEF ToldOf
  <2> QED BY <1>2, <2>1
<1>4. ToldOf(s) = [i \in Ids |-> ToldOf(s)[i]] BY DEF ToldOf
<1> QED BY <1>0, <1>3, <1>4 DEF r

\* What the application knows after a node is removed.
LEMMA ToldWithout ==
  ASSUME NEW N, Keyed(N), NEW s, Tidy(s, N), NEW p \in Held(s)
  PROVE  LET d == s.node[p].info.id
         IN ToldOf(Without(s, p)) = IF d = None THEN ToldOf(s) ELSE [ToldOf(s) EXCEPT ![d] = None]
<1> DEFINE r == Without(s, p)
           d == s.node[p].info.id
<1>0. /\ s.node \in [Objects -> Nodes \cup {None}] /\ s.byId \in [Ids -> Objects \cup {None}]
      /\ d \in Ids \cup {None} /\ None \notin Ids /\ None \notin Objects
      /\ p \in Objects /\ s.node[p] # None
  BY SetFields, SetConstants, NodeFields DEF Tidy, Held
<1>1. r.byId = [i \in Ids |-> IF s.byId[i] = p THEN None ELSE s.byId[i]]
      /\ r.node = [s.node EXCEPT ![p] = None]
  BY DEF Without
<1> HIDE DEF r
<1>2. ASSUME NEW i \in Ids
      PROVE  ToldOf(r)[i] = IF i = d THEN None ELSE ToldOf(s)[i]
  <2>1. s.byId[i] = p <=> i = d BY <1>0 DEF Tidy
  <2>2. CASE i = d
    <3>1. r.byId[i] = None BY <1>1, <2>1, <2>2
    <3> QED BY <2>2, <3>1 DEF ToldOf
  <2>3. CASE i # d
    <3>1. r.byId[i] = s.byId[i] /\ s.byId[i] # p BY <1>1, <2>1, <2>3
    <3>2. s.byId[i] # None => r.node[s.byId[i]] = s.node[s.byId[i]] BY <1>0, <1>1, <3>1
    <3> QED BY <2>3, <3>1, <3>2 DEF ToldOf
  <2> QED BY <2>2, <2>3
<1>3. ToldOf(r) = [i \in Ids |-> IF i = d THEN None ELSE ToldOf(s)[i]]
  <2>1. ToldOf(r) = [i \in Ids |-> ToldOf(r)[i]] BY DEF ToldOf
  <2> QED BY <1>2, <2>1
<1>4. ToldOf(s) = [i \in Ids |-> ToldOf(s)[i]] BY DEF ToldOf
<1> QED BY <1>0, <1>3, <1>4 DEF r

\* What the events of the set come to when there is at most one node to remove
LEMMA FoldNone ==
  ASSUME NEW a
  PROVE  FoldSet(LAMBDA o, s : RemoveNode(s, o), a, {}) = a
<1> DEFINE f == [s \in SUBSET {} |-> a]
           c(s) == CHOOSE x \in s : TRUE
           G(h) == [s \in SUBSET {} |-> IF s = {} THEN a ELSE RemoveNode(h[s \ {c(s)}], c(s))]
           e == CHOOSE h : h = G(h)
<1>1. FoldSet(LAMBDA o, s : RemoveNode(s, o), a, {}) = e[{}]
  BY DEF FoldSet, MapThenFoldSet
<1>2. f = G(f) OBVIOUS
<1>3. e = G(e)
  <2> HIDE DEF f, G
  <2> QED BY <1>2
<1> HIDE DEF e, c
<1>4. e[{}] = a BY <1>3
<1> QED BY <1>1, <1>4

\* ... and with one node.
LEMMA FoldOne ==
  ASSUME NEW a, NEW p
  PROVE  FoldSet(LAMBDA o, s : RemoveNode(s, o), a, {p}) = RemoveNode(a, p)
<1> DEFINE f == [s \in SUBSET {p} |-> IF s = {} THEN a ELSE RemoveNode(a, p)]
           c(s) == CHOOSE x \in s : TRUE
           G(h) == [s \in SUBSET {p} |-> IF s = {} THEN a ELSE RemoveNode(h[s \ {c(s)}], c(s))]
           e == CHOOSE h : h = G(h)
<1>1. FoldSet(LAMBDA o, s : RemoveNode(s, o), a, {p}) = e[{p}]
  BY DEF FoldSet, MapThenFoldSet
<1>2. f = G(f)
  <2>1. \A s \in SUBSET {p} : s # {} => c(s) = p /\ s \ {c(s)} = {} OBVIOUS
  <2>2. {} \in SUBSET {p} OBVIOUS
  <2> QED BY <2>1, <2>2
<1>3. e = G(e)
  <2> HIDE DEF f, G
  <2> QED BY <1>2
<1>4. c({p}) = p OBVIOUS
<1> HIDE DEF e, c
<1>5. e[{}] = a BY <1>3
<1>6. e[{p}] = RemoveNode(e[{p} \ {p}], p) BY <1>3, <1>4
<1>7. {p} \ {p} = {} OBVIOUS
<1> QED BY <1>1, <1>5, <1>6, <1>7

-----------------------------------------------------------------------------
(* The events.                                                             *)

Nets == [Ids -> Topologies \cup {None}]

\* The set is in order and the application knows what it holds.
Neats(N) ==
    {v \in [disc : Sets, topo : Nets, told : [Ids -> Infos \cup {None}]] :
        Tidy(v.disc, N) /\ v.told = ToldOf(v.disc)}

\* Only nodes of the context come, change or go.
Own(x, c) == x = None \/ x.ctx = c
Keeps(s, t, c) ==
    \A o \in Objects : t.node[o] = s.node[o] \/ (Own(s.node[o], c) /\ Own(t.node[o], c))

\* The nodes that a context may register; a context whose nodes keep their
\* ids and names; two nodes that have the id or the name in common.
OwnInfos(N, c) == {x.info : x \in {y \in N : y.ctx = c}}
Stable(N, c) ==
    \A i, j \in OwnInfos(N, c) : i.id = j.id \/ i.name = j.name => KeyOf(i) = KeyOf(j)
Shares(i, j) == (i.id # None /\ i.id = j.id) \/ (i.name # None /\ i.name = j.name)

\* A put stores its node, or finds it there already, or finds a node of another
\* context in its place.
Took(s, t, x) ==
    \/ \E o \in Objects : Fits(s, o, x) /\ t.node = [s.node EXCEPT ![o] = x]
    \/ /\ t.node = s.node
       /\ \E o \in Held(s) :
             s.node[o] = x \/ (s.node[o].ctx # x.ctx /\ Shares(s.node[o].info, x.info))

\* A delete removes a node of the context with the id or the name of the key, or
\* the context has no node with the key.
Lost(s, t, c, k) ==
    \/ \E p \in Held(s) :
          /\ s.node[p].ctx = c /\ Shares(s.node[p].info, k)
          /\ t.node = [s.node EXCEPT ![p] = None]
    \/ /\ t.node = s.node
       /\ \A p \in Held(s) : s.node[p].ctx = c => KeyOf(s.node[p].info) # k

\* Steps of one context follow each other.
LEMMA KeepsTrans ==
  ASSUME NEW s, NEW t, NEW u, NEW c, Keeps(s, t, c), Keeps(t, u, c) PROVE Keeps(s, u, c)
BY DEF Keeps

\* A step that changes nothing is a step of any context.
LEMMA KeepsSelf == ASSUME NEW s, NEW c PROVE Keeps(s, s, c)
BY DEF Keeps

\* The parts of a view in order.
LEMMA NeatFields ==
  ASSUME NEW N, NEW v \in Neats(N)
  PROVE  /\ v = [disc |-> v.disc, topo |-> v.topo, told |-> v.told]
         /\ Tidy(v.disc, N) /\ v.told = ToldOf(v.disc)
         /\ v.disc \in Sets /\ v.topo \in Nets /\ v.told \in [Ids -> Infos \cup {None}]
BY DEF Neats

\* The picture of a set in order is well formed.
LEMMA ToldTyped ==
  ASSUME NEW N, NEW s, Tidy(s, N) PROVE ToldOf(s) \in [Ids -> Infos \cup {None}]
<1>1. ASSUME NEW i \in Ids, s.byId[i] # None PROVE s.node[s.byId[i]].info \in Infos
  <2>1. s.byId[i] \in Objects BY <1>1, SetFields DEF Tidy
  <2>2. s.node[s.byId[i]] # None BY <2>1 DEF Tidy
  <2>3. s.node[s.byId[i]] \in Nodes BY <2>1, <2>2, SetFields DEF Tidy
  <2> QED BY <2>3 DEF Nodes
<1> QED BY <1>1 DEF ToldOf

\* A view in order is made of a set in order and what it tells.
LEMMA NeatMade ==
  ASSUME NEW N, NEW s, Tidy(s, N), NEW t \in Nets
  PROVE  [disc |-> s, topo |-> t, told |-> ToldOf(s)] \in Neats(N)
<1>1. s \in Sets /\ ToldOf(s) \in [Ids -> Infos \cup {None}] BY ToldTyped DEF Tidy
<1> QED BY <1>1 DEF Neats

\* What a lookup by id or by name finds
LEMMA ByIdFacts ==
  ASSUME NEW N, Keyed(N), NEW s, Tidy(s, N), NEW d \in Ids \cup {None}
  PROVE  /\ ById(s, d) \in Held(s) \cup {None}
         /\ ById(s, d) # None => d # None /\ s.node[ById(s, d)].info.id = d
         /\ \A p \in Held(s) : d # None /\ s.node[p].info.id = d => p = ById(s, d)
<1>1. CASE d \notin Ids
  <2>1. ById(s, d) = None BY <1>1 DEF ById
  <2> QED BY <1>1, <2>1
<1>2. CASE d \in Ids
  <2>1. ById(s, d) = s.byId[d] BY <1>2 DEF ById
  <2>2. s.byId[d] \in Objects \cup {None} BY <1>2, SetFields DEF Tidy
  <2>3. d # None BY <1>2, SetConstants
  <2>4. s.byId[d] \in Objects => s.byId[d] \in Held(s) /\ s.node[s.byId[d]].info.id = d
    BY <1>2 DEF Tidy, Held
  <2>5. \A p \in Held(s) : s.node[p].info.id = d => s.byId[d] = p BY <1>2 DEF Tidy, Held
  <2> QED BY <2>1, <2>2, <2>3, <2>4, <2>5
<1> QED BY <1>1, <1>2

\* What a lookup by name finds.
LEMMA ByNameFacts ==
  ASSUME NEW N, Keyed(N), NEW s, Tidy(s, N), NEW d \in Names \cup {None}
  PROVE  /\ ByName(s, d) \in Held(s) \cup {None}
         /\ ByName(s, d) # None => d # None /\ s.node[ByName(s, d)].info.name = d
         /\ \A p \in Held(s) : d # None /\ s.node[p].info.name = d => p = ByName(s, d)
<1>1. CASE d \notin Names
  <2>1. ByName(s, d) = None BY <1>1 DEF ByName
  <2> QED BY <1>1, <2>1
<1>2. CASE d \in Names
  <2>1. ByName(s, d) = s.byName[d] BY <1>2 DEF ByName
  <2>2. s.byName[d] \in Objects \cup {None} BY <1>2, SetFields DEF Tidy
  <2>3. d # None BY <1>2, SetConstants
  <2>4. s.byName[d] \in Objects => s.byName[d] \in Held(s) /\ s.node[s.byName[d]].info.name = d
    BY <1>2 DEF Tidy, Held
  <2>5. \A p \in Held(s) : s.node[p].info.name = d => s.byName[d] = p BY <1>2 DEF Tidy, Held
  <2> QED BY <2>1, <2>2, <2>3, <2>4, <2>5
<1> QED BY <1>1, <1>2

\* A node goes, and the application is told.
LEMMA DeleteFacts ==
  ASSUME NEW N, Keyed(N), NEW v \in Neats(N), NEW c, NEW x \in N
  PROVE  LET r == NodeDelete(v, c, KeyOf(x.info))
         IN /\ r \in Neats(N) /\ Keeps(v.disc, r.disc, c)
            /\ r.topo = v.topo /\ Lost(v.disc, r.disc, c, KeyOf(x.info))
<1> DEFINE s == v.disc
           i == ById(s, x.info.id)
           n == ByName(s, x.info.name)
           hit == {i, n} \ {None}
           r == NodeDelete(v, c, KeyOf(x.info))
<1>1. /\ Tidy(s, N) /\ v.told = ToldOf(s) /\ v.topo \in Nets
      /\ v = [disc |-> s, topo |-> v.topo, told |-> v.told]
  BY NeatFields
<1>2. x.info.id \in Ids \cup {None} /\ x.info.name \in Names \cup {None} BY NodeFields
<1>3. r = IF \A o \in hit : s.node[o].ctx # c THEN v
          ELSE [TellDelete(v, i, n) EXCEPT
                  !.disc = FoldSet(LAMBDA o, q : RemoveNode(q, o), s, hit)]
  BY DEF NodeDelete, KeyOf
<1> HIDE DEF s, r
<1>4. /\ i \in Held(s) \cup {None}
      /\ i # None => x.info.id # None /\ s.node[i].info.id = x.info.id
      /\ \A p \in Held(s) : x.info.id # None /\ s.node[p].info.id = x.info.id => p = i
  BY <1>1, <1>2, ByIdFacts
<1>5. /\ n \in Held(s) \cup {None}
      /\ n # None => x.info.name # None /\ s.node[n].info.name = x.info.name
      /\ \A p \in Held(s) : x.info.name # None /\ s.node[p].info.name = x.info.name => p = n
  BY <1>1, <1>2, ByNameFacts
<1>10. ASSUME NEW q \in Held(s), KeyOf(s.node[q].info) = KeyOf(x.info) PROVE q \in hit
  <2>1. s.node[q].info.id = x.info.id /\ s.node[q].info.name = x.info.name BY <1>10, KeyFields
  <2>2. x.info.id # None \/ x.info.name # None BY NodeFields
  <2>3. q # None BY SetConstants DEF Held
  <2>4. q = i \/ q = n BY <1>4, <1>5, <2>1, <2>2
  <2> HIDE DEF i, n
  <2> QED BY <2>3, <2>4
<1> DEFINE p == IF n # None THEN n ELSE i
<1>6. hit # {} => p \in Held(s) /\ hit = {p}
  <2>1. CASE i # None /\ n # None
    <3>1. n \in Held(s) /\ s.node[n] \in N BY <1>1, <1>5, <2>1 DEF Tidy
    <3>2. s.node[n].info.id = x.info.id BY <1>5, <2>1, <3>1 DEF Keyed
    <3>3. n = i BY <1>4, <2>1, <3>1, <3>2
    <3> QED BY <2>1, <3>1, <3>3
  <2> QED BY <2>1, <1>4, <1>5
<1>7. TellDelete(v, i, n) = IF s.node[p].info.id = None THEN v
                            ELSE [v EXCEPT !.told[s.node[p].info.id] = None]
  BY DEF TellDelete, s
<1> HIDE DEF i, n, hit, p
<1>8. CASE \A o \in hit : s.node[o].ctx # c
  <2>1. r = v BY <1>3, <1>8
  <2>2. \A q \in Held(s) : s.node[q].ctx = c => KeyOf(s.node[q].info) # KeyOf(x.info)
    BY <1>8, <1>10
  <2>3. Lost(s, s, c, KeyOf(x.info)) BY <2>2 DEF Lost
  <2> QED BY <2>1, <2>3, KeepsSelf DEF r, s
<1>9. CASE ~ \A o \in hit : s.node[o].ctx # c
  <2>1. p \in Held(s) /\ hit = {p} /\ s.node[p].ctx = c BY <1>6, <1>9
  <2>2. FoldSet(LAMBDA o, q : RemoveNode(q, o), s, hit) = RemoveNode(s, p)
    BY <2>1, FoldOne
  <2>3. s \in Sets /\ s.node \in [Objects -> Nodes \cup {None}] BY <1>1, SetFields DEF Tidy
  <2>4. s = [s EXCEPT !.node = s.node] BY <2>3 DEF Sets
  <2>5. RemoveNode(s, p) = Without(s, p)
    <3>1. RemoveNode([s EXCEPT !.node = s.node], p) = Without(s, p)
      BY <1>1, <2>1, <2>3, RemoveFacts
    <3> QED BY <2>4, <3>1
  <2>6. r = [TellDelete(v, i, n) EXCEPT !.disc = Without(s, p)] BY <1>3, <1>9, <2>2, <2>5
  <2> DEFINE d == s.node[p].info.id
             u == Without(s, p)
  <2>7. Tidy(u, N) BY <1>1, <2>1, WithoutTidy
  <2>8. ToldOf(u) = IF d = None THEN ToldOf(s) ELSE [ToldOf(s) EXCEPT ![d] = None]
    BY <1>1, <2>1, ToldWithout
  <2>9. u.node = [s.node EXCEPT ![p] = None] BY DEF Without
  <2> HIDE DEF u
  <2>10. r = [disc |-> u, topo |-> v.topo, told |-> ToldOf(u)]
    <3> DEFINE a == IF d = None THEN v.told ELSE [v.told EXCEPT ![d] = None]
    <3>1. TellDelete(v, i, n) = [disc |-> s, topo |-> v.topo, told |-> a]
      BY <1>1, <1>7
    <3>2. a = ToldOf(u) BY <1>1, <2>8
    <3> HIDE DEF a
    <3>3. r = [TellDelete(v, i, n) EXCEPT !.disc = u] BY <2>6 DEF u
    <3> QED BY <3>1, <3>2, <3>3
  <2>11. r \in Neats(N) BY <1>1, <2>7, <2>10, NeatMade
  <2>12. Keeps(s, u, c)
    <3>1. p \in Objects BY <2>1 DEF Held
    <3> QED BY <2>1, <2>3, <2>9, <3>1 DEF Keeps, Own
  <2>13. r.disc = u /\ r.topo = v.topo BY <2>10
  <2>14. Shares(s.node[p].info, KeyOf(x.info))
    <3>1. p = i \/ p = n BY <2>1 DEF p
    <3>2. p # None BY <2>1, SetConstants DEF Held
    <3>3. KeyOf(x.info).id = x.info.id /\ KeyOf(x.info).name = x.info.name BY DEF KeyOf
    <3> QED BY <1>4, <1>5, <3>1, <3>2, <3>3 DEF Shares
  <2>15. Lost(s, u, c, KeyOf(x.info)) BY <2>1, <2>9, <2>14 DEF Lost
  <2> QED BY <2>11, <2>12, <2>13, <2>15 DEF r, s
<1> QED BY <1>8, <1>9

\* The object o gets the node x in the set s, and the application is told.
Stored(v, s, o, x) ==
    TellPut([v EXCEPT !.disc = AddNode([s EXCEPT !.node = [s.node EXCEPT ![o] = x]], o)], x.info)

\* The set s is that of v, or what is left of it when its node of x's id has
\* been removed.
LEMMA StoredFacts ==
  ASSUME NEW N, Keyed(N), NEW v \in Neats(N), NEW s, Tidy(s, N),
         NEW o \in Objects, NEW x \in N, Fits(s, o, x),
         \/ s = v.disc
         \/ /\ x.info.id # None
            /\ ToldOf(s) = [v.told EXCEPT ![x.info.id] = None]
  PROVE  LET r == Stored(v, s, o, x)
         IN r \in Neats(N) /\ r.disc = With(s, o, x) /\ r.topo = v.topo
<1> DEFINE u == With(s, o, x)
           d == x.info.id
           r == Stored(v, s, o, x)
           m == [s EXCEPT !.node = [s.node EXCEPT ![o] = x]]
<1>1. /\ v.told = ToldOf(v.disc) /\ v.topo \in Nets /\ v.told \in [Ids -> Infos \cup {None}]
      /\ v = [disc |-> v.disc, topo |-> v.topo, told |-> v.told]
  BY NeatFields
<1>2. Tidy(u, N) BY WithTidy
<1>3. ToldOf(u) = IF d = None THEN ToldOf(s) ELSE [ToldOf(s) EXCEPT ![d] = x.info] BY ToldWith
<1>4. AddNode(m, o) = u BY AddFacts
<1>5. r = TellPut([v EXCEPT !.disc = AddNode(m, o)], x.info) BY DEF Stored
<1>6. d \in Ids \cup {None} BY NodeFields
<1> HIDE DEF u, m, r
<1>7. r = IF d = None THEN [v EXCEPT !.disc = u]
          ELSE [[v EXCEPT !.disc = u] EXCEPT !.told[d] = x.info]
  BY <1>4, <1>5 DEF TellPut
<1> DEFINE a == IF d = None THEN v.told ELSE [v.told EXCEPT ![d] = x.info]
<1>8. [v EXCEPT !.disc = u] = [disc |-> u, topo |-> v.topo, told |-> v.told] BY <1>1
<1>9. r = [disc |-> u, topo |-> v.topo, told |-> a] BY <1>7, <1>8
<1>10. a = ToldOf(u)
  <2>1. CASE s = v.disc BY <2>1, <1>1, <1>3
  <2>2. CASE d # None /\ ToldOf(s) = [v.told EXCEPT ![d] = None]
    <3>1. [ToldOf(s) EXCEPT ![d] = x.info] = [v.told EXCEPT ![d] = x.info] BY <1>1, <2>2
    <3> QED BY <1>3, <2>2, <3>1
  <2> QED BY <2>1, <2>2
<1> HIDE DEF a
<1>11. r \in Neats(N) BY <1>1, <1>2, <1>9, <1>10, NeatMade
<1>12. r.disc = u /\ r.topo = v.topo BY <1>9
<1> QED BY <1>11, <1>12 DEF r, u

\* Store is the change of the set and what the application is told of it.
LEMMA StoreStored ==
  ASSUME NEW N, NEW v \in Neats(N), NEW o \in Objects, NEW info, NEW c
  PROVE  Store(v, o, info, c) = Stored(v, v.disc, o, [info |-> info, ctx |-> c])
<1>1. v.disc \in Sets BY NeatFields
<1>2. [v.disc EXCEPT !.node[o] = [info |-> info, ctx |-> c]]
        = [v.disc EXCEPT !.node = [v.disc.node EXCEPT ![o] = [info |-> info, ctx |-> c]]]
  BY <1>1 DEF Sets
<1> QED BY <1>2 DEF Store, Stored

\* An object that is not in use, or that has the key of the node already, takes it.
LEMMA StoreFacts ==
  ASSUME NEW N, Keyed(N), NEW v \in Neats(N), NEW x \in N, NEW o \in Objects,
         Fits(v.disc, o, x), Own(v.disc.node[o], x.ctx)
  PROVE  LET r == Store(v, o, x.info, x.ctx)
         IN /\ r \in Neats(N) /\ Keeps(v.disc, r.disc, x.ctx)
            /\ r.topo = v.topo /\ Took(v.disc, r.disc, x)
<1> DEFINE r == Store(v, o, x.info, x.ctx)
<1>1. x = [info |-> x.info, ctx |-> x.ctx] BY NodeFields DEF Nodes
<1>2. r = Stored(v, v.disc, o, x) BY <1>1, StoreStored
<1>3. Tidy(v.disc, N) BY NeatFields
<1> HIDE DEF r
<1>4. r \in Neats(N) /\ r.disc = With(v.disc, o, x) /\ r.topo = v.topo
  BY <1>2, <1>3, StoredFacts
<1>5. r.disc.node = [v.disc.node EXCEPT ![o] = x] BY <1>4 DEF With
<1>6. v.disc.node \in [Objects -> Nodes \cup {None}] BY <1>3, SetFields DEF Tidy
<1>7. Keeps(v.disc, r.disc, x.ctx) BY <1>5, <1>6 DEF Keeps, Own
<1>8. Took(v.disc, r.disc, x) BY <1>5 DEF Took
<1> QED BY <1>4, <1>7, <1>8 DEF r

\* A put node leaves the view in order and the nodes of other contexts alone.
LEMMA PutFacts ==
  ASSUME NEW N, Keyed(N), Roomy(N), NEW v \in Neats(N), NEW x \in N
  PROVE  LET r == NodePut(v, x.ctx, x.info)
         IN /\ r \in Neats(N) /\ r.topo = v.topo
            /\ Apart(N) => Keeps(v.disc, r.disc, x.ctx)
            /\ Apart(N) /\ Stable(N, x.ctx) => Took(v.disc, r.disc, x)
<1> DEFINE s == v.disc
           c == x.ctx
           info == x.info
           i == ById(s, info.id)
           n == ByName(s, info.name)
           new == Fresh(s)
           r == NodePut(v, c, info)
<1>1. Tidy(s, N) /\ v.told = ToldOf(s) /\ s \in Sets BY NeatFields
<1>2. /\ info.id \in Ids \cup {None} /\ info.name \in Names \cup {None}
      /\ info.id # None \/ info.name # None
      /\ x = [info |-> info, ctx |-> c] /\ x \in Nodes /\ x # None
  BY NodeFields DEF Nodes
<1>3. r = IF i = n THEN PutSame(v, c, i, info) ELSE PutDifferent(v, c, i, n, info)
  BY DEF NodePut
<1> HIDE DEF s, r, info, c
<1>4. /\ i \in Held(s) \cup {None}
      /\ i # None => info.id # None /\ s.node[i].info.id = info.id
      /\ \A p \in Held(s) : info.id # None /\ s.node[p].info.id = info.id => p = i
  BY <1>1, <1>2, ByIdFacts
<1>5. /\ n \in Held(s) \cup {None}
      /\ n # None => info.name # None /\ s.node[n].info.name = info.name
      /\ \A p \in Held(s) : info.name # None /\ s.node[p].info.name = info.name => p = n
  BY <1>1, <1>2, ByNameFacts
<1>6. new \in Objects \ Held(s) BY <1>1, FreshFacts
<1> HIDE DEF i, n, new
<1>7. /\ Held(s) \subseteq Objects /\ None \notin Objects
      /\ \A p \in Held(s) : s.node[p] \in N /\ s.node[p] # None
      /\ s.node \in [Objects -> Nodes \cup {None}]
      /\ \A p \in Objects : p \notin Held(s) => s.node[p] = None
  BY <1>1, SetConstants, SetFields DEF Tidy, Held
<1>8. i # None /\ n # None => i = n
  <2> SUFFICES ASSUME i # None, n # None PROVE i = n OBVIOUS
  <2>1. s.node[n] \in N /\ s.node[n].info.name = info.name /\ info.name # None BY <1>5, <1>7
  <2>2. s.node[n].info.id = info.id BY <2>1 DEF Keyed, info
  <2> QED BY <1>4, <1>5, <2>2
<1>9. n # None => (i = None => info.id = None)
  <2> SUFFICES ASSUME n # None PROVE i = None => info.id = None OBVIOUS
  <2>1. s.node[n] \in N /\ s.node[n].info.name = info.name /\ info.name # None BY <1>5, <1>7
  <2>2. s.node[n].info.id = info.id BY <2>1 DEF Keyed, info
  <2> QED BY <1>4, <1>5, <1>7, <2>2
<1>10. ASSUME NEW o \in Held(s), o \in {i, n}, n # None \/ info.name = None
       PROVE  Fits(s, o, x)
  <2>1. KeyOf(s.node[o].info) = KeyOf(info)
    <3>1. CASE n # None
      <4>1. o = n BY <1>7, <1>8, <1>10, <3>1
      <4>2. s.node[n].info.name = info.name /\ info.name # None /\ s.node[n] \in N
        BY <1>5, <1>7, <3>1
      <4>3. s.node[n].info.id = info.id BY <4>2 DEF Keyed, info
      <4> QED BY <4>1, <4>2, <4>3, KeyFields
    <3>2. CASE n = None
      <4>1. o = i /\ i # None /\ info.name = None BY <1>7, <1>10, <3>2
      <4>2. s.node[i].info.id = info.id /\ info.id # None /\ s.node[i] \in N
        BY <1>4, <1>7, <4>1
      <4>3. s.node[i].info.name = None BY <4>1, <4>2 DEF Keyed, info
      <4> QED BY <4>1, <4>2, <4>3, KeyFields
    <3> QED BY <3>1, <3>2
  <2>2. ASSUME NEW p \in Held(s), p # o
        PROVE  /\ info.id = None \/ s.node[p].info.id # info.id
               /\ info.name = None \/ s.node[p].info.name # info.name
    BY <1>4, <1>5, <1>7, <1>8, <1>10, <2>2, <2>1, KeyFields
  <2> QED BY <2>1, <2>2 DEF Fits, info
<1>11. ASSUME NEW o \in Held(s), Fits(s, o, x), s.node[o].ctx = c
       PROVE  /\ Store(v, o, info, c) \in Neats(N) /\ Keeps(s, Store(v, o, info, c).disc, c)
             /\ Store(v, o, info, c).topo = v.topo /\ Took(s, Store(v, o, info, c).disc, x)
  BY <1>7, <1>11, StoreFacts DEF Own, s, c, info
<1>12. v \in Neats(N) /\ Keeps(s, v.disc, c) BY KeepsSelf DEF s
<1>16. ASSUME NEW o \in Held(s), o \in {i, n}, s.node[o] = x \/ s.node[o].ctx # c
       PROVE  Took(s, v.disc, x)
  <2>1. Shares(s.node[o].info, info) BY <1>4, <1>5, <1>7, <1>16 DEF Shares
  <2> QED BY <1>16, <2>1 DEF Took, s, c, info
<1>13. CASE i = n /\ i = None
  <2>1. r = Store(v, new, info, c) BY <1>3, <1>13 DEF PutSame, new, s
  <2>2. Fits(s, new, x) BY <1>4, <1>5, <1>6, <1>7, <1>13 DEF Fits, info
  <2>3. new \in Objects /\ Own(s.node[new], c) BY <1>6, <1>7 DEF Own
  <2>4. r \in Neats(N) /\ Keeps(s, r.disc, c) /\ r.topo = v.topo /\ Took(s, r.disc, x)
    BY <2>1, <2>2, <2>3, StoreFacts DEF s, c, info
  <2> QED BY <2>4 DEF r, s, c, info
<1>14. CASE i = n /\ i # None
  <2>1. i \in Held(s) BY <1>4, <1>14
  <2>2. r = IF s.node[i].ctx # c \/ s.node[i].info = info THEN v ELSE Store(v, i, info, c)
    BY <1>3, <1>14 DEF PutSame, s
  <2>3. Fits(s, i, x) BY <1>10, <1>14, <2>1
  <2>4. CASE s.node[i].ctx # c \/ s.node[i].info = info
    <3>1. s.node[i] = x \/ s.node[i].ctx # c
      <4>1. s.node[i] = [info |-> s.node[i].info, ctx |-> s.node[i].ctx]
        BY <1>7, <2>1, NodeFields DEF Nodes
      <4> QED BY <1>2, <2>4, <4>1
    <3>2. Took(s, v.disc, x) BY <1>16, <2>1, <3>1
    <3>3. r = v BY <2>2, <2>4
    <3> QED BY <1>12, <3>2, <3>3 DEF r, s, c, info
  <2>5. CASE ~(s.node[i].ctx # c \/ s.node[i].info = info)
    <3>1. r \in Neats(N) /\ Keeps(s, r.disc, c) /\ r.topo = v.topo /\ Took(s, r.disc, x)
      BY <1>11, <2>1, <2>2, <2>3, <2>5
    <3> QED BY <3>1 DEF r, s, c, info
  <2> QED BY <2>4, <2>5
<1>15. CASE i # n
  <2> DEFINE missing == (i = None /\ info.id # None) \/ (n = None /\ info.name # None)
             Changed(q) == q # None /\ s.node[q] # [info |-> info, ctx |-> c] /\ s.node[q].ctx = c
             o == IF missing THEN Fresh(s) ELSE IF Changed(i) THEN i ELSE n
             m == [s EXCEPT !.node[o] = [info |-> info, ctx |-> c]]
             t == FoldSet(LAMBDA p, q : RemoveNode(q, p), m, {i, n} \ {None, o})
             u == [t EXCEPT !.node[o] = m.node[o]]
  <2>1. r = IF missing \/ Changed(i) \/ Changed(n)
            THEN TellPut([v EXCEPT !.disc = AddNode(u, o)], info) ELSE v
    BY <1>3, <1>15 DEF PutDifferent, s
  <2>2. o \in Objects => m = [s EXCEPT !.node = [s.node EXCEPT ![o] = x]]
                         /\ m.node = [s.node EXCEPT ![o] = x] /\ m.node[o] = x
    <3> HIDE DEF o
    <3> QED BY <1>1, <1>2, <1>7 DEF Sets
  <2>3. CASE ~missing
    <3>1. n # None \/ info.name = None BY <2>3
    <3>2. i = None \/ n = None BY <1>8, <1>15
    <3>3. Changed(i) \/ Changed(n) =>
             o \in {i, n} /\ o \in Held(s) /\ s.node[o].ctx = c /\ {i, n} \ {None, o} = {}
      BY <2>3, <3>2, <1>4, <1>5, <1>7
    <3>4. ASSUME Changed(i) \/ Changed(n) PROVE r = Store(v, o, info, c)
      <4>1. o \in Objects /\ {i, n} \ {None, o} = {} BY <3>3, <3>4, <1>7
      <4> HIDE DEF o
      <4>2. m = [s EXCEPT !.node = [s.node EXCEPT ![o] = x]] /\ m.node[o] = x
        BY <2>2, <4>1
      <4> HIDE DEF m
      <4>3. t = m BY <4>1, FoldNone
      <4>4. u = m
        <5>1. m.node = [s.node EXCEPT ![o] = x] BY <2>2, <4>1
        <5>2. m \in Sets
          <6>1. [s.node EXCEPT ![o] = x] \in [Objects -> Nodes \cup {None}] BY <1>2, <1>7
          <6> HIDE DEF t
          <6> QED BY <1>1, <4>2, <6>1 DEF Sets
        <5> HIDE DEF t
        <5> QED BY <4>3, <5>2, <4>1 DEF Sets
      <4>5. r = TellPut([v EXCEPT !.disc = AddNode(m, o)], info) BY <2>1, <3>4, <4>4
      <4>6. r = Stored(v, s, o, x) BY <4>2, <4>5 DEF Stored, info
      <4> QED BY <1>2, <4>1, <4>6, StoreStored DEF s
    <3>5. CASE Changed(i) \/ Changed(n)
      <4>1. Fits(s, o, x) BY <1>10, <3>1, <3>3, <3>5
      <4>2. r \in Neats(N) /\ Keeps(s, r.disc, c) /\ r.topo = v.topo /\ Took(s, r.disc, x)
        BY <1>11, <3>3, <3>4, <3>5, <4>1
      <4> QED BY <4>2 DEF r, s, c, info
    <3>6. CASE ~(Changed(i) \/ Changed(n))
      <4>1. r = v BY <2>1, <2>3, <3>6
      <4>2. PICK p \in {i, n} : p # None BY <1>15
      <4>3. p \in Held(s) BY <1>4, <1>5, <4>2
      <4>4. s.node[p] = x \/ s.node[p].ctx # c BY <1>2, <3>6, <4>2
      <4>5. Took(s, v.disc, x) BY <1>16, <4>2, <4>3, <4>4
      <4> QED BY <4>1, <4>5, <1>12 DEF r, s, c, info
    <3> QED BY <3>5, <3>6
  <2>4. CASE missing
    <3>1. i # None /\ n = None /\ info.name # None /\ i \in Held(s)
      BY <1>4, <1>8, <1>9, <1>15, <2>4
    <3>2. o = new /\ new # i /\ new \in Objects /\ {i, n} \ {None, o} = {i}
      BY <1>4, <1>6, <1>7, <2>4, <3>1 DEF new
    <3> HIDE DEF o, missing
    <3>3. m = [s EXCEPT !.node = [s.node EXCEPT ![o] = x]]
          /\ m.node = [s.node EXCEPT ![o] = x] /\ m.node[o] = x
      BY <2>2, <3>2
    <3> DEFINE k == [s.node EXCEPT ![o] = x]
               w == Without(s, i)
    <3>4. k \in [Objects -> Nodes \cup {None}] /\ \A p \in Held(s) : k[p] = s.node[p]
      BY <1>2, <1>6, <1>7, <3>2
    <3>5. t = w
      <4>1. t = RemoveNode(m, i) BY <3>2, FoldOne
      <4> HIDE DEF t, k
      <4>2. m = [s EXCEPT !.node = k] BY <3>3 DEF k
      <4> HIDE DEF m
      <4>3. RemoveNode([s EXCEPT !.node = k], i) = w BY <1>1, <3>1, <3>4, RemoveFacts
      <4> QED BY <4>1, <4>2, <4>3
    <3>6. Tidy(w, N) /\ Held(w) = Held(s) \ {i} BY <1>1, <3>1, WithoutTidy
    <3>7. w.node = [s.node EXCEPT ![i] = None] BY DEF Without
    <3>8. ToldOf(w) = [v.told EXCEPT ![info.id] = None] /\ info.id # None
      BY <1>1, <1>4, <3>1, ToldWithout
    <3> HIDE DEF k, m, t, w
    <3>9. u = [w EXCEPT !.node = [w.node EXCEPT ![o] = x]]
      <4>1. u = [w EXCEPT !.node[o] = x] BY <3>3, <3>5
      <4> QED BY <4>1, <3>6 DEF Tidy, Sets
    <3>10. r = Stored(v, w, o, x) BY <2>1, <2>4, <3>9 DEF Stored, info
    <3>11. Fits(w, o, x)
      <4>1. ASSUME NEW p \in Held(w)
            PROVE  /\ s.node[p].info.id # info.id /\ s.node[p].info.name # info.name
                   /\ w.node[p] = s.node[p]
        BY <1>4, <1>5, <1>7, <3>1, <3>6, <3>7, <3>8
      <4>2. o \notin Held(w) BY <1>6, <3>2, <3>6
      <4> QED BY <4>1, <4>2 DEF Fits, info
    <3>12. r \in Neats(N) /\ r.disc = With(w, o, x) /\ r.topo = v.topo
      BY <3>2, <3>6, <3>8, <3>10, <3>11, StoredFacts DEF info
    <3>13. r.disc.node = [w.node EXCEPT ![o] = x] BY <3>12 DEF With
    <3>15. ASSUME Apart(N) PROVE s.node[i].ctx = c
        <5> SUFFICES ASSUME s.node[i].ctx # c PROVE FALSE OBVIOUS
        <5>1. s.node[i] \in N /\ s.node[i].info.id = info.id /\ info.id # None
          BY <1>4, <1>7, <3>1
        <5>2. s.node[i].info.name = info.name BY <3>15, <5>1 DEF Apart, info, c
        <5> QED BY <1>5, <3>1, <5>2, <1>7
    <3>16. ASSUME Apart(N), Stable(N, c) PROVE Took(s, r.disc, x)
      <4>1. s.node[i].ctx = c /\ s.node[i] \in N /\ s.node[i].info.id = info.id
        BY <1>4, <1>7, <3>1, <3>15, <3>16
      <4>2. s.node[i].info \in OwnInfos(N, c) /\ info \in OwnInfos(N, c)
        BY <4>1 DEF OwnInfos, info, c
      <4>3. KeyOf(s.node[i].info) = KeyOf(info) BY <3>16, <4>1, <4>2 DEF Stable
      <4>4. s.node[i].info.name = info.name BY <4>3, KeyFields
      <4> QED BY <1>5, <1>7, <3>1, <4>4
    <3>14. ASSUME Apart(N) PROVE Keeps(s, r.disc, c)
      <4>1. s.node[i].ctx = c BY <3>14, <3>15
      <4>2. s.node[new] = None BY <1>6, <1>7
      <4> QED BY <1>7, <3>1, <3>2, <3>7, <3>13, <4>1, <4>2 DEF Keeps, Own, c
    <3> QED BY <3>12, <3>14, <3>16 DEF r, s, c, info
  <2> QED BY <2>3, <2>4
<1> QED BY <1>13, <1>14, <1>15

\* An event of a context: a node it may hold, put or deleted
Heard(N, c, e) ==
    /\ e.ver \in Nat
    /\ \E x \in N : x.ctx = c /\ e.key = KeyOf(x.info) /\ e.val \in {None, x.info}

\* What steps of a context can make of the set s
Reached(N, s, c) == {v \in Neats(N) : Apart(N) => Keeps(s, v.disc, c)}

\* A topology event leaves the nodes alone.
LEMMA TopologyFacts ==
  ASSUME NEW N, Keyed(N), NEW v \in Neats(N), NEW c, NEW e, Heard(N, c, e), e.key.id # None
  PROVE  TopologyEvent(v, c, e) \in Neats(N) /\ TopologyEvent(v, c, e).disc = v.disc
<1> DEFINE info == Unpack(e)
           had == v.topo[info.id]
           new == [info |-> info, ctx |-> c, ver |-> e.ver]
           y == IF e.val = None THEN None ELSE IF had = None \/ e.ver > had.ver THEN new ELSE had
           r == TopologyEvent(v, c, e)
<1>1. PICK x \in N : x.ctx = c /\ e.key = KeyOf(x.info) /\ e.val \in {None, x.info}
  BY DEF Heard
<1>2. /\ x.info \in Infos /\ x.info.id \in Ids \cup {None} /\ x.info.name \in Names \cup {None}
      /\ c \in Contexts /\ e.ver \in Nat
  BY <1>1, NodeFields DEF Heard
<1>3. e.key.id = x.info.id /\ e.key.name = x.info.name BY <1>1 DEF KeyOf
<1>4. info \in Infos /\ info.id \in Ids
  <2>1. CASE e.val = None
    <3>1. info = [id |-> x.info.id, name |-> x.info.name, meta |-> {}]
      BY <1>3, <2>1 DEF Unpack
    <3> QED BY <1>2, <1>3, <3>1 DEF Infos
  <2>2. CASE e.val # None
    <3>1. info = x.info BY <1>1, <2>2 DEF Unpack
    <3> QED BY <1>2, <1>3, <3>1
  <2> QED BY <2>1, <2>2
<1>5. /\ v = [disc |-> v.disc, topo |-> v.topo, told |-> v.told]
      /\ Tidy(v.disc, N) /\ v.told = ToldOf(v.disc) /\ v.topo \in Nets
  BY NeatFields
<1>6. r = IF had # None /\ had.ctx # c THEN v ELSE [v EXCEPT !.topo[info.id] = y]
  BY DEF TopologyEvent
<1>7. new \in Topologies
  <2> HIDE DEF info
  <2> QED BY <1>2, <1>4 DEF Topologies
<1>8. y \in Topologies \cup {None} BY <1>4, <1>5, <1>7 DEF Nets
<1> HIDE DEF y, had, new, info, r
<1>9. CASE r = v BY <1>9 DEF r
<1>10. CASE r = [v EXCEPT !.topo[info.id] = y]
  <2>1. r = [disc |-> v.disc, topo |-> [v.topo EXCEPT ![info.id] = y], told |-> v.told]
    BY <1>5, <1>10
  <2>2. [v.topo EXCEPT ![info.id] = y] \in Nets BY <1>5, <1>8 DEF Nets
  <2>3. r \in Neats(N) BY <1>5, <2>1, <2>2, NeatMade
  <2>4. r.disc = v.disc BY <2>1
  <2> QED BY <2>3, <2>4 DEF r
<1> QED BY <1>6, <1>9, <1>10

\* One event changes the nodes of its context, and leaves the view in order.
LEMMA HandleFacts ==
  ASSUME NEW N, Keyed(N), Roomy(N), NEW s, NEW w \in Watchers, NEW v \in Reached(N, s, CtxOf[w]),
         NEW e, Heard(N, CtxOf[w], e)
  PROVE  Handle(v, w, e) \in Reached(N, s, CtxOf[w])
<1> DEFINE c == CtxOf[w]
           r == Handle(v, w, e)
<1>1. v \in Neats(N) /\ (Apart(N) => Keeps(s, v.disc, c)) BY DEF Reached
<1>2. PICK x \in N : x.ctx = c /\ e.key = KeyOf(x.info) /\ e.val \in {None, x.info}
  BY DEF Heard
<1> SUFFICES r \in Neats(N) /\ (Apart(N) => Keeps(v.disc, r.disc, c))
  BY <1>1, KeepsTrans DEF Reached
<1>3. CASE DirOf[w] = "topology" /\ e.key.id = None
  <2>1. r = v BY <1>3 DEF Handle
  <2> QED BY <2>1, <1>1, KeepsSelf
<1>4. CASE DirOf[w] = "topology" /\ e.key.id # None
  <2>1. r = TopologyEvent(v, c, e) BY <1>4 DEF Handle
  <2> HIDE DEF r, c
  <2>2. r \in Neats(N) /\ r.disc = v.disc BY <1>1, <1>4, <2>1, TopologyFacts DEF c
  <2> QED BY <2>2, KeepsSelf
<1>5. CASE DirOf[w] # "topology" /\ e.val = None
  <2>1. r = NodeDelete(v, c, KeyOf(x.info)) BY <1>2, <1>5 DEF Handle
  <2> HIDE DEF r, c
  <2>2. r \in Neats(N) /\ Keeps(v.disc, r.disc, c) BY <1>1, <2>1, DeleteFacts
  <2> QED BY <2>2
<1>6. CASE DirOf[w] # "topology" /\ e.val # None
  <2>1. r = NodePut(v, x.ctx, x.info) BY <1>2, <1>6 DEF Handle
  <2> HIDE DEF r, c
  <2>2. r \in Neats(N) /\ (Apart(N) => Keeps(v.disc, r.disc, x.ctx)) BY <1>1, <2>1, PutFacts
  <2> QED BY <1>2, <2>2
<1> QED BY <1>3, <1>4, <1>5, <1>6

\* The views that the events lead through, one after the other
Courses(D, v, w, events, k) ==
    {f \in [0 .. k -> D] :
        /\ f[0] = v /\ f[k] = HandleAll(v, w, events)
        /\ \A q \in 1 .. k : f[q] = Handle(f[q - 1], w, events[q])}

\* The events are handled one after the other.
LEMMA HandleAllRuns ==
  ASSUME NEW D, NEW w, NEW v \in D, NEW k \in Nat, NEW events, DOMAIN events = 1 .. k,
         \A j \in 1 .. k, r \in D : Handle(r, w, events[j]) \in D
  PROVE  Courses(D, v, w, events, k) # {}
<1> DEFINE S == DOMAIN events
           g == [j \in S |-> [r \in D |-> Handle(r, w, events[j])]]
           c == [q \in SUBSET S |-> Max(q)]
           G(h) == [q \in SUBSET S |-> IF q = {} THEN v
                                       ELSE Handle(h[q \ {Max(q)}], w, events[Max(q)])]
           e == CHOOSE h : h = G(h)
<1>1. HandleAll(v, w, events) = e[S] BY DEF HandleAll, FoldLeft, MapThenFoldSet
<1>2. \A j \in S, r \in D : Handle(r, w, events[j]) \in D OBVIOUS
<1>3. \A q \in SUBSET S : q # {} => Max(q) \in q /\ \A y \in q : y <= Max(q)
  <2> SUFFICES ASSUME NEW q \in SUBSET S, q # {} PROVE Max(q) \in q /\ \A y \in q : y <= Max(q)
    OBVIOUS
  <2>1. q \subseteq Nat /\ \A x \in q : x <= k OBVIOUS
  <2>2. W!Max(q) \in q /\ \A y \in q : y <= W!Max(q) BY <2>1, Greatest
  <2> QED BY <2>2 DEF Max, W!Max
<1>4. IsFiniteSet(S) BY FS_Interval
<1>5. g \in [S -> [D -> D]] /\ (\A q \in SUBSET S : q # {} => c[q] \in q) /\ v \in D
  BY <1>2, <1>3
<1>6. PICK h \in [SUBSET S -> D] :
         \A q \in SUBSET S : h[q] = IF q = {} THEN v ELSE g[c[q]][h[q \ {c[q]}]]
  <2> HIDE DEF S, g, c
  <2>1. Gathered(S, D, v, c, g) # {} BY <1>4, <1>5, FoldExists
  <2>2. PICK h : h \in Gathered(S, D, v, c, g) BY <2>1
  <2> QED BY <2>2 DEF Gathered
<1>7. h = G(h)
  <2>1. ASSUME NEW q \in SUBSET S
        PROVE  h[q] = IF q = {} THEN v ELSE Handle(h[q \ {Max(q)}], w, events[Max(q)])
    <3>1. CASE q = {} BY <1>6, <3>1
    <3>2. CASE q # {}
      <4>1. c[q] = Max(q) /\ Max(q) \in S /\ q \ {Max(q)} \in SUBSET S BY <1>3, <3>2
      <4>2. h[q \ {Max(q)}] \in D BY <1>6, <4>1
      <4>3. h[q] = g[Max(q)][h[q \ {Max(q)}]] BY <1>6, <3>2, <4>1
      <4> QED BY <3>2, <4>1, <4>2, <4>3
    <3> QED BY <3>1, <3>2
  <2> QED BY <1>6, <2>1
<1>8. e = G(e)
  <2> HIDE DEF G
  <2> QED BY <1>7
<1> DEFINE T == {q \in SUBSET S : e[q] \in D}
<1> HIDE DEF e, g, c
<1>9. {} \in T BY <1>5, <1>8
<1>10. ASSUME NEW q \in SUBSET S, q # {}, \A x \in q : q \ {x} \in T PROVE q \in T
  <2>1. Max(q) \in q /\ Max(q) \in S BY <1>3, <1>10
  <2>2. e[q \ {Max(q)}] \in D BY <1>10, <2>1
  <2>3. e[q] = Handle(e[q \ {Max(q)}], w, events[Max(q)]) BY <1>8, <1>10
  <2> QED BY <1>2, <2>1, <2>2, <2>3
<1> HIDE DEF T
<1>11. SUBSET S \subseteq T
  <2> HIDE DEF S
  <2> QED BY <1>4, <1>9, <1>10, SubsetInduction
<1> DEFINE f == [q \in 0 .. k |-> e[1 .. q]]
<1>12. \A q \in 0 .. k : 1 .. q \in SUBSET S OBVIOUS
<1>13. f \in [0 .. k -> D] BY <1>11, <1>12 DEF T
<1>14. f[0] = v
  <2>1. 1 .. 0 = {} OBVIOUS
  <2>2. e[{}] = v BY <1>8
  <2> QED BY <2>1, <2>2
<1>15. f[k] = e[S] OBVIOUS
<1>16. ASSUME NEW q \in 1 .. k PROVE f[q] = Handle(f[q - 1], w, events[q])
  <2>0. q \in 0 .. k /\ q \in 1 .. q OBVIOUS
  <2>1. 1 .. q \in SUBSET S /\ 1 .. q # {} /\ q \in 1 .. q BY <1>12, <2>0, Zenon
  <2>2. Max(1 .. q) = q
    <3>1. PICK m : m = Max(1 .. q) OBVIOUS
    <3>2. m \in 1 .. q /\ q <= m BY <1>3, <2>1, <3>1
    <3>3. m = q BY <3>2
    <3> QED BY <3>1, <3>3
  <2>3. (1 .. q) \ {q} = 1 .. q - 1 OBVIOUS
  <2>4. e[1 .. q] = Handle(e[(1 .. q) \ {Max(1 .. q)}], w, events[Max(1 .. q)]) BY <1>8, <2>1
  <2>5. e[1 .. q] = Handle(e[1 .. q - 1], w, events[q]) BY <2>2, <2>3, <2>4
  <2>6. q \in 0 .. k /\ q - 1 \in 0 .. k OBVIOUS
  <2> QED BY <2>5, <2>6
<1> HIDE DEF f
<1>17. f \in Courses(D, v, w, events, k) BY <1>1, <1>13, <1>14, <1>15, <1>16 DEF Courses
<1> QED BY <1>17

\* What holds at the start and after every event holds at the end.
LEMMA HandleAllFacts ==
  ASSUME NEW N, Keyed(N), Roomy(N), NEW s, NEW w \in Watchers, NEW v \in Reached(N, s, CtxOf[w]),
         NEW k \in Nat, NEW events, DOMAIN events = 1 .. k,
         \A j \in 1 .. k : Heard(N, CtxOf[w], events[j])
  PROVE  HandleAll(v, w, events) \in Reached(N, s, CtxOf[w])
<1>0. PICK D : D = Reached(N, s, CtxOf[w]) OBVIOUS
<1>1. \A j \in 1 .. k, r \in D : Handle(r, w, events[j]) \in D BY <1>0, HandleFacts
<1>2. v \in D BY <1>0
<1>4. PICK f \in Courses(D, v, w, events, k) : TRUE BY <1>1, <1>2, HandleAllRuns
<1>5. f \in [0 .. k -> D] /\ f[k] = HandleAll(v, w, events) BY <1>4 DEF Courses
<1>3. k \in 0 .. k OBVIOUS
<1> QED BY <1>0, <1>3, <1>5

KeysOf(N) == {KeyOf(x.info) : x \in N}

\* The views that the removal of some of the keys leads to
Removals(D, v, c, keys) ==
    {f \in [SUBSET keys -> D] :
        /\ f[{}] = v /\ f[keys] = CleanupNodes(v, c, keys)
        /\ \A q \in SUBSET keys : q # {} =>
              \E x \in q : f[q] = NodeDelete(f[q \ {x}], c, x)}

\* cleanup_old_nodes() removes the keys one after the other.
LEMMA CleanupRuns ==
  ASSUME NEW D, NEW c, NEW v \in D, NEW keys, IsFiniteSet(keys),
         \A k \in keys, r \in D : NodeDelete(r, c, k) \in D
  PROVE  Removals(D, v, c, keys) # {}
<1> DEFINE g == [k \in keys |-> [r \in D |-> NodeDelete(r, c, k)]]
           one(q) == CHOOSE x \in q : TRUE
           ch == [q \in SUBSET keys |-> one(q)]
           G(h) == [q \in SUBSET keys |-> IF q = {} THEN v
                                          ELSE NodeDelete(h[q \ {one(q)}], c, one(q))]
           e == CHOOSE h : h = G(h)
<1>1. CleanupNodes(v, c, keys) = e[keys] BY DEF CleanupNodes, FoldSet, MapThenFoldSet
<1>3. \A q \in SUBSET keys : q # {} => one(q) \in q OBVIOUS
<1> HIDE DEF one
<1>4. g \in [keys -> [D -> D]] /\ (\A q \in SUBSET keys : q # {} => ch[q] \in q) /\ v \in D
  BY <1>3
<1>5. PICK f \in [SUBSET keys -> D] :
         \A q \in SUBSET keys : f[q] = IF q = {} THEN v ELSE g[ch[q]][f[q \ {ch[q]}]]
  <2> HIDE DEF g, ch
  <2>1. Gathered(keys, D, v, ch, g) # {} BY <1>4, FoldExists
  <2>2. PICK f : f \in Gathered(keys, D, v, ch, g) BY <2>1
  <2> QED BY <2>2 DEF Gathered
<1>6. f = G(f)
  <2>1. ASSUME NEW q \in SUBSET keys
        PROVE  f[q] = IF q = {} THEN v ELSE NodeDelete(f[q \ {one(q)}], c, one(q))
    <3>1. CASE q = {} BY <1>5, <3>1
    <3>2. CASE q # {}
      <4>1. ch[q] = one(q) /\ one(q) \in keys /\ q \ {one(q)} \in SUBSET keys BY <1>3, <3>2
      <4>2. f[q \ {one(q)}] \in D BY <1>5, <4>1
      <4>3. f[q] = g[one(q)][f[q \ {one(q)}]] BY <1>5, <3>2, <4>1
      <4> QED BY <3>2, <4>1, <4>2, <4>3
    <3> QED BY <3>1, <3>2
  <2> QED BY <1>5, <2>1
<1>7. e = G(e)
  <2> HIDE DEF G
  <2> QED BY <1>6
<1> DEFINE T == {q \in SUBSET keys : e[q] \in D}
<1> HIDE DEF e, g, ch
<1>8. {} \in T BY <1>4, <1>7
<1>9. ASSUME NEW q \in SUBSET keys, q # {}, \A x \in q : q \ {x} \in T PROVE q \in T
  <2>1. one(q) \in q /\ one(q) \in keys BY <1>3, <1>9
  <2>2. e[q \ {one(q)}] \in D BY <1>9, <2>1
  <2>3. e[q] = NodeDelete(e[q \ {one(q)}], c, one(q)) BY <1>7, <1>9
  <2> QED BY <2>1, <2>2, <2>3
<1> HIDE DEF T
<1>10. SUBSET keys \subseteq T BY <1>8, <1>9, SubsetInduction
<1>11. e \in [SUBSET keys -> D]
  <2>1. DOMAIN e = SUBSET keys /\ e = [q \in SUBSET keys |-> e[q]] BY <1>7
  <2> QED BY <1>10, <2>1 DEF T
<1>12. e[{}] = v BY <1>7
<1>13. ASSUME NEW q \in SUBSET keys, q # {} PROVE \E x \in q : e[q] = NodeDelete(e[q \ {x}], c, x)
  <2>1. e[q] = NodeDelete(e[q \ {one(q)}], c, one(q)) BY <1>7, <1>13
  <2> QED BY <1>3, <1>13, <2>1
<1> HIDE DEF T
<1>14. e \in Removals(D, v, c, keys) BY <1>1, <1>11, <1>12, <1>13 DEF Removals
<1> QED BY <1>14

\* cleanup_old_nodes() leaves the view in order and the nodes of other contexts alone.
LEMMA CleanupFacts ==
  ASSUME NEW N, Keyed(N), NEW s, NEW c, NEW v \in Reached(N, s, c),
         NEW keys, IsFiniteSet(keys), keys \subseteq KeysOf(N)
  PROVE  CleanupNodes(v, c, keys) \in Reached(N, s, c)
<1>0. PICK D : D = Reached(N, s, c) OBVIOUS
<1>1. \A k \in keys, r \in D : NodeDelete(r, c, k) \in D
  <2> SUFFICES ASSUME NEW k \in keys, NEW r \in D PROVE NodeDelete(r, c, k) \in D OBVIOUS
  <2>1. PICK x \in N : k = KeyOf(x.info) BY DEF KeysOf
  <2>2. r \in Neats(N) /\ (Apart(N) => Keeps(s, r.disc, c)) BY <1>0 DEF Reached
  <2> DEFINE y == NodeDelete(r, c, KeyOf(x.info))
  <2>3. y \in Neats(N) /\ Keeps(r.disc, y.disc, c) BY <2>2, DeleteFacts
  <2> HIDE DEF y
  <2>4. Apart(N) => Keeps(s, y.disc, c) BY <2>2, <2>3, KeepsTrans
  <2>5. y \in D BY <1>0, <2>3, <2>4 DEF Reached
  <2> QED BY <2>1, <2>5 DEF y
<1>2. v \in D BY <1>0
<1>3. PICK f \in Removals(D, v, c, keys) : TRUE BY <1>1, <1>2, CleanupRuns
<1>4. f \in [SUBSET keys -> D] /\ f[keys] = CleanupNodes(v, c, keys) BY <1>3 DEF Removals
<1>5. keys \in SUBSET keys OBVIOUS
<1> QED BY <1>0, <1>4, <1>5

\* The keys that a snapshot removes are finitely many keys of nodes.
LEMMA OldKeysFacts ==
  ASSUME NEW N, Keyed(N), NEW v \in Neats(N), NEW c, NEW events
  PROVE  IsFiniteSet(OldKeys(v, c, events)) /\ OldKeys(v, c, events) \subseteq KeysOf(N)
<1> DEFINE s == v.disc
           all == {KeyOf(s.node[o].info) : o \in Held(s)}
           f == [o \in Held(s) |-> KeyOf(s.node[o].info)]
<1>1. Tidy(s, N) /\ Indexed(s) = Held(s) BY NeatFields, TidyIndexed
<1>2. OldKeys(v, c, events) \subseteq all BY <1>1 DEF OldKeys
<1>3. f \in Surjection(Held(s), all) BY DEF Surjection
<1>4. IsFiniteSet(all)
  <2> HIDE DEF f, all
  <2> QED BY <1>1, <1>3, FS_Surjection DEF Tidy
<1>5. all \subseteq KeysOf(N) BY <1>1 DEF KeysOf, Tidy
<1> HIDE DEF all
<1> QED BY <1>2, <1>4, <1>5, FS_Subset

\* The topologies that a snapshot removes are no nodes.
LEMMA TopologiesFacts ==
  ASSUME NEW N, NEW s, NEW c, NEW d, NEW v \in Reached(N, s, c), NEW events
  PROVE  CleanupTopologies(v, d, events) \in Reached(N, s, c)
<1> DEFINE t == [i \in Ids |-> IF /\ v.topo[i] # None /\ v.topo[i].ctx = d
                                  /\ ~\E j \in 1 .. Len(events) : events[j].key.id = i
                               THEN None ELSE v.topo[i]]
           r == CleanupTopologies(v, d, events)
<1>1. /\ v \in Neats(N) /\ (Apart(N) => Keeps(s, v.disc, c)) BY DEF Reached
<1>2. /\ v = [disc |-> v.disc, topo |-> v.topo, told |-> v.told]
      /\ Tidy(v.disc, N) /\ v.told = ToldOf(v.disc) /\ v.topo \in Nets
  BY <1>1, NeatFields
<1>3. t \in Nets BY <1>2 DEF Nets
<1>4. r = [v EXCEPT !.topo = t] BY DEF CleanupTopologies
<1> HIDE DEF t, r
<1>5. r = [disc |-> v.disc, topo |-> t, told |-> v.told] BY <1>2, <1>4
<1>6. r \in Neats(N) BY <1>2, <1>3, <1>5, NeatMade
<1>7. r.disc = v.disc BY <1>5
<1> QED BY <1>1, <1>6, <1>7 DEF Reached, r

\* A snapshot, of a watcher that reconciles or not
LEMMA LoadFacts ==
  ASSUME NEW N, Keyed(N), Roomy(N), NEW w \in Watchers, NEW v \in Neats(N),
         NEW k \in Nat, NEW events, DOMAIN events = 1 .. k,
         \A j \in 1 .. k : Heard(N, CtxOf[w], events[j])
  PROVE  /\ HandleAll(v, w, events) \in Reached(N, v.disc, CtxOf[w])
         /\ LoadSnapshot(v, w, events) \in Reached(N, v.disc, CtxOf[w])
<1>0. PICK c : c = CtxOf[w] OBVIOUS
<1> DEFINE s == v.disc
           d == RebuildCache(s, {})
           v0 == [v EXCEPT !.disc = d]
           r == LoadSnapshot(v, w, events)
<1>1. /\ v = [disc |-> s, topo |-> v.topo, told |-> v.told]
      /\ Tidy(s, N) /\ v.told = ToldOf(s) /\ v.topo \in Nets
  BY NeatFields
<1>2. v \in Reached(N, s, c) BY KeepsSelf DEF Reached
<1> HIDE DEF s, r
<1>3. HandleAll(v, w, events) \in Reached(N, s, c) BY <1>0, <1>2, HandleAllFacts
<1>4. Tidy(d, N) /\ d.node = s.node /\ d.byId = s.byId BY <1>1, SetConstants, RebuildFacts
<1> HIDE DEF d
<1>5. v0 = [disc |-> d, topo |-> v.topo, told |-> ToldOf(d)]
  <2>1. ToldOf(d) = ToldOf(s) BY <1>4 DEF ToldOf
  <2> QED BY <1>1, <2>1
<1>6. v0 \in Neats(N) /\ v0.disc = d BY <1>1, <1>4, <1>5, NeatMade
<1>7. Keeps(s, d, c) BY <1>4 DEF Keeps
<1>8. v0 \in Reached(N, s, c) BY <1>6, <1>7 DEF Reached
<1>9. r = IF DirOf[w] = "topology"
          THEN CleanupTopologies(HandleAll(v, w, events), c, events)
          ELSE CleanupNodes(HandleAll(v0, w, events), c, OldKeys(v0, c, events))
  BY <1>0 DEF LoadSnapshot, r, d, s
<1> HIDE DEF v0
<1>10. HandleAll(v0, w, events) \in Reached(N, s, c) BY <1>0, <1>8, HandleAllFacts
<1>11. CASE DirOf[w] = "topology"
  <2>1. r \in Reached(N, s, c) BY <1>3, <1>9, <1>11, TopologiesFacts
  <2> QED BY <1>0, <1>3, <2>1 DEF r, s
<1>12. CASE DirOf[w] # "topology"
  <2>1. IsFiniteSet(OldKeys(v0, c, events)) /\ OldKeys(v0, c, events) \subseteq KeysOf(N)
    BY <1>6, OldKeysFacts
  <2>2. r \in Reached(N, s, c) BY <1>9, <1>10, <1>12, <2>1, CleanupFacts
  <2> QED BY <1>0, <1>3, <2>2 DEF r, s
<1> QED BY <1>11, <1>12

-----------------------------------------------------------------------------
(* What a watcher hears are changes of its context.                        *)

\* The cardinality of the watchers' module is the one of this module.
LEMMA SameCardinality ==
  ASSUME NEW S PROVE W!Cardinality(S) = Cardinality(S)
BY DEF W!Cardinality, Cardinality

\* A finite set of numbers can be counted from its least element on.
Ascending(S) ==
    {f \in [1 .. Cardinality(S) -> S] : \A i, j \in DOMAIN f : i < j => f[i] < f[j]}

\* A finite set of numbers can be listed in ascending order.
LEMMA AscendingExists ==
  ASSUME NEW S \in SUBSET Nat, IsFiniteSet(S) PROVE Ascending(S) # {}
<1> DEFINE T == {n \in Nat : \A U \in SUBSET Nat :
                    IsFiniteSet(U) /\ Cardinality(U) = n => Ascending(U) # {}}
<1>1. 0 \in T
  <2> SUFFICES ASSUME NEW U \in SUBSET Nat, Cardinality(U) = 0, IsFiniteSet(U)
               PROVE  Ascending(U) # {}
    OBVIOUS
  <2>1. U = {} BY FS_EmptySet
  <2> DEFINE f == [i \in 1 .. 0 |-> 0]
  <2>2. DOMAIN f = {} /\ f \in [1 .. Cardinality(U) -> U] OBVIOUS
  <2> HIDE DEF f
  <2>3. f \in Ascending(U) BY <2>2 DEF Ascending
  <2> QED BY <2>3
<1>2. ASSUME NEW n \in T PROVE n + 1 \in T
  <2> SUFFICES ASSUME NEW U \in SUBSET Nat, Cardinality(U) = n + 1, IsFiniteSet(U)
               PROVE  Ascending(U) # {}
    OBVIOUS
  <2>1. U # {} BY FS_EmptySet
  <2>2. PICK m \in U : \A y \in U : m <= y BY <2>1, Least
  <2>3. IsFiniteSet(U \ {m}) /\ Cardinality(U \ {m}) = n
    <3>1. IsFiniteSet(U \ {m}) /\ Cardinality(U \ {m}) = Cardinality(U) - 1
      BY <2>2, FS_RemoveElement
    <3>2. n + 1 - 1 = n BY DEF T
    <3> QED BY <3>1, <3>2
  <2>4. PICK f : f \in Ascending(U \ {m}) BY <2>3
  <2>5. f \in [1 .. n -> U \ {m}] /\ \A i, j \in 1 .. n : i < j => f[i] < f[j]
    BY <2>3, <2>4 DEF Ascending
  <2> DEFINE e == [i \in 1 .. n + 1 |-> IF i = 1 THEN m ELSE f[i - 1]]
  <2>6. \A i \in 1 .. n + 1 : i # 1 => i - 1 \in 1 .. n OBVIOUS
  <2>7. e \in [1 .. n + 1 -> U] BY <2>5, <2>6
  <2>8. ASSUME NEW i \in 1 .. n + 1, NEW j \in 1 .. n + 1, i < j PROVE e[i] < e[j]
    <3>1. j # 1 /\ e[j] = f[j - 1] /\ j - 1 \in 1 .. n BY <2>6, <2>8
    <3>2. CASE i = 1
      <4>1. e[i] = m BY <3>2
      <4>2. f[j - 1] \in U /\ f[j - 1] # m BY <2>5, <3>1
      <4>3. PICK y \in U : y = f[j - 1] BY <4>2
      <4>4. m <= y /\ m # y /\ m \in Nat /\ y \in Nat BY <2>2, <4>2, <4>3
      <4>5. m < y BY <4>4
      <4> QED BY <3>1, <4>1, <4>3, <4>5
    <3>3. CASE i # 1
      <4>1. e[i] = f[i - 1] /\ i - 1 \in 1 .. n /\ i - 1 < j - 1 BY <2>6, <2>8, <3>3
      <4> QED BY <2>5, <3>1, <4>1
    <3> QED BY <3>2, <3>3
  <2>9. DOMAIN e = 1 .. n + 1 OBVIOUS
  <2> HIDE DEF e
  <2>10. e \in Ascending(U) BY <2>7, <2>8, <2>9 DEF Ascending
  <2> QED BY <2>10
<1> HIDE DEF T
<1>3. T \subseteq Nat /\ 0 \in T /\ \A n \in T : n + 1 \in T BY <1>1, <1>2 DEF T
<1>4. T = Nat BY <1>3, Induction
<1>5. Cardinality(S) \in Nat BY FS_CardinalityType
<1> QED BY <1>4, <1>5 DEF T

\* A finite set can be listed.
LEMMA ListTyped ==
  ASSUME NEW S, IsFiniteSet(S)
  PROVE  /\ W!SetToSeq(S) \in [1 .. Cardinality(S) -> S] /\ Cardinality(S) \in Nat
         /\ Len(W!SetToSeq(S)) = Cardinality(S)
<1> DEFINE n == Cardinality(S)
<1>1. n \in Nat /\ ExistsBijection(1 .. n, S) BY FS_CardinalityType
<1>2. \E f \in [1 .. n -> S] : W!IsInjective(f)
  <2>1. PICK f : f \in Bijection(1 .. n, S) BY <1>1 DEF ExistsBijection
  <2>2. f \in [1 .. n -> S] /\ IsInjective(f) BY <2>1 DEF Bijection, Injection
  <2>3. W!IsInjective(f) BY <2>2 DEF IsInjective, W!IsInjective
  <2> QED BY <2>2, <2>3
<1>3. W!SetToSeq(S) = CHOOSE f \in [1 .. n -> S] : W!IsInjective(f) BY SameCardinality, Zenon DEF W!SetToSeq
<1>4. W!SetToSeq(S) \in [1 .. n -> S] BY <1>2, <1>3, Zenon
<1> HIDE DEF n
<1>5. Len(W!SetToSeq(S)) = n BY <1>1, <1>4
<1> QED BY <1>1, <1>4, <1>5 DEF n

\* The history of a cluster has changes of nodes that its members may register,
\* and only those of a cluster that is watched.
LogInv ==
    \A c \in Contexts : \A n \in 1 .. Len(log[c]) :
        /\ c \in {CtxOf[w] : w \in setup}
        /\ \E i \in Items[c] : log[c][n].key = KeyOf(i) /\ log[c][n].val \in {None, i}

\* What is in the history of a cluster is a change of one of its nodes.
LEMMA ChangeHeard ==
  ASSUME W!WatcherTypeOK, LogInv, NEW c \in Contexts, NEW n \in 1 .. Len(log[c]),
         NEW e, e.ver \in Nat, e.key = log[c][n].key, e.val = log[c][n].val
  PROVE  Heard(Registrable(setup), c, e)
<1>1. c \in {CtxOf[w] : w \in setup} BY DEF LogInv
<1>2. PICK i \in Items[c] : e.key = KeyOf(i) /\ e.val \in {None, i} BY DEF LogInv
<1> DEFINE x == [info |-> i, ctx |-> c]
<1>3. i \in Infos BY DiscoveryConstants
<1>4. x \in Registrable(setup) BY <1>1, <1>3 DEF Registrable, Nodes
<1>5. x.ctx = c /\ x.info = i OBVIOUS
<1> HIDE DEF x
<1> QED BY <1>2, <1>4, <1>5 DEF Heard

\* The events of a snapshot are nodes of the context.
LEMMA SnapshotHeard ==
  ASSUME W!WatcherTypeOK, LogInv, NEW w \in Watchers, NEW r \in 1 .. W!Now(CtxOf[w])
  PROVE  \E k \in Nat : /\ DOMAIN W!Snapshot(w, r) = 1 .. k
                        /\ \A j \in 1 .. k : Heard(Registrable(setup), CtxOf[w], W!Snapshot(w, r)[j])
<1> DEFINE c == CtxOf[w]
           d == DirOf[w]
           l == log[c]
           state == W!StateAt(c, d, r)
           H == {k \in UsedKeys : state[k] # None}
           held == W!SetToSeq(H)
           events == W!Snapshot(w, r)
<1>1. /\ c \in Contexts /\ l \in Seq(W!Change) /\ W!Now(c) = Len(l) + 1 /\ Len(l) \in Nat
      /\ r \in Nat /\ r - 1 <= Len(l)
  <2>1. c \in Contexts /\ l \in Seq(W!Change) /\ W!Now(c) = Len(l) + 1 BY NowType
  <2>2. Len(l) \in Nat BY <2>1
  <2> HIDE DEF c, l
  <2>3. r \in 1 .. Len(l) + 1 BY <2>1 DEF c
  <2>4. r \in Nat /\ r - 1 <= Len(l) BY <2>2, <2>3
  <2> QED BY <2>1, <2>2, <2>4
<1>2. ASSUME NEW k \in H
      PROVE  /\ W!LastChange(c, d, k, r) \in 1 .. r - 1
             /\ l[W!LastChange(c, d, k, r)].key = k
             /\ l[W!LastChange(c, d, k, r)].val = state[k]
  <2> DEFINE n == W!LastChange(c, d, k, r)
  <2>1. n = LastTouch(l, d, k, r) BY DEF W!LastChange, LastTouch, Touching
  <2>2. state[k] = IF n = 0 THEN None ELSE l[n].val BY DEF W!StateAt, W!ValueAt
  <2>3. n # 0 /\ state[k] = l[n].val BY <2>2
  <2> HIDE DEF n, l
  <2>4. n \in {0} \cup Touching(l, d, k, r) BY <1>1, <2>1, LastFacts
  <2> QED BY <2>3, <2>4 DEF n, Touching
<1> HIDE DEF state, l, c, d
<1>3. IsFiniteSet(H)
  <2> DEFINE all == {l[n].key : n \in 1 .. r - 1}
             f == [n \in 1 .. r - 1 |-> l[n].key]
  <2>1. f \in Surjection(1 .. r - 1, all) BY DEF Surjection
  <2>2. IsFiniteSet(1 .. r - 1) BY <1>1, FS_Interval
  <2>3. H \subseteq all
    <3> SUFFICES ASSUME NEW k \in H PROVE k \in all OBVIOUS
    <3> HIDE DEF H
    <3>1. PICK n \in 1 .. r - 1 : l[n].key = k BY <1>2
    <3> QED BY <3>1
  <2>4. IsFiniteSet(all)
    <3> HIDE DEF f, all
    <3> QED BY <2>1, <2>2, FS_Surjection
  <2> HIDE DEF all, H
  <2> QED BY <2>3, <2>4, FS_Subset
<1> HIDE DEF H
<1>4. PICK m \in Nat : m = Cardinality(H) /\ held \in [1 .. m -> H] /\ Len(held) = m
  BY <1>3, ListTyped
<1>5. events = [i \in 1 .. m |-> [key |-> held[i], val |-> state[held[i]],
                                  ver |-> W!LastChange(c, d, held[i], r) + 1]]
  BY <1>4 DEF W!Snapshot, state, H, c, d
<1> HIDE DEF events, held
<1>6. ASSUME NEW j \in 1 .. m PROVE Heard(Registrable(setup), c, events[j])
  <2> DEFINE n == W!LastChange(c, d, held[j], r)
  <2>1. held[j] \in H BY <1>4
  <2>2. n \in 1 .. r - 1 /\ l[n].key = held[j] /\ l[n].val = state[held[j]] BY <1>2, <2>1
  <2>3. events[j].key = held[j] /\ events[j].val = state[held[j]] /\ events[j].ver = n + 1
    BY <1>5
  <2> HIDE DEF n
  <2>4. n \in 1 .. Len(l) /\ n + 1 \in Nat BY <1>1, <2>2
  <2> QED BY <1>1, <2>2, <2>3, <2>4, ChangeHeard DEF l
<1>7. DOMAIN events = 1 .. m BY <1>5
<1> QED BY <1>6, <1>7 DEF c, events

\* The events of a watch answer are changes of nodes of the context.
LEMMA ChangesHeard ==
  ASSUME W!WatcherTypeOK, LogInv, NEW w \in Watchers, NEW r \in 1 .. W!Now(CtxOf[w]),
         watch[w].at # 0
  PROVE  \E k \in Nat : /\ DOMAIN W!Changes(w, r) = 1 .. k
                        /\ \A j \in 1 .. k : Heard(Registrable(setup), CtxOf[w], W!Changes(w, r)[j])
<1> DEFINE c == CtxOf[w]
           l == log[c]
           U == W!Unsent(w, r)
           ns == CHOOSE f \in [1 .. Cardinality(U) -> U] : \A i, j \in DOMAIN f : i < j => f[i] < f[j]
           events == W!Changes(w, r)
<1>1. /\ c \in Contexts /\ l \in Seq(W!Change) /\ W!Now(c) = Len(l) + 1 /\ Len(l) \in Nat
      /\ r \in Nat /\ r - 1 <= Len(l)
  <2>1. c \in Contexts /\ l \in Seq(W!Change) /\ W!Now(c) = Len(l) + 1 BY NowType
  <2>2. Len(l) \in Nat BY <2>1
  <2> HIDE DEF c, l
  <2>3. r \in 1 .. Len(l) + 1 BY <2>1 DEF c
  <2>4. r \in Nat /\ r - 1 <= Len(l) BY <2>2, <2>3
  <2> QED BY <2>1, <2>2, <2>4
<1>2. watch[w].at \in Nat /\ watch[w].at # 0 BY DEF W!WatcherTypeOK, W!WatcherRec
<1>3. U \subseteq watch[w].at .. r - 1 BY DEF W!Unsent
<1>4. IsFiniteSet(U) /\ U \subseteq Nat /\ U \subseteq 1 .. Len(l)
  <2> HIDE DEF U, l
  <2>1. U \subseteq 1 .. Len(l)
    <3> SUFFICES ASSUME NEW n \in U PROVE n \in 1 .. Len(l) OBVIOUS
    <3>1. n \in watch[w].at .. r - 1 BY <1>3
    <3> QED BY <1>1, <1>2, <3>1
  <2>2. IsFiniteSet(1 .. Len(l)) BY <1>1, FS_Interval
  <2>3. IsFiniteSet(U) BY <2>1, <2>2, FS_Subset
  <2>4. 1 .. Len(l) \subseteq Nat BY <1>1
  <2> QED BY <2>1, <2>3, <2>4
<1> HIDE DEF U, l
<1>5. Ascending(U) # {} BY <1>4, AscendingExists
<1>6. ns \in [1 .. Cardinality(U) -> U]
  <2>1. \E f \in [1 .. Cardinality(U) -> U] : \A i, j \in DOMAIN f : i < j => f[i] < f[j]
    BY <1>5, Zenon DEF Ascending
  <2> QED BY <2>1, Zenon
<1>7. PICK m \in Nat : m = Cardinality(U) BY <1>4, FS_CardinalityType
<1>8. events = [i \in 1 .. Len(ns) |-> [key |-> l[ns[i]].key, val |-> l[ns[i]].val, ver |-> ns[i] + 1]]
  <2>1. W!Cardinality(W!Unsent(w, r)) = Cardinality(W!Unsent(w, r)) BY SameCardinality
  <2> QED BY <2>1, Zenon DEF W!Changes, U, l, c
<1> HIDE DEF events, ns
<1>9. Len(ns) = m /\ ns \in [1 .. m -> U] BY <1>6, <1>7
<1>10. ASSUME NEW j \in 1 .. m PROVE Heard(Registrable(setup), c, events[j])
  <2>1. ns[j] \in 1 .. Len(l) BY <1>4, <1>9
  <2>2. events[j].key = l[ns[j]].key /\ events[j].val = l[ns[j]].val /\ events[j].ver = ns[j] + 1
    BY <1>8, <1>9
  <2>3. events[j].ver \in Nat BY <2>1, <2>2
  <2> HIDE DEF c
  <2> QED BY <1>1, <2>1, <2>2, <2>3, ChangeHeard DEF l
<1>11. DOMAIN events = 1 .. m BY <1>8, <1>9
<1> QED BY <1>10, <1>11 DEF c, events

-----------------------------------------------------------------------------
(* The invariant of the set, step by step.                                 *)

\* Only a watcher that exists has its snapshot index, and none exists while
\* discovery is switched off.
FlagInv ==
    /\ enabled \in BOOLEAN /\ inited \in BOOLEAN /\ stopped \in BOOLEAN
    /\ indexed \subseteq {w \in Watchers : watch[w].rpc # "off"}
    /\ ~inited => \A w \in Watchers : watch[w].rpc = "off"

\* The set is in order and the application knows it.
SetInv ==
    /\ setup \in Setups
    /\ View \in Neats(Registrable(setup))
    /\ LogInv
    /\ FlagInv

\* At the start the set is empty.
LEMMA InitSet == ASSUME WellNamed, Init PROVE SetInv
<1> DEFINE N == Registrable(setup)
<1>1. setup \in Setups BY DEF Init
<1>2. /\ EmptySet.byId = [i \in Ids |-> None] /\ EmptySet.byName = [n \in Names |-> None]
      /\ EmptySet.node = [o \in Objects |-> None] /\ EmptySet.cache = [r \in Rules |-> {}]
      /\ EmptySet \in Sets
  BY DEF EmptySet, Sets
<1>3. Held(EmptySet) = {} BY <1>2 DEF Held
<1>4. Tidy(EmptySet, N)
  <2>1. IsFiniteSet(Held(EmptySet)) BY <1>3, FS_EmptySet
  <2> HIDE DEF N
  <2>2. ASSUME NEW i \in Ids, NEW o \in Objects
        PROVE  EmptySet.byId[i] # o /\ EmptySet.node[o] = None
    BY <1>2, SetConstants
  <2>3. ASSUME NEW n \in Names, NEW o \in Objects
        PROVE  EmptySet.byName[n] # o /\ EmptySet.node[o] = None
    BY <1>2, SetConstants
  <2>4. \A r \in Rules : EmptySet.cache[r] = {} BY <1>2
  <2> QED BY <1>2, <1>3, <2>1, <2>2, <2>3, <2>4 DEF Tidy
<1>5. View = [disc |-> EmptySet, topo |-> [i \in Ids |-> None], told |-> ToldOf(EmptySet)]
  <2>1. ToldOf(EmptySet) = [i \in Ids |-> None] BY <1>2 DEF ToldOf
  <2> QED BY <2>1 DEF View, Init
<1>6. [i \in Ids |-> None] \in Nets BY DEF Nets
<1> HIDE DEF N
<1>7. View \in Neats(N) BY <1>4, <1>5, <1>6, NeatMade
<1>8. LogInv
  <2>1. \A c \in Contexts : Len(log[c]) = 0 BY DEF Init
  <2> QED BY <2>1 DEF LogInv
<1>9. FlagInv BY DEF Init, FlagInv
<1> QED BY <1>1, <1>7, <1>8, <1>9 DEF SetInv, N

\* The view after a step.
LEMMA BecameView ==
  ASSUME NEW N, NEW s \in Neats(N), Become(s) PROVE View' = s
<1>1. disc' = s.disc /\ topo' = s.topo /\ told' = s.told BY DEF Become
<1>2. s = [disc |-> s.disc, topo |-> s.topo, told |-> s.told] BY NeatFields
<1> QED BY <1>1, <1>2 DEF View

\* An answer of a context changes the nodes of that context.
LEMMA AnswerReaches ==
  ASSUME WellNamed, WatchInv, SetInv, NEW w \in Watchers, NEW r \in 1 .. W!Now(CtxOf[w]),
         RangeAnswered(w, r) \/ WatchWrite(w, r)
  PROVE  View' \in Reached(Registrable(setup), disc, CtxOf[w])
<1>0. PICK N : N = Registrable(setup) OBVIOUS
<1>1. Keyed(N) /\ Roomy(N) BY <1>0 DEF WellNamed, SetInv
<1>2. View \in Neats(N) /\ View.disc = disc /\ LogInv /\ W!WatcherTypeOK
  BY <1>0 DEF SetInv, WatchInv, View
<1>3. ASSUME NEW s \in Reached(N, disc, CtxOf[w]), Become(s)
      PROVE  View' \in Reached(N, disc, CtxOf[w])
  <2>1. s \in Neats(N) BY DEF Reached
  <2>2. View' = s BY <1>3, <2>1, BecameView
  <2> QED BY <2>2
<1>4. CASE RangeAnswered(w, r)
  <2>1. PICK events : events = W!Snapshot(w, r) OBVIOUS
  <2>2. PICK k \in Nat : DOMAIN events = 1 .. k /\ \A j \in 1 .. k : Heard(N, CtxOf[w], events[j])
    BY <1>0, <1>2, <2>1, SnapshotHeard
  <2>3. /\ HandleAll(View, w, events) \in Reached(N, disc, CtxOf[w])
        /\ LoadSnapshot(View, w, events) \in Reached(N, disc, CtxOf[w])
    BY <1>1, <1>2, <2>2, LoadFacts
  <2>4. Become(IF Reconciles(w) THEN LoadSnapshot(View, w, events) ELSE HandleAll(View, w, events))
    BY <1>4, <2>1 DEF RangeAnswered
  <2>5. CASE Reconciles(w)
    <3>1. Become(LoadSnapshot(View, w, events)) BY <2>4, <2>5
    <3> QED BY <1>0, <1>3, <2>3, <3>1
  <2>6. CASE ~Reconciles(w)
    <3>1. Become(HandleAll(View, w, events)) BY <2>4, <2>6
    <3> QED BY <1>0, <1>3, <2>3, <3>1
  <2> QED BY <2>5, <2>6
<1>5. CASE WatchWrite(w, r)
  <2>1. PICK events : events = W!Changes(w, r) OBVIOUS
  <2>2. watch[w].at # 0
    <3>1. watch[w].rpc = "watch" BY <1>5 DEF WatchWrite, W!WatchWrite
    <3> QED BY <3>1 DEF WatchInv, Ahead
  <2>3. PICK k \in Nat : DOMAIN events = 1 .. k /\ \A j \in 1 .. k : Heard(N, CtxOf[w], events[j])
    BY <1>0, <1>2, <2>1, <2>2, ChangesHeard
  <2>4. HandleAll(View, w, events) \in Reached(N, disc, CtxOf[w])
    BY <1>1, <1>2, <2>3, LoadFacts
  <2>5. Become(HandleAll(View, w, events)) BY <1>5, <2>1 DEF WatchWrite
  <2> QED BY <1>0, <1>3, <2>4, <2>5
<1> QED BY <1>4, <1>5

\* A watcher's step changes that watcher only, and removes none.
LEMMA WatcherMoves ==
  ASSUME WatchInv, NEW w \in Watchers,
         \/ Quietly(w)
         \/ \E r \in 1 .. W!Now(CtxOf[w]) : W!RangeAnswered(w, r) \/ W!WatchWrite(w, r)
  PROVE  /\ watch[w].rpc # "off"
         /\ \E y : watch' = [watch EXCEPT ![w] = y] /\ y.rpc # "off"
         /\ log' = log
<1>1. watch \in [Watchers -> W!WatcherRec] /\ watch[w] \in W!WatcherRec
  BY DEF WatchInv, W!WatcherTypeOK
<1>2. ASSUME NEW x \in W!WatcherRec, NEW now, x.rpc # "off" PROVE W!Process(x, now).rpc # "off"
  BY <1>2 DEF W!Process, W!WatcherRec
<1>3. CASE W!Poll(w)
  <2> DEFINE y == W!Process(watch[w], W!Now(CtxOf[w]))
  <2>1. watch[w].rpc = "none" /\ watch' = [watch EXCEPT ![w] = y] /\ log' = log
    BY <1>3 DEF W!Poll
  <2>2. y.rpc # "off" BY <1>1, <1>2, <2>1
  <2> HIDE DEF y
  <2> QED BY <2>1, <2>2
<1>4. CASE W!ProbeAnswered(w)
  <2> DEFINE x == [watch[w] EXCEPT !.retry = FALSE]
             y == W!Process(x, W!Now(CtxOf[w]))
  <2>1. watch[w].rpc = "probe" /\ watch' = [watch EXCEPT ![w] = y] /\ log' = log
    BY <1>4 DEF W!ProbeAnswered
  <2>2. x \in W!WatcherRec /\ x.rpc = "probe" BY <1>1, <2>1 DEF W!WatcherRec
  <2> HIDE DEF x
  <2>3. y.rpc # "off" BY <1>2, <2>2
  <2> HIDE DEF y
  <2> QED BY <2>1, <2>3
<1>5. ASSUME NEW r \in 1 .. W!Now(CtxOf[w]), W!RangeAnswered(w, r)
      PROVE  /\ watch[w].rpc # "off" /\ log' = log
             /\ \E y : watch' = [watch EXCEPT ![w] = y] /\ y.rpc # "off"
  <2> DEFINE x == [watch[w] EXCEPT !.rev = r]
             y == W!Process(x, r)
  <2>1. watch[w].rpc = "range" /\ watch' = [watch EXCEPT ![w] = y] /\ log' = log
    BY <1>5 DEF W!RangeAnswered
  <2>2. W!Now(CtxOf[w]) \in Nat BY NowType DEF WatchInv
  <2>3. r \in Nat BY <2>2
  <2>4. x \in W!WatcherRec /\ x.rpc = "range" BY <1>1, <2>1, <2>3 DEF W!WatcherRec
  <2> HIDE DEF x
  <2>5. y.rpc # "off" BY <1>2, <2>4
  <2> HIDE DEF y
  <2> QED BY <2>1, <2>5
<1>6. CASE W!RangeFails(w)
  <2> DEFINE y == [watch[w] EXCEPT !.rpc = "none", !.at = 0]
  <2>1. watch[w].rpc \in {"range", "probe"} /\ watch' = [watch EXCEPT ![w] = y] /\ log' = log
    BY <1>1, <1>6 DEF W!RangeFails
  <2>2. y.rpc = "none" BY <1>1 DEF W!WatcherRec
  <2> HIDE DEF y
  <2> QED BY <2>1, <2>2
<1>7. CASE W!WatchNotified(w)
  <2> DEFINE y == [watch[w] EXCEPT !.rev = IF NotifiedAhead THEN W!Now(CtxOf[w]) ELSE watch[w].at]
  <2>1. watch[w].rpc = "watch" /\ watch' = [watch EXCEPT ![w] = y] /\ log' = log
    BY <1>1, <1>7 DEF W!WatchNotified
  <2>2. y.rpc = "watch" BY <1>1, <2>1 DEF W!WatcherRec
  <2> HIDE DEF y
  <2> QED BY <2>1, <2>2
<1>8. ASSUME NEW r, W!WatchWrite(w, r)
      PROVE  /\ watch[w].rpc # "off" /\ log' = log
             /\ \E y : watch' = [watch EXCEPT ![w] = y] /\ y.rpc # "off"
  <2> DEFINE y == [watch[w] EXCEPT !.rev = r, !.at = r]
  <2>1. watch[w].rpc = "watch" /\ watch' = [watch EXCEPT ![w] = y] /\ log' = log
    BY <1>1, <1>8 DEF W!WatchWrite
  <2>2. y.rpc = "watch" BY <1>1, <2>1 DEF W!WatcherRec
  <2> HIDE DEF y
  <2> QED BY <2>1, <2>2
<1>9. CASE W!WatchCancelled(w)
  <2> DEFINE y == [watch[w] EXCEPT !.rpc = "stopped", !.at = 0,
                      !.rev = IF watch[w].rev < floor[CtxOf[w]] THEN 0 ELSE watch[w].rev]
  <2>1. watch[w].rpc = "watch" /\ watch' = [watch EXCEPT ![w] = y] /\ log' = log
    BY <1>1, <1>9 DEF W!WatchCancelled
  <2>2. y.rpc = "stopped" BY <1>1 DEF W!WatcherRec
  <2> HIDE DEF y
  <2> QED BY <2>1, <2>2
<1>10. ASSUME NEW later \in BOOLEAN, W!WatchCompleted(w, later)
       PROVE  /\ watch[w].rpc # "off" /\ log' = log
              /\ \E y : watch' = [watch EXCEPT ![w] = y] /\ y.rpc # "off"
  <2> DEFINE x == [watch[w] EXCEPT !.rpc = "none", !.retry = TRUE, !.at = 0]
             y == IF later THEN x ELSE W!Process(x, W!Now(CtxOf[w]))
  <2>1. watch[w].rpc \in {"stopped", "watch"} /\ watch' = [watch EXCEPT ![w] = y] /\ log' = log
    BY <1>10 DEF W!WatchCompleted
  <2>2. x \in W!WatcherRec /\ x.rpc = "none" BY <1>1 DEF W!WatcherRec
  <2> HIDE DEF x
  <2>3. y.rpc # "off" BY <1>2, <2>2
  <2> HIDE DEF y
  <2> QED BY <2>1, <2>3
<1> QED BY <1>3, <1>4, <1>5, <1>6, <1>7, <1>8, <1>9, <1>10 DEF Quietly

\* The server's history grows by changes of nodes that members may register.
LEMMA LogGrows ==
  ASSUME W!WatcherTypeOK, LogInv, Server PROVE LogInv'
<1>1. PICK c \in Contexts :
        \/ \E ds \in (SUBSET Dirs(c)) \ {{}} : W!ServerPut(c, ds) \/ W!ServerDelete(c, ds)
        \/ W!ServerCompact(c)
  BY DEF Server
<1>2. setup' = setup BY DEF Server, flags
<1>3. CASE W!ServerCompact(c)
  <2>1. log' = log BY <1>3 DEF W!ServerCompact
  <2> QED BY <1>2, <2>1 DEF LogInv
<1>4. ASSUME NEW ds \in (SUBSET Dirs(c)) \ {{}} PROVE c \in {CtxOf[w] : w \in setup}
  <2>1. PICK d \in ds : TRUE OBVIOUS
  <2>2. d \in Dirs(c) BY <2>1
  <2> QED BY <2>2 DEF Dirs
<1>5. log \in [Contexts -> Seq(W!Change)] BY DEF W!WatcherTypeOK
<1>6. ASSUME NEW ds \in (SUBSET Dirs(c)) \ {{}}, NEW i \in Items[c], NEW val \in {None, i},
             log' = [log EXCEPT ![c] = Append(@, [dirs |-> ds, key |-> KeyOf(i), val |-> val])]
      PROVE  LogInv'
  <2> DEFINE x == [dirs |-> ds, key |-> KeyOf(i), val |-> val]
  <2> SUFFICES ASSUME NEW e \in Contexts, NEW n \in 1 .. Len(log'[e])
               PROVE  /\ e \in {CtxOf[w] : w \in setup}
                      /\ \E j \in Items[e] : log'[e][n].key = KeyOf(j) /\ log'[e][n].val \in {None, j}
    BY <1>2 DEF LogInv
  <2>1. x.key = KeyOf(i) /\ x.val = val OBVIOUS
  <2>2. log' = [log EXCEPT ![c] = Append(log[c], x)] BY <1>6
  <2> HIDE DEF x
  <2>3. CASE e # c
    <3>1. log'[e] = log[e] BY <1>5, <2>2, <2>3
    <3> QED BY <3>1 DEF LogInv
  <2>4. CASE e = c
    <3>1. log'[e] = Append(log[c], x) BY <1>5, <2>2, <2>4
    <3>2. PICK l : l = log[c] /\ Len(l) \in Nat BY <1>5
    <3>3. n \in 1 .. Len(l) + 1 BY <1>5, <3>1, <3>2
    <3>4. CASE n = Len(l) + 1
      <4>1. log'[e][n] = x BY <1>5, <3>1, <3>2, <3>4
      <4> QED BY <1>4, <2>1, <2>4, <4>1
    <3>5. CASE n \in 1 .. Len(l)
      <4>1. log'[e][n] = log[c][n] BY <1>5, <3>1, <3>2, <3>5
      <4> QED BY <2>4, <3>2, <3>5, <4>1 DEF LogInv
    <3> QED BY <3>2, <3>3, <3>4, <3>5
  <2> QED BY <2>3, <2>4
<1>7. ASSUME NEW ds \in (SUBSET Dirs(c)) \ {{}}, W!ServerPut(c, ds) PROVE LogInv'
  <2>1. PICK kv \in ItemWrites[c] :
          log' = [log EXCEPT ![c] = Append(@, [dirs |-> ds, key |-> kv[1], val |-> kv[2]])]
    BY <1>7 DEF W!ServerPut
  <2>2. PICK i \in Items[c] : kv = <<KeyOf(i), i>> BY DEF ItemWrites
  <2>3. log' = [log EXCEPT ![c] = Append(@, [dirs |-> ds, key |-> KeyOf(i), val |-> i])]
    BY <2>1, <2>2
  <2> QED BY <1>6, <2>3
<1>8. ASSUME NEW ds \in (SUBSET Dirs(c)) \ {{}}, W!ServerDelete(c, ds) PROVE LogInv'
  <2>1. PICK k \in UsedKeys :
          /\ \A d \in ds : W!ValueAt(c, d, k, W!Now(c)) # None
          /\ log' = [log EXCEPT ![c] = Append(@, [dirs |-> ds, key |-> k, val |-> None])]
    BY <1>8 DEF W!ServerDelete
  <2>2. PICK d \in ds : TRUE OBVIOUS
  <2> DEFINE l == log[c]
             n == W!LastChange(c, d, k, W!Now(c))
  <2>3. n # 0
    <3>1. W!ValueAt(c, d, k, W!Now(c)) = IF n = 0 THEN None ELSE l[n].val BY DEF W!ValueAt
    <3> QED BY <2>1, <2>2, <3>1
  <2>4. n = LastTouch(l, d, k, W!Now(c)) BY DEF W!LastChange, LastTouch, Touching
  <2>5. Len(l) \in Nat /\ W!Now(c) = Len(l) + 1 BY <1>5 DEF W!Now
  <2> HIDE DEF n, l
  <2>6. W!Now(c) \in Nat BY <2>5
  <2>7. n \in {0} \cup Touching(l, d, k, W!Now(c)) BY <2>4, <2>6, LastFacts
  <2>8. n \in 1 .. Len(l) /\ l[n].key = k BY <2>3, <2>5, <2>7 DEF Touching
  <2>9. PICK i \in Items[c] : l[n].key = KeyOf(i) BY <2>8 DEF LogInv, l
  <2>10. k = KeyOf(i) BY <2>8, <2>9
  <2> QED BY <1>6, <2>1, <2>10
<1> QED BY <1>1, <1>3, <1>7, <1>8

\* What a step does to the set: nothing, a lookup that fills a cache, or an
\* answer of a watcher.
LEMMA SetSteps ==
  ASSUME [Next]_vars
  PROVE  \/ UNCHANGED nodes
         \/ \E rule \in Rules : disc' = RebuildCache(disc, rule) /\ UNCHANGED <<topo, told>>
         \/ \E w \in Watchers : \E r \in 1 .. W!Now(CtxOf[w]) : RangeAnswered(w, r) \/ WatchWrite(w, r)
<1>1. CASE UNCHANGED vars BY <1>1 DEF vars
<1>2. ASSUME NEW w \in Watchers, Quietly(w) PROVE UNCHANGED nodes BY <1>2 DEF Quietly
<1>3. CASE Server BY <1>3 DEF Server
<1>4. CASE Toggle BY <1>4 DEF Toggle
<1>5. CASE Tick BY <1>5 DEF Tick
<1>6. CASE Stop BY <1>6 DEF Stop
<1>7. ASSUME NEW rule \in Rules, Lookup(rule)
      PROVE  disc' = RebuildCache(disc, rule) /\ UNCHANGED <<topo, told>>
  BY <1>7 DEF Lookup
<1> QED BY <1>1, <1>2, <1>3, <1>4, <1>5, <1>6, <1>7 DEF Next

\* The set stays in order.
LEMMA ViewStep ==
  ASSUME WellNamed, WatchInv, SetInv, [Next]_vars
  PROVE  View' \in Neats(Registrable(setup))
<1>0. PICK N : N = Registrable(setup) OBVIOUS
<1>1. Keyed(N) /\ View \in Neats(N) BY <1>0 DEF WellNamed, SetInv
<1>2. CASE UNCHANGED nodes BY <1>0, <1>1, <1>2 DEF nodes, View
<1>3. ASSUME NEW rule \in Rules, disc' = RebuildCache(disc, rule), UNCHANGED <<topo, told>>
      PROVE  View' \in Neats(N)
  <2> DEFINE d == RebuildCache(disc, rule)
  <2>1. View.disc = disc /\ View.topo = topo /\ View.told = told BY DEF View
  <2>2. Tidy(disc, N) /\ told = ToldOf(disc) /\ topo \in Nets BY <1>1, <2>1, NeatFields
  <2>3. Tidy(d, N) /\ d.node = disc.node /\ d.byId = disc.byId BY <1>1, <2>2, RebuildFacts
  <2>4. View' = [disc |-> d, topo |-> topo, told |-> told] BY <1>3 DEF View
  <2> HIDE DEF d
  <2>5. ToldOf(d) = told BY <2>2, <2>3 DEF ToldOf
  <2> QED BY <2>2, <2>3, <2>4, <2>5, NeatMade
<1>4. ASSUME NEW w \in Watchers, NEW r \in 1 .. W!Now(CtxOf[w]), RangeAnswered(w, r) \/ WatchWrite(w, r)
      PROVE  View' \in Neats(N)
  <2>1. View' \in Reached(N, disc, CtxOf[w]) BY <1>0, <1>4, AnswerReaches
  <2> QED BY <2>1 DEF Reached
<1> QED BY <1>0, <1>2, <1>3, <1>4, SetSteps

\* A snapshot index comes and goes with its watcher.
LEMMA FlagStep ==
  ASSUME WatchInv, FlagInv, [Next]_vars PROVE FlagInv'
<1>1. ASSUME NEW w \in Watchers,
             \/ Quietly(w)
             \/ \E r \in 1 .. W!Now(CtxOf[w]) : W!RangeAnswered(w, r) \/ W!WatchWrite(w, r),
             indexed' \subseteq indexed \cup {w}, UNCHANGED flags
      PROVE  FlagInv'
  <2>1. PICK y : watch' = [watch EXCEPT ![w] = y] /\ y.rpc # "off" BY <1>1, WatcherMoves
  <2>2. watch[w].rpc # "off" BY <1>1, WatcherMoves
  <2>3. watch \in [Watchers -> W!WatcherRec] BY DEF WatchInv, W!WatcherTypeOK
  <2>4. \A x \in Watchers : watch[x].rpc # "off" => watch'[x].rpc # "off"
    BY <2>1, <2>3
  <2>5. watch'[w].rpc # "off" BY <2>1, <2>3
  <2>6. enabled' = enabled /\ inited' = inited /\ stopped' = stopped BY <1>1 DEF flags
  <2>7. inited BY <2>2 DEF FlagInv
  <2> QED BY <1>1, <2>4, <2>5, <2>6, <2>7 DEF FlagInv
<1>2. ASSUME NEW w \in Watchers, Quietly(w) PROVE FlagInv'
  <2>1. indexed' = indexed /\ UNCHANGED flags BY <1>2 DEF Quietly
  <2> QED BY <1>1, <1>2, <2>1
<1>3. ASSUME NEW w \in Watchers, NEW r \in 1 .. W!Now(CtxOf[w]), RangeAnswered(w, r) \/ WatchWrite(w, r)
      PROVE  FlagInv'
  <2>1. /\ W!RangeAnswered(w, r) \/ W!WatchWrite(w, r)
        /\ indexed' \subseteq indexed \cup {w} /\ UNCHANGED flags
    BY <1>3 DEF RangeAnswered, WatchWrite
  <2> QED BY <1>1, <2>1
<1>4. CASE UNCHANGED <<watch, indexed, inited>> /\ enabled' \in BOOLEAN /\ stopped' \in BOOLEAN
  BY <1>4 DEF FlagInv
<1>5. CASE Server
  <2>1. watch' = watch BY <1>5 DEF Server, W!ServerPut, W!ServerDelete, W!ServerCompact
  <2>2. UNCHANGED <<indexed, enabled, inited, stopped>> BY <1>5 DEF Server, flags
  <2> QED BY <1>4, <2>1, <2>2 DEF FlagInv
<1>6. CASE Toggle
  <2>1. UNCHANGED <<watch, indexed, inited, stopped>> /\ enabled' = ~enabled BY <1>6 DEF Toggle
  <2> QED BY <1>4, <2>1 DEF FlagInv
<1>7. ASSUME Reset PROVE indexed' = {} /\ \A w \in Watchers : watch'[w].rpc = "off"
  <2>1. watch' = [w \in Watchers |-> W!Off] BY <1>7 DEF Reset, W!Closed
  <2>2. W!Off.rpc = "off" BY DEF W!Off
  <2> QED BY <1>7, <2>1, <2>2 DEF Reset
<1>8. CASE Tick
  <2>1. inited' = enabled /\ enabled' = enabled /\ stopped' = stopped /\ enabled # inited
    BY <1>8 DEF Tick
  <2>2. CASE enabled
    <3>1. indexed' = indexed BY <1>8, <2>2 DEF Tick
    <3>2. ~inited BY <2>1, <2>2 DEF FlagInv
    <3>3. indexed = {} BY <3>2 DEF FlagInv
    <3> QED BY <2>1, <2>2, <3>1, <3>3 DEF FlagInv
  <2>3. CASE ~enabled
    <3>1. Reset BY <1>8, <2>3 DEF Tick
    <3> QED BY <1>7, <2>1, <3>1 DEF FlagInv
  <2> QED BY <2>2, <2>3
<1>9. CASE Stop
  <2>1. Reset /\ stopped' = TRUE /\ inited' = FALSE /\ enabled' = enabled BY <1>9 DEF Stop
  <2> QED BY <1>7, <2>1 DEF FlagInv
<1>10. ASSUME NEW rule \in Rules, Lookup(rule) PROVE FlagInv'
  <2>1. UNCHANGED <<watch, indexed, enabled, inited, stopped>> BY <1>10 DEF Lookup, etcd, flags
  <2> QED BY <1>4, <2>1 DEF FlagInv
<1>11. CASE UNCHANGED vars
  <2>1. UNCHANGED <<watch, indexed, enabled, inited, stopped>> BY <1>11 DEF vars, etcd, flags
  <2> QED BY <1>4, <2>1 DEF FlagInv
<1> QED BY <1>2, <1>3, <1>5, <1>6, <1>8, <1>9, <1>10, <1>11 DEF Next

\* The history of the servers and the configuration.
LEMMA LogStep ==
  ASSUME WatchInv, LogInv, [Next]_vars PROVE LogInv' /\ setup' = setup
<1>1. CASE log' = log /\ setup' = setup BY <1>1 DEF LogInv
<1>2. ASSUME NEW w \in Watchers, Quietly(w) PROVE log' = log /\ setup' = setup
  <2>1. setup' = setup BY <1>2 DEF Quietly, flags
  <2> QED BY <1>2, <2>1, WatcherMoves
<1>3. ASSUME NEW w \in Watchers, NEW r \in 1 .. W!Now(CtxOf[w]), RangeAnswered(w, r) \/ WatchWrite(w, r)
      PROVE  log' = log /\ setup' = setup
  <2>1. setup' = setup /\ (W!RangeAnswered(w, r) \/ W!WatchWrite(w, r))
    BY <1>3 DEF RangeAnswered, WatchWrite, flags
  <2> QED BY <2>1, WatcherMoves
<1>4. CASE Server
  <2>1. setup' = setup BY <1>4 DEF Server, flags
  <2> QED BY <1>4, <2>1, LogGrows DEF WatchInv
<1>5. CASE Toggle \/ Tick \/ Stop BY <1>1, <1>5 DEF Toggle, Tick, Stop
<1>6. ASSUME NEW rule \in Rules, Lookup(rule) PROVE log' = log /\ setup' = setup
  BY <1>6 DEF Lookup, etcd, flags
<1>7. CASE UNCHANGED vars BY <1>1, <1>7 DEF vars, etcd, flags
<1> QED BY <1>1, <1>2, <1>3, <1>4, <1>5, <1>6, <1>7 DEF Next

\* The invariant is inductive, given that of the watchers.
LEMMA SetStep ==
  ASSUME WellNamed, WatchInv, SetInv, [Next]_vars PROVE SetInv'
<1>1. LogInv /\ FlagInv /\ setup \in Setups BY DEF SetInv
<1>2. LogInv' /\ setup' = setup BY <1>1, LogStep
<1>3. FlagInv' BY <1>1, FlagStep
<1>4. View' \in Neats(Registrable(setup)) BY ViewStep
<1> QED BY <1>1, <1>2, <1>3, <1>4 DEF SetInv

\* The set is in order as long as the nodes are well named.
THEOREM SetInOrder ==
  ASSUME ~NotifiedAhead, WellNamed
  PROVE  Spec => []SetInv
<1>1. Init => SetInv BY InitSet
<1>2. WatchInv /\ SetInv /\ [Next]_vars => SetInv' BY SetStep
<1>3. Spec => []WatchInv BY WatchersKeepUp
<1> QED BY <1>1, <1>2, <1>3, PTL DEF Spec

\* What the invariant says of the set.
LEMMA OrderFacts ==
  ASSUME WellNamed, SetInv
  PROVE  /\ Keyed(Registrable(setup)) /\ Tidy(disc, Registrable(setup))
         /\ told = ToldOf(disc) /\ topo \in Nets /\ told \in [Ids -> Infos \cup {None}]
         /\ Indexed(disc) = Held(disc)
<1>1. View \in Neats(Registrable(setup)) /\ Keyed(Registrable(setup)) BY DEF SetInv, WellNamed
<1>2. View.disc = disc /\ View.topo = topo /\ View.told = told BY DEF View
<1>3. /\ Tidy(disc, Registrable(setup)) /\ told = ToldOf(disc) /\ topo \in Nets
      /\ told \in [Ids -> Infos \cup {None}]
  BY <1>1, <1>2, NeatFields
<1> QED BY <1>1, <1>3, TidyIndexed

\* A set in order is well formed and its two indexes agree.
LEMMA OrderConsistent ==
  ASSUME WellNamed, WatchInv, SetInv PROVE SetConsistent
<1> DEFINE N == Registrable(setup)
<1>1. /\ Keyed(N) /\ Tidy(disc, N) /\ topo \in Nets /\ told \in [Ids -> Infos \cup {None}]
      /\ Indexed(disc) = Held(disc)
  BY OrderFacts
<1> HIDE DEF N
<1>2. disc \in Sets BY <1>1 DEF Tidy
<1>3. TypeOK BY <1>1, <1>2 DEF TypeOK, WatchInv, SetInv, FlagInv, Nets
<1>4. ASSUME NEW i \in Ids, disc.byId[i] # None PROVE disc.node[disc.byId[i]].info.id = i
  <2>1. disc.byId[i] \in Objects BY <1>2, <1>4, SetFields
  <2> QED BY <1>1, <2>1 DEF Tidy
<1>5. ASSUME NEW n \in Names, disc.byName[n] # None PROVE disc.node[disc.byName[n]].info.name = n
  <2>1. disc.byName[n] \in Objects BY <1>2, <1>5, SetFields
  <2> QED BY <1>1, <2>1 DEF Tidy
<1>6. ASSUME NEW o \in Indexed(disc)
      PROVE  /\ disc.node[o].info.id # None => disc.byId[disc.node[o].info.id] = o
             /\ disc.node[o].info.name # None => disc.byName[disc.node[o].info.name] = o
  <2>1. o \in Objects /\ disc.node[o] # None /\ disc.node[o] \in N BY <1>1, <1>6 DEF Held, Tidy
  <2>2. disc.node[o].info.id \in Ids \cup {None} /\ disc.node[o].info.name \in Names \cup {None}
    BY <1>1, <2>1, NodeFields
  <2> QED BY <1>1, <2>1, <2>2 DEF Tidy
<1>7. IndexesAgree BY <1>4, <1>5, <1>6 DEF IndexesAgree
<1> QED BY <1>3, <1>7 DEF SetConsistent

\* In a view in order the caches are fresh and the application's picture is true.
LEMMA OrderFollowed ==
  ASSUME WellNamed, SetInv PROVE UsersFollow
<1>1. /\ Tidy(disc, Registrable(setup)) /\ told = ToldOf(disc) /\ Indexed(disc) = Held(disc)
  BY OrderFacts
<1>2. CachesFresh BY <1>1 DEF Tidy, CachesFresh
<1>3. ToldTrue BY <1>1 DEF ToldTrue, ToldOf
<1> QED BY <1>2, <1>3 DEF UsersFollow

\* A step of one context leaves what is known of the others.
KnownIn(s, c) == {s.node[o].info : o \in {p \in Held(s) : s.node[p].ctx = c}}

\* Two sets that a step of another context leads to have the same nodes of this one.
LEMMA KnownKept ==
  ASSUME NEW s, NEW t, NEW d, NEW c, Keeps(s, t, d), c # d
  PROVE  KnownIn(t, c) = KnownIn(s, c)
<1>1. \A o \in Objects : s.node[o] # None /\ s.node[o].ctx = c => t.node[o] = s.node[o]
  BY DEF Keeps, Own
<1>2. \A o \in Objects : t.node[o] # None /\ t.node[o].ctx = c => t.node[o] = s.node[o]
  BY DEF Keeps, Own
<1> QED BY <1>1, <1>2 DEF KnownIn, Held

\* An answer is a step of its watcher.
LEMMA AnswerMoves ==
  ASSUME WatchInv, NEW w \in Watchers, NEW r \in 1 .. W!Now(CtxOf[w]),
         RangeAnswered(w, r) \/ WatchWrite(w, r)
  PROVE  watch'[w] # watch[w]
<1>1. watch \in [Watchers -> W!WatcherRec] /\ watch[w] \in W!WatcherRec
  BY DEF WatchInv, W!WatcherTypeOK
<1>2. W!Now(CtxOf[w]) \in Nat BY NowType DEF WatchInv
<1>3. r \in Nat /\ r # 0 BY <1>2
<1>4. CASE RangeAnswered(w, r)
  <2> DEFINE x == [watch[w] EXCEPT !.rev = r]
  <2>1. watch[w].rpc = "range" /\ watch' = [watch EXCEPT ![w] = W!Process(x, r)]
    BY <1>4 DEF RangeAnswered, W!RangeAnswered
  <2>2. x \in W!WatcherRec /\ x.rev # 0 BY <1>1, <1>3 DEF W!WatcherRec
  <2> HIDE DEF x
  <2>3. W!Process(x, r).rpc \in {"probe", "watch"} BY <2>2 DEF W!Process, W!WatcherRec
  <2>4. watch'[w] = W!Process(x, r) BY <1>1, <2>1
  <2> QED BY <2>1, <2>3, <2>4
<1>5. CASE WatchWrite(w, r)
  <2>1. r \in watch[w].at + 1 .. W!Now(CtxOf[w]) /\ watch' = [watch EXCEPT ![w].rev = r, ![w].at = r]
    BY <1>5 DEF WatchWrite, W!WatchWrite
  <2>2. watch'[w].at = r BY <1>1, <2>1 DEF W!WatcherRec
  <2>3. watch[w].at \in Nat BY <1>1 DEF W!WatcherRec
  <2>4. r # watch[w].at BY <1>3, <2>1, <2>3
  <2> QED BY <2>2, <2>4
<1> QED BY <1>4, <1>5

\* A step in which no watcher of a context moves leaves what is known of it.
LEMMA KnownStep ==
  ASSUME WellNamed, WellApart, WatchInv, SetInv, SetInv', [Next]_vars,
         NEW c \in Contexts, \A w \in Watchers : CtxOf[w] = c => watch'[w] = watch[w]
  PROVE  Known(c)' = Known(c)
<1>0. PICK N : N = Registrable(setup) OBVIOUS
<1>1. Known(c) = KnownIn(disc, c)
  <2>1. Indexed(disc) = Held(disc) BY OrderFacts
  <2> QED BY <2>1 DEF Known, KnownIn
<1>2. Known(c)' = KnownIn(disc', c)
  <2>1. View' \in Neats(Registrable(setup')) /\ Keyed(Registrable(setup')) BY DEF SetInv, WellNamed
  <2>2. View'.disc = disc' BY DEF View
  <2>3. Tidy(disc', Registrable(setup')) BY <2>1, <2>2, NeatFields
  <2>4. Indexed(disc') = Held(disc') BY <2>1, <2>3, TidyIndexed
  <2>5. Known(c)' = {disc'.node[o].info : o \in {p \in Indexed(disc') : disc'.node[p].ctx = c}}
    BY DEF Known
  <2> QED BY <2>4, <2>5 DEF KnownIn
<1>3. CASE UNCHANGED nodes BY <1>1, <1>2, <1>3 DEF nodes
<1>4. ASSUME NEW rule \in Rules, disc' = RebuildCache(disc, rule) PROVE KnownIn(disc', c) = KnownIn(disc, c)
  <2>1. Keyed(N) /\ Tidy(disc, N) BY <1>0, OrderFacts
  <2>2. disc'.node = disc.node /\ Held(disc') = Held(disc) BY <1>4, <2>1, RebuildFacts
  <2> QED BY <2>2 DEF KnownIn
<1>5. ASSUME NEW w \in Watchers, NEW r \in 1 .. W!Now(CtxOf[w]), RangeAnswered(w, r) \/ WatchWrite(w, r)
      PROVE  KnownIn(disc', c) = KnownIn(disc, c)
  <2>1. CtxOf[w] # c BY <1>5, AnswerMoves
  <2>2. View' \in Reached(N, disc, CtxOf[w]) BY <1>0, <1>5, AnswerReaches
  <2>3. Apart(N) BY <1>0 DEF WellApart, SetInv
  <2>4. View'.disc = disc' BY DEF View
  <2>5. Keeps(disc, disc', CtxOf[w]) BY <2>2, <2>3, <2>4 DEF Reached
  <2> QED BY <2>1, <2>5, KnownKept
<1> QED BY <1>1, <1>2, <1>3, <1>4, <1>5, SetSteps

\* The two indexes of the set agree in every state, and every part of the
\* state is well formed: however the snapshots and changes of the watchers of
\* all contexts interleave, update_internal_watcher_event(), add_node() and
\* remove_node() leave no object under a key it does not have.
THEOREM SetsAreConsistent ==
  ASSUME ~NotifiedAhead, WellNamed
  PROVE  Spec => []SetConsistent
<1>1. WatchInv /\ SetInv => SetConsistent BY OrderConsistent
<1>2. Spec => []WatchInv BY WatchersKeepUp
<1>3. Spec => []SetInv BY SetInOrder
<1> QED BY <1>1, <1>2, <1>3, PTL

\* Lookups with a rule and the application's events give the set as it is:
\* clear_cache() leaves no stale cache, and no node comes, changes or goes
\* without a node event.
THEOREM FollowersSeeTheSet ==
  ASSUME ~NotifiedAhead, WellNamed
  PROVE  Spec => []UsersFollow
<1>1. SetInv => UsersFollow BY OrderFollowed
<1>2. Spec => []SetInv BY SetInOrder
<1> QED BY <1>1, <1>2, PTL

\* The nodes of a context change in steps of its own watchers only: neither an
\* event nor the reconciliation of a snapshot (cleanup_old_nodes()) takes a
\* node from another context.
THEOREM ContextsKeepTheirNodes ==
  ASSUME ~NotifiedAhead, WellNamed, WellApart
  PROVE  Spec => OthersKept
<1> DEFINE Stays == \A c \in Contexts :
             (\A w \in Watchers : CtxOf[w] = c => watch'[w] = watch[w]) => Known(c)' = Known(c)
<1>1. WatchInv /\ SetInv /\ SetInv' /\ [Next]_vars => [Stays]_vars BY KnownStep
<1>2. Spec => []WatchInv BY WatchersKeepUp
<1>3. Spec => []SetInv BY SetInOrder
<1> QED BY <1>1, <1>2, <1>3, PTL DEF Spec, OthersKept

-----------------------------------------------------------------------------
(* What one event makes of the nodes that are known of a context.        *)

\* The nodes of a context in the set, or its topologies
Shown(t, c) == {t[d].info : d \in {e \in Ids : t[e] # None /\ t[e].ctx = c}}
Picture(v, c, top) == IF top THEN Shown(v.topo, c) ELSE KnownIn(v.disc, c)

\* What no event of another context stands in the way of
Lone(N, c) == {i \in OwnInfos(N, c) : \A y \in N : y.ctx # c => ~Shares(y.info, i)}
Goal(N, c, top) == {i \in Lone(N, c) : top => i.id # None}

\* One event turns the nodes K of its context into J.
Dropped(K, k) == {i \in K : KeyOf(i) # k}
Turns(K, e, J, G) ==
    /\ Dropped(K, e.key) \subseteq J
    /\ J \subseteq Dropped(K, e.key) \cup ({e.val} \ {None})
    /\ e.val # None /\ e.val \in G => e.val \in J

\* An object of a set holds a node.
LEMMA HeldFacts ==
  ASSUME NEW N, Keyed(N), NEW s, Tidy(s, N), NEW o \in Held(s)
  PROVE  /\ o \in Objects /\ s.node[o] \in N /\ s.node[o] # None
         /\ s.node[o].info.id \in Ids \cup {None} /\ s.node[o].info.name \in Names \cup {None}
         /\ s.node[o].info.id # None \/ s.node[o].info.name # None
BY NodeFields DEF Tidy, Held

\* A put that takes effect, or not because of another context.
LEMMA TookStep ==
  ASSUME NEW N, Keyed(N), NEW s, Tidy(s, N), NEW t, NEW x \in N, Took(s, t, x),
         NEW e, e.key = KeyOf(x.info), e.val = x.info
  PROVE  Turns(KnownIn(s, x.ctx), e, KnownIn(t, x.ctx), Lone(N, x.ctx))
<1> DEFINE c == x.ctx
           K == KnownIn(s, c)
           J == KnownIn(t, c)
           k == KeyOf(x.info)
<1>0. /\ x # None /\ (x.info.id # None \/ x.info.name # None)
      /\ s.node \in [Objects -> Nodes \cup {None}]
      /\ x.info \in Infos /\ x.info # None
  BY NodeFields, SetFields, SetConstants DEF Tidy
<1>1. CASE \E o \in Objects : Fits(s, o, x) /\ t.node = [s.node EXCEPT ![o] = x]
  <2>1. PICK o \in Objects : Fits(s, o, x) /\ t.node = [s.node EXCEPT ![o] = x] BY <1>1
  <2>2. \A p \in Held(s) : p # o => KeyOf(s.node[p].info) # k
    <3> SUFFICES ASSUME NEW p \in Held(s), p # o PROVE KeyOf(s.node[p].info) # k OBVIOUS
    <3>1. /\ x.info.id = None \/ s.node[p].info.id # x.info.id
          /\ x.info.name = None \/ s.node[p].info.name # x.info.name
      BY <2>1 DEF Fits
    <3> QED BY <1>0, <3>1, KeyFields
  <2>3. o \in Held(s) => KeyOf(s.node[o].info) = k BY <2>1 DEF Fits
  <2>4. o \in Held(t) /\ t.node[o] = x BY <1>0, <2>1 DEF Held
  <2>5. \A p \in Objects : p # o => t.node[p] = s.node[p] BY <1>0, <2>1
  <2>6. x.info \in J BY <2>4 DEF KnownIn
  <2>7. Dropped(K, k) \subseteq J
    <3> SUFFICES ASSUME NEW i \in K, KeyOf(i) # k PROVE i \in J BY DEF Dropped
    <3>1. PICK p \in Held(s) : s.node[p].ctx = c /\ i = s.node[p].info BY DEF KnownIn
    <3>2. p # o BY <2>3, <3>1
    <3>3. p \in Held(t) /\ t.node[p] = s.node[p] BY <2>5, <3>1, <3>2 DEF Held
    <3> QED BY <3>1, <3>3 DEF KnownIn
  <2>8. J \subseteq Dropped(K, k) \cup {x.info}
    <3> SUFFICES ASSUME NEW i \in J, i # x.info PROVE i \in Dropped(K, k) OBVIOUS
    <3>1. PICK p \in Held(t) : t.node[p].ctx = c /\ i = t.node[p].info BY DEF KnownIn
    <3>2. p # o BY <2>4, <3>1
    <3>3. p \in Held(s) /\ t.node[p] = s.node[p] BY <2>5, <3>1, <3>2 DEF Held
    <3>4. KeyOf(i) # k BY <2>2, <3>1, <3>2, <3>3
    <3> QED BY <3>1, <3>3, <3>4 DEF KnownIn, Dropped
  <2> HIDE DEF K, J, k
  <2> QED BY <1>0, <2>6, <2>7, <2>8 DEF Turns, K, J, k, c
<1>2. CASE /\ t.node = s.node
           /\ \E o \in Held(s) :
                 s.node[o] = x \/ (s.node[o].ctx # x.ctx /\ Shares(s.node[o].info, x.info))
  <2>1. J = K BY <1>2 DEF KnownIn, Held
  <2>2. Dropped(K, k) \subseteq J BY <2>1 DEF Dropped
  <2>3. PICK o \in Held(s) :
          s.node[o] = x \/ (s.node[o].ctx # x.ctx /\ Shares(s.node[o].info, x.info))
    BY <1>2
  <2>4. CASE s.node[o] = x
    <3>1. x.info \in J BY <2>1, <2>4 DEF KnownIn
    <3>2. J \subseteq Dropped(K, k) \cup {x.info}
      <4> SUFFICES ASSUME NEW i \in K, i # x.info PROVE i \in Dropped(K, k) BY <2>1
      <4>1. PICK p \in Held(s) : s.node[p].ctx = c /\ i = s.node[p].info BY DEF KnownIn
      <4>2. KeyOf(i) # k
        <5> SUFFICES ASSUME KeyOf(i) = k PROVE FALSE OBVIOUS
        <5>1. p = o BY <4>1, <2>4, HeldDiffer
        <5> QED BY <2>4, <4>1, <5>1
      <4> QED BY <4>2 DEF Dropped
    <3> HIDE DEF K, J, k
    <3> QED BY <1>0, <2>2, <3>1, <3>2 DEF Turns, K, J, k, c
  <2>5. CASE s.node[o].ctx # x.ctx /\ Shares(s.node[o].info, x.info)
    <3>1. x.info \notin Lone(N, c)
      <4>1. s.node[o] \in N BY HeldFacts
      <4> QED BY <2>5, <4>1 DEF Lone
    <3>2. J \subseteq Dropped(K, k)
      <4> SUFFICES ASSUME NEW i \in K, KeyOf(i) = k PROVE FALSE BY <2>1 DEF Dropped
      <4>1. PICK p \in Held(s) : s.node[p].ctx = c /\ i = s.node[p].info BY DEF KnownIn
      <4>2. i.id = x.info.id /\ i.name = x.info.name BY KeyFields
      <4>3. p # o BY <2>5, <4>1
      <4>4. o \in Objects /\ p \in Objects BY HeldFacts
      <4>5. CASE x.info.id # None /\ s.node[o].info.id = x.info.id
        <5>1. x.info.id \in Ids BY <4>5, NodeFields
        <5>2. s.byId[x.info.id] = o /\ s.byId[x.info.id] = p
          BY <4>1, <4>2, <4>4, <4>5, <5>1 DEF Tidy, Held
        <5> QED BY <4>3, <5>2
      <4>6. CASE x.info.name # None /\ s.node[o].info.name = x.info.name
        <5>1. x.info.name \in Names BY <4>6, NodeFields
        <5>2. s.byName[x.info.name] = o /\ s.byName[x.info.name] = p
          BY <4>1, <4>2, <4>4, <4>6, <5>1 DEF Tidy, Held
        <5> QED BY <4>3, <5>2
      <4> QED BY <2>5, <4>5, <4>6 DEF Shares
    <3> HIDE DEF K, J, k
    <3> QED BY <1>0, <2>2, <3>1, <3>2 DEF Turns, K, J, k, c
  <2> QED BY <2>3, <2>4, <2>5
<1> QED BY <1>1, <1>2 DEF Took

\* What shares the id or the name with a node of its context has its key.
LEMMA StableKey ==
  ASSUME NEW N, NEW x \in N, NEW y \in N, x.ctx = y.ctx, Stable(N, x.ctx),
         Shares(x.info, y.info) \/ Shares(x.info, KeyOf(y.info))
  PROVE  KeyOf(x.info) = KeyOf(y.info)
<1>1. x.info \in OwnInfos(N, x.ctx) /\ y.info \in OwnInfos(N, x.ctx) BY DEF OwnInfos
<1>2. KeyOf(y.info).id = y.info.id /\ KeyOf(y.info).name = y.info.name BY DEF KeyOf
<1>3. x.info.id = y.info.id \/ x.info.name = y.info.name BY <1>2 DEF Shares
<1> QED BY <1>1, <1>3 DEF Stable

\* A delete takes the node with the key away.
LEMMA LostStep ==
  ASSUME NEW N, Keyed(N), NEW s, Tidy(s, N), NEW t, NEW x \in N, Stable(N, x.ctx),
         Lost(s, t, x.ctx, KeyOf(x.info))
  PROVE  KnownIn(t, x.ctx) = Dropped(KnownIn(s, x.ctx), KeyOf(x.info))
<1> DEFINE c == x.ctx
           k == KeyOf(x.info)
           K == KnownIn(s, c)
<1>0. s.node \in [Objects -> Nodes \cup {None}] BY SetFields DEF Tidy
<1>1. CASE \E p \in Held(s) :
           /\ s.node[p].ctx = c /\ Shares(s.node[p].info, k)
           /\ t.node = [s.node EXCEPT ![p] = None]
  <2>1. PICK p \in Held(s) :
           /\ s.node[p].ctx = c /\ Shares(s.node[p].info, k)
           /\ t.node = [s.node EXCEPT ![p] = None]
    BY <1>1
  <2>2. s.node[p] \in N /\ p \in Objects BY HeldFacts
  <2>3. KeyOf(s.node[p].info) = k
    <3>1. PICK y \in N : y = s.node[p] BY <2>2
    <3>2. y.ctx = x.ctx /\ Shares(y.info, KeyOf(x.info)) /\ Stable(N, y.ctx) BY <2>1, <3>1
    <3>3. KeyOf(y.info) = KeyOf(x.info) BY <3>2, StableKey
    <3> QED BY <3>1, <3>3
  <2>4. \A q \in Objects : t.node[q] = IF q = p THEN None ELSE s.node[q] BY <1>0, <2>1
  <2>5. KnownIn(t, c) \subseteq Dropped(K, k)
    <3> SUFFICES ASSUME NEW i \in KnownIn(t, c) PROVE i \in Dropped(K, k) OBVIOUS
    <3>1. PICK q \in Held(t) : t.node[q].ctx = c /\ i = t.node[q].info BY DEF KnownIn
    <3>2. q # p /\ q \in Held(s) /\ t.node[q] = s.node[q] BY <2>4, <3>1 DEF Held
    <3>3. KeyOf(i) # k
      <4> SUFFICES ASSUME KeyOf(i) = k PROVE FALSE OBVIOUS
      <4>1. q = p BY <2>3, <3>1, <3>2, HeldDiffer
      <4> QED BY <3>2, <4>1
    <3>4. i \in K BY <3>1, <3>2 DEF KnownIn
    <3> QED BY <3>3, <3>4 DEF Dropped
  <2>6. Dropped(K, k) \subseteq KnownIn(t, c)
    <3> SUFFICES ASSUME NEW i \in K, KeyOf(i) # k PROVE i \in KnownIn(t, c) BY DEF Dropped
    <3>1. PICK q \in Held(s) : s.node[q].ctx = c /\ i = s.node[q].info BY DEF KnownIn
    <3>2. q # p BY <2>3, <3>1
    <3>3. q \in Held(t) /\ t.node[q] = s.node[q] BY <2>4, <3>1, <3>2 DEF Held
    <3> QED BY <3>1, <3>3 DEF KnownIn
  <2> QED BY <2>5, <2>6
<1>2. CASE /\ t.node = s.node
           /\ \A p \in Held(s) : s.node[p].ctx = c => KeyOf(s.node[p].info) # k
  <2>1. KnownIn(t, c) = K BY <1>2 DEF KnownIn, Held
  <2>2. \A i \in K : KeyOf(i) # k BY <1>2 DEF KnownIn
  <2> HIDE DEF K, k
  <2>3. Dropped(K, k) = K BY <2>2 DEF Dropped
  <2> QED BY <2>1, <2>3 DEF K, k, c
<1> QED BY <1>1, <1>2 DEF Lost

-----------------------------------------------------------------------------
(* What one event makes of the topologies.                               *)

\* A topology is stored under its id, and is one of the nodes N.
Placed(t, N) ==
    \A d \in Ids : t[d] # None =>
        t[d].info.id = d /\ \E x \in N : x.ctx = t[d].ctx /\ x.info = t[d].info

\* What a topology event of a context makes of the map
Entry(c, e) == [info |-> e.val, ctx |-> c, ver |-> e.ver]
Entered(t, c, e) ==
    LET had == t[e.key.id]
    IN IF ~Own(had, c) THEN t
       ELSE [t EXCEPT ![e.key.id] =
                 IF e.val = None THEN None
                 ELSE IF had = None \/ e.ver > had.ver THEN Entry(c, e) ELSE had]

\* The entries of other contexts stay as they are.
Aside(s, t, c) == \A d \in Ids : t[d] = s[d] \/ (Own(s[d], c) /\ Own(t[d], c))

\* A topology that is known under the key of the event is not newer.
Newer(t, c, e) ==
    LET had == t[e.key.id]
    IN had # None /\ had.ctx = c /\ KeyOf(had.info) = e.key =>
         had.ver <= e.ver /\ (had.ver = e.ver => had.info = e.val)

\* A topology event enters its topology.
LEMMA TopologyEntered ==
  ASSUME NEW N, Keyed(N), NEW v \in Neats(N), NEW c, NEW e, Heard(N, c, e), e.key.id # None
  PROVE  TopologyEvent(v, c, e).topo = Entered(v.topo, c, e)
<1>1. PICK x \in N : x.ctx = c /\ e.key = KeyOf(x.info) /\ e.val \in {None, x.info}
  BY DEF Heard
<1>2. x.info.id = e.key.id BY <1>1 DEF KeyOf
<1>3. Unpack(e).id = e.key.id
  <2>1. CASE e.val = None BY <2>1 DEF Unpack
  <2>2. CASE e.val # None BY <1>1, <1>2, <2>2 DEF Unpack
  <2> QED BY <2>1, <2>2
<1>4. e.val # None => Unpack(e) = e.val BY DEF Unpack
<1>5. v = [disc |-> v.disc, topo |-> v.topo, told |-> v.told] BY NeatFields
<1> DEFINE d == e.key.id
           had == v.topo[d]
           y == IF e.val = None THEN None
                ELSE IF had = None \/ e.ver > had.ver THEN Entry(c, e) ELSE had
           r == TopologyEvent(v, c, e)
<1>6. r = IF had # None /\ had.ctx # c THEN v ELSE [v EXCEPT !.topo[d] = y]
  <2>1. r = IF v.topo[Unpack(e).id] # None /\ v.topo[Unpack(e).id].ctx # c THEN v
            ELSE [v EXCEPT !.topo[Unpack(e).id] =
                    IF e.val = None THEN None
                    ELSE IF v.topo[Unpack(e).id] = None \/ e.ver > v.topo[Unpack(e).id].ver
                    THEN [info |-> Unpack(e), ctx |-> c, ver |-> e.ver]
                    ELSE v.topo[Unpack(e).id]]
    BY DEF TopologyEvent
  <2>2. r = IF had # None /\ had.ctx # c THEN v
            ELSE [v EXCEPT !.topo[d] =
                    IF e.val = None THEN None
                    ELSE IF had = None \/ e.ver > had.ver
                    THEN [info |-> Unpack(e), ctx |-> c, ver |-> e.ver]
                    ELSE had]
    BY <1>3, <2>1
  <2> HIDE DEF r, d, had
  <2>3. CASE e.val = None BY <2>2, <2>3
  <2>4. CASE e.val # None BY <1>4, <2>2, <2>4 DEF Entry
  <2> QED BY <2>3, <2>4
<1> HIDE DEF r, y
<1>7. r.topo = IF had # None /\ had.ctx # c THEN v.topo ELSE [v.topo EXCEPT ![d] = y]
  BY <1>5, <1>6
<1> QED BY <1>7 DEF Entered, Own, r, y

\* The fields of an event
LEMMA HeardFields ==
  ASSUME NEW N, Keyed(N), NEW c, NEW e, Heard(N, c, e)
  PROVE  /\ \E x \in N : /\ x.ctx = c /\ x.info.id = e.key.id /\ x.info.name = e.key.name
                         /\ e.val \in {None, x.info} /\ e.key = KeyOf(x.info)
         /\ e.val # None => e.val \in OwnInfos(N, c) /\ KeyOf(e.val) = e.key /\ e.val \in Infos
         /\ e.val = None => e.val \notin OwnInfos(N, c)
         /\ e.key.id \in Ids \cup {None} /\ e.ver \in Nat
<1>1. PICK x \in N : x.ctx = c /\ e.key = KeyOf(x.info) /\ e.val \in {None, x.info}
  BY DEF Heard
<1>2. x.info.id = e.key.id /\ x.info.name = e.key.name BY <1>1 DEF KeyOf
<1>3. x.info \in Infos /\ x.info.id \in Ids \cup {None} BY NodeFields
<1>4. e.val # None => e.val \in OwnInfos(N, c) /\ KeyOf(e.val) = e.key /\ e.val \in Infos
  BY <1>1, <1>3 DEF OwnInfos
<1>5. None \notin OwnInfos(N, c)
  <2> SUFFICES ASSUME NEW y \in N, None = y.info PROVE FALSE BY DEF OwnInfos
  <2>1. y.info \in Infos BY NodeFields
  <2> QED BY <2>1, SetConstants
<1> QED BY <1>1, <1>2, <1>3, <1>4, <1>5 DEF Heard

\* The entry that an event makes, and where it makes it
LEMMA EnteredFacts ==
  ASSUME NEW N, Keyed(N), NEW t \in Nets, Placed(t, N), NEW c, NEW e, Heard(N, c, e), e.key.id # None
  PROVE  /\ Placed(Entered(t, c, e), N)
         /\ Aside(t, Entered(t, c, e), c)
         /\ \A d \in Ids : \/ Entered(t, c, e)[d] \in {t[d], None}
                           \/ e.val # None /\ Entered(t, c, e)[d] = Entry(c, e)
<1> DEFINE d == e.key.id
           had == t[d]
           y == IF e.val = None THEN None
                ELSE IF had = None \/ e.ver > had.ver THEN Entry(c, e) ELSE had
           r == Entered(t, c, e)
<1>1. PICK x \in N : x.ctx = c /\ x.info.id = d /\ e.val \in {None, x.info} BY HeardFields
<1>2. d \in Ids BY HeardFields
<1>3. r = IF ~Own(had, c) THEN t ELSE [t EXCEPT ![d] = y] BY DEF Entered
<1>4. t \in [Ids -> Topologies \cup {None}] BY DEF Nets
<1>5. y \in {had, None} \/ (e.val # None /\ y = Entry(c, e)) OBVIOUS
<1>6. /\ Entry(c, e).ctx = c /\ Entry(c, e).info = e.val BY DEF Entry
<1> HIDE DEF y, r, d
<1>7. CASE ~Own(had, c)
  <2>1. r = t BY <1>3, <1>7
  <2> QED BY <2>1 DEF Aside, r
<1>8. CASE Own(had, c)
  <2>1. \A i \in Ids : r[i] = IF i = d THEN y ELSE t[i] BY <1>2, <1>3, <1>4, <1>8
  <2>2. Own(y, c) BY <1>5, <1>6, <1>8 DEF Own
  <2>3. Aside(t, r, c) BY <1>8, <2>1, <2>2 DEF Aside
  <2>4. \A i \in Ids : r[i] \in {t[i], None} \/ (e.val # None /\ r[i] = Entry(c, e))
    BY <1>5, <2>1
  <2>5. Placed(r, N)
    <3> SUFFICES ASSUME NEW i \in Ids, r[i] # None
                 PROVE  r[i].info.id = i /\ \E z \in N : z.ctx = r[i].ctx /\ z.info = r[i].info
      BY DEF Placed
    <3>1. CASE r[i] = t[i] BY <3>1 DEF Placed
    <3>2. CASE r[i] # t[i]
      <4>1. i = d /\ e.val # None /\ r[i] = Entry(c, e) BY <1>5, <2>1, <3>2
      <4>2. r[i].info = x.info /\ r[i].ctx = x.ctx BY <1>1, <1>6, <4>1
      <4> QED BY <1>1, <4>1, <4>2
    <3> QED BY <3>1, <3>2
  <2> QED BY <2>3, <2>4, <2>5 DEF r
<1> QED BY <1>7, <1>8

\* A put topology is known after its event, as it was put.
LEMMA EnteredValue ==
  ASSUME NEW N, Keyed(N), NEW t \in Nets, Placed(t, N), NEW c, NEW e, Heard(N, c, e), e.key.id # None,
         Stable(N, c), Newer(t, c, e), Own(t[e.key.id], c), e.val # None
  PROVE  LET r == Entered(t, c, e)
         IN r[e.key.id] # None /\ r[e.key.id].ctx = c /\ r[e.key.id].info = e.val
<1> DEFINE d == e.key.id
           had == t[d]
           r == Entered(t, c, e)
<1>1. PICK x \in N : x.ctx = c /\ x.info.id = d /\ e.key = KeyOf(x.info) /\ e.val \in {None, x.info}
  BY HeardFields
<1>2. d \in Ids /\ e.ver \in Nat BY HeardFields
<1>3. t \in [Ids -> Topologies \cup {None}] BY DEF Nets
<1>4. r = [t EXCEPT ![d] = IF had = None \/ e.ver > had.ver THEN Entry(c, e) ELSE had]
  BY DEF Entered
<1>5. Entry(c, e).ctx = c /\ Entry(c, e).info = e.val /\ Entry(c, e) # None
  <2>1. e.val \in Infos BY HeardFields
  <2>2. x \in Nodes /\ c \in Contexts BY <1>1, NodeFields
  <2> HIDE DEF d
  <2>3. Entry(c, e).info = e.val /\ Entry(c, e).ctx = c BY DEF Entry
  <2>4. Entry(c, e) \in Topologies BY <1>2, <2>1, <2>2 DEF Entry, Topologies
  <2>5. Entry(c, e) # None BY <2>4, DiscoveryConstants
  <2> QED BY <2>3, <2>5
<1> HIDE DEF r, d
<1>6. r[d] = IF had = None \/ e.ver > had.ver THEN Entry(c, e) ELSE had BY <1>2, <1>3, <1>4
<1>7. CASE had = None \/ e.ver > had.ver BY <1>5, <1>6, <1>7 DEF r, d
<1>8. CASE had # None /\ ~(e.ver > had.ver)
  <2>1. had.ctx = c BY <1>8 DEF Own, d
  <2>2. had.info.id = d /\ \E y \in N : y.ctx = c /\ y.info = had.info
    BY <1>2, <1>8, <2>1 DEF Placed
  <2>3. PICK y \in N : y.ctx = c /\ y.info = had.info BY <2>2
  <2>4. KeyOf(y.info) = e.key
    <3>1. y.info \in OwnInfos(N, c) /\ x.info \in OwnInfos(N, c) BY <1>1, <2>3 DEF OwnInfos
    <3>2. y.info.id = x.info.id BY <1>1, <2>2, <2>3
    <3> QED BY <1>1, <3>1, <3>2 DEF Stable
  <2>5. had.ver <= e.ver /\ (had.ver = e.ver => had.info = e.val)
    BY <1>8, <2>1, <2>3, <2>4 DEF Newer, d
  <2>6. had.ver \in Nat
    <3>1. had \in Topologies BY <1>2, <1>3, <1>8
    <3> QED BY <3>1 DEF Topologies
  <2>7. had.ver = e.ver BY <1>2, <1>8, <2>5, <2>6
  <2>8. r[d] = had BY <1>6, <1>8
  <2> QED BY <1>8, <2>1, <2>5, <2>7, <2>8 DEF r, d
<1> QED BY <1>7, <1>8

\* One topology event, in its context
LEMMA EnteredStep ==
  ASSUME NEW N, Keyed(N), NEW t \in Nets, Placed(t, N), NEW c, NEW e, Heard(N, c, e), e.key.id # None,
         Stable(N, c), Newer(t, c, e)
  PROVE  Turns(Shown(t, c), e, Shown(Entered(t, c, e), c), Goal(N, c, TRUE))
<1> DEFINE d == e.key.id
           had == t[d]
           r == Entered(t, c, e)
           K == Shown(t, c)
           J == Shown(r, c)
<1>1. PICK x \in N : x.ctx = c /\ x.info.id = d /\ e.key = KeyOf(x.info) /\ e.val \in {None, x.info}
  BY HeardFields
<1>2. d \in Ids BY HeardFields
<1>3. t \in [Ids -> Topologies \cup {None}] BY DEF Nets
<1>4. ASSUME NEW i \in K PROVE i.id \in Ids /\ t[i.id] # None /\ t[i.id].ctx = c /\ t[i.id].info = i
  BY DEF Placed, Shown
<1>5. \A i : KeyOf(i) = e.key => i.id = d BY DEF KeyOf
<1>6. e.val # None => e.val.id = d BY <1>1
<1> HIDE DEF d, r, K, J
<1>7. CASE ~Own(had, c)
  <2>1. r = t /\ J = K BY <1>7 DEF r, K, J, Entered, d
  <2>2. \A i \in K : KeyOf(i) # e.key BY <1>4, <1>5, <1>7 DEF Own
  <2>3. e.val # None => e.val \notin Goal(N, c, TRUE)
    <3> SUFFICES ASSUME e.val # None PROVE e.val \notin Goal(N, c, TRUE) OBVIOUS
    <3>1. PICK y \in N : y.ctx = had.ctx /\ y.info = had.info BY <1>2, <1>7 DEF Placed, Own
    <3>2. y.ctx # c /\ y.info.id = d BY <1>2, <1>7, <3>1 DEF Placed, Own
    <3>3. d # None BY DEF d
    <3>4. Shares(y.info, e.val) BY <1>6, <3>2, <3>3 DEF Shares
    <3> QED BY <3>2, <3>4 DEF Goal, Lone
  <2>4. Dropped(K, e.key) = K BY <2>2 DEF Dropped
  <2> QED BY <2>1, <2>3, <2>4 DEF Turns, K, J, r
<1>8. CASE Own(had, c)
  <2>1. \A i \in Ids : i # d => r[i] = t[i] BY <1>3, <1>8 DEF r, d, Entered
  <2>2. e.val = None => r[d] = None BY <1>2, <1>3, <1>8 DEF r, d, Entered
  <2>3. e.val # None => r[d] # None /\ r[d].ctx = c /\ r[d].info = e.val
    BY <1>8, EnteredValue DEF r, d
  <2>4. Dropped(K, e.key) \subseteq J
    <3> SUFFICES ASSUME NEW i \in K, KeyOf(i) # e.key PROVE i \in J BY DEF Dropped
    <3>1. i.id # d
      <4> SUFFICES ASSUME i.id = d PROVE FALSE OBVIOUS
      <4>1. PICK y \in N : y.ctx = c /\ y.info = i BY <1>4 DEF Placed
      <4>2. y.info \in OwnInfos(N, c) /\ x.info \in OwnInfos(N, c) BY <1>1, <4>1 DEF OwnInfos
      <4>3. KeyOf(y.info) = KeyOf(x.info) BY <1>1, <4>1, <4>2 DEF Stable
      <4> QED BY <1>1, <4>1, <4>3
    <3>2. r[i.id] = t[i.id] /\ i.id \in Ids BY <1>4, <2>1, <3>1
    <3> QED BY <1>4, <3>2 DEF J, Shown
  <2>5. J \subseteq Dropped(K, e.key) \cup ({e.val} \ {None})
    <3> SUFFICES ASSUME NEW i \in J PROVE i \in Dropped(K, e.key) \cup ({e.val} \ {None}) OBVIOUS
    <3>1. PICK p \in Ids : r[p] # None /\ r[p].ctx = c /\ i = r[p].info BY DEF J, Shown
    <3>2. CASE p = d BY <2>2, <2>3, <3>1, <3>2
    <3>3. CASE p # d
      <4>1. t[p] # None /\ t[p].ctx = c /\ i = t[p].info BY <2>1, <3>1, <3>3
      <4>2. i \in K /\ i.id = p BY <4>1 DEF K, Shown, Placed
      <4> QED BY <1>5, <3>3, <4>2 DEF Dropped
    <3> QED BY <3>2, <3>3
  <2>6. e.val # None => e.val \in J BY <1>2, <2>3 DEF J, Shown
  <2> QED BY <2>4, <2>5, <2>6 DEF Turns, K, J, r
<1> QED BY <1>7, <1>8

\* One event of a watcher: what it leaves alone
LEMMA HandleAside ==
  ASSUME NEW N, Keyed(N), Roomy(N), NEW w \in Watchers, NEW v \in Neats(N), Placed(v.topo, N),
         NEW e, Heard(N, CtxOf[w], e)
  PROVE  LET r == Handle(v, w, e)
             c == CtxOf[w]
         IN /\ Placed(r.topo, N)
            /\ DirOf[w] = "topology" =>
                 /\ r.disc = v.disc /\ Aside(v.topo, r.topo, c)
                 /\ \A d \in Ids : \/ r.topo[d] \in {v.topo[d], None}
                                   \/ e.val # None /\ r.topo[d] = Entry(c, e)
            /\ DirOf[w] # "topology" => r.topo = v.topo
<1> DEFINE c == CtxOf[w]
           r == Handle(v, w, e)
<1>1. v.topo \in Nets BY NeatFields
<1>2. PICK x \in N : x.ctx = c /\ e.key = KeyOf(x.info) /\ e.val \in {None, x.info}
  BY DEF Heard
<1>3. CASE DirOf[w] = "topology" /\ e.key.id = None
  <2>1. r = v BY <1>3 DEF Handle
  <2> HIDE DEF r
  <2> QED BY <1>3, <2>1 DEF Aside, r
<1>4. CASE DirOf[w] = "topology" /\ e.key.id # None
  <2>1. r = TopologyEvent(v, c, e) BY <1>4 DEF Handle
  <2> HIDE DEF r, c
  <2>2. r.disc = v.disc BY <1>4, <2>1, TopologyFacts DEF c
  <2>3. r.topo = Entered(v.topo, c, e) BY <1>4, <2>1, TopologyEntered DEF c
  <2>4. /\ Placed(Entered(v.topo, c, e), N) /\ Aside(v.topo, Entered(v.topo, c, e), c)
        /\ \A d \in Ids : \/ Entered(v.topo, c, e)[d] \in {v.topo[d], None}
                          \/ e.val # None /\ Entered(v.topo, c, e)[d] = Entry(c, e)
    BY <1>1, <1>4, EnteredFacts DEF c
  <2> QED BY <1>4, <2>2, <2>3, <2>4 DEF r, c
<1>5. CASE DirOf[w] # "topology" /\ e.val = None
  <2>1. r = NodeDelete(v, c, KeyOf(x.info)) BY <1>2, <1>5 DEF Handle
  <2> HIDE DEF r, c
  <2>2. r.topo = v.topo BY <2>1, DeleteFacts
  <2> QED BY <1>5, <2>2 DEF r
<1>6. CASE DirOf[w] # "topology" /\ e.val # None
  <2>1. r = NodePut(v, x.ctx, x.info) BY <1>2, <1>6 DEF Handle
  <2> HIDE DEF r, c
  <2>2. r.topo = v.topo BY <2>1, PutFacts
  <2> QED BY <1>6, <2>2 DEF r
<1> QED BY <1>3, <1>4, <1>5, <1>6

\* One event of a watcher, in its context
LEMMA HandleStep ==
  ASSUME NEW N, Keyed(N), Roomy(N), Apart(N), NEW w \in Watchers, NEW v \in Neats(N), Placed(v.topo, N),
         NEW e, Heard(N, CtxOf[w], e), Stable(N, CtxOf[w]), NEW top, top = (DirOf[w] = "topology"),
         top /\ e.key.id # None => Newer(v.topo, CtxOf[w], e)
  PROVE  Turns(Picture(v, CtxOf[w], top), e, Picture(Handle(v, w, e), CtxOf[w], top),
              Goal(N, CtxOf[w], top))
<1> DEFINE c == CtxOf[w]
           r == Handle(v, w, e)
<1>1. v.topo \in Nets /\ Tidy(v.disc, N) BY NeatFields
<1>2. PICK x \in N : x.ctx = c /\ e.key = KeyOf(x.info) /\ e.val \in {None, x.info} /\ x.info.id = e.key.id
  BY HeardFields
<1>3. CASE DirOf[w] = "topology" /\ e.key.id = None
  <2>1. r = v BY <1>3 DEF Handle
  <2> HIDE DEF r
  <2>2. Picture(v, c, top) = Shown(v.topo, c) /\ Picture(r, c, top) = Shown(v.topo, c)
    BY <1>3, <2>1 DEF Picture
  <2>3. \A i \in Shown(v.topo, c) : i.id # None
    BY SetConstants DEF Shown, Placed
  <2>4. \A i \in Shown(v.topo, c) : KeyOf(i) # e.key
    BY <1>3, <2>3 DEF KeyOf
  <2>5. e.val # None => e.val \notin Goal(N, c, top) BY <1>2, <1>3 DEF Goal
  <2>6. Dropped(Shown(v.topo, c), e.key) = Shown(v.topo, c) BY <2>4 DEF Dropped
  <2> QED BY <2>2, <2>5, <2>6 DEF Turns, r
<1>4. CASE DirOf[w] = "topology" /\ e.key.id # None
  <2>1. r = TopologyEvent(v, c, e) BY <1>4 DEF Handle
  <2> HIDE DEF r, c
  <2>2. r.topo = Entered(v.topo, c, e) BY <1>4, <2>1, TopologyEntered DEF c
  <2>3. Turns(Shown(v.topo, c), e, Shown(Entered(v.topo, c, e), c), Goal(N, c, TRUE))
    BY <1>1, <1>4, EnteredStep DEF c
  <2>4. Picture(v, c, top) = Shown(v.topo, c) /\ Picture(r, c, top) = Shown(r.topo, c) /\ top = TRUE
    BY <1>4 DEF Picture
  <2> QED BY <2>2, <2>3, <2>4 DEF r, c
<1>5. CASE DirOf[w] # "topology"
  <2>1. Picture(v, c, top) = KnownIn(v.disc, c) /\ Picture(r, c, top) = KnownIn(r.disc, c)
    BY <1>5 DEF Picture
  <2>2. Goal(N, c, top) = Lone(N, c) BY <1>5 DEF Goal
  <2>3. CASE e.val = None
    <3>1. r = NodeDelete(v, c, KeyOf(x.info)) BY <1>2, <1>5, <2>3 DEF Handle
    <3> HIDE DEF r
    <3>2. Lost(v.disc, r.disc, x.ctx, KeyOf(x.info)) BY <1>2, <3>1, DeleteFacts
    <3>3. KnownIn(r.disc, x.ctx) = Dropped(KnownIn(v.disc, x.ctx), KeyOf(x.info))
      BY <1>1, <1>2, <3>2, LostStep
    <3> HIDE DEF c
    <3>4. KnownIn(r.disc, c) = Dropped(KnownIn(v.disc, c), e.key) BY <1>2, <3>3
    <3> QED BY <2>1, <2>3, <3>4 DEF Turns, r, c
  <2>4. CASE e.val # None
    <3>1. r = NodePut(v, x.ctx, x.info) BY <1>2, <1>5, <2>4 DEF Handle
    <3> HIDE DEF r
    <3>2. Stable(N, x.ctx) BY <1>2
    <3>3. Took(v.disc, r.disc, x) BY <3>1, <3>2, PutFacts
    <3>4. Turns(KnownIn(v.disc, x.ctx), e, KnownIn(r.disc, x.ctx), Lone(N, x.ctx))
      BY <1>1, <1>2, <2>4, <3>3, TookStep
    <3> QED BY <1>2, <2>1, <2>2, <3>4 DEF r
  <2> QED BY <2>3, <2>4
<1> QED BY <1>3, <1>4, <1>5

-----------------------------------------------------------------------------
(* What a sequence of events makes of what is known: the last event of a   *)
(* key decides.                                                            *)

\* The first q events have none of a key, or this one is their last of its key.
Untouched(events, q, k) == \A j \in 1 .. q : events[j].key # k
Final(events, q, j) ==
    /\ j \in 1 .. q
    /\ \A m \in 1 .. q : m > j => events[m].key # events[j].key

\* The first q events turn the nodes K of their context into J.
Outcome(K, events, q, J, G) ==
    /\ \A i \in J : \/ i \in K /\ Untouched(events, q, KeyOf(i))
                    \/ \E j \in 1 .. q : Final(events, q, j) /\ events[j].key = KeyOf(i) /\ events[j].val = i
    /\ \A i \in K : Untouched(events, q, KeyOf(i)) => i \in J
    /\ \A j \in 1 .. q : Final(events, q, j) /\ events[j].val \in G => events[j].val \in J

\* One event more
LEMMA OutcomeStep ==
  ASSUME NEW q \in Nat, NEW events, NEW K, NEW L, NEW J, NEW G, None \notin G,
         \A j \in 1 .. q + 1 : events[j].val # None => KeyOf(events[j].val) = events[j].key,
         Outcome(K, events, q, L, G), Turns(L, events[q + 1], J, G)
  PROVE  Outcome(K, events, q + 1, J, G)
<1> DEFINE e == events[q + 1]
<1>0. \A j \in 1 .. q : j \in 1 .. q + 1 /\ j < q + 1 /\ j # q + 1 OBVIOUS
<1>1. \A j \in 1 .. q + 1 : j \in 1 .. q \/ j = q + 1 OBVIOUS
<1>2. q + 1 \in 1 .. q + 1 OBVIOUS
<1>3. \A k : Untouched(events, q + 1, k) <=> Untouched(events, q, k) /\ e.key # k
  BY <1>0, <1>1, <1>2 DEF Untouched
<1>4. Final(events, q + 1, q + 1)
  <2>1. \A m \in 1 .. q + 1 : ~(m > q + 1) OBVIOUS
  <2> QED BY <1>2, <2>1 DEF Final
<1>5. \A j \in 1 .. q : Final(events, q + 1, j) <=> Final(events, q, j) /\ e.key # events[j].key
  <2> SUFFICES ASSUME NEW j \in 1 .. q
               PROVE  Final(events, q + 1, j) <=> Final(events, q, j) /\ e.key # events[j].key
    OBVIOUS
  <2>1. q + 1 > j /\ j \in 1 .. q + 1 OBVIOUS
  <2> QED BY <1>0, <1>1, <1>2, <2>1 DEF Final
<1>6. /\ Dropped(L, e.key) \subseteq J
      /\ J \subseteq Dropped(L, e.key) \cup ({e.val} \ {None})
      /\ e.val # None /\ e.val \in G => e.val \in J
  BY DEF Turns
<1>7. e.val # None => KeyOf(e.val) = e.key BY <1>2
<1> HIDE DEF e
<1>8. ASSUME NEW i \in J
      PROVE  \/ i \in K /\ Untouched(events, q + 1, KeyOf(i))
             \/ \E j \in 1 .. q + 1 : Final(events, q + 1, j) /\ events[j].key = KeyOf(i) /\ events[j].val = i
  <2>1. CASE i = e.val /\ i # None
    <3>1. e.key = KeyOf(i) BY <1>7, <2>1
    <3> QED BY <1>2, <1>4, <2>1, <3>1 DEF e
  <2>2. CASE i \in Dropped(L, e.key)
    <3>1. i \in L /\ KeyOf(i) # e.key BY <2>2 DEF Dropped
    <3>2. CASE i \in K /\ Untouched(events, q, KeyOf(i)) BY <1>3, <3>1, <3>2
    <3>3. CASE \E j \in 1 .. q : Final(events, q, j) /\ events[j].key = KeyOf(i) /\ events[j].val = i
      <4>1. PICK j \in 1 .. q : Final(events, q, j) /\ events[j].key = KeyOf(i) /\ events[j].val = i
        BY <3>3
      <4>2. Final(events, q + 1, j) BY <1>5, <3>1, <4>1
      <4> QED BY <1>0, <4>1, <4>2
    <3> QED BY <3>1, <3>2, <3>3 DEF Outcome
  <2> QED BY <1>6, <2>1, <2>2
<1>9. ASSUME NEW i \in K, Untouched(events, q + 1, KeyOf(i)) PROVE i \in J
  <2>1. Untouched(events, q, KeyOf(i)) /\ e.key # KeyOf(i) BY <1>3, <1>9
  <2>2. i \in L BY <2>1 DEF Outcome
  <2> QED BY <1>6, <2>1, <2>2 DEF Dropped
<1>10. ASSUME NEW j \in 1 .. q + 1, Final(events, q + 1, j), events[j].val \in G PROVE events[j].val \in J
  <2>1. CASE j = q + 1 BY <1>6, <1>10, <2>1 DEF e
  <2>2. CASE j \in 1 .. q
    <3>1. Final(events, q, j) /\ e.key # events[j].key BY <1>5, <1>10, <2>2
    <3>2. events[j].val \in L BY <1>10, <2>2, <3>1 DEF Outcome
    <3>3. KeyOf(events[j].val) = events[j].key BY <1>10
    <3> QED BY <1>6, <3>1, <3>2, <3>3 DEF Dropped
  <2> QED BY <1>1, <2>1, <2>2
<1> QED BY <1>8, <1>9, <1>10 DEF Outcome

\* Before the first event
LEMMA OutcomeStart ==
  ASSUME NEW events, NEW K, NEW G PROVE Outcome(K, events, 0, K, G)
<1>1. 1 .. 0 = {} OBVIOUS
<1> QED BY <1>1 DEF Outcome, Untouched

\* The topology is the one that a change of the history has put.
ChangeOf(t, l, n) ==
    t.ver = n + 1 /\ "topology" \in l[n].dirs /\ l[n].key = KeyOf(t.info) /\ l[n].val = t.info

\* The topologies of a context are from changes before a revision, or from
\* events.
DatedBy(t, c, l, b) ==
    \A d \in Ids : t[d] # None /\ t[d].ctx = c =>
        \E n \in 1 .. Len(l) : ChangeOf(t[d], l, n) /\ n < b
Recent(t, c, l, a, events, q) ==
    \A d \in Ids : t[d] # None /\ t[d].ctx = c =>
        \E n \in 1 .. Len(l) :
            /\ ChangeOf(t[d], l, n)
            /\ n < a \/ \E j \in 1 .. q : events[j].ver = n + 1 /\ events[j].key = l[n].key

\* Each event is a change that is not older than those before the revision a
\* nor than the events before it.
Sent(e, l, a, m) ==
    /\ e.ver = m + 1 /\ "topology" \in l[m].dirs /\ l[m].key = e.key /\ l[m].val = e.val
    /\ \A n \in Touching(l, "topology", e.key, a) : n <= m
Orderly(events, k, l, a) ==
    \A q \in 1 .. k :
        /\ \E m \in 1 .. Len(l) : Sent(events[q], l, a, m)
        /\ \A j \in 1 .. q : events[j].key = events[q].key => events[j].ver <= events[q].ver

\* No topology is newer than the next event.
LEMMA RecentNewer ==
  ASSUME NEW t, NEW c, NEW l, Len(l) \in Nat, NEW a \in Nat, NEW k \in Nat, NEW events,
         Orderly(events, k, l, a), NEW q \in 1 .. k, Recent(t, c, l, a, events, q - 1),
         events[q].key.id \in Ids
  PROVE  Newer(t, c, events[q])
<1> DEFINE e == events[q]
           had == t[e.key.id]
<1> SUFFICES ASSUME had # None, had.ctx = c, KeyOf(had.info) = e.key
             PROVE  had.ver <= e.ver /\ (had.ver = e.ver => had.info = e.val)
  BY DEF Newer
<1>1. PICK n \in 1 .. Len(l) :
         /\ ChangeOf(had, l, n)
         /\ n < a \/ \E j \in 1 .. q - 1 : events[j].ver = n + 1 /\ events[j].key = l[n].key
  BY DEF Recent
<1>2. had.ver = n + 1 /\ "topology" \in l[n].dirs /\ l[n].key = e.key /\ l[n].val = had.info
  BY <1>1 DEF ChangeOf
<1>3. PICK m \in 1 .. Len(l) : Sent(e, l, a, m) BY DEF Orderly
<1>4. e.ver = m + 1 /\ l[m].val = e.val /\ \A z \in Touching(l, "topology", e.key, a) : z <= m
  BY <1>3 DEF Sent
<1> HIDE DEF e, had
<1>5. n <= m
  <2>1. CASE n < a
    <3>1. n \in 1 .. a - 1 BY <2>1
    <3>2. n \in Touching(l, "topology", e.key, a) BY <1>2, <3>1 DEF Touching
    <3> QED BY <1>4, <3>2
  <2>2. CASE \E j \in 1 .. q - 1 : events[j].ver = n + 1 /\ events[j].key = l[n].key
    <3>1. PICK j \in 1 .. q - 1 : events[j].ver = n + 1 /\ events[j].key = e.key BY <1>2, <2>2
    <3>2. j \in 1 .. q OBVIOUS
    <3>3. events[j].ver <= e.ver BY <3>1, <3>2 DEF Orderly, e
    <3> QED BY <1>4, <3>1, <3>3
  <2> QED BY <1>1, <2>1, <2>2
<1>6. had.ver <= e.ver BY <1>2, <1>4, <1>5
<1>7. had.ver = e.ver => n = m BY <1>2, <1>4
<1> QED BY <1>2, <1>4, <1>6, <1>7

\* The topologies after the next event
LEMMA RecentStep ==
  ASSUME NEW t, NEW r, NEW c, NEW l, Len(l) \in Nat, NEW a \in Nat, NEW k \in Nat, NEW events,
         Orderly(events, k, l, a), NEW q \in 1 .. k, Recent(t, c, l, a, events, q - 1),
         events[q].val # None => KeyOf(events[q].val) = events[q].key,
         \A d \in Ids : \/ r[d] \in {t[d], None}
                        \/ events[q].val # None /\ r[d] = Entry(c, events[q])
  PROVE  Recent(r, c, l, a, events, q)
<1> SUFFICES ASSUME NEW d \in Ids, r[d] # None, r[d].ctx = c
             PROVE  \E n \in 1 .. Len(l) :
                       /\ ChangeOf(r[d], l, n)
                       /\ n < a \/ \E j \in 1 .. q : events[j].ver = n + 1 /\ events[j].key = l[n].key
  BY DEF Recent
<1>1. CASE r[d] = t[d]
  <2>1. \A j \in 1 .. q - 1 : j \in 1 .. q OBVIOUS
  <2>2. PICK n \in 1 .. Len(l) :
         /\ ChangeOf(r[d], l, n)
         /\ n < a \/ \E j \in 1 .. q - 1 : events[j].ver = n + 1 /\ events[j].key = l[n].key
    BY <1>1 DEF Recent
  <2> QED BY <2>1, <2>2
<1>2. CASE events[q].val # None /\ r[d] = Entry(c, events[q])
  <2>1. PICK m \in 1 .. Len(l) : Sent(events[q], l, a, m) BY DEF Orderly
  <2>2. r[d].info = events[q].val /\ r[d].ver = events[q].ver BY <1>2 DEF Entry
  <2>3. ChangeOf(r[d], l, m) BY <1>2, <2>1, <2>2 DEF Sent, ChangeOf
  <2>4. q \in 1 .. q OBVIOUS
  <2> QED BY <2>1, <2>3, <2>4 DEF Sent
<1> QED BY <1>1, <1>2

\* What events of a watcher can make of the view s: only the nodes, or only
\* the topologies, of its context change.
Here(N, s, w) ==
    {u \in Reached(N, s.disc, CtxOf[w]) :
        /\ Placed(u.topo, N)
        /\ DirOf[w] = "topology" => u.disc = s.disc /\ Aside(s.topo, u.topo, CtxOf[w])
        /\ DirOf[w] # "topology" => u.topo = s.topo}

\* Events of one context follow each other.
LEMMA AsideTrans ==
  ASSUME NEW s, NEW t, NEW u, NEW c, Aside(s, t, c), Aside(t, u, c) PROVE Aside(s, u, c)
BY DEF Aside

\* No event has come yet.
LEMMA HereSelf ==
  ASSUME NEW N, NEW v \in Neats(N), Placed(v.topo, N), NEW w PROVE v \in Here(N, v, w)
BY KeepsSelf DEF Here, Reached, Aside

\* What such a view has.
LEMMA HereFields ==
  ASSUME NEW N, NEW s, NEW w, NEW u \in Here(N, s, w)
  PROVE  /\ u \in Neats(N) /\ Placed(u.topo, N) /\ u \in Reached(N, s.disc, CtxOf[w])
         /\ Apart(N) => Keeps(s.disc, u.disc, CtxOf[w])
         /\ DirOf[w] = "topology" => u.disc = s.disc /\ Aside(s.topo, u.topo, CtxOf[w])
         /\ DirOf[w] # "topology" => u.topo = s.topo
BY DEF Here, Reached

\* One event
LEMMA HandleHere ==
  ASSUME NEW N, Keyed(N), Roomy(N), NEW s, NEW w \in Watchers, NEW u \in Here(N, s, w),
         NEW e, Heard(N, CtxOf[w], e)
  PROVE  Handle(u, w, e) \in Here(N, s, w)
<1> DEFINE c == CtxOf[w]
           r == Handle(u, w, e)
<1>1. u \in Neats(N) /\ Placed(u.topo, N) /\ u \in Reached(N, s.disc, c) BY HereFields
<1>2. r \in Reached(N, s.disc, c) BY <1>1, HandleFacts
<1>3. /\ Placed(r.topo, N)
      /\ DirOf[w] = "topology" => r.disc = u.disc /\ Aside(u.topo, r.topo, c)
      /\ DirOf[w] # "topology" => r.topo = u.topo
  BY <1>1, HandleAside
<1> HIDE DEF r, c
<1>4. CASE DirOf[w] = "topology"
  <2>1. u.disc = s.disc /\ Aside(s.topo, u.topo, c) BY <1>4, HereFields DEF c
  <2>2. r.disc = s.disc /\ Aside(s.topo, r.topo, c) BY <1>3, <1>4, <2>1, AsideTrans
  <2> QED BY <1>2, <1>3, <1>4, <2>2 DEF Here, r, c
<1>5. CASE DirOf[w] # "topology"
  <2>1. u.topo = s.topo BY <1>5, HereFields
  <2> QED BY <1>2, <1>3, <1>5, <2>1 DEF Here, r, c
<1> QED BY <1>4, <1>5

\* All the events
LEMMA HandleAllHere ==
  ASSUME NEW N, Keyed(N), Roomy(N), NEW s, NEW w \in Watchers, NEW v \in Here(N, s, w),
         NEW k \in Nat, NEW events, DOMAIN events = 1 .. k,
         \A j \in 1 .. k : Heard(N, CtxOf[w], events[j])
  PROVE  HandleAll(v, w, events) \in Here(N, s, w)
<1>0. PICK D : D = Here(N, s, w) OBVIOUS
<1>1. \A j \in 1 .. k, r \in D : Handle(r, w, events[j]) \in D BY <1>0, HandleHere
<1>2. v \in D BY <1>0
<1>3. k \in 0 .. k OBVIOUS
<1>4. PICK f \in Courses(D, v, w, events, k) : TRUE BY <1>1, <1>2, HandleAllRuns
<1>5. f \in [0 .. k -> D] /\ f[k] = HandleAll(v, w, events) BY <1>4 DEF Courses
<1> QED BY <1>0, <1>3, <1>5

\* Before the first event.
LEMMA RecentStart ==
  ASSUME NEW t, NEW c, NEW l, NEW a, NEW events, DatedBy(t, c, l, a) PROVE Recent(t, c, l, a, events, 0)
BY DEF DatedBy, Recent

\* The views that events lead through, with topologies from before or from them
Timed(N, v, w, events, k, l, a) ==
    {f \in Courses(Here(N, v, w), v, w, events, k) :
        \A q \in 0 .. k : Recent(f[q].topo, CtxOf[w], l, a, events, q)}

\* The topologies after the events are from before them or from them.
LEMMA HandleAllRecent ==
  ASSUME NEW N, Keyed(N), Roomy(N), NEW w \in Watchers, DirOf[w] = "topology",
         NEW v \in Neats(N), Placed(v.topo, N),
         NEW k \in Nat, NEW events, DOMAIN events = 1 .. k,
         \A j \in 1 .. k : Heard(N, CtxOf[w], events[j]),
         NEW l, Len(l) \in Nat, NEW a \in Nat, DatedBy(v.topo, CtxOf[w], l, a), Orderly(events, k, l, a)
  PROVE  /\ Recent(HandleAll(v, w, events).topo, CtxOf[w], l, a, events, k)
         /\ Timed(N, v, w, events, k, l, a) # {}
<1>0. PICK D : D = Here(N, v, w) OBVIOUS
<1>0a. PICK c : c = CtxOf[w] OBVIOUS
<1>1. \A j \in 1 .. k, r \in D : Handle(r, w, events[j]) \in D
  <2> SUFFICES ASSUME NEW j \in 1 .. k, NEW r \in D PROVE Handle(r, w, events[j]) \in D OBVIOUS
  <2> QED BY <1>0, HandleHere
<1>2. v \in D BY <1>0, HereSelf
<1>3. PICK f \in Courses(D, v, w, events, k) : TRUE BY <1>1, <1>2, HandleAllRuns
<1>4. /\ f \in [0 .. k -> D] /\ f[0] = v /\ f[k] = HandleAll(v, w, events)
      /\ \A q \in 1 .. k : f[q] = Handle(f[q - 1], w, events[q])
  BY <1>3 DEF Courses
<1> DEFINE T == {q \in Nat : q <= k => Recent(f[q].topo, c, l, a, events, q)}
<1>5. 0 \in T BY <1>0a, <1>4, RecentStart
<1>6. ASSUME NEW q \in T PROVE q + 1 \in T
  <2> SUFFICES ASSUME q + 1 <= k PROVE Recent(f[q + 1].topo, c, l, a, events, q + 1) OBVIOUS
  <2>1. q \in 0 .. k /\ q + 1 \in 1 .. k /\ q + 1 - 1 = q OBVIOUS
  <2>2. PICK u \in D : u = f[q] BY <1>4, <2>1
  <2>3. PICK y : y = Handle(u, w, events[q + 1]) OBVIOUS
  <2>4. f[q + 1] = y BY <1>4, <2>1, <2>2, <2>3
  <2>5. u \in Neats(N) /\ Placed(u.topo, N) BY <1>0, <2>2, HereFields
  <2>6. Heard(N, c, events[q + 1]) BY <1>0a, <2>1
  <2>7. \A d \in Ids : \/ y.topo[d] \in {u.topo[d], None}
                       \/ events[q + 1].val # None /\ y.topo[d] = Entry(c, events[q + 1])
    BY <1>0a, <2>3, <2>5, <2>6, HandleAside
  <2>8. Recent(u.topo, c, l, a, events, q + 1 - 1) BY <2>1, <2>2
  <2>9. events[q + 1].val # None => KeyOf(events[q + 1].val) = events[q + 1].key
    BY <2>6, HeardFields
  <2> DEFINE m == q + 1
             t == u.topo
             r == y.topo
  <2>10. Recent(r, c, l, a, events, m)
    <3>1. m \in 1 .. k /\ Recent(t, c, l, a, events, m - 1) BY <2>1, <2>8
    <3> HIDE DEF m, t, r
    <3> QED BY <2>7, <2>9, <3>1, RecentStep DEF m, t, r
  <2> QED BY <2>4, <2>10
<1> HIDE DEF T
<1>7. T \subseteq Nat BY DEF T
<1>8. T = Nat BY <1>5, <1>6, <1>7, Induction
<1>9. \A q \in 0 .. k : Recent(f[q].topo, c, l, a, events, q) BY <1>8 DEF T
<1>10. k \in 0 .. k OBVIOUS
<1>11. f \in Timed(N, v, w, events, k, l, a) BY <1>0, <1>0a, <1>3, <1>9 DEF Timed
<1> QED BY <1>0a, <1>4, <1>9, <1>10, <1>11

\* The nodes or the topologies of the context after the events
LEMMA HandleAllOutcome ==
  ASSUME NEW N, Keyed(N), Roomy(N), Apart(N), NEW w \in Watchers,
         NEW v \in Neats(N), Placed(v.topo, N), Stable(N, CtxOf[w]),
         NEW k \in Nat, NEW events, DOMAIN events = 1 .. k,
         \A j \in 1 .. k : Heard(N, CtxOf[w], events[j]),
         NEW top, top = (DirOf[w] = "topology"),
         NEW l, Len(l) \in Nat, NEW a \in Nat,
         top => DatedBy(v.topo, CtxOf[w], l, a) /\ Orderly(events, k, l, a)
  PROVE  Outcome(Picture(v, CtxOf[w], top), events, k,
                 Picture(HandleAll(v, w, events), CtxOf[w], top), Goal(N, CtxOf[w], top))
<1>0. PICK D : D = Here(N, v, w) OBVIOUS
<1>0a. PICK c : c = CtxOf[w] OBVIOUS
<1>0b. PICK G : G = Goal(N, c, top) OBVIOUS
<1>1. \A j \in 1 .. k, r \in D : Handle(r, w, events[j]) \in D
  <2> SUFFICES ASSUME NEW j \in 1 .. k, NEW r \in D PROVE Handle(r, w, events[j]) \in D OBVIOUS
  <2> QED BY <1>0, HandleHere
<1>2. v \in D BY <1>0, HereSelf
<1>3. PICK f \in Courses(D, v, w, events, k) : top => \A q \in 0 .. k : Recent(f[q].topo, c, l, a, events, q)
  <2>1. CASE top
    <3>1. PICK f \in Timed(N, v, w, events, k, l, a) : TRUE BY <2>1, HandleAllRecent
    <3> QED BY <1>0, <1>0a, <3>1 DEF Timed
  <2>2. CASE ~top BY <1>1, <1>2, <2>2, HandleAllRuns
  <2> QED BY <2>1, <2>2
<1>4. /\ f \in [0 .. k -> D] /\ f[0] = v /\ f[k] = HandleAll(v, w, events)
      /\ \A q \in 1 .. k : f[q] = Handle(f[q - 1], w, events[q])
  BY <1>3 DEF Courses
<1>5. None \notin G
  <2> SUFFICES ASSUME None \in G PROVE FALSE OBVIOUS
  <2>1. PICK y \in N : None = y.info BY <1>0b DEF Goal, Lone, OwnInfos
  <2>2. y.info \in Infos BY NodeFields
  <2> QED BY <2>1, <2>2, SetConstants
<1>6. \A j \in 1 .. k : events[j].val # None => KeyOf(events[j].val) = events[j].key
  BY HeardFields
<1> DEFINE T == {q \in Nat : q <= k =>
                    Outcome(Picture(v, c, top), events, q, Picture(f[q], c, top), G)}
<1>7. 0 \in T BY <1>4, OutcomeStart
<1>8. ASSUME NEW q \in T PROVE q + 1 \in T
  <2> SUFFICES ASSUME q + 1 <= k
               PROVE  Outcome(Picture(v, c, top), events, q + 1, Picture(f[q + 1], c, top), G)
    OBVIOUS
  <2>1. q \in 0 .. k /\ q + 1 \in 1 .. k /\ q + 1 - 1 = q OBVIOUS
  <2>2. PICK u \in D : u = f[q] BY <1>4, <2>1
  <2>3. PICK y : y = Handle(u, w, events[q + 1]) OBVIOUS
  <2>4. f[q + 1] = y BY <1>4, <2>1, <2>2, <2>3
  <2>5. u \in Neats(N) /\ Placed(u.topo, N) BY <1>0, <2>2, HereFields
  <2>6. PICK e : e = events[q + 1] OBVIOUS
  <2>7. Heard(N, c, e) BY <1>0a, <2>1, <2>6
  <2>8. top /\ e.key.id # None => Newer(u.topo, c, e)
    <3> SUFFICES ASSUME top, e.key.id # None PROVE Newer(u.topo, c, e) OBVIOUS
    <3>1. Recent(u.topo, c, l, a, events, q + 1 - 1) BY <1>3, <2>1, <2>2
    <3>2. events[q + 1].key.id \in Ids BY <2>6, <2>7, HeardFields
    <3> DEFINE m == q + 1
               t == u.topo
    <3>3. m \in 1 .. k /\ Recent(t, c, l, a, events, m - 1) /\ events[m].key.id \in Ids
      BY <2>1, <3>1, <3>2
    <3> HIDE DEF m, t
    <3>4. Newer(t, c, events[m]) BY <3>3, RecentNewer
    <3> QED BY <2>6, <3>4 DEF m, t
  <2>9. Turns(Picture(u, c, top), e, Picture(y, c, top), G)
    BY <1>0a, <1>0b, <2>3, <2>5, <2>6, <2>7, <2>8, HandleStep
  <2>10. PICK L : L = Picture(u, c, top) OBVIOUS
  <2>11. Outcome(Picture(v, c, top), events, q, L, G) BY <2>1, <2>2, <2>10
  <2>12. \A j \in 1 .. q + 1 : events[j].val # None => KeyOf(events[j].val) = events[j].key
    BY <1>6, <2>1
  <2>13. Turns(L, events[q + 1], Picture(y, c, top), G) BY <2>6, <2>9, <2>10
  <2>14. PICK K : K = Picture(v, c, top) OBVIOUS
  <2>15. PICK J : J = Picture(y, c, top) OBVIOUS
  <2>16. Outcome(K, events, q + 1, J, G) BY <1>5, <2>11, <2>12, <2>13, <2>14, <2>15, OutcomeStep
  <2> QED BY <2>4, <2>14, <2>15, <2>16
<1> HIDE DEF T
<1>9. T \subseteq Nat BY DEF T
<1>10. T = Nat BY <1>7, <1>8, <1>9, Induction
<1>11. Outcome(Picture(v, c, top), events, k, Picture(f[k], c, top), G) BY <1>10 DEF T
<1> QED BY <1>0a, <1>0b, <1>4, <1>11

-----------------------------------------------------------------------------
(* What a snapshot that reconciles leaves.                               *)

KeysIn(N, c) == {KeyOf(i) : i \in OwnInfos(N, c)}

\* cleanup_old_nodes() removes the nodes with these keys and no others.
LEMMA CleanupKnown ==
  ASSUME NEW N, Keyed(N), NEW v \in Neats(N), NEW c, Stable(N, c),
         NEW keys, IsFiniteSet(keys), keys \subseteq KeysIn(N, c)
  PROVE  LET r == CleanupNodes(v, c, keys)
         IN /\ r \in Neats(N) /\ r.topo = v.topo
            /\ KnownIn(r.disc, c) = {i \in KnownIn(v.disc, c) : KeyOf(i) \notin keys}
<1> DEFINE r == CleanupNodes(v, c, keys)
<1>0. PICK D : D = {u \in Neats(N) : u.topo = v.topo} OBVIOUS
<1>1. ASSUME NEW k \in keys, NEW u \in D
      PROVE  /\ NodeDelete(u, c, k) \in D
             /\ KnownIn(NodeDelete(u, c, k).disc, c) = Dropped(KnownIn(u.disc, c), k)
  <2>1. PICK x \in N : x.ctx = c /\ k = KeyOf(x.info) BY DEF KeysIn, OwnInfos
  <2>2. u \in Neats(N) /\ u.topo = v.topo BY <1>0
  <2> DEFINE y == NodeDelete(u, c, KeyOf(x.info))
  <2>3. y \in Neats(N) /\ y.topo = u.topo /\ Lost(u.disc, y.disc, c, KeyOf(x.info))
    BY <2>2, DeleteFacts
  <2> HIDE DEF y
  <2>4. Tidy(u.disc, N) BY <2>2, NeatFields
  <2>5. KnownIn(y.disc, x.ctx) = Dropped(KnownIn(u.disc, x.ctx), KeyOf(x.info))
    BY <2>1, <2>3, <2>4, LostStep
  <2>6. y = NodeDelete(u, c, k) BY <2>1 DEF y
  <2>7. y \in D BY <1>0, <2>2, <2>3
  <2> QED BY <2>1, <2>5, <2>6, <2>7
<1>2. v \in D BY <1>0
<1>3. PICK f \in Removals(D, v, c, keys) : TRUE
  <2>1. \A k \in keys, u \in D : NodeDelete(u, c, k) \in D BY <1>1
  <2> QED BY <1>2, <2>1, CleanupRuns
<1>4. /\ f \in [SUBSET keys -> D] /\ f[{}] = v /\ f[keys] = r
      /\ \A q \in SUBSET keys : q # {} => \E x \in q : f[q] = NodeDelete(f[q \ {x}], c, x)
  BY <1>3 DEF Removals
<1> DEFINE Rest(q) == {i \in KnownIn(v.disc, c) : KeyOf(i) \notin q}
           T == {q \in SUBSET keys : KnownIn(f[q].disc, c) = Rest(q)}
<1>5. {} \in T BY <1>4
<1>6. ASSUME NEW q \in SUBSET keys, q # {}, \A x \in q : q \ {x} \in T PROVE q \in T
  <2>1. PICK x \in q : f[q] = NodeDelete(f[q \ {x}], c, x) BY <1>4, <1>6
  <2>2. PICK u \in D : u = f[q \ {x}] BY <1>4
  <2>3. KnownIn(f[q].disc, c) = Dropped(KnownIn(u.disc, c), x) BY <1>1, <2>1, <2>2
  <2>4. KnownIn(u.disc, c) = Rest(q \ {x}) BY <1>6, <2>2
  <2>5. Dropped(Rest(q \ {x}), x) = Rest(q) BY DEF Dropped
  <2> QED BY <2>3, <2>4, <2>5
<1> HIDE DEF T, r
<1>7. SUBSET keys \subseteq T BY <1>5, <1>6, SubsetInduction
<1>8. keys \in SUBSET keys OBVIOUS
<1>9. keys \in T /\ r \in D BY <1>4, <1>7, <1>8
<1>10. KnownIn(r.disc, c) = Rest(keys) BY <1>4, <1>9 DEF T
<1> QED BY <1>0, <1>9, <1>10 DEF r

\* The old keys are those of the known nodes that no event of the snapshot has.
LEMMA OldKeysRight ==
  ASSUME NEW N, Keyed(N), NEW v \in Neats(N), NEW c, Stable(N, c),
         NEW k \in Nat, NEW events, Len(events) = k,
         \A j \in 1 .. k : Heard(N, c, events[j])
  PROVE  /\ OldKeys(v, c, events) \subseteq KeysIn(N, c)
         /\ \A y \in OldKeys(v, c, events) : Untouched(events, k, y)
         /\ \A i \in KnownIn(v.disc, c) :
               Untouched(events, k, KeyOf(i)) => KeyOf(i) \in OldKeys(v, c, events)
<1>1. Tidy(v.disc, N) /\ Indexed(v.disc) = Held(v.disc) BY NeatFields, TidyIndexed
<1> DEFINE Hit(y, j) == IF y.id # None THEN events[j].key.id = y.id ELSE events[j].key.name = y.name
<1>2. OldKeys(v, c, events) =
        {y \in {KeyOf(v.disc.node[o].info) : o \in {p \in Held(v.disc) : v.disc.node[p].ctx = c}} :
            ~\E j \in 1 .. k : Hit(y, j)}
  BY <1>1 DEF OldKeys
<1>3. ASSUME NEW o \in Held(v.disc), v.disc.node[o].ctx = c PROVE v.disc.node[o].info \in OwnInfos(N, c)
  BY <1>1, <1>3, HeldFacts DEF OwnInfos
<1>4. OldKeys(v, c, events) \subseteq KeysIn(N, c) BY <1>2, <1>3 DEF KeysIn
<1>5. \A y \in OldKeys(v, c, events) : Untouched(events, k, y)
  <2> SUFFICES ASSUME NEW y \in OldKeys(v, c, events), NEW j \in 1 .. k, events[j].key = y PROVE FALSE
    BY DEF Untouched
  <2>1. ~Hit(y, j) BY <1>2
  <2> QED BY <2>1
<1>6. ASSUME NEW i \in KnownIn(v.disc, c), Untouched(events, k, KeyOf(i))
      PROVE  KeyOf(i) \in OldKeys(v, c, events)
  <2>1. PICK o \in Held(v.disc) : v.disc.node[o].ctx = c /\ i = v.disc.node[o].info BY DEF KnownIn
  <2>2. ASSUME NEW j \in 1 .. k, Hit(KeyOf(i), j) PROVE FALSE
    <3>1. PICK x \in N : /\ x.ctx = c /\ x.info.id = events[j].key.id
                         /\ x.info.name = events[j].key.name /\ events[j].key = KeyOf(x.info)
      BY HeardFields
    <3>2. KeyOf(i).id = i.id /\ KeyOf(i).name = i.name BY DEF KeyOf
    <3>3. x.info.id = i.id \/ x.info.name = i.name BY <2>2, <3>1, <3>2
    <3>4. x.info \in OwnInfos(N, c) /\ i \in OwnInfos(N, c) BY <1>3, <2>1, <3>1 DEF OwnInfos
    <3>5. KeyOf(x.info) = KeyOf(i) BY <3>3, <3>4 DEF Stable
    <3> QED BY <1>6, <3>1, <3>5 DEF Untouched
  <2> HIDE DEF Hit
  <2> QED BY <1>2, <2>1, <2>2
<1> QED BY <1>4, <1>5, <1>6

\* A snapshot of a watcher that reconciles leaves what it has brought.
LEMMA OutcomeCleaned ==
  ASSUME NEW K, NEW events, NEW k, NEW J, NEW G, NEW R, Outcome(K, events, k, J, G),
         R \subseteq J,
         \A i \in R : ~(i \in K /\ Untouched(events, k, KeyOf(i))),
         \A j \in 1 .. k : Final(events, k, j) /\ events[j].val \in G /\ events[j].val \in J => events[j].val \in R
  PROVE  Outcome({}, events, k, R, G)
BY DEF Outcome

\* Of a context that keeps its keys, only what a snapshot has brought is left.
Brought(N, w, r, events, k, top) ==
    Stable(N, CtxOf[w]) =>
        Outcome({}, events, k, Picture(r, CtxOf[w], top), Goal(N, CtxOf[w], top))

LoadedNodes(N, v, w, r, events, k) ==
    r.topo = v.topo /\ Brought(N, w, r, events, k, FALSE)
LoadedTopologies(N, v, w, r, events, k, l, a) ==
    /\ r.disc = v.disc /\ Placed(r.topo, N) /\ Aside(v.topo, r.topo, CtxOf[w])
    /\ Recent(r.topo, CtxOf[w], l, a, events, k)
    /\ Brought(N, w, r, events, k, TRUE)

\* What a snapshot that reconciles does to the nodes
LEMMA LoadNodes ==
  ASSUME NEW N, Keyed(N), Roomy(N), Apart(N), NEW w \in Watchers, DirOf[w] # "topology",
         NEW v \in Neats(N), Placed(v.topo, N),
         NEW k \in Nat, NEW events, DOMAIN events = 1 .. k, Len(events) = k,
         \A j \in 1 .. k : Heard(N, CtxOf[w], events[j])
  PROVE  LoadedNodes(N, v, w, LoadSnapshot(v, w, events), events, k)
<1>0. PICK c : c = CtxOf[w] OBVIOUS
<1> DEFINE s == v.disc
           d == RebuildCache(s, {})
           v0 == [v EXCEPT !.disc = d]
           u == HandleAll(v0, w, events)
           keys == OldKeys(v0, c, events)
           r == LoadSnapshot(v, w, events)
<1>1. /\ v = [disc |-> s, topo |-> v.topo, told |-> v.told]
      /\ Tidy(s, N) /\ v.told = ToldOf(s) /\ v.topo \in Nets
  BY NeatFields
<1> HIDE DEF s, r
<1>2. Tidy(d, N) /\ d.node = s.node /\ d.byId = s.byId BY <1>1, SetConstants, RebuildFacts
<1> HIDE DEF d
<1>3. v0 = [disc |-> d, topo |-> v.topo, told |-> ToldOf(d)]
  <2>1. ToldOf(d) = ToldOf(s) BY <1>2 DEF ToldOf
  <2> QED BY <1>1, <2>1
<1>4. v0 \in Neats(N) /\ v0.disc = d /\ v0.topo = v.topo BY <1>1, <1>2, <1>3, NeatMade
<1>5. r = CleanupNodes(u, c, keys) BY <1>0 DEF LoadSnapshot, r, d, s
<1> HIDE DEF v0
<1>6. v0 \in Here(N, v0, w) BY <1>4, HereSelf
<1> HIDE DEF u
<1>7. u \in Here(N, v0, w) BY <1>6, HandleAllHere DEF u
<1>8. u \in Neats(N) /\ u.topo = v.topo BY <1>4, <1>7, HereFields
<1>9. IsFiniteSet(keys) /\ keys \subseteq KeysOf(N) BY <1>4, OldKeysFacts
<1> HIDE DEF keys
<1>10. r.topo = v.topo
  <2>1. PICK D : D = {z \in Neats(N) : z.topo = v.topo} OBVIOUS
  <2>2. \A y \in keys, z \in D : NodeDelete(z, c, y) \in D
    <3> SUFFICES ASSUME NEW y \in keys, NEW z \in D PROVE NodeDelete(z, c, y) \in D OBVIOUS
    <3>1. PICK x \in N : y = KeyOf(x.info) BY <1>9 DEF KeysOf
    <3>2. z \in Neats(N) /\ z.topo = v.topo BY <2>1
    <3> DEFINE q == NodeDelete(z, c, KeyOf(x.info))
    <3>3. q \in Neats(N) /\ q.topo = z.topo BY <3>2, DeleteFacts
    <3> HIDE DEF q
    <3>4. q \in D BY <2>1, <3>2, <3>3
    <3> QED BY <3>1, <3>4 DEF q
  <2>3. u \in D BY <1>8, <2>1
  <2>4. PICK f \in Removals(D, u, c, keys) : TRUE BY <1>9, <2>2, <2>3, CleanupRuns
  <2>5. f \in [SUBSET keys -> D] /\ f[keys] = r BY <1>5, <2>4 DEF Removals
  <2>6. keys \in SUBSET keys OBVIOUS
  <2> QED BY <2>1, <2>5, <2>6
<1>11. ASSUME Stable(N, c) PROVE Outcome({}, events, k, Picture(r, c, FALSE), Goal(N, c, FALSE))
  <2>1. PICK G : G = Goal(N, c, FALSE) OBVIOUS
  <2>2. PICK K : K = KnownIn(v0.disc, c) OBVIOUS
  <2>3. PICK J : J = KnownIn(u.disc, c) OBVIOUS
  <2>4. PICK R : R = KnownIn(r.disc, c) OBVIOUS
  <2>5. PICK top : top = FALSE OBVIOUS
  <2>6. PICK l : Len(l) \in Nat
    <3>1. Len(<<>>) \in Nat OBVIOUS
    <3> QED BY <3>1
  <2>7. top = (DirOf[w] = "topology") BY <2>5
  <2>8. Placed(v0.topo, N) /\ 0 \in Nat BY <1>4
  <2>9. Outcome(Picture(v0, CtxOf[w], top), events, k, Picture(u, CtxOf[w], top), Goal(N, CtxOf[w], top))
    BY <1>0, <1>4, <1>11, <2>5, <2>6, <2>7, <2>8, HandleAllOutcome DEF u
  <2>10. Outcome(K, events, k, J, G) BY <1>0, <2>1, <2>2, <2>3, <2>5, <2>9 DEF Picture
  <2>11. /\ keys \subseteq KeysIn(N, c)
         /\ \A y \in keys : Untouched(events, k, y)
         /\ \A i \in K : Untouched(events, k, KeyOf(i)) => KeyOf(i) \in keys
    BY <1>0, <1>4, <1>11, <2>2, OldKeysRight DEF keys
  <2>12. R = {i \in J : KeyOf(i) \notin keys}
    BY <1>5, <1>8, <1>9, <1>11, <2>3, <2>4, <2>11, CleanupKnown
  <2>13. ASSUME NEW j \in 1 .. k, events[j].val \in G, events[j].val \in J PROVE events[j].val \in R
    <3>1. events[j].val # None
      <4>1. events[j].val \in OwnInfos(N, c) BY <2>1, <2>13 DEF Goal, Lone
      <4> QED BY <1>0, <4>1, HeardFields
    <3>2. KeyOf(events[j].val) = events[j].key BY <3>1, HeardFields
    <3>3. events[j].key \notin keys BY <2>11 DEF Untouched
    <3> QED BY <2>12, <2>13, <3>2, <3>3
  <2>14. R \subseteq J /\ \A i \in R : ~(i \in K /\ Untouched(events, k, KeyOf(i))) BY <2>11, <2>12
  <2>15. Outcome({}, events, k, R, G) BY <2>10, <2>13, <2>14, OutcomeCleaned
  <2> QED BY <2>1, <2>4, <2>15 DEF Picture
<1> QED BY <1>0, <1>10, <1>11 DEF r, Brought, LoadedNodes

\* What a snapshot that reconciles does to the topologies
LEMMA LoadTopologies ==
  ASSUME NEW N, Keyed(N), Roomy(N), Apart(N), NEW w \in Watchers, DirOf[w] = "topology",
         NEW v \in Neats(N), Placed(v.topo, N),
         NEW k \in Nat, NEW events, DOMAIN events = 1 .. k, Len(events) = k,
         \A j \in 1 .. k : Heard(N, CtxOf[w], events[j]),
         NEW l, Len(l) \in Nat, NEW a \in Nat, DatedBy(v.topo, CtxOf[w], l, a), Orderly(events, k, l, a)
  PROVE  LoadedTopologies(N, v, w, LoadSnapshot(v, w, events), events, k, l, a)
<1>0. PICK c : c = CtxOf[w] OBVIOUS
<1> DEFINE u == HandleAll(v, w, events)
           r == LoadSnapshot(v, w, events)
           t == [i \in Ids |-> IF /\ u.topo[i] # None /\ u.topo[i].ctx = c
                                  /\ ~\E j \in 1 .. k : events[j].key.id = i
                               THEN None ELSE u.topo[i]]
<1> HIDE DEF u
<1>1. u \in Here(N, v, w) BY HereSelf, HandleAllHere DEF u
<1>2. u \in Neats(N) /\ Placed(u.topo, N) /\ u.disc = v.disc /\ Aside(v.topo, u.topo, c)
  BY <1>0, <1>1, HereFields
<1>3. u = [disc |-> u.disc, topo |-> u.topo, told |-> u.told] BY <1>2, NeatFields
<1>4. r = [u EXCEPT !.topo = t] BY <1>0 DEF LoadSnapshot, CleanupTopologies, u
<1>5. \A i \in Ids : t[i] \in {u.topo[i], None} OBVIOUS
<1>6. \A i \in Ids : Own(u.topo[i], c) \/ t[i] = u.topo[i] BY DEF Own
<1>7. \A i \in Ids : u.topo[i] # None /\ u.topo[i].ctx = c =>
          (t[i] # None <=> \E j \in 1 .. k : events[j].key.id = i)
  OBVIOUS
<1> HIDE DEF t, r
<1>8. r.disc = v.disc /\ r.topo = t BY <1>2, <1>3, <1>4
<1>9. Placed(t, N) BY <1>2, <1>5 DEF Placed
<1>10. Aside(v.topo, t, c) BY <1>2, <1>5, <1>6 DEF Aside, Own
<1>11. Recent(u.topo, c, l, a, events, k) BY <1>0, HandleAllRecent DEF u
<1>12. Recent(t, c, l, a, events, k) BY <1>5, <1>11 DEF Recent
<1>13. ASSUME Stable(N, c) PROVE Outcome({}, events, k, Picture(r, c, TRUE), Goal(N, c, TRUE))
  <2>1. PICK G : G = Goal(N, c, TRUE) OBVIOUS
  <2>2. PICK K : K = Shown(v.topo, c) OBVIOUS
  <2>3. PICK J : J = Shown(u.topo, c) OBVIOUS
  <2>4. PICK R : R = Shown(t, c) OBVIOUS
  <2>5. PICK top : top = TRUE OBVIOUS
  <2>6. top = (DirOf[w] = "topology") BY <2>5
  <2>7. Outcome(Picture(v, CtxOf[w], top), events, k, Picture(u, CtxOf[w], top), Goal(N, CtxOf[w], top))
    BY <1>0, <1>13, <2>6, HandleAllOutcome DEF u
  <2>8. Outcome(K, events, k, J, G) BY <1>0, <2>1, <2>2, <2>3, <2>5, <2>7 DEF Picture
  <2>9. ASSUME NEW i \in R PROVE i \in J /\ \E j \in 1 .. k : events[j].key = KeyOf(i)
    <3>1. PICK d \in Ids : t[d] # None /\ t[d].ctx = c /\ i = t[d].info BY <2>4 DEF Shown
    <3>2. u.topo[d] # None /\ u.topo[d].ctx = c /\ i = u.topo[d].info BY <1>5, <3>1
    <3>3. PICK j \in 1 .. k : events[j].key.id = d BY <1>7, <3>1, <3>2
    <3>4. PICK x \in N : x.ctx = c /\ x.info.id = d /\ events[j].key = KeyOf(x.info)
      BY <1>0, <3>3, HeardFields
    <3>5. i.id = d /\ i \in OwnInfos(N, c) BY <1>2, <3>2 DEF Placed, OwnInfos
    <3>6. x.info \in OwnInfos(N, c) BY <3>4 DEF OwnInfos
    <3>7. KeyOf(x.info) = KeyOf(i) BY <1>13, <3>4, <3>5, <3>6 DEF Stable
    <3>8. i \in J BY <2>3, <3>2 DEF Shown
    <3> QED BY <3>4, <3>7, <3>8
  <2>10. ASSUME NEW j \in 1 .. k, events[j].val \in G, events[j].val \in J PROVE events[j].val \in R
    <3>1. PICK d \in Ids : u.topo[d] # None /\ u.topo[d].ctx = c /\ events[j].val = u.topo[d].info
      BY <2>3, <2>10 DEF Shown
    <3>2. events[j].val.id = d BY <1>2, <3>1 DEF Placed
    <3>3. events[j].val # None
      <4>1. events[j].val \in OwnInfos(N, c) BY <2>1, <2>10 DEF Goal, Lone
      <4> QED BY <1>0, <4>1, HeardFields
    <3>4. KeyOf(events[j].val) = events[j].key BY <3>3, HeardFields
    <3>5. events[j].key.id = d BY <3>2, <3>4 DEF KeyOf
    <3>6. t[d] = u.topo[d] BY <1>5, <1>7, <3>1, <3>5
    <3> QED BY <2>4, <3>1, <3>6 DEF Shown
  <2>11. R \subseteq J /\ \A i \in R : ~(i \in K /\ Untouched(events, k, KeyOf(i)))
    BY <2>9 DEF Untouched
  <2>12. Outcome({}, events, k, R, G) BY <2>8, <2>10, <2>11, OutcomeCleaned
  <2> QED BY <1>8, <2>1, <2>4, <2>12 DEF Picture
<1> QED BY <1>0, <1>8, <1>9, <1>10, <1>12, <1>13 DEF r, Brought, LoadedTopologies

-----------------------------------------------------------------------------
(* What the events of an answer deliver: of every key, the value that the  *)
(* directory has at the revision of the answer.                            *)

\* The events tell of every key what has become of it.
Delivers(events, k, old, new) ==
    \A y \in UsedKeys :
        \/ Untouched(events, k, y) /\ new[y] = old[y]
        \/ \E j \in 1 .. k : Final(events, k, j) /\ events[j].key = y /\ events[j].val = new[y]

Blank == [y \in UsedKeys |-> None]

\* What an answer holds: the events of a directory that lead from one state of
\* it to the one at a revision
Answer(events, k, l, d, r, old, a) ==
    /\ DOMAIN events = 1 .. k /\ Len(events) = k
    /\ Delivers(events, k, old, State(l, d, r))
    /\ \A q \in 1 .. k : events[q].ver <= r
    /\ d = "topology" => Orderly(events, k, l, a)

\* A list of a finite set has every element once.
LEMMA ListFull ==
  ASSUME NEW S, IsFiniteSet(S), NEW n \in Nat, n = Cardinality(S), NEW f \in [1 .. n -> S],
         \A i, j \in 1 .. n : f[i] = f[j] => i = j
  PROVE  \A x \in S : \E i \in 1 .. n : f[i] = x
<1>1. f \in Injection(1 .. n, S) BY DEF Injection, IsInjective
<1>2. IsFiniteSet(1 .. n) /\ Cardinality(1 .. n) = n BY FS_Interval
<1>3. f \in Surjection(1 .. n, S) BY <1>1, <1>2, FS_Injection
<1> QED BY <1>3 DEF Surjection

\* The list of a finite set has each element once.
LEMMA ListOnce ==
  ASSUME NEW S, IsFiniteSet(S), NEW i \in 1 .. Cardinality(S), NEW j \in 1 .. Cardinality(S),
         W!SetToSeq(S)[i] = W!SetToSeq(S)[j]
  PROVE  i = j
<1> DEFINE n == Cardinality(S)
<1>1. n \in Nat /\ ExistsBijection(1 .. n, S) BY FS_CardinalityType
<1>2. \E f \in [1 .. n -> S] : W!IsInjective(f)
  <2>1. PICK f : f \in Bijection(1 .. n, S) BY <1>1 DEF ExistsBijection
  <2>2. f \in [1 .. n -> S] /\ IsInjective(f) BY <2>1 DEF Bijection, Injection
  <2>3. W!IsInjective(f) BY <2>2 DEF IsInjective, W!IsInjective
  <2> QED BY <2>2, <2>3
<1>3. W!SetToSeq(S) = CHOOSE f \in [1 .. n -> S] : W!IsInjective(f) BY SameCardinality, Zenon DEF W!SetToSeq
<1>4. W!IsInjective(W!SetToSeq(S)) /\ W!SetToSeq(S) \in [1 .. n -> S] BY <1>2, <1>3, Zenon
<1>5. PICK f \in [1 .. n -> S] : f = W!SetToSeq(S) /\ W!IsInjective(f) BY <1>4
<1> HIDE DEF n
<1>6. DOMAIN f = 1 .. n OBVIOUS
<1>7. i \in DOMAIN f /\ j \in DOMAIN f /\ f[i] = f[j] BY <1>5, <1>6 DEF n
<1> QED BY <1>5, <1>7 DEF W!IsInjective

\* A snapshot tells all that the directory holds.
LEMMA SnapshotAnswer ==
  ASSUME W!WatcherTypeOK, NEW w \in Watchers, NEW r \in 1 .. W!Now(CtxOf[w]), NEW a \in 0 .. r
  PROVE  \E k \in Nat : Answer(W!Snapshot(w, r), k, log[CtxOf[w]], DirOf[w], r, Blank, a)
<1> DEFINE c == CtxOf[w]
           d == DirOf[w]
           l == log[c]
           state == W!StateAt(c, d, r)
           H == {k \in UsedKeys : state[k] # None}
           held == W!SetToSeq(H)
           events == W!Snapshot(w, r)
<1>1. /\ c \in Contexts /\ l \in Seq(W!Change) /\ W!Now(c) = Len(l) + 1 /\ Len(l) \in Nat
      /\ r \in Nat /\ r - 1 <= Len(l)
  <2>1. c \in Contexts /\ l \in Seq(W!Change) /\ W!Now(c) = Len(l) + 1 BY NowType
  <2>2. Len(l) \in Nat BY <2>1
  <2> HIDE DEF c, l
  <2>3. r \in 1 .. Len(l) + 1 BY <2>1 DEF c
  <2>4. r \in Nat /\ r - 1 <= Len(l) BY <2>2, <2>3
  <2> QED BY <2>1, <2>2, <2>4
<1>2. ASSUME NEW k \in H
      PROVE  /\ W!LastChange(c, d, k, r) = LastTouch(l, d, k, r)
             /\ LastTouch(l, d, k, r) \in Touching(l, d, k, r)
             /\ l[LastTouch(l, d, k, r)].val = state[k]
  <2> DEFINE n == W!LastChange(c, d, k, r)
  <2>1. n = LastTouch(l, d, k, r) BY DEF W!LastChange, LastTouch, Touching
  <2>2. state[k] = IF n = 0 THEN None ELSE l[n].val BY DEF W!StateAt, W!ValueAt
  <2>3. n # 0 /\ state[k] = l[n].val BY <2>2
  <2> HIDE DEF n, l
  <2>4. n \in {0} \cup Touching(l, d, k, r) BY <1>1, <2>1, LastFacts
  <2>5. LastTouch(l, d, k, r) \in Touching(l, d, k, r) /\ l[LastTouch(l, d, k, r)].val = state[k] BY <2>1, <2>3, <2>4
  <2> QED BY <2>1, <2>5 DEF n
<1>2a. state = State(l, d, r) BY StateOfLog
<1> HIDE DEF state, l, c, d
<1>3. IsFiniteSet(H)
  <2> DEFINE all == {l[n].key : n \in 1 .. r - 1}
             f == [n \in 1 .. r - 1 |-> l[n].key]
  <2>1. f \in Surjection(1 .. r - 1, all) BY DEF Surjection
  <2>2. IsFiniteSet(1 .. r - 1) BY <1>1, FS_Interval
  <2>3. H \subseteq all
    <3> SUFFICES ASSUME NEW k \in H PROVE k \in all OBVIOUS
    <3> HIDE DEF H
    <3>1. PICK n \in 1 .. r - 1 : l[n].key = k BY <1>2 DEF Touching
    <3> QED BY <3>1
  <2>4. IsFiniteSet(all)
    <3> HIDE DEF f, all
    <3> QED BY <2>1, <2>2, FS_Surjection
  <2> HIDE DEF all, H
  <2> QED BY <2>3, <2>4, FS_Subset
<1>3a. \A y \in UsedKeys : y \in H <=> state[y] # None OBVIOUS
<1>3b. H \subseteq UsedKeys OBVIOUS
<1> HIDE DEF H
<1>4. PICK m \in Nat : m = Cardinality(H) /\ held \in [1 .. m -> H] /\ Len(held) = m
  BY <1>3, ListTyped
<1>5. events = [i \in 1 .. m |-> [key |-> held[i], val |-> state[held[i]],
                                  ver |-> W!LastChange(c, d, held[i], r) + 1]]
  BY <1>4 DEF W!Snapshot, state, H, c, d
<1>6. \A i, j \in 1 .. m : held[i] = held[j] => i = j BY <1>3, <1>4, ListOnce
<1> HIDE DEF events, held
<1>7. \A x \in H : \E i \in 1 .. m : held[i] = x BY <1>3, <1>4, <1>6, ListFull
<1>8. DOMAIN events = 1 .. m /\ Len(events) = m BY <1>5
<1>9. ASSUME NEW j \in 1 .. m
      PROVE  /\ held[j] \in H /\ events[j].key = held[j] /\ events[j].val = state[held[j]]
             /\ events[j].ver = LastTouch(l, d, held[j], r) + 1
             /\ LastTouch(l, d, held[j], r) \in Touching(l, d, held[j], r)
             /\ l[LastTouch(l, d, held[j], r)].val = state[held[j]]
  <2>1. held[j] \in H BY <1>4
  <2>2. /\ W!LastChange(c, d, held[j], r) = LastTouch(l, d, held[j], r)
        /\ LastTouch(l, d, held[j], r) \in Touching(l, d, held[j], r)
        /\ l[LastTouch(l, d, held[j], r)].val = state[held[j]]
    BY <1>2, <2>1
  <2> QED BY <1>5, <2>1, <2>2
<1>10. ASSUME NEW j \in 1 .. m PROVE Final(events, m, j)
  <2>1. \A i \in 1 .. m : i > j => events[i].key # events[j].key
    <3> SUFFICES ASSUME NEW i \in 1 .. m, i > j, events[i].key = events[j].key PROVE FALSE OBVIOUS
    <3>1. held[i] = held[j] BY <1>9
    <3>2. i = j BY <1>6, <3>1
    <3> QED BY <3>2
  <2> QED BY <2>1 DEF Final
<1>11. Delivers(events, m, Blank, State(l, d, r))
  <2> SUFFICES ASSUME NEW y \in UsedKeys
               PROVE  \/ Untouched(events, m, y) /\ state[y] = Blank[y]
                      \/ \E j \in 1 .. m : Final(events, m, j) /\ events[j].key = y /\ events[j].val = state[y]
    BY <1>2a DEF Delivers
  <2>1. CASE y \in H
    <3>1. PICK j \in 1 .. m : held[j] = y BY <1>7, <2>1
    <3>2. Final(events, m, j) /\ events[j].key = y /\ events[j].val = state[y] BY <1>9, <1>10, <3>1
    <3> QED BY <3>2
  <2>2. CASE y \notin H
    <3>1. state[y] = None /\ Blank[y] = None BY <1>3a, <2>2 DEF Blank
    <3>2. Untouched(events, m, y) BY <1>9, <2>2 DEF Untouched
    <3> QED BY <3>1, <3>2
  <2> QED BY <2>1, <2>2
<1>12. \A q \in 1 .. m : events[q].ver <= r
  <2> SUFFICES ASSUME NEW q \in 1 .. m PROVE events[q].ver <= r OBVIOUS
  <2>1. PICK n : n = LastTouch(l, d, held[q], r) OBVIOUS
  <2>2. events[q].ver = n + 1 /\ n \in 1 .. r - 1 BY <1>9, <2>1 DEF Touching
  <2> QED BY <1>1, <2>2
<1>13. ASSUME d = "topology" PROVE Orderly(events, m, l, a)
  <2> SUFFICES ASSUME NEW q \in 1 .. m
               PROVE  /\ \E n \in 1 .. Len(l) : Sent(events[q], l, a, n)
                      /\ \A j \in 1 .. q : events[j].key = events[q].key => events[j].ver <= events[q].ver
    BY DEF Orderly
  <2>1. PICK n : n = LastTouch(l, d, held[q], r) OBVIOUS
  <2>2. /\ events[q].key = held[q] /\ events[q].val = l[n].val /\ events[q].ver = n + 1
        /\ n \in 1 .. r - 1 /\ d \in l[n].dirs /\ l[n].key = held[q]
    BY <1>9, <2>1 DEF Touching
  <2>3. \A z \in Touching(l, "topology", events[q].key, a) : z <= n
    <3> SUFFICES ASSUME NEW z \in Touching(l, d, held[q], a) PROVE z <= n BY <1>13, <2>2
    <3>1. z \in Touching(l, d, held[q], r) BY <1>1 DEF Touching
    <3>2. \A x \in Touching(l, d, held[q], r) : x <= LastTouch(l, d, held[q], r) BY <1>1, LastFacts
    <3> QED BY <2>1, <3>1, <3>2
  <2>4. n \in 1 .. Len(l) BY <1>1, <2>2
  <2>5. Sent(events[q], l, a, n) BY <1>13, <2>2, <2>3 DEF Sent
  <2>6. ASSUME NEW j \in 1 .. q, events[j].key = events[q].key PROVE events[j].ver <= events[q].ver
    <3>1. j \in 1 .. m OBVIOUS
    <3>2. held[j] = held[q] BY <1>9, <2>6, <3>1
    <3>3. j = q BY <1>6, <3>1, <3>2
    <3>4. events[q].ver \in Nat BY <1>1, <2>2
    <3> QED BY <3>3, <3>4
  <2> QED BY <2>4, <2>5, <2>6
<1>14. Answer(events, m, l, d, r, Blank, a) BY <1>8, <1>11, <1>12, <1>13 DEF Answer
<1> QED BY <1>14 DEF events, l, d, c

\* A watch answer tells all the changes since the last one.
LEMMA ChangesAnswer ==
  ASSUME W!WatcherTypeOK, NEW w \in Watchers, NEW r \in 1 .. W!Now(CtxOf[w]),
         watch[w].at # 0, watch[w].at < r
  PROVE  \E k \in Nat :
            Answer(W!Changes(w, r), k, log[CtxOf[w]], DirOf[w], r,
                   State(log[CtxOf[w]], DirOf[w], watch[w].at), watch[w].at)
<1> DEFINE c == CtxOf[w]
           d == DirOf[w]
           l == log[c]
           a == watch[w].at
           U == W!Unsent(w, r)
           ns == CHOOSE f \in [1 .. Cardinality(U) -> U] : \A i, j \in DOMAIN f : i < j => f[i] < f[j]
           events == W!Changes(w, r)
<1>1. /\ c \in Contexts /\ l \in Seq(W!Change) /\ W!Now(c) = Len(l) + 1 /\ Len(l) \in Nat
      /\ r \in Nat /\ r - 1 <= Len(l)
  <2>1. c \in Contexts /\ l \in Seq(W!Change) /\ W!Now(c) = Len(l) + 1 BY NowType
  <2>2. Len(l) \in Nat BY <2>1
  <2> HIDE DEF c, l
  <2>3. r \in 1 .. Len(l) + 1 BY <2>1 DEF c
  <2>4. r \in Nat /\ r - 1 <= Len(l) BY <2>2, <2>3
  <2> QED BY <2>1, <2>2, <2>4
<1>2. a \in Nat /\ a # 0 /\ a < r BY DEF W!WatcherTypeOK, W!WatcherRec
<1>3. U = {n \in a .. r - 1 : d \in l[n].dirs} BY DEF W!Unsent
<1> HIDE DEF U, l, a
<1>4. IsFiniteSet(U) /\ U \in SUBSET Nat /\ U \subseteq 1 .. Len(l)
  <2>1. U \subseteq 1 .. Len(l)
    <3> SUFFICES ASSUME NEW n \in U PROVE n \in 1 .. Len(l) OBVIOUS
    <3>1. n \in a .. r - 1 BY <1>3
    <3> QED BY <1>1, <1>2, <3>1
  <2>2. IsFiniteSet(1 .. Len(l)) BY <1>1, FS_Interval
  <2>3. IsFiniteSet(U) BY <2>1, <2>2, FS_Subset
  <2>4. 1 .. Len(l) \subseteq Nat BY <1>1
  <2> QED BY <2>1, <2>3, <2>4
<1>5. Ascending(U) # {} BY <1>4, AscendingExists
<1>6. ns \in [1 .. Cardinality(U) -> U] /\ \A i, j \in DOMAIN ns : i < j => ns[i] < ns[j]
  <2>1. \E f \in [1 .. Cardinality(U) -> U] : \A i, j \in DOMAIN f : i < j => f[i] < f[j]
    BY <1>5, Zenon DEF Ascending
  <2> QED BY <2>1, Zenon
<1>7. PICK m \in Nat : m = Cardinality(U) BY <1>4, FS_CardinalityType
<1>8. events = [i \in 1 .. Len(ns) |-> [key |-> l[ns[i]].key, val |-> l[ns[i]].val, ver |-> ns[i] + 1]]
  <2>1. W!Cardinality(W!Unsent(w, r)) = Cardinality(W!Unsent(w, r)) BY SameCardinality
  <2> QED BY <2>1, Zenon DEF W!Changes, U, l, c
<1> HIDE DEF events, ns
<1>9. Len(ns) = m /\ ns \in [1 .. m -> U] /\ \A i, j \in 1 .. m : i < j => ns[i] < ns[j]
  BY <1>6, <1>7
<1>10. \A i, j \in 1 .. m : ns[i] = ns[j] => i = j
  <2> SUFFICES ASSUME NEW i \in 1 .. m, NEW j \in 1 .. m, ns[i] = ns[j] PROVE i = j OBVIOUS
  <2>1. ns[i] \in Nat /\ ns[j] \in Nat BY <1>4, <1>9
  <2>2. ~(i < j) /\ ~(j < i) BY <1>9, <2>1
  <2> QED BY <2>2
<1>11. \A x \in U : \E i \in 1 .. m : ns[i] = x BY <1>4, <1>7, <1>9, <1>10, ListFull
<1>12. DOMAIN events = 1 .. m /\ Len(events) = m BY <1>8, <1>9
<1>13. ASSUME NEW j \in 1 .. m
       PROVE  /\ ns[j] \in a .. r - 1 /\ ns[j] \in 1 .. Len(l) /\ d \in l[ns[j]].dirs
              /\ events[j].key = l[ns[j]].key /\ events[j].val = l[ns[j]].val
              /\ events[j].ver = ns[j] + 1
  BY <1>3, <1>4, <1>8, <1>9
<1>14. Delivers(events, m, State(l, d, a), State(l, d, r))
  <2> SUFFICES ASSUME NEW y \in UsedKeys
               PROVE  \/ Untouched(events, m, y) /\ Holds(l, d, y, r) = Holds(l, d, y, a)
                      \/ \E j \in 1 .. m : Final(events, m, j) /\ events[j].key = y /\ events[j].val = Holds(l, d, y, r)
    BY DEF Delivers, State
  <2>1. PICK B : B = Between(l, d, y, a, r) OBVIOUS
  <2> HIDE DEF d
  <2>2a. Holds(l, d, y, r) = IF Between(l, d, y, a, r) = {} THEN Holds(l, d, y, a)
                             ELSE l[W!Max(Between(l, d, y, a, r))].val
    BY <1>1, <1>2, StateFollows
  <2>2. Holds(l, d, y, r) = IF B = {} THEN Holds(l, d, y, a) ELSE l[W!Max(B)].val
    BY <2>1, <2>2a
  <2>3. \A n : n \in B <=> n \in U /\ l[n].key = y BY <1>3, <2>1 DEF Between
  <2>4. CASE B = {}
    <3>1. Untouched(events, m, y) BY <1>9, <1>13, <2>3, <2>4 DEF Untouched
    <3> QED BY <2>2, <2>4, <3>1
  <2>5. CASE B # {}
    <3>0. B \subseteq U BY <2>3
    <3>1. B \subseteq Nat /\ \A x \in B : x <= Len(l)
      <4>1. B \subseteq Nat BY <1>4, <3>0
      <4>2. B \subseteq 1 .. Len(l) BY <1>4, <3>0
      <4> QED BY <1>1, <4>1, <4>2
    <3>2. PICK n : n = W!Max(B) /\ n \in B /\ \A x \in B : x <= n BY <1>1, <2>5, <3>1, Greatest
    <3>3. PICK j \in 1 .. m : ns[j] = n BY <1>11, <2>3, <3>2
    <3>4. events[j].key = y /\ events[j].val = l[n].val BY <1>13, <2>3, <3>2, <3>3
    <3>5. \A i \in 1 .. m : i > j => events[i].key # events[j].key
      <4> SUFFICES ASSUME NEW i \in 1 .. m, i > j, events[i].key = y PROVE FALSE BY <3>4
      <4>1. ns[i] \in B BY <1>9, <1>13, <2>3
      <4>2. ns[i] <= n /\ n < ns[i] BY <1>9, <3>2, <3>3, <4>1
      <4>3. n \in Nat /\ ns[i] \in Nat BY <3>1, <3>2, <4>1
      <4> QED BY <4>2, <4>3
    <3>6. Final(events, m, j) BY <3>5 DEF Final
    <3> QED BY <2>2, <2>5, <3>2, <3>4, <3>6
  <2> QED BY <2>4, <2>5
<1>15. \A q \in 1 .. m : events[q].ver <= r
  <2> SUFFICES ASSUME NEW q \in 1 .. m PROVE events[q].ver <= r OBVIOUS
  <2>1. PICK n : n = ns[q] OBVIOUS
  <2>2. events[q].ver = n + 1 /\ n \in a .. r - 1 BY <1>13, <2>1
  <2> QED BY <1>1, <1>2, <2>2
<1>16. ASSUME d = "topology" PROVE Orderly(events, m, l, a)
  <2> SUFFICES ASSUME NEW q \in 1 .. m
               PROVE  /\ \E n \in 1 .. Len(l) : Sent(events[q], l, a, n)
                      /\ \A j \in 1 .. q : events[j].key = events[q].key => events[j].ver <= events[q].ver
    BY DEF Orderly
  <2>1. PICK n : n = ns[q] OBVIOUS
  <2>2. /\ events[q].key = l[n].key /\ events[q].val = l[n].val /\ events[q].ver = n + 1
        /\ n \in a .. r - 1 /\ d \in l[n].dirs /\ n \in 1 .. Len(l)
    BY <1>13, <2>1
  <2>3. \A z \in Touching(l, "topology", events[q].key, a) : z <= n
    BY <1>1, <1>2, <2>2 DEF Touching
  <2>4. Sent(events[q], l, a, n) BY <1>16, <2>2, <2>3 DEF Sent
  <2>5. ASSUME NEW j \in 1 .. q PROVE events[j].ver <= events[q].ver
    <3>1. j \in 1 .. m /\ (j < q \/ j = q) OBVIOUS
    <3>2. PICK p : p = ns[j] OBVIOUS
    <3>3. events[j].ver = p + 1 /\ p \in 1 .. Len(l) BY <1>13, <3>1, <3>2
    <3>4. p < n \/ p = n BY <1>9, <2>1, <3>1, <3>2
    <3> QED BY <1>1, <2>2, <3>3, <3>4
  <2> QED BY <2>2, <2>4, <2>5
<1>17. Answer(events, m, l, d, r, State(l, d, a), a) BY <1>12, <1>14, <1>15, <1>16 DEF Answer
<1> QED BY <1>17 DEF events, l, d, c, a

-----------------------------------------------------------------------------
(* What is known after an answer, against what was delivered.            *)

\* Every node that is known has the value that was delivered for its key, or
\* nothing was delivered for it; and of every value in G that was delivered
\* the key is known, or nothing was delivered for it and it was not known.
Result(K, J, old, new, G) ==
    /\ \A i \in J : new[KeyOf(i)] = i \/ (i \in K /\ new[KeyOf(i)] = old[KeyOf(i)])
    /\ \A i \in G : \/ new[KeyOf(i)] = None
                    \/ \E j \in J : KeyOf(j) = KeyOf(i)
                    \/ new[KeyOf(i)] = old[KeyOf(i)] /\ \A j \in K : KeyOf(j) # KeyOf(i)

\* A key has one last event.
LEMMA FinalOnce ==
  ASSUME NEW events, NEW k \in Nat, NEW i \in 1 .. k, NEW j \in 1 .. k,
         Final(events, k, i), Final(events, k, j), events[i].key = events[j].key
  PROVE  i = j
<1>1. ~(i > j) /\ ~(j > i) BY DEF Final
<1> QED BY <1>1

\* The events of an answer, and what is known after them
LEMMA OutcomeResult ==
  ASSUME NEW events, NEW k \in Nat, NEW K, NEW J, NEW G, NEW old, NEW new,
         Outcome(K, events, k, J, G), Delivers(events, k, old, new),
         \A i \in J \cup G : KeyOf(i) \in UsedKeys,
         \A j \in 1 .. k : events[j].val # None => KeyOf(events[j].val) = events[j].key,
         \A i \in G : \A j \in 1 .. k :
            events[j].val # None /\ events[j].key = KeyOf(i) => events[j].val \in G
  PROVE  Result(K, J, old, new, G)
<1>1. ASSUME NEW i \in J PROVE new[KeyOf(i)] = i \/ (i \in K /\ new[KeyOf(i)] = old[KeyOf(i)])
  <2>1. \/ Untouched(events, k, KeyOf(i)) /\ new[KeyOf(i)] = old[KeyOf(i)]
        \/ \E j \in 1 .. k : Final(events, k, j) /\ events[j].key = KeyOf(i) /\ events[j].val = new[KeyOf(i)]
    BY DEF Delivers
  <2>2. CASE Untouched(events, k, KeyOf(i)) /\ new[KeyOf(i)] = old[KeyOf(i)]
    BY <2>2 DEF Outcome, Untouched
  <2>3. CASE \E j \in 1 .. k : Final(events, k, j) /\ events[j].key = KeyOf(i) /\ events[j].val = new[KeyOf(i)]
    <3>1. PICK j \in 1 .. k : Final(events, k, j) /\ events[j].key = KeyOf(i) /\ events[j].val = new[KeyOf(i)]
      BY <2>3
    <3>2. PICK m \in 1 .. k : Final(events, k, m) /\ events[m].key = KeyOf(i) /\ events[m].val = i
      BY <3>1 DEF Outcome, Untouched
    <3>3. m = j BY <3>1, <3>2, FinalOnce
    <3> QED BY <3>1, <3>2, <3>3
  <2> QED BY <2>1, <2>2, <2>3
<1>2. ASSUME NEW i \in G
      PROVE  \/ new[KeyOf(i)] = None
             \/ \E j \in J : KeyOf(j) = KeyOf(i)
             \/ new[KeyOf(i)] = old[KeyOf(i)] /\ \A j \in K : KeyOf(j) # KeyOf(i)
  <2>1. \/ Untouched(events, k, KeyOf(i)) /\ new[KeyOf(i)] = old[KeyOf(i)]
        \/ \E j \in 1 .. k : Final(events, k, j) /\ events[j].key = KeyOf(i) /\ events[j].val = new[KeyOf(i)]
    BY DEF Delivers
  <2>2. CASE Untouched(events, k, KeyOf(i)) /\ new[KeyOf(i)] = old[KeyOf(i)]
    <3>1. \A j \in K : KeyOf(j) = KeyOf(i) => j \in J BY <2>2 DEF Outcome
    <3> QED BY <2>2, <3>1
  <2>3. CASE \E j \in 1 .. k : Final(events, k, j) /\ events[j].key = KeyOf(i) /\ events[j].val = new[KeyOf(i)]
    <3>1. PICK j \in 1 .. k : Final(events, k, j) /\ events[j].key = KeyOf(i) /\ events[j].val = new[KeyOf(i)]
      BY <2>3
    <3>2. CASE events[j].val = None BY <3>1, <3>2
    <3>3. CASE events[j].val # None
      <4>1. events[j].val \in G BY <3>1, <3>3
      <4>2. events[j].val \in J BY <3>1, <4>1 DEF Outcome
      <4>3. KeyOf(events[j].val) = KeyOf(i) BY <3>1, <3>3
      <4> QED BY <4>2, <4>3
    <3> QED BY <3>2, <3>3
  <2> QED BY <2>1, <2>2, <2>3
<1> QED BY <1>1, <1>2 DEF Result

\* Topologies from before a revision and from events up to a later one
LEMMA RecentDated ==
  ASSUME NEW t, NEW c, NEW l, Len(l) \in Nat, NEW a \in Nat, NEW k \in Nat, NEW events, NEW r \in Nat,
         Recent(t, c, l, a, events, k), a <= r, \A q \in 1 .. k : events[q].ver <= r
  PROVE  DatedBy(t, c, l, r)
<1> SUFFICES ASSUME NEW d \in Ids, t[d] # None, t[d].ctx = c
             PROVE  \E n \in 1 .. Len(l) : ChangeOf(t[d], l, n) /\ n < r
  BY DEF DatedBy
<1>1. PICK n \in 1 .. Len(l) :
         /\ ChangeOf(t[d], l, n)
         /\ n < a \/ \E j \in 1 .. k : events[j].ver = n + 1 /\ events[j].key = l[n].key
  BY DEF Recent
<1>2. CASE n < a
  <2>1. n < r BY <1>2
  <2> QED BY <1>1, <2>1
<1>3. CASE \E j \in 1 .. k : events[j].ver = n + 1
  <2>1. n + 1 <= r BY <1>3
  <2>2. n < r BY <2>1
  <2> QED BY <1>1, <2>2
<1> QED BY <1>1, <1>2, <1>3

\* The keys of the nodes of a context, and of what is known of them
LEMMA PictureUsed ==
  ASSUME NEW N, Keyed(N), NEW v \in Neats(N), Placed(v.topo, N), NEW c, NEW top
  PROVE  Picture(v, c, top) \subseteq OwnInfos(N, c)
<1>1. Tidy(v.disc, N) BY NeatFields
<1>2. ASSUME NEW i \in KnownIn(v.disc, c) PROVE i \in OwnInfos(N, c)
  BY <1>1, HeldFacts DEF KnownIn, OwnInfos
<1>3. ASSUME NEW i \in Shown(v.topo, c) PROVE i \in OwnInfos(N, c)
  BY DEF Shown, Placed, OwnInfos
<1> QED BY <1>2, <1>3 DEF Picture

\* What a context may register is among its items.
LEMMA OwnUsed ==
  ASSUME setup \in Setups, NEW c, NEW i \in OwnInfos(Registrable(setup), c)
  PROVE  KeyOf(i) \in UsedKeys /\ i \in Items[c] /\ c \in {CtxOf[w] : w \in setup} /\ c \in Contexts
<1>1. PICK x \in Registrable(setup) : x.ctx = c /\ i = x.info BY DEF OwnInfos
<1>2. x \in Nodes /\ x.ctx \in {CtxOf[w] : w \in setup} /\ x.info \in Items[x.ctx] BY DEF Registrable
<1>3. c \in Contexts BY <1>1, <1>2 DEF Nodes
<1>4. i \in AllItems BY <1>1, <1>2, <1>3 DEF AllItems
<1> QED BY <1>1, <1>2, <1>3, <1>4 DEF UsedKeys

\* The items of a watched context may be registered.
LEMMA ItemsOwn ==
  ASSUME setup \in Setups, NEW c \in Contexts, c \in {CtxOf[w] : w \in setup}, NEW i \in Items[c]
  PROVE  i \in OwnInfos(Registrable(setup), c)
<1> DEFINE x == [info |-> i, ctx |-> c]
<1>1. i \in Infos BY DiscoveryConstants
<1>2. x \in Registrable(setup) BY <1>1 DEF Registrable, Nodes
<1>3. x.ctx = c /\ x.info = i OBVIOUS
<1> HIDE DEF x
<1> QED BY <1>2, <1>3 DEF OwnInfos

\* What no other context stands in the way of is so for all the nodes with its key.
LEMMA GoalClosed ==
  ASSUME NEW N, NEW c, NEW top, NEW i \in Goal(N, c, top), NEW j \in OwnInfos(N, c), KeyOf(j) = KeyOf(i)
  PROVE  j \in Goal(N, c, top)
BY KeyFields DEF Goal, Lone, Shares

\* What an answer of a watcher makes of a view
IsTop(w) == DirOf[w] = "topology"
Effect(N, v, u, w, l, r, K, old) ==
    /\ Placed(u.topo, N)
    /\ IsTop(w) => u.disc = v.disc /\ Aside(v.topo, u.topo, CtxOf[w]) /\ DatedBy(u.topo, CtxOf[w], l, r)
    /\ ~IsTop(w) => u.topo = v.topo
    /\ Stable(N, CtxOf[w]) =>
         Result(K, Picture(u, CtxOf[w], IsTop(w)), old, State(l, DirOf[w], r), Goal(N, CtxOf[w], IsTop(w)))

\* What the events have in common with the values
LEMMA EventGoal ==
  ASSUME NEW N, Keyed(N), NEW c, NEW top, NEW k \in Nat, NEW events,
         \A j \in 1 .. k : Heard(N, c, events[j])
  PROVE  /\ \A j \in 1 .. k : events[j].val # None => KeyOf(events[j].val) = events[j].key
         /\ \A i \in Goal(N, c, top) : \A j \in 1 .. k :
               events[j].val # None /\ events[j].key = KeyOf(i) => events[j].val \in Goal(N, c, top)
<1>1. \A j \in 1 .. k : events[j].val # None =>
          KeyOf(events[j].val) = events[j].key /\ events[j].val \in OwnInfos(N, c)
  BY HeardFields
<1>2. ASSUME NEW i \in Goal(N, c, top), NEW j \in 1 .. k, events[j].val # None, events[j].key = KeyOf(i)
      PROVE  events[j].val \in Goal(N, c, top)
  <2>1. PICK y \in OwnInfos(N, c) : y = events[j].val /\ KeyOf(y) = KeyOf(i) BY <1>1, <1>2
  <2> QED BY <2>1, GoalClosed
<1> QED BY <1>1, <1>2

\* From an outcome to a result, for the nodes of the configuration
LEMMA EffectResult ==
  ASSUME setup \in Setups, NEW N, N = Registrable(setup), Keyed(N), NEW c, NEW top,
         NEW v \in Neats(N), Placed(v.topo, N),
         NEW k \in Nat, NEW events, \A j \in 1 .. k : Heard(N, c, events[j]),
         NEW K, NEW old, NEW new, Delivers(events, k, old, new),
         Outcome(K, events, k, Picture(v, c, top), Goal(N, c, top))
  PROVE  Result(K, Picture(v, c, top), old, new, Goal(N, c, top))
<1>1. PICK J : J = Picture(v, c, top) OBVIOUS
<1>2. PICK G : G = Goal(N, c, top) OBVIOUS
<1>3. J \subseteq OwnInfos(N, c) BY <1>1, PictureUsed
<1>4. G \subseteq OwnInfos(N, c) BY <1>2 DEF Goal, Lone
<1>5. \A i \in J \cup G : KeyOf(i) \in UsedKeys BY <1>3, <1>4, OwnUsed
<1>6. \A j \in 1 .. k : events[j].val # None => KeyOf(events[j].val) = events[j].key BY EventGoal
<1>7. \A i \in G : \A j \in 1 .. k :
        events[j].val # None /\ events[j].key = KeyOf(i) => events[j].val \in G
  BY <1>2, EventGoal
<1>8. Outcome(K, events, k, J, G) BY <1>1, <1>2
<1>9. Result(K, J, old, new, G) BY <1>5, <1>6, <1>7, <1>8, OutcomeResult
<1> QED BY <1>1, <1>2, <1>9

\* The events of an answer, handled in their order
LEMMA HandledEffect ==
  ASSUME setup \in Setups, NEW N, N = Registrable(setup), Keyed(N), Roomy(N), Apart(N),
         NEW w \in Watchers, NEW v \in Neats(N), Placed(v.topo, N),
         NEW k \in Nat, NEW events, \A j \in 1 .. k : Heard(N, CtxOf[w], events[j]),
         NEW l, Len(l) \in Nat, NEW r \in Nat, NEW a \in 0 .. r, NEW old,
         Answer(events, k, l, DirOf[w], r, old, a),
         IsTop(w) => DatedBy(v.topo, CtxOf[w], l, a)
  PROVE  Effect(N, v, HandleAll(v, w, events), w, l, r, Picture(v, CtxOf[w], IsTop(w)), old)
<1> DEFINE c == CtxOf[w]
           u == HandleAll(v, w, events)
<1>1. /\ DOMAIN events = 1 .. k /\ Len(events) = k
      /\ Delivers(events, k, old, State(l, DirOf[w], r))
      /\ \A q \in 1 .. k : events[q].ver <= r
      /\ IsTop(w) => Orderly(events, k, l, a)
  BY DEF Answer, IsTop
<1>2. PICK top : top = IsTop(w) OBVIOUS
<1>3. top = (DirOf[w] = "topology") /\ top \in BOOLEAN BY <1>2 DEF IsTop
<1>3a. top <=> DirOf[w] = "topology" BY <1>2 DEF IsTop
<1>4. a \in Nat /\ a <= r OBVIOUS
<1> HIDE DEF u
<1>5. u \in Here(N, v, w) BY <1>1, HereSelf, HandleAllHere DEF u
<1>6. /\ u \in Neats(N) /\ Placed(u.topo, N)
      /\ top => u.disc = v.disc /\ Aside(v.topo, u.topo, c)
      /\ ~top => u.topo = v.topo
  BY <1>3a, <1>5, HereFields
<1>7. ASSUME top PROVE DatedBy(u.topo, c, l, r)
  <2>1. Recent(u.topo, c, l, a, events, k)
    BY <1>1, <1>2, <1>3, <1>4, <1>7, HandleAllRecent DEF u
  <2> DEFINE t == u.topo
  <2> HIDE DEF t, c
  <2>2. Recent(t, c, l, a, events, k) BY <2>1 DEF t
  <2>3. DatedBy(t, c, l, r) BY <1>1, <1>4, <2>2, RecentDated
  <2> QED BY <2>3 DEF t
<1>8. ASSUME Stable(N, c)
      PROVE  Result(Picture(v, c, top), Picture(u, c, top), old, State(l, DirOf[w], r), Goal(N, c, top))
  <2>1. top => DatedBy(v.topo, c, l, a) /\ Orderly(events, k, l, a) BY <1>1, <1>2
  <2>2. Outcome(Picture(v, c, top), events, k, Picture(u, c, top), Goal(N, c, top))
    BY <1>1, <1>3, <1>4, <1>8, <2>1, HandleAllOutcome DEF u
  <2>3. PICK K : K = Picture(v, c, top) OBVIOUS
  <2>4. PICK new : new = State(l, DirOf[w], r) OBVIOUS
  <2> HIDE DEF c
  <2>5. Result(K, Picture(u, c, top), old, new, Goal(N, c, top))
    BY <1>1, <1>6, <2>2, <2>3, <2>4, EffectResult DEF c
  <2> QED BY <2>3, <2>4, <2>5
<1> QED BY <1>2, <1>6, <1>7, <1>8 DEF Effect, u

\* A snapshot that reconciles
LEMMA LoadedEffect ==
  ASSUME setup \in Setups, NEW N, N = Registrable(setup), Keyed(N), Roomy(N), Apart(N),
         NEW w \in Watchers, NEW v \in Neats(N), Placed(v.topo, N),
         NEW k \in Nat, NEW events, \A j \in 1 .. k : Heard(N, CtxOf[w], events[j]),
         NEW l, Len(l) \in Nat, NEW r \in Nat, NEW a \in 0 .. r, NEW old,
         Answer(events, k, l, DirOf[w], r, old, a),
         IsTop(w) => DatedBy(v.topo, CtxOf[w], l, a)
  PROVE  Effect(N, v, LoadSnapshot(v, w, events), w, l, r, {}, old)
<1> DEFINE c == CtxOf[w]
           u == LoadSnapshot(v, w, events)
<1>1. /\ DOMAIN events = 1 .. k /\ Len(events) = k
      /\ Delivers(events, k, old, State(l, DirOf[w], r))
      /\ \A q \in 1 .. k : events[q].ver <= r
      /\ IsTop(w) => Orderly(events, k, l, a)
  BY DEF Answer, IsTop
<1>2. PICK top : top = IsTop(w) OBVIOUS
<1>3. top = (DirOf[w] = "topology") /\ top \in BOOLEAN BY <1>2 DEF IsTop
<1>4. a \in Nat /\ a <= r OBVIOUS
<1> HIDE DEF u
<1>5. u \in Neats(N) BY <1>1, LoadFacts DEF u, Reached
<1>6. ASSUME top
      PROVE  /\ u.disc = v.disc /\ Placed(u.topo, N) /\ Aside(v.topo, u.topo, c)
             /\ DatedBy(u.topo, c, l, r)
             /\ Stable(N, c) => Outcome({}, events, k, Picture(u, c, top), Goal(N, c, top))
  <2>0. DirOf[w] = "topology" /\ Orderly(events, k, l, a) /\ DatedBy(v.topo, CtxOf[w], l, a)
    BY <1>1, <1>2, <1>3, <1>6
  <2>1. /\ u.disc = v.disc /\ Placed(u.topo, N) /\ Aside(v.topo, u.topo, c)
        /\ Recent(u.topo, c, l, a, events, k)
        /\ Brought(N, w, u, events, k, TRUE)
    <3>1. LoadedTopologies(N, v, w, u, events, k, l, a) BY <1>1, <1>4, <2>0, LoadTopologies DEF u
    <3> QED BY <3>1 DEF LoadedTopologies
  <2> DEFINE t == u.topo
  <2> HIDE DEF t, c
  <2>2. Recent(t, c, l, a, events, k) BY <2>1 DEF t
  <2>3. DatedBy(t, c, l, r) BY <1>1, <1>4, <2>2, RecentDated
  <2>4. top = TRUE BY <1>3, <1>6
  <2> QED BY <2>1, <2>3, <2>4 DEF t, c, Brought
<1>7. ASSUME ~top
      PROVE  /\ u.topo = v.topo
             /\ Stable(N, c) => Outcome({}, events, k, Picture(u, c, top), Goal(N, c, top))
  <2>0. DirOf[w] # "topology" BY <1>3, <1>7
  <2>3. DOMAIN events = 1 .. k /\ Len(events) = k BY <1>1
  <2>1. /\ u.topo = v.topo
        /\ Brought(N, w, u, events, k, FALSE)
    <3>1. LoadedNodes(N, v, w, u, events, k) BY <2>3, <2>0, LoadNodes DEF u
    <3> QED BY <3>1 DEF LoadedNodes
  <2>2. top = FALSE BY <1>3, <1>7
  <2> QED BY <2>1, <2>2 DEF Brought
<1>8. Placed(u.topo, N) BY <1>6, <1>7
<1>9. ASSUME Stable(N, c)
      PROVE  Result({}, Picture(u, c, top), old, State(l, DirOf[w], r), Goal(N, c, top))
  <2>1. Outcome({}, events, k, Picture(u, c, top), Goal(N, c, top)) BY <1>6, <1>7, <1>9
  <2>2. PICK new : new = State(l, DirOf[w], r) OBVIOUS
  <2>3. PICK K : K = {} OBVIOUS
  <2> HIDE DEF c
  <2>4. Result(K, Picture(u, c, top), old, new, Goal(N, c, top))
    BY <1>1, <1>5, <1>8, <2>1, <2>2, <2>3, EffectResult DEF c
  <2> QED BY <2>2, <2>3, <2>4
<1> QED BY <1>2, <1>6, <1>7, <1>8, <1>9 DEF Effect, u

-----------------------------------------------------------------------------
(* The requests of the watchers, and how new the topologies are.         *)

\* What the requests of the watchers have to do with the snapshot indexes
Reading ==
    /\ \A w \in Watchers :
          /\ watch[w].rpc # "off" => w \in setup
          /\ watch[w].rev # 0 => w \in indexed
          /\ w \in indexed /\ watch[w].rev = 0 => CtxOf[w] \in Compacting
          /\ watch[w].rpc = "range" => watch[w].rev = 0
    /\ \A c \in Contexts \ Compacting : floor[c] = 0

\* The topologies are from changes, and those of a context are not newer than
\* its watcher.
Dated(c, b) == DatedBy(topo, c, log[c], b)
Dates ==
    /\ Placed(topo, Registrable(setup))
    /\ \A c \in Contexts : Dated(c, W!Now(c))
    /\ \A w \in setup : IsTop(w) =>
          /\ watch[w].rev # 0 => Dated(CtxOf[w], watch[w].rev)
          /\ watch[w].rpc = "range" => Dated(CtxOf[w], watch[w].at)

\* The nodes that may be registered
LEMMA Members ==
  ASSUME WellNamed, WellApart, SetInv
  PROVE  /\ setup \in Setups /\ View \in Neats(Registrable(setup))
         /\ Keyed(Registrable(setup)) /\ Roomy(Registrable(setup)) /\ Apart(Registrable(setup))
BY DEF WellNamed, WellApart, SetInv

\* A snapshot
LEMMA RangeEffect ==
  ASSUME WellNamed, WellApart, WatchInv, SetInv, Dates, NEW w \in Watchers, w \in setup,
         NEW r \in 1 .. W!Now(CtxOf[w]), RangeAnswered(w, r)
  PROVE  Effect(Registrable(setup), View, View', w, log[CtxOf[w]], r,
                IF Reconciles(w) THEN {} ELSE Picture(View, CtxOf[w], IsTop(w)), Blank)
<1>1. PICK N : N = Registrable(setup) OBVIOUS
<1>2. PICK v : v = View OBVIOUS
<1>3. PICK l : l = log[CtxOf[w]] OBVIOUS
<1>4. setup \in Setups /\ v \in Neats(N) /\ Keyed(N) /\ Roomy(N) /\ Apart(N)
  BY <1>1, <1>2, Members
<1>5. Placed(v.topo, N) BY <1>1, <1>2 DEF Dates, View
<1>6. W!WatcherTypeOK /\ LogInv BY DEF WatchInv, SetInv
<1>7. l \in Seq(W!Change) /\ W!Now(CtxOf[w]) = Len(l) + 1 BY <1>3, <1>6, NowType
<1>8. Len(l) \in Nat /\ r \in Nat BY <1>7
<1>9. watch[w].rpc = "range" /\ r \in watch[w].at .. W!Now(CtxOf[w])
  BY DEF RangeAnswered, W!RangeAnswered
<1>10. watch[w].at \in Nat BY <1>6 DEF W!WatcherTypeOK, W!WatcherRec
<1>11. PICK a \in 0 .. r : a = watch[w].at BY <1>8, <1>9, <1>10
<1>12. IsTop(w) => DatedBy(v.topo, CtxOf[w], l, a)
  BY <1>2, <1>3, <1>9, <1>11 DEF Dates, Dated, View
<1>13. PICK events : events = W!Snapshot(w, r) OBVIOUS
<1>14. PICK k \in Nat : Answer(events, k, l, DirOf[w], r, Blank, a)
  BY <1>3, <1>6, <1>13, SnapshotAnswer
<1>15. \A j \in 1 .. k : Heard(N, CtxOf[w], events[j])
  <2>1. PICK m \in Nat : /\ DOMAIN events = 1 .. m
                         /\ \A j \in 1 .. m : Heard(N, CtxOf[w], events[j])
    BY <1>1, <1>6, <1>13, SnapshotHeard
  <2>2. DOMAIN events = 1 .. k BY <1>14 DEF Answer
  <2> QED BY <2>1, <2>2
<1>16. DOMAIN events = 1 .. k BY <1>14 DEF Answer
<1>17. CASE Reconciles(w)
  <2>1. PICK u : u = LoadSnapshot(v, w, events) OBVIOUS
  <2>2. Become(u) BY <1>2, <1>13, <1>17, <2>1 DEF RangeAnswered
  <2>3. u \in Neats(N) BY <1>4, <1>15, <1>16, <2>1, LoadFacts DEF Reached
  <2>4. View' = u BY <2>2, <2>3, BecameView
  <2>5. Effect(N, v, u, w, l, r, {}, Blank)
    BY <1>1, <1>4, <1>5, <1>8, <1>12, <1>14, <1>15, <2>1, LoadedEffect
  <2> QED BY <1>1, <1>2, <1>3, <1>17, <2>4, <2>5
<1>18. CASE ~Reconciles(w)
  <2>1. PICK u : u = HandleAll(v, w, events) OBVIOUS
  <2>2. Become(u) BY <1>2, <1>13, <1>18, <2>1 DEF RangeAnswered
  <2>3. u \in Neats(N) BY <1>4, <1>15, <1>16, <2>1, LoadFacts DEF Reached
  <2>4. View' = u BY <2>2, <2>3, BecameView
  <2>5. Effect(N, v, u, w, l, r, Picture(v, CtxOf[w], IsTop(w)), Blank)
    BY <1>1, <1>4, <1>5, <1>8, <1>12, <1>14, <1>15, <2>1, HandledEffect
  <2> QED BY <1>1, <1>2, <1>3, <1>18, <2>4, <2>5
<1> QED BY <1>17, <1>18

\* A watch answer
LEMMA WriteEffect ==
  ASSUME WellNamed, WellApart, WatchInv, SetInv, Dates, NEW w \in Watchers, w \in setup,
         NEW r \in 1 .. W!Now(CtxOf[w]), WatchWrite(w, r)
  PROVE  Effect(Registrable(setup), View, View', w, log[CtxOf[w]], r,
                Picture(View, CtxOf[w], IsTop(w)), State(log[CtxOf[w]], DirOf[w], watch[w].at))
<1>1. PICK N : N = Registrable(setup) OBVIOUS
<1>2. PICK v : v = View OBVIOUS
<1>3. PICK l : l = log[CtxOf[w]] OBVIOUS
<1>4. setup \in Setups /\ v \in Neats(N) /\ Keyed(N) /\ Roomy(N) /\ Apart(N)
  BY <1>1, <1>2, Members
<1>5. Placed(v.topo, N) BY <1>1, <1>2 DEF Dates, View
<1>6. W!WatcherTypeOK /\ LogInv BY DEF WatchInv, SetInv
<1>7. l \in Seq(W!Change) /\ W!Now(CtxOf[w]) = Len(l) + 1 BY <1>3, <1>6, NowType
<1>8. Len(l) \in Nat /\ r \in Nat BY <1>7
<1>9. watch[w].rpc = "watch" /\ r \in watch[w].at + 1 .. W!Now(CtxOf[w])
  BY DEF WatchWrite, W!WatchWrite
<1>10. watch[w].at \in Nat BY <1>6 DEF W!WatcherTypeOK, W!WatcherRec
<1>11. watch[w].at < r BY <1>8, <1>9, <1>10
<1>12. PICK a \in 0 .. r : a = watch[w].at BY <1>8, <1>10, <1>11
<1>13. watch[w].at = watch[w].rev /\ watch[w].rev # 0 /\ watch[w].at # 0
  BY <1>9 DEF WatchInv, Ahead
<1>14. IsTop(w) => DatedBy(v.topo, CtxOf[w], l, a)
  BY <1>2, <1>3, <1>12, <1>13 DEF Dates, Dated, View
<1>15. PICK events : events = W!Changes(w, r) OBVIOUS
<1>16. PICK old : old = State(l, DirOf[w], a) OBVIOUS
<1>17. PICK k \in Nat : Answer(events, k, l, DirOf[w], r, old, a)
  <2>1. \E k \in Nat :
            Answer(W!Changes(w, r), k, log[CtxOf[w]], DirOf[w], r,
                   State(log[CtxOf[w]], DirOf[w], watch[w].at), watch[w].at)
    BY <1>6, <1>11, <1>13, ChangesAnswer
  <2> QED BY <1>3, <1>12, <1>15, <1>16, <2>1
<1>18. \A j \in 1 .. k : Heard(N, CtxOf[w], events[j])
  <2>1. PICK m \in Nat : /\ DOMAIN events = 1 .. m
                         /\ \A j \in 1 .. m : Heard(N, CtxOf[w], events[j])
    BY <1>1, <1>6, <1>13, <1>15, ChangesHeard
  <2>2. DOMAIN events = 1 .. k BY <1>17 DEF Answer
  <2> QED BY <2>1, <2>2
<1>19. DOMAIN events = 1 .. k BY <1>17 DEF Answer
<1>20. PICK u : u = HandleAll(v, w, events) OBVIOUS
<1>21. Become(u) BY <1>2, <1>15, <1>20 DEF WatchWrite
<1>22. u \in Neats(N) BY <1>4, <1>18, <1>19, <1>20, LoadFacts DEF Reached
<1>23. View' = u BY <1>21, <1>22, BecameView
<1>24. Effect(N, v, u, w, l, r, Picture(v, CtxOf[w], IsTop(w)), old)
  BY <1>1, <1>4, <1>5, <1>8, <1>14, <1>17, <1>18, <1>20, HandledEffect
<1> QED BY <1>1, <1>2, <1>3, <1>12, <1>16, <1>23, <1>24

-----------------------------------------------------------------------------
(* What is known follows what the watchers have delivered.               *)

\* What is known of a context is what one of the watchers F has delivered, and
\* a node that no other context stands in the way of is known if all of them
\* have delivered it.
Covered(F, S, J, G) ==
    F # {} =>
        /\ \A i \in J : \E w \in F : S[w][KeyOf(i)] = i
        /\ \A i \in G : (\A w \in F : S[w][KeyOf(i)] # None) => \E j \in J : KeyOf(j) = KeyOf(i)

\* The watchers of a context that have had a snapshot
FollowersIn(ws, c, top) == {w \in ws : CtxOf[w] = c /\ (IsTop(w) <=> top)}
Followed ==
    \A c \in Plain, top \in BOOLEAN :
        Covered(FollowersIn(indexed, c, top), seen, Picture(View, c, top), Goal(Registrable(setup), c, top))

\* An answer of one of the watchers, or of a new one
LEMMA CoveredStep ==
  ASSUME NEW F, NEW S, NEW T, NEW w, NEW I, NEW K, NEW J, NEW G, NEW old,
         \A i \in J \cup G : KeyOf(i) \in UsedKeys,
         Covered(F, S, I, G), Result(K, J, old, T[w], G),
         \A v \in F : v # w => T[v] = S[v],
         \/ K = I /\ w \in F /\ old = S[w]
         \/ K = I /\ w \notin F /\ F # {} /\ old = Blank
         \/ K = {} /\ old = Blank
  PROVE  Covered(F \cup {w}, T, J, G)
<1>0. \A i \in J \cup G : Blank[KeyOf(i)] = None BY DEF Blank
<1>1. ASSUME NEW i \in J PROVE \E v \in F \cup {w} : T[v][KeyOf(i)] = i
  <2>1. CASE T[w][KeyOf(i)] = i BY <2>1
  <2>2. CASE i \in K /\ T[w][KeyOf(i)] = old[KeyOf(i)]
    <3>1. K = I /\ F # {} BY <2>2
    <3>2. PICK v \in F : S[v][KeyOf(i)] = i BY <2>2, <3>1 DEF Covered
    <3>3. CASE v # w BY <3>2, <3>3
    <3>4. CASE v = w
      <4>1. old = S[w] BY <2>2, <3>2, <3>4
      <4> QED BY <2>2, <3>2, <3>4, <4>1
    <3> QED BY <3>3, <3>4
  <2> QED BY <2>1, <2>2 DEF Result
<1>2. ASSUME NEW i \in G, \A v \in F \cup {w} : T[v][KeyOf(i)] # None
      PROVE  \E j \in J : KeyOf(j) = KeyOf(i)
  <2>1. SUFFICES ASSUME T[w][KeyOf(i)] = old[KeyOf(i)], \A j \in K : KeyOf(j) # KeyOf(i) PROVE FALSE
    BY <1>2 DEF Result
  <2>2. old[KeyOf(i)] # None BY <1>2, <2>1
  <2>3. old # Blank BY <1>0, <2>2
  <2>4. K = I /\ w \in F /\ old = S[w] BY <2>3
  <2>5. \A v \in F : S[v][KeyOf(i)] # None BY <1>2, <2>2, <2>4
  <2>6. \E j \in I : KeyOf(j) = KeyOf(i) BY <2>4, <2>5 DEF Covered
  <2> QED BY <2>1, <2>4, <2>6
<1> QED BY <1>1, <1>2 DEF Covered

\* Nothing that matters changes.
LEMMA CoveredSame ==
  ASSUME NEW F, NEW S, NEW T, NEW J, NEW G, Covered(F, S, J, G), \A v \in F : T[v] = S[v]
  PROVE  Covered(F, T, J, G)
BY DEF Covered

\* No watcher has had a snapshot.
LEMMA CoveredNone == ASSUME NEW S, NEW J, NEW G PROVE Covered({}, S, J, G)
BY DEF Covered

\* The nodes of a plain context keep their keys.
LEMMA PlainStable ==
  ASSUME setup \in Setups, NEW c \in Plain PROVE c \in Contexts /\ Stable(Registrable(setup), c)
<1>1. \A i, j \in Items[c] : i.id = j.id \/ i.name = j.name => KeyOf(i) = KeyOf(j) BY DEF Plain
<1>2. \A i \in OwnInfos(Registrable(setup), c) : i \in Items[c] BY OwnUsed
<1> QED BY <1>1, <1>2 DEF Plain, Stable

\* At the start nothing has been read.
LEMMA InitSync == ASSUME Init PROVE Reading /\ Dates /\ Followed
<1>0. setup \in Setups /\ setup \subseteq Watchers BY DiscoveryConstants DEF Init
<1>1. /\ W!Created0.rev = 0 /\ W!Off.rev = 0 /\ W!Created0.rpc = "none" /\ W!Off.rpc = "off"
  BY DEF W!Created0, W!Off
<1>2. \A w \in Watchers : watch[w].rev = 0 /\ watch[w].rpc # "range" /\ (watch[w].rpc # "off" => w \in setup)
  BY <1>1 DEF Init
<1>3. indexed = {} /\ \A c \in Contexts : floor[c] = 0 BY DEF Init
<1>4. \A d \in Ids : topo[d] = None BY DEF Init
<1>5. Reading BY <1>2, <1>3 DEF Reading
<1>6. \A c, b : Dated(c, b) BY <1>4 DEF Dated, DatedBy
<1>7. Dates BY <1>4, <1>6 DEF Dates, Placed
<1>8. \A c, top : FollowersIn(indexed, c, top) = {} BY <1>3 DEF FollowersIn
<1>9. Followed BY <1>8, CoveredNone DEF Followed
<1> QED BY <1>5, <1>7, <1>9

-----------------------------------------------------------------------------
(* The steps that keep these invariants.                                 *)

\* A range request is sent only by a watcher that knows no revision.
LEMMA ProcessReads ==
  ASSUME NEW x \in W!WatcherRec, NEW now
  PROVE  W!Process(x, now).rpc = "range" => x.rev = 0 /\ W!Process(x, now).at = now
BY DEF W!Process, W!WatcherRec

\* Without an event a watcher keeps its revision, or forgets it when its
\* cluster compacts its history.
LEMMA QuietMoves ==
  ASSUME ~NotifiedAhead, WatchInv, Reading, NEW w \in Watchers, Quietly(w)
  PROVE  \E y : /\ watch' = [watch EXCEPT ![w] = y]
                /\ watch[w].rpc # "off"
                /\ y.rev = watch[w].rev \/ (y.rev = 0 /\ CtxOf[w] \in Compacting)
                /\ y.rpc = "range" => y.rev = 0 /\ y.at = W!Now(CtxOf[w])
                /\ UNCHANGED <<log, floor, seen>>
<1>1. watch \in [Watchers -> W!WatcherRec] /\ watch[w] \in W!WatcherRec /\ W!Now(CtxOf[w]) \in Nat
  BY NowType DEF WatchInv, W!WatcherTypeOK
<1>2. watch[w].rpc = "watch" => watch[w].at = watch[w].rev BY DEF WatchInv, Ahead
<1>3. CASE W!Poll(w)
  <2> DEFINE y == W!Process(watch[w], W!Now(CtxOf[w]))
  <2>1. watch[w].rpc = "none" /\ watch' = [watch EXCEPT ![w] = y] /\ UNCHANGED <<log, floor, seen>>
    BY <1>3 DEF W!Poll
  <2>2. y.rev = watch[w].rev /\ (y.rpc = "range" => y.rev = 0 /\ y.at = W!Now(CtxOf[w]))
    BY <1>1, ProcessFacts, ProcessReads
  <2> HIDE DEF y
  <2> QED BY <2>1, <2>2
<1>4. CASE W!ProbeAnswered(w)
  <2> DEFINE x == [watch[w] EXCEPT !.retry = FALSE]
             y == W!Process(x, W!Now(CtxOf[w]))
  <2>1. watch[w].rpc = "probe" /\ watch' = [watch EXCEPT ![w] = y] /\ UNCHANGED <<log, floor, seen>>
    BY <1>4 DEF W!ProbeAnswered
  <2>2. x \in W!WatcherRec /\ x.rev = watch[w].rev BY <1>1 DEF W!WatcherRec
  <2> HIDE DEF x
  <2>3. y.rev = watch[w].rev /\ (y.rpc = "range" => y.rev = 0 /\ y.at = W!Now(CtxOf[w]))
    BY <1>1, <2>2, ProcessFacts, ProcessReads
  <2> HIDE DEF y
  <2> QED BY <2>1, <2>3
<1>5. CASE W!RangeFails(w)
  <2> DEFINE y == [watch[w] EXCEPT !.rpc = "none", !.at = 0]
  <2>1. watch[w].rpc \in {"range", "probe"} /\ watch' = [watch EXCEPT ![w] = y]
        /\ UNCHANGED <<log, floor, seen>>
    BY <1>1, <1>5 DEF W!RangeFails
  <2>2. y.rpc = "none" /\ y.rev = watch[w].rev BY <1>1 DEF W!WatcherRec
  <2> HIDE DEF y
  <2> QED BY <2>1, <2>2
<1>6. CASE W!WatchNotified(w)
  <2> DEFINE y == [watch[w] EXCEPT !.rev = watch[w].at]
  <2>1. watch[w].rpc = "watch" /\ watch' = [watch EXCEPT ![w] = y] /\ UNCHANGED <<log, floor, seen>>
    BY <1>1, <1>6 DEF W!WatchNotified
  <2>2. y.rpc = "watch" /\ y.rev = watch[w].rev BY <1>1, <1>2, <2>1 DEF W!WatcherRec
  <2> HIDE DEF y
  <2> QED BY <2>1, <2>2
<1>7. CASE W!WatchCancelled(w)
  <2> DEFINE q == IF watch[w].rev < floor[CtxOf[w]] THEN 0 ELSE watch[w].rev
             y == [watch[w] EXCEPT !.rpc = "stopped", !.at = 0, !.rev = q]
  <2>1. /\ watch[w].rpc = "watch" /\ watch[w].at + 1 < floor[CtxOf[w]]
        /\ watch' = [watch EXCEPT ![w] = y] /\ UNCHANGED <<log, floor, seen>>
    BY <1>1, <1>7 DEF W!WatchCancelled
  <2>2. CtxOf[w] \in Compacting
    <3>1. watch[w].at \in Nat BY <1>1 DEF W!WatcherRec
    <3>2. floor[CtxOf[w]] # 0 BY <2>1, <3>1
    <3>3. CtxOf[w] \in Contexts BY DiscoveryConstants
    <3> QED BY <3>2, <3>3 DEF Reading
  <2>3. q \in {0, watch[w].rev} OBVIOUS
  <2> HIDE DEF q
  <2>4. y.rpc = "stopped" /\ y.rev = q BY <1>1 DEF W!WatcherRec
  <2> HIDE DEF y
  <2> QED BY <2>1, <2>2, <2>3, <2>4
<1>8. ASSUME NEW later \in BOOLEAN, W!WatchCompleted(w, later)
      PROVE  \E y : /\ watch' = [watch EXCEPT ![w] = y]
                    /\ watch[w].rpc # "off"
                    /\ y.rev = watch[w].rev \/ (y.rev = 0 /\ CtxOf[w] \in Compacting)
                    /\ y.rpc = "range" => y.rev = 0 /\ y.at = W!Now(CtxOf[w])
                    /\ UNCHANGED <<log, floor, seen>>
  <2> DEFINE x == [watch[w] EXCEPT !.rpc = "none", !.retry = TRUE, !.at = 0]
             y == IF later THEN x ELSE W!Process(x, W!Now(CtxOf[w]))
  <2>1. watch[w].rpc \in {"stopped", "watch"} /\ watch' = [watch EXCEPT ![w] = y]
        /\ UNCHANGED <<log, floor, seen>>
    BY <1>8 DEF W!WatchCompleted
  <2>2. x \in W!WatcherRec /\ x.rpc = "none" /\ x.rev = watch[w].rev BY <1>1 DEF W!WatcherRec
  <2> HIDE DEF x
  <2>3. /\ W!Process(x, W!Now(CtxOf[w])).rev = x.rev
        /\ W!Process(x, W!Now(CtxOf[w])).rpc = "range" =>
             x.rev = 0 /\ W!Process(x, W!Now(CtxOf[w])).at = W!Now(CtxOf[w])
    BY <1>1, <2>2, ProcessFacts, ProcessReads
  <2>4. y.rev = watch[w].rev /\ (y.rpc = "range" => y.rev = 0 /\ y.at = W!Now(CtxOf[w]))
    BY <2>2, <2>3
  <2> HIDE DEF y
  <2> QED BY <2>1, <2>4
<1> QED BY <1>3, <1>4, <1>5, <1>6, <1>7, <1>8 DEF Quietly

\* An answer brings a watcher to its revision.
LEMMA AnswerMade ==
  ASSUME WatchInv, NEW w \in Watchers, NEW r \in 1 .. W!Now(CtxOf[w]),
         RangeAnswered(w, r) \/ WatchWrite(w, r)
  PROVE  \E y : /\ watch' = [watch EXCEPT ![w] = y]
                /\ watch[w].rpc # "off"
                /\ y.rev = r /\ y.rev # 0 /\ y.rpc # "range"
                /\ UNCHANGED <<log, floor, setup>>
                /\ \A v \in Watchers : v # w => seen'[v] = seen[v]
                /\ RangeAnswered(w, r) => watch[w].rpc = "range" /\ indexed' = indexed \cup {w}
                /\ WatchWrite(w, r) =>
                     watch[w].rev # 0 /\ watch[w].rev = watch[w].at /\ indexed' = indexed
<1>1. watch \in [Watchers -> W!WatcherRec] /\ watch[w] \in W!WatcherRec
      /\ seen \in [Watchers -> [UsedKeys -> AllItems \cup {None}]]
  BY DEF WatchInv, W!WatcherTypeOK
<1>2. W!Now(CtxOf[w]) \in Nat BY NowType DEF WatchInv
<1>3. r \in Nat /\ r # 0 BY <1>2
<1>4. CASE RangeAnswered(w, r)
  <2> DEFINE x == [watch[w] EXCEPT !.rev = r]
             y == W!Process(x, r)
  <2>1. /\ watch[w].rpc = "range" /\ watch' = [watch EXCEPT ![w] = y]
        /\ seen' = [seen EXCEPT ![w] = W!StateAt(CtxOf[w], DirOf[w], r)]
        /\ UNCHANGED <<log, floor, setup>> /\ indexed' = indexed \cup {w}
    BY <1>4 DEF RangeAnswered, W!RangeAnswered, flags
  <2>2. x \in W!WatcherRec /\ x.rev = r BY <1>1, <1>3 DEF W!WatcherRec
  <2> HIDE DEF x
  <2>3. y.rev = r /\ y.rpc # "range" BY <1>3, <2>2, ProcessFacts, ProcessReads
  <2> HIDE DEF y
  <2>4. ~WatchWrite(w, r) BY <2>1 DEF WatchWrite, W!WatchWrite
  <2>5. \A v \in Watchers : v # w => seen'[v] = seen[v] BY <1>1, <2>1
  <2> QED BY <1>3, <2>1, <2>3, <2>4, <2>5
<1>5. CASE WatchWrite(w, r)
  <2> DEFINE y == [watch[w] EXCEPT !.rev = r, !.at = r]
  <2>1. /\ watch[w].rpc = "watch" /\ watch' = [watch EXCEPT ![w] = y]
        /\ UNCHANGED <<log, floor, setup>> /\ indexed' = indexed
    BY <1>1, <1>5 DEF WatchWrite, W!WatchWrite, flags
  <2>2. y.rev = r /\ y.rpc = "watch" BY <1>1, <2>1 DEF W!WatcherRec
  <2> HIDE DEF y
  <2>3. watch[w].rev # 0 /\ watch[w].rev = watch[w].at BY <2>1 DEF WatchInv, Ahead
  <2>4. ~RangeAnswered(w, r) BY <2>1 DEF RangeAnswered, W!RangeAnswered
  <2>5. \A v \in Watchers : v # w => seen'[v] = seen[v]
    BY <1>1, <1>5 DEF WatchWrite, W!WatchWrite
  <2> QED BY <1>3, <2>1, <2>2, <2>3, <2>4, <2>5
<1> QED BY <1>4, <1>5

\* The steps, by what they change of the nodes and of the watchers
Grows ==
    /\ \E c \in Contexts : \E x \in W!Change : log' = [log EXCEPT ![c] = Append(@, x)]
    /\ UNCHANGED <<floor, watch, seen, nodes, indexed, setup>>
Renews ==
    /\ \A w \in Watchers : watch'[w].rev = 0 /\ watch'[w].rpc # "range" /\ (watch'[w].rpc # "off" => w \in setup)
    /\ indexed' = {}
    /\ UNCHANGED <<log, floor, nodes, setup>>
Rests ==
    /\ \A c \in Contexts \ Compacting : floor'[c] = floor[c]
    /\ \A c : KnownIn(disc', c) = KnownIn(disc, c)
    /\ UNCHANGED <<log, watch, seen, topo, indexed, setup>>
Asks(w) ==
    /\ \E y : /\ watch' = [watch EXCEPT ![w] = y]
              /\ watch[w].rpc # "off"
              /\ y.rev = watch[w].rev \/ (y.rev = 0 /\ CtxOf[w] \in Compacting)
              /\ y.rpc = "range" => y.rev = 0 /\ y.at = W!Now(CtxOf[w])
    /\ UNCHANGED <<log, floor, seen, nodes, indexed, setup>>

\* What the server does
LEMMA ServerGrows == ASSUME WatchInv, Server PROVE Grows \/ Rests
<1>0. UNCHANGED <<nodes, indexed, setup>> BY DEF Server, flags
<1>0a. UNCHANGED <<disc, topo>> BY <1>0 DEF nodes
<1>1. PICK c \in Contexts :
        \/ \E ds \in (SUBSET Dirs(c)) \ {{}} : W!ServerPut(c, ds) \/ W!ServerDelete(c, ds)
        \/ W!ServerCompact(c)
  BY DEF Server
<1>2. CASE W!ServerCompact(c)
  <2>1. c \in Compacting /\ UNCHANGED <<log, watch, seen>> BY <1>2 DEF W!ServerCompact
  <2>2. \A e \in Contexts \ Compacting : floor'[e] = floor[e]
    BY <1>2 DEF W!ServerCompact, WatchInv, W!WatcherTypeOK
  <2> QED BY <1>0, <1>0a, <2>1, <2>2 DEF Rests
<1>3. ASSUME NEW ds \in (SUBSET Dirs(c)) \ {{}}, W!ServerPut(c, ds) PROVE Grows
  <2>1. PICK kv \in ItemWrites[c] :
          log' = [log EXCEPT ![c] = Append(@, [dirs |-> ds, key |-> kv[1], val |-> kv[2]])]
    BY <1>3 DEF W!ServerPut
  <2>2. PICK i \in Items[c] : kv = <<KeyOf(i), i>> BY DEF ItemWrites
  <2>3. i \in AllItems BY DEF AllItems
  <2>4. KeyOf(i) \in UsedKeys BY <2>3 DEF UsedKeys
  <2>5. ds \in SUBSET {DirOf[w] : w \in Watchers} BY DEF Dirs, WatchInv
  <2>6. [dirs |-> ds, key |-> kv[1], val |-> kv[2]] \in W!Change
    BY <2>2, <2>3, <2>4, <2>5 DEF W!Change
  <2>7. UNCHANGED <<floor, watch, seen>> BY <1>3 DEF W!ServerPut
  <2> QED BY <1>0, <2>1, <2>6, <2>7 DEF Grows
<1>4. ASSUME NEW ds \in (SUBSET Dirs(c)) \ {{}}, W!ServerDelete(c, ds) PROVE Grows
  <2>1. PICK k \in UsedKeys :
          log' = [log EXCEPT ![c] = Append(@, [dirs |-> ds, key |-> k, val |-> None])]
    BY <1>4 DEF W!ServerDelete
  <2>2. ds \in SUBSET {DirOf[w] : w \in Watchers} BY DEF Dirs, WatchInv
  <2>3. [dirs |-> ds, key |-> k, val |-> None] \in W!Change
    BY <2>2 DEF W!Change
  <2>4. UNCHANGED <<floor, watch, seen>> BY <1>4 DEF W!ServerDelete
  <2> QED BY <1>0, <2>1, <2>3, <2>4 DEF Grows
<1> QED BY <1>1, <1>2, <1>3, <1>4

\* What the module does
LEMMA ModuleRenews ==
  ASSUME FlagInv, Tick \/ Stop PROVE Renews
<1>1. /\ W!Created0.rev = 0 /\ W!Off.rev = 0 /\ W!Created0.rpc = "none" /\ W!Off.rpc = "off"
  BY DEF W!Created0, W!Off
<1>2. ASSUME Reset, UNCHANGED <<log, floor, nodes, setup>> PROVE Renews
  <2>1. watch' = [w \in Watchers |-> W!Off] BY <1>2 DEF Reset, W!Closed
  <2>2. indexed' = {} BY <1>2 DEF Reset
  <2> QED BY <1>1, <1>2, <2>1, <2>2 DEF Renews
<1>3. CASE Stop BY <1>2, <1>3 DEF Stop
<1>4. CASE Tick
  <2>1. UNCHANGED <<log, floor, nodes, setup>> /\ enabled # inited BY <1>4 DEF Tick
  <2>2. CASE enabled
    <3>1. watch' = [w \in Watchers |-> IF w \in setup THEN W!Created0 ELSE W!Off] /\ indexed' = indexed
      BY <1>4, <2>2 DEF Tick, Create
    <3>2. ~inited BY <2>1, <2>2 DEF FlagInv
    <3>3. indexed = {} BY <3>2 DEF FlagInv
    <3> QED BY <1>1, <2>1, <3>1, <3>3 DEF Renews
  <2>3. CASE ~enabled BY <1>2, <1>4, <2>1, <2>3 DEF Tick
  <2> QED BY <2>2, <2>3
<1> QED BY <1>3, <1>4

\* All the steps
LEMMA SyncSteps ==
  ASSUME ~NotifiedAhead, WellNamed, WatchInv, SetInv, Reading, [Next]_vars
  PROVE  \/ Grows \/ Renews \/ Rests
         \/ \E w \in Watchers : Asks(w)
         \/ \E w \in Watchers : \E r \in 1 .. W!Now(CtxOf[w]) : RangeAnswered(w, r) \/ WatchWrite(w, r)
<1>1. CASE UNCHANGED vars BY <1>1 DEF vars, etcd, nodes, flags, Rests
<1>2. ASSUME NEW w \in Watchers, Quietly(w) PROVE Asks(w)
  <2>1. UNCHANGED <<nodes, indexed, setup>> BY <1>2 DEF Quietly, flags
  <2> QED BY <1>2, <2>1, QuietMoves DEF Asks
<1>3. CASE Server BY <1>3, ServerGrows
<1>4. CASE Toggle BY <1>4 DEF Toggle, nodes, Rests
<1>5. CASE Tick \/ Stop BY <1>5, ModuleRenews DEF SetInv
<1>6. ASSUME NEW rule \in Rules, Lookup(rule) PROVE Rests
  <2>0. PICK N : N = Registrable(setup) OBVIOUS
  <2>1. Keyed(N) /\ Tidy(disc, N) BY <2>0, OrderFacts
  <2>2. disc' = RebuildCache(disc, rule) /\ UNCHANGED <<log, floor, watch, seen, topo, indexed, setup>>
    BY <1>6 DEF Lookup, etcd, flags
  <2>3. disc'.node = disc.node /\ Held(disc') = Held(disc) BY <2>1, <2>2, RebuildFacts
  <2>4. \A c : KnownIn(disc', c) = KnownIn(disc, c) BY <2>3 DEF KnownIn
  <2> QED BY <2>2, <2>4 DEF Rests
<1> QED BY <1>1, <1>2, <1>3, <1>4, <1>5, <1>6 DEF Next

\* Requests and snapshot indexes go together.
LEMMA ReadingStep ==
  ASSUME ~NotifiedAhead, WellNamed, WatchInv, SetInv, Reading, [Next]_vars PROVE Reading'
<1>0. watch \in [Watchers -> W!WatcherRec] BY DEF WatchInv, W!WatcherTypeOK
<1>1. CASE Grows BY <1>1 DEF Grows, Reading
<1>2. CASE Renews BY <1>2 DEF Renews, Reading
<1>3. CASE Rests BY <1>3 DEF Rests, Reading
<1>4. ASSUME NEW w \in Watchers, NEW y, watch' = [watch EXCEPT ![w] = y], watch[w].rpc # "off",
             indexed' = indexed \/ indexed' = indexed \cup {w}, UNCHANGED <<floor, setup>>,
             y.rev # 0 => w \in indexed',
             w \in indexed' /\ y.rev = 0 => CtxOf[w] \in Compacting,
             y.rpc = "range" => y.rev = 0
      PROVE  Reading'
  <2>1. watch'[w] = y /\ \A v \in Watchers : v # w => watch'[v] = watch[v] BY <1>0, <1>4
  <2>2. w \in setup BY <1>4 DEF Reading
  <2>3. \A v \in Watchers : v # w => (v \in indexed' <=> v \in indexed) BY <1>4
  <2> QED BY <1>4, <2>1, <2>2, <2>3 DEF Reading
<1>5. ASSUME NEW w \in Watchers, Asks(w) PROVE Reading'
  <2>1. PICK y : /\ watch' = [watch EXCEPT ![w] = y]
                 /\ watch[w].rpc # "off"
                 /\ y.rev = watch[w].rev \/ (y.rev = 0 /\ CtxOf[w] \in Compacting)
                 /\ y.rpc = "range" => y.rev = 0
    BY <1>5 DEF Asks
  <2>2. indexed' = indexed /\ UNCHANGED <<floor, setup>> BY <1>5 DEF Asks
  <2>3. y.rev # 0 => w \in indexed' BY <2>1, <2>2 DEF Reading
  <2>4. w \in indexed' /\ y.rev = 0 => CtxOf[w] \in Compacting BY <2>1, <2>2 DEF Reading
  <2> QED BY <1>4, <2>1, <2>2, <2>3, <2>4
<1>6. ASSUME NEW w \in Watchers, NEW r \in 1 .. W!Now(CtxOf[w]), RangeAnswered(w, r) \/ WatchWrite(w, r)
      PROVE  Reading'
  <2>1. PICK y : /\ watch' = [watch EXCEPT ![w] = y]
                 /\ watch[w].rpc # "off"
                 /\ y.rev # 0 /\ y.rpc # "range"
                 /\ UNCHANGED <<log, floor, setup>>
                 /\ RangeAnswered(w, r) => indexed' = indexed \cup {w}
                 /\ WatchWrite(w, r) => watch[w].rev # 0 /\ indexed' = indexed
    BY <1>6, AnswerMade
  <2>2. w \in indexed' BY <1>6, <2>1 DEF Reading
  <2> QED BY <1>4, <1>6, <2>1, <2>2
<1> QED BY <1>1, <1>2, <1>3, <1>5, <1>6, SyncSteps

\* Topologies from before a revision are from before a later one.
LEMMA DatedLater ==
  ASSUME NEW t, NEW c, NEW l, Len(l) \in Nat, NEW a \in Nat, NEW b \in Nat, a <= b, DatedBy(t, c, l, a)
  PROVE  DatedBy(t, c, l, b)
<1>1. \A n \in 1 .. Len(l) : n < a => n < b OBVIOUS
<1> QED BY <1>1 DEF DatedBy

\* A longer history dates them as well.
LEMMA DatedAppend ==
  ASSUME NEW t, NEW c, NEW T, NEW l \in Seq(T), NEW x \in T, NEW b, DatedBy(t, c, l, b)
  PROVE  DatedBy(t, c, Append(l, x), b)
<1> DEFINE m == Append(l, x)
<1>1. \A n \in 1 .. Len(l) : m[n] = l[n] /\ n \in 1 .. Len(m) OBVIOUS
<1> HIDE DEF m
<1>2. \A n \in 1 .. Len(l) : \A y : ChangeOf(y, l, n) => ChangeOf(y, m, n) BY <1>1 DEF ChangeOf
<1>3. DatedBy(t, c, m, b) BY <1>1, <1>2 DEF DatedBy
<1> QED BY <1>3 DEF m

\* The topologies of another context keep their dates.
LEMMA DatedAside ==
  ASSUME NEW s, NEW t, NEW c, NEW e, e # c, Aside(s, t, c), NEW l, NEW b, DatedBy(s, e, l, b)
  PROVE  DatedBy(t, e, l, b)
BY DEF DatedBy, Aside, Own

\* The topologies after an answer
LEMMA DatesAnswered ==
  ASSUME WellNamed, WellApart, WellWatched, WatchInv, SetInv, Reading, Dates,
         NEW w \in Watchers, NEW r \in 1 .. W!Now(CtxOf[w]), RangeAnswered(w, r) \/ WatchWrite(w, r)
  PROVE  Dates'
<1> DEFINE c == CtxOf[w]
<1>1. PICK y : /\ watch' = [watch EXCEPT ![w] = y]
               /\ watch[w].rpc # "off"
               /\ y.rev = r /\ y.rpc # "range"
               /\ UNCHANGED <<log, setup>>
  BY AnswerMade
<1>2. w \in setup /\ setup \in Setups BY <1>1 DEF Reading, SetInv
<1>3. PICK K, old : Effect(Registrable(setup), View, View', w, log[c], r, K, old)
  <2>1. CASE RangeAnswered(w, r) BY <1>2, <2>1, RangeEffect
  <2>2. CASE WatchWrite(w, r) BY <1>2, <2>2, WriteEffect
  <2> QED BY <2>1, <2>2
<1>4. View.topo = topo /\ View'.topo = topo' BY DEF View
<1>5. /\ Placed(topo', Registrable(setup))
      /\ IsTop(w) => Aside(topo, topo', c) /\ DatedBy(topo', c, log[c], r)
      /\ ~IsTop(w) => topo' = topo
  BY <1>3, <1>4 DEF Effect
<1>6. watch'[w] = y /\ \A v \in Watchers : v # w => watch'[v] = watch[v]
  BY <1>1 DEF WatchInv, W!WatcherTypeOK
<1>7. \A e \in Contexts : log[e] \in Seq(W!Change) /\ W!Now(e) = Len(log[e]) + 1
  BY DEF WatchInv, W!WatcherTypeOK, W!Now
<1>8. \A e \in Contexts : Len(log[e]) \in Nat /\ W!Now(e) \in Nat
  <2> SUFFICES ASSUME NEW e \in Contexts PROVE Len(log[e]) \in Nat /\ W!Now(e) \in Nat OBVIOUS
  <2>1. Len(log[e]) \in Nat BY <1>7
  <2> QED BY <1>7, <2>1
<1>9. c \in Contexts BY DiscoveryConstants
<1>10. ASSUME NEW e, e # c \/ ~IsTop(w), NEW b, DatedBy(topo, e, log[e], b)
       PROVE  DatedBy(topo', e, log[e], b)
  <2>1. CASE ~IsTop(w) BY <1>5, <1>10, <2>1
  <2>2. CASE IsTop(w)
    <3>1. Aside(topo, topo', c) /\ e # c BY <1>5, <1>10, <2>2
    <3> QED BY <1>10, <3>1, DatedAside
  <2> QED BY <2>1, <2>2
<1>11. IsTop(w) => DatedBy(topo', c, log[c], W!Now(c))
  <2> HAVE IsTop(w)
  <2>1. DatedBy(topo', c, log[c], r) BY <1>5
  <2>2. PICK n \in Nat : n = W!Now(c) BY <1>8, <1>9
  <2>3. r \in Nat /\ r <= n BY <2>2
  <2>4. PICK l : l = log[c] OBVIOUS
  <2>5. Len(l) \in Nat BY <1>8, <1>9, <2>4
  <2>6. DatedBy(topo', c, l, n) BY <2>1, <2>3, <2>4, <2>5, DatedLater
  <2> QED BY <2>2, <2>4, <2>6
<1>12. \A e \in Contexts : DatedBy(topo', e, log[e], W!Now(e))
  <2> SUFFICES ASSUME NEW e \in Contexts PROVE DatedBy(topo', e, log[e], W!Now(e)) OBVIOUS
  <2>1. DatedBy(topo, e, log[e], W!Now(e)) BY DEF Dates, Dated
  <2> QED BY <1>10, <1>11, <2>1
<1>13. ASSUME NEW v \in setup, IsTop(v)
       PROVE  /\ watch'[v].rev # 0 => DatedBy(topo', CtxOf[v], log[CtxOf[v]], watch'[v].rev)
              /\ watch'[v].rpc = "range" => DatedBy(topo', CtxOf[v], log[CtxOf[v]], watch'[v].at)
  <2>1. CASE v = w BY <1>1, <1>5, <1>6, <1>13, <2>1
  <2>2. CASE v # w
    <3>1. v \in Watchers /\ watch'[v] = watch[v] BY <1>6, <2>2 DEF WatchInv
    <3>2. CtxOf[v] # c \/ ~IsTop(w)
      BY <1>2, <1>13, <2>2 DEF WellWatched, SameKind, IsTop
    <3>3. /\ watch[v].rev # 0 => DatedBy(topo, CtxOf[v], log[CtxOf[v]], watch[v].rev)
          /\ watch[v].rpc = "range" => DatedBy(topo, CtxOf[v], log[CtxOf[v]], watch[v].at)
      BY <1>13 DEF Dates, Dated
    <3> QED BY <1>10, <3>1, <3>2, <3>3
  <2> QED BY <2>1, <2>2
<1>14. \A e : W!Now(e)' = W!Now(e) BY <1>1 DEF W!Now
<1> HIDE DEF c
<1> QED BY <1>1, <1>5, <1>12, <1>13, <1>14 DEF Dates, Dated

\* The topologies after any step
LEMMA DatesStep ==
  ASSUME ~NotifiedAhead, WellNamed, WellApart, WellWatched, WatchInv, SetInv, Reading, Dates, [Next]_vars
  PROVE  Dates'
<1>0. \A e \in Contexts : log[e] \in Seq(W!Change) /\ W!Now(e) = Len(log[e]) + 1 /\ Len(log[e]) \in Nat
  <2> SUFFICES ASSUME NEW e \in Contexts
               PROVE  log[e] \in Seq(W!Change) /\ W!Now(e) = Len(log[e]) + 1 /\ Len(log[e]) \in Nat
    OBVIOUS
  <2>1. log[e] \in Seq(W!Change) BY DEF WatchInv, W!WatcherTypeOK
  <2>2. Len(log[e]) \in Nat BY <2>1
  <2> QED BY <2>1, <2>2 DEF W!Now
<1>1. CASE Grows
  <2>1. UNCHANGED <<watch, topo, setup>> BY <1>1 DEF Grows, nodes
  <2>2. PICK c \in Contexts, x \in W!Change : log' = [log EXCEPT ![c] = Append(@, x)] BY <1>1 DEF Grows
  <2>3. ASSUME NEW e \in Contexts PROVE log'[e] = Append(log[e], x) \/ log'[e] = log[e]
    BY <2>2 DEF WatchInv, W!WatcherTypeOK
  <2>4. ASSUME NEW e \in Contexts, NEW b, DatedBy(topo, e, log[e], b) PROVE DatedBy(topo, e, log'[e], b)
    <3>1. PICK l \in Seq(W!Change) : l = log[e] BY <1>0
    <3>2. DatedBy(topo, e, Append(l, x), b) BY <2>4, <3>1, DatedAppend
    <3> QED BY <2>3, <2>4, <3>1, <3>2
  <2>5. ASSUME NEW e \in Contexts PROVE DatedBy(topo, e, log'[e], W!Now(e)')
    <3>1. PICK l \in Seq(W!Change) : l = log[e] BY <1>0
    <3>2. PICK m : m = log'[e] OBVIOUS
    <3>3. m = Append(l, x) \/ m = l BY <2>3, <3>1, <3>2
    <3>4. Len(l) \in Nat /\ (Len(m) = Len(l) \/ Len(m) = Len(l) + 1) BY <3>1, <3>3
    <3>5. PICK a \in Nat : a = W!Now(e) /\ a = Len(l) + 1 BY <1>0, <3>1
    <3>6. PICK b \in Nat : b = W!Now(e)' /\ a <= b
      <4>1. W!Now(e)' = Len(m) + 1 BY <3>2 DEF W!Now
      <4>2. Len(m) + 1 \in Nat /\ a <= Len(m) + 1 BY <3>4, <3>5
      <4> QED BY <4>1, <4>2
    <3>7. DatedBy(topo, e, m, a) BY <2>4, <3>2, <3>5 DEF Dates, Dated
    <3>8. Len(m) \in Nat BY <3>4
    <3>9. DatedBy(topo, e, m, b) BY <3>6, <3>7, <3>8, DatedLater
    <3> QED BY <3>2, <3>6, <3>9
  <2>6. \A v \in setup : v \in Watchers /\ CtxOf[v] \in Contexts BY DiscoveryConstants DEF WatchInv
  <2>7. ASSUME NEW v \in setup, IsTop(v)
        PROVE  /\ watch[v].rev # 0 => DatedBy(topo, CtxOf[v], log'[CtxOf[v]], watch[v].rev)
               /\ watch[v].rpc = "range" => DatedBy(topo, CtxOf[v], log'[CtxOf[v]], watch[v].at)
    BY <2>4, <2>6, <2>7 DEF Dates, Dated
  <2> QED BY <2>1, <2>5, <2>7 DEF Dates, Dated
<1>2. CASE Renews
  <2>1. UNCHANGED <<log, topo, setup>> BY <1>2 DEF Renews, nodes
  <2>2. \A v \in setup : watch'[v].rev = 0 /\ watch'[v].rpc # "range" BY <1>2 DEF Renews, WatchInv
  <2>3. \A e : W!Now(e)' = W!Now(e) BY <2>1 DEF W!Now
  <2> QED BY <2>1, <2>2, <2>3 DEF Dates, Dated
<1>3. CASE Rests
  <2>1. UNCHANGED <<log, topo, setup, watch>> BY <1>3 DEF Rests
  <2>2. \A e : W!Now(e)' = W!Now(e) BY <2>1 DEF W!Now
  <2> QED BY <2>1, <2>2 DEF Dates, Dated
<1>4. ASSUME NEW w \in Watchers, Asks(w) PROVE Dates'
  <2>1. UNCHANGED <<log, topo, setup>> BY <1>4 DEF Asks, nodes
  <2>2. PICK y : /\ watch' = [watch EXCEPT ![w] = y]
                 /\ y.rev = watch[w].rev \/ y.rev = 0
                 /\ y.rpc = "range" => y.at = W!Now(CtxOf[w])
    BY <1>4 DEF Asks
  <2>3. watch'[w] = y /\ \A v \in Watchers : v # w => watch'[v] = watch[v]
    BY <2>2 DEF WatchInv, W!WatcherTypeOK
  <2>4. CtxOf[w] \in Contexts BY DiscoveryConstants
  <2>5. ASSUME NEW v \in setup, IsTop(v)
        PROVE  /\ watch'[v].rev # 0 => Dated(CtxOf[v], watch'[v].rev)
               /\ watch'[v].rpc = "range" => Dated(CtxOf[v], watch'[v].at)
    <3>1. CASE v = w BY <2>2, <2>3, <2>4, <2>5, <3>1 DEF Dates
    <3>2. CASE v # w BY <2>3, <2>5, <3>2 DEF Dates, WatchInv
    <3> QED BY <3>1, <3>2
  <2>6. \A e : W!Now(e)' = W!Now(e) BY <2>1 DEF W!Now
  <2> QED BY <2>1, <2>5, <2>6 DEF Dates, Dated
<1>5. ASSUME NEW w \in Watchers, NEW r \in 1 .. W!Now(CtxOf[w]), RangeAnswered(w, r) \/ WatchWrite(w, r)
      PROVE  Dates'
  BY <1>5, DatesAnswered
<1> QED BY <1>1, <1>2, <1>3, <1>4, <1>5, SyncSteps

\* The topologies of the other contexts stay as they are.
LEMMA ShownAside ==
  ASSUME NEW s, NEW t, NEW d, NEW c, Aside(s, t, d), c # d
  PROVE  Shown(t, c) = Shown(s, c)
<1>1. \A i \in Ids : s[i] # None /\ s[i].ctx = c => t[i] = s[i] BY DEF Aside, Own
<1>2. \A i \in Ids : t[i] # None /\ t[i].ctx = c => t[i] = s[i] BY DEF Aside, Own
<1> QED BY <1>1, <1>2 DEF Shown

\* An answer changes what is known of its own context and kind only.
LEMMA OtherPictures ==
  ASSUME WellNamed, WellApart, WatchInv, SetInv, Dates,
         NEW w \in Watchers, w \in setup, NEW r \in 1 .. W!Now(CtxOf[w]),
         RangeAnswered(w, r) \/ WatchWrite(w, r),
         NEW c, NEW top, CtxOf[w] # c \/ ~(IsTop(w) <=> top)
  PROVE  Picture(View', c, top) = Picture(View, c, top)
<1>1. PICK K, old : Effect(Registrable(setup), View, View', w, log[CtxOf[w]], r, K, old)
  <2>1. CASE RangeAnswered(w, r) BY <2>1, RangeEffect
  <2>2. CASE WatchWrite(w, r) BY <2>2, WriteEffect
  <2> QED BY <2>1, <2>2
<1>2. /\ IsTop(w) => View'.disc = View.disc /\ Aside(View.topo, View'.topo, CtxOf[w])
      /\ ~IsTop(w) => View'.topo = View.topo
  BY <1>1 DEF Effect
<1>3. CASE top
  <2>1. CASE IsTop(w)
    <3>1. CtxOf[w] # c BY <1>3, <2>1
    <3>2. Shown(View'.topo, c) = Shown(View.topo, c) BY <1>2, <2>1, <3>1, ShownAside
    <3> QED BY <1>3, <3>2 DEF Picture
  <2>2. CASE ~IsTop(w) BY <1>2, <1>3, <2>2 DEF Picture
  <2> QED BY <2>1, <2>2
<1>4. CASE ~top
  <2>1. CASE IsTop(w) BY <1>2, <1>4, <2>1 DEF Picture
  <2>2. CASE ~IsTop(w)
    <3>1. CtxOf[w] # c BY <1>4, <2>2
    <3>2. View' \in Reached(Registrable(setup), disc, CtxOf[w]) BY AnswerReaches
    <3>3. Apart(Registrable(setup)) BY Members
    <3>4. View.disc = disc BY DEF View
    <3>5. Keeps(View.disc, View'.disc, CtxOf[w]) BY <3>2, <3>3, <3>4 DEF Reached
    <3>6. KnownIn(View'.disc, c) = KnownIn(View.disc, c) BY <3>1, <3>5, KnownKept
    <3> QED BY <1>4, <3>6 DEF Picture
  <2> QED BY <2>1, <2>2
<1> QED BY <1>3, <1>4

\* What is known of the context and kind of the answer
LEMMA OwnPicture ==
  ASSUME WellNamed, WellApart, WellWatched, WatchInv, WatchInv', SetInv, SetInv', Reading, Dates, Dates', Followed,
         NEW w \in Watchers, w \in setup, NEW r \in 1 .. W!Now(CtxOf[w]),
         RangeAnswered(w, r) \/ WatchWrite(w, r),
         NEW c \in Plain, NEW top \in BOOLEAN, CtxOf[w] = c, IsTop(w) <=> top
  PROVE  Covered(FollowersIn(indexed', c, top), seen', Picture(View', c, top), Goal(Registrable(setup), c, top))
<1> DEFINE N == Registrable(setup)
           F == FollowersIn(indexed, c, top)
           I == Picture(View, c, top)
           J == Picture(View', c, top)
           G == Goal(N, c, top)
<1>1. PICK y : /\ watch' = [watch EXCEPT ![w] = y]
               /\ y.rev = r /\ y.rev # 0
               /\ UNCHANGED <<log, setup>>
               /\ \A v \in Watchers : v # w => seen'[v] = seen[v]
               /\ RangeAnswered(w, r) => watch[w].rpc = "range" /\ indexed' = indexed \cup {w}
               /\ WatchWrite(w, r) =>
                    watch[w].rev # 0 /\ watch[w].rev = watch[w].at /\ indexed' = indexed
  BY AnswerMade
<1>2. seen'[w] = State(log[c], DirOf[w], r)
  <2>1. watch'[w] = y BY <1>1 DEF WatchInv, W!WatcherTypeOK
  <2>2. seen'[w] = W!StateAt(CtxOf[w], DirOf[w], watch[w].rev)'
    BY <1>1, <2>1 DEF WatchInv, NothingSkipped, W!NothingSkipped
  <2>3. W!StateAt(CtxOf[w], DirOf[w], watch[w].rev)' = State(log'[CtxOf[w]], DirOf[w], watch'[w].rev)
    BY DEF W!StateAt, W!ValueAt, W!LastChange, State, Holds, LastTouch, Touching
  <2> QED BY <1>1, <2>1, <2>2, <2>3
<1>3. Covered(F, seen, I, G) BY DEF Followed
<1>4. c \in Contexts /\ Stable(N, c) BY PlainStable DEF SetInv
<1>5. \A i \in J \cup G : KeyOf(i) \in UsedKeys
  <2>1. View' \in Neats(N) /\ setup \in Setups /\ Keyed(N)
    BY <1>1, Members DEF SetInv
  <2>2. Placed(View'.topo, N) BY <1>1 DEF Dates, View
  <2> HIDE DEF N
  <2>3. J \subseteq OwnInfos(N, c) BY <2>1, <2>2, PictureUsed
  <2>4. G \subseteq OwnInfos(N, c) BY DEF Goal, Lone
  <2> QED BY <2>1, <2>3, <2>4, OwnUsed DEF N
<1>6. indexed \subseteq Watchers /\ \A v \in indexed : watch[v].rpc # "off" BY DEF SetInv, FlagInv
<1>7. \A v \in F : v # w => seen'[v] = seen[v] BY <1>1, <1>6 DEF FollowersIn
<1>8. ASSUME NEW K, NEW old, Effect(N, View, View', w, log[CtxOf[w]], r, K, old)
      PROVE  Result(K, J, old, seen'[w], G)
  <2>1. Result(K, Picture(View', CtxOf[w], IsTop(w)), old, State(log[CtxOf[w]], DirOf[w], r),
               Goal(N, CtxOf[w], IsTop(w)))
    BY <1>4, <1>8 DEF Effect
  <2>2. Picture(View', CtxOf[w], IsTop(w)) = J BY DEF Picture
  <2>3. Goal(N, CtxOf[w], IsTop(w)) = G BY DEF Goal
  <2> HIDE DEF J, G, N
  <2> QED BY <1>2, <2>1, <2>2, <2>3
<1>9. Picture(View, CtxOf[w], IsTop(w)) = I BY DEF Picture
<1>10. CASE WatchWrite(w, r)
  <2>1. w \in indexed BY <1>1, <1>10 DEF Reading
  <2>2. w \in F BY <2>1 DEF FollowersIn
  <2>3. FollowersIn(indexed', c, top) = F \cup {w} BY <1>1, <1>10, <2>2
  <2>4. State(log[CtxOf[w]], DirOf[w], watch[w].at) = seen[w]
    BY <1>1, <1>10, StateOfLog DEF WatchInv, NothingSkipped, W!NothingSkipped
  <2>5. Effect(N, View, View', w, log[CtxOf[w]], r, I, seen[w])
    <3> HIDE DEF I
    <3> QED BY <1>9, <1>10, <2>4, WriteEffect
  <2>6. Result(I, J, seen[w], seen'[w], G) BY <1>8, <2>5
  <2> HIDE DEF N, F, I, J, G
  <2>7. Covered(F \cup {w}, seen', J, G) BY <1>3, <1>5, <1>7, <2>2, <2>6, CoveredStep
  <2> QED BY <2>3, <2>7 DEF J, G, N
<1>11. CASE RangeAnswered(w, r) /\ Reconciles(w)
  <2>1. FollowersIn(indexed', c, top) = F \cup {w} BY <1>1, <1>11 DEF FollowersIn
  <2>2. Effect(N, View, View', w, log[CtxOf[w]], r, {}, Blank) BY <1>11, RangeEffect
  <2>3. Result({}, J, Blank, seen'[w], G) BY <1>8, <2>2
  <2> HIDE DEF N, F, I, J, G
  <2>4. PICK K, old : K = {} /\ old = Blank OBVIOUS
  <2>5. Result(K, J, old, seen'[w], G) BY <2>3, <2>4
  <2>6. Covered(F \cup {w}, seen', J, G) BY <1>3, <1>5, <1>7, <2>4, <2>5, CoveredStep
  <2> QED BY <2>1, <2>6 DEF J, G, N
<1>12. CASE RangeAnswered(w, r) /\ ~Reconciles(w)
  <2>1. FollowersIn(indexed', c, top) = F \cup {w} BY <1>1, <1>12 DEF FollowersIn
  <2>2. Effect(N, View, View', w, log[CtxOf[w]], r, I, Blank)
    <3> HIDE DEF I
    <3> QED BY <1>9, <1>12, RangeEffect
  <2>3. Result(I, J, Blank, seen'[w], G) BY <1>8, <2>2
  <2>4. PICK x \in indexed : SameKind(w, x) /\ ~(Rank[w] <= Rank[x]) BY <1>12 DEF Reconciles
  <2>5. F # {}
    <3>1. x \in F BY <2>4 DEF FollowersIn, SameKind, IsTop
    <3> QED BY <3>1
  <2>6. w \notin F
    <3> SUFFICES ASSUME w \in indexed PROVE FALSE BY DEF FollowersIn
    <3>1. watch[w].rev = 0 BY <1>1, <1>12 DEF Reading
    <3>2. CtxOf[w] \in Compacting BY <3>1 DEF Reading
    <3>3. x \in setup /\ setup \in Setups BY <1>6, <2>4 DEF Reading, SetInv
    <3>4. x = w BY <2>4, <3>2, <3>3 DEF WellWatched
    <3>5. Rank[w] \in Nat BY DiscoveryConstants
    <3> QED BY <2>4, <3>4, <3>5
  <2> HIDE DEF N, F, I, J, G
  <2>7. PICK old : old = Blank OBVIOUS
  <2>8. Result(I, J, old, seen'[w], G) BY <2>3, <2>7
  <2>9. Covered(F \cup {w}, seen', J, G) BY <1>3, <1>5, <1>7, <2>5, <2>6, <2>7, <2>8, CoveredStep
  <2> QED BY <2>1, <2>9 DEF J, G, N
<1> QED BY <1>10, <1>11, <1>12

\* What is known follows what was delivered.
LEMMA FollowedStep ==
  ASSUME ~NotifiedAhead, WellNamed, WellApart, WellWatched, WatchInv, WatchInv', SetInv, SetInv',
         Reading, Dates, Dates', Followed, [Next]_vars
  PROVE  Followed'
<1> DEFINE N == Registrable(setup)
<1>0. indexed \subseteq Watchers /\ \A v \in indexed : watch[v].rpc # "off" BY DEF SetInv, FlagInv
<1>1. CASE UNCHANGED <<seen, nodes, indexed, setup>>
  <2>1. View' = View BY <1>1 DEF nodes, View
  <2> QED BY <1>1, <2>1 DEF Followed
<1>2. CASE Grows BY <1>1, <1>2 DEF Grows
<1>3. CASE Renews
  <2>1. \A c, top : FollowersIn(indexed', c, top) = {} BY <1>3 DEF Renews, FollowersIn
  <2> QED BY <2>1, CoveredNone DEF Followed
<1>4. CASE Rests
  <2>1. UNCHANGED <<seen, topo, indexed, setup>> /\ \A c : KnownIn(disc', c) = KnownIn(disc, c)
    BY <1>4 DEF Rests
  <2>2. View.disc = disc /\ View.topo = topo /\ View'.disc = disc' /\ View'.topo = topo' BY DEF View
  <2>3. \A c, top : Picture(View', c, top) = Picture(View, c, top) BY <2>1, <2>2 DEF Picture
  <2> QED BY <2>1, <2>3 DEF Followed
<1>5. ASSUME NEW w \in Watchers, Asks(w) PROVE Followed' BY <1>1, <1>5 DEF Asks
<1>6. ASSUME NEW w \in Watchers, NEW r \in 1 .. W!Now(CtxOf[w]), RangeAnswered(w, r) \/ WatchWrite(w, r)
      PROVE  Followed'
  <2>1. /\ watch[w].rpc # "off" /\ UNCHANGED setup
        /\ \A v \in Watchers : v # w => seen'[v] = seen[v]
        /\ indexed' = indexed \/ indexed' = indexed \cup {w}
    BY <1>6, AnswerMade
  <2>2. w \in setup BY <2>1 DEF Reading
  <2>3. ASSUME NEW c \in Plain, NEW top \in BOOLEAN
        PROVE  Covered(FollowersIn(indexed', c, top), seen', Picture(View', c, top), Goal(N, c, top))
    <3>1. CASE CtxOf[w] = c /\ (IsTop(w) <=> top) BY <1>6, <2>2, <3>1, OwnPicture
    <3>2. CASE CtxOf[w] # c \/ ~(IsTop(w) <=> top)
      <4>1. Picture(View', c, top) = Picture(View, c, top) BY <1>6, <2>2, <3>2, OtherPictures
      <4>2. PICK F : F = FollowersIn(indexed, c, top) OBVIOUS
      <4>3. FollowersIn(indexed', c, top) = F BY <2>1, <3>2, <4>2 DEF FollowersIn
      <4>4. \A v \in F : seen'[v] = seen[v] BY <1>0, <2>1, <3>2, <4>2 DEF FollowersIn
      <4>5. PICK J, G : J = Picture(View, c, top) /\ G = Goal(N, c, top) OBVIOUS
      <4>6. Covered(F, seen, J, G) BY <4>2, <4>5 DEF Followed
      <4>7. Covered(F, seen', J, G) BY <4>4, <4>6, CoveredSame
      <4> QED BY <4>1, <4>3, <4>5, <4>7
    <3> QED BY <3>1, <3>2
  <2> QED BY <2>1, <2>3 DEF Followed
<1> QED BY <1>2, <1>3, <1>4, <1>5, <1>6, SyncSteps

\* Of a context whose watchers have delivered everything, the picture is what a
\* directory holds.
LEMMA PictureTrue ==
  ASSUME WellNamed, WellApart, WatchInv, SetInv, Reading, Dates, Followed,
         NEW c \in Plain, InSync(c), NEW top \in BOOLEAN, NEW d \in Dirs(c), d = "topology" <=> top,
         ~top => DirsAgree(c)
  PROVE  /\ Picture(View, c, top) \subseteq Registered(c, d)
         /\ \A i \in Registered(c, d) :
               OnlyOf(c, i) /\ (top => i.id # None) => i \in Picture(View, c, top)
<1> DEFINE N == Registrable(setup)
           F == FollowersIn(indexed, c, top)
           J == Picture(View, c, top)
           G == Goal(N, c, top)
<1>1. setup \in Setups /\ View \in Neats(N) /\ Keyed(N) BY Members
<1>2. c \in Contexts BY DEF Plain
<1>3. J \subseteq OwnInfos(N, c)
  <2>1. Placed(View.topo, N) BY DEF Dates, View
  <2> HIDE DEF N
  <2> QED BY <1>1, <2>1, PictureUsed
<1>4. \A i \in OwnInfos(N, c) : KeyOf(i) \in UsedKeys /\ i \in Items[c] BY <1>1, OwnUsed
<1>5. PICK w \in setup : CtxOf[w] = c /\ DirOf[w] = d BY DEF Dirs
<1>6. setup \subseteq Watchers /\ \A v \in Watchers : watch[v].rpc # "off" => v \in setup
  BY DEF WatchInv, Reading
<1>7. ASSUME NEW v \in setup, CtxOf[v] = c
      PROVE  v \in indexed /\ \A k \in UsedKeys : seen[v][k] = W!ValueAt(c, DirOf[v], k, W!Now(c))
  <2>1. v \in Watchers BY <1>6
  <2>2. watch[v].rpc = "watch" /\ watch[v].at = W!Now(c) BY <1>7 DEF InSync
  <2>3. watch[v].rev = W!Now(c) /\ watch[v].rev # 0 BY <2>1, <2>2 DEF WatchInv, Ahead
  <2>4. v \in indexed BY <2>1, <2>3 DEF Reading
  <2>5. seen[v] = W!StateAt(c, DirOf[v], W!Now(c))
    BY <1>7, <2>1, <2>3 DEF WatchInv, NothingSkipped, W!NothingSkipped
  <2> QED BY <2>4, <2>5 DEF W!StateAt
<1>8. w \in F BY <1>5, <1>7 DEF FollowersIn, IsTop
<1>9. ASSUME NEW v \in F
      PROVE  /\ \A k \in UsedKeys : seen[v][k] = W!ValueAt(c, DirOf[v], k, W!Now(c))
             /\ Registered(c, DirOf[v]) = Registered(c, d)
  <2>1. v \in setup /\ CtxOf[v] = c /\ (DirOf[v] = "topology" <=> top)
    BY <1>6 DEF FollowersIn, IsTop, SetInv, FlagInv
  <2>2. DirOf[v] \in Dirs(c) BY <2>1 DEF Dirs
  <2>3. CASE top BY <1>7, <2>1, <2>3
  <2>4. CASE ~top
    <3>1. DirOf[v] \in NodeDirs(c) /\ d \in NodeDirs(c) BY <2>1, <2>2, <2>4 DEF NodeDirs
    <3>2. Registered(c, DirOf[v]) = Registered(c, d) BY <2>4, <3>1 DEF DirsAgree
    <3> QED BY <1>7, <2>1, <3>2
  <2> QED BY <2>3, <2>4
<1>10. /\ \A i \in J : \E v \in F : seen[v][KeyOf(i)] = i
       /\ \A i \in G : (\A v \in F : seen[v][KeyOf(i)] # None) => \E j \in J : KeyOf(j) = KeyOf(i)
  BY <1>8 DEF Followed, Covered
<1> HIDE DEF J, F
<1>11. ASSUME NEW i \in J PROVE i \in Registered(c, d)
  <2>1. PICK v \in F : seen[v][KeyOf(i)] = i BY <1>10
  <2>2. KeyOf(i) \in UsedKeys /\ i \in Items[c] BY <1>3, <1>4
  <2>3. W!ValueAt(c, DirOf[v], KeyOf(i), W!Now(c)) = i BY <1>9, <2>1, <2>2
  <2>4. i \in Registered(c, DirOf[v]) BY <2>2, <2>3 DEF Registered
  <2> QED BY <1>9, <2>4
<1>12. ASSUME NEW i \in Registered(c, d), OnlyOf(c, i), top => i.id # None PROVE i \in J
  <2>1. i \in Items[c] BY DEF Registered
  <2>2. i \in OwnInfos(N, c) BY <1>1, <1>2, <1>5, <2>1, ItemsOwn
  <2>3. i # None BY <1>2, <2>1, DiscoveryConstants, SetConstants
  <2>4. i \in G
    <3> SUFFICES ASSUME NEW y \in N, y.ctx # c PROVE ~Shares(y.info, i)
      BY <1>12, <2>2 DEF Goal, Lone
    <3>1. y.ctx \in {CtxOf[v] : v \in setup} /\ y.info \in Items[y.ctx] BY DEF Registrable
    <3>2. y.info.id # i.id /\ y.info.name # i.name BY <1>12, <3>1 DEF OnlyOf
    <3> QED BY <3>2 DEF Shares
  <2>5. KeyOf(i) \in UsedKeys BY <1>4, <2>2
  <2>6. ASSUME NEW v \in F PROVE seen[v][KeyOf(i)] # None
    <3>1. i \in Registered(c, DirOf[v]) BY <1>9
    <3>2. W!ValueAt(c, DirOf[v], KeyOf(i), W!Now(c)) = i BY <3>1 DEF Registered
    <3> QED BY <1>9, <2>3, <2>5, <3>2
  <2>7. PICK j \in J : KeyOf(j) = KeyOf(i) BY <1>10, <2>4, <2>6
  <2>8. j \in Registered(c, d) BY <1>11
  <2>9. j = i BY <2>7, <2>8 DEF Registered
  <2> QED BY <2>9
<1> QED BY <1>11, <1>12 DEF J

\* In sync, the set and the topologies mirror the registrations.
LEMMA OrderSynced ==
  ASSUME WellNamed, WellApart, WatchInv, SetInv, Reading, Dates, Followed
  PROVE  SyncedTrue
<1> SUFFICES ASSUME NEW c \in Plain, InSync(c), DirsAgree(c) PROVE Mirrors(c) /\ TopologiesMirrored(c)
  BY DEF SyncedTrue
<1>0. View.disc = disc /\ View.topo = topo BY DEF View
<1>1. Known(c) = Picture(View, c, FALSE)
  <2>1. Indexed(disc) = Held(disc) BY OrderFacts
  <2> QED BY <1>0, <2>1 DEF Known, KnownIn, Picture
<1>2. Mirrors(c)
  <2> SUFFICES ASSUME NEW d \in NodeDirs(c)
               PROVE  /\ Known(c) \subseteq Registered(c, d)
                      /\ \A i \in Registered(c, d) : OnlyOf(c, i) => i \in Known(c)
    BY DEF Mirrors
  <2>1. PICK top \in BOOLEAN : top = FALSE OBVIOUS
  <2>2. d \in Dirs(c) /\ (d = "topology" <=> top) BY <2>1 DEF NodeDirs
  <2>3. /\ Picture(View, c, top) \subseteq Registered(c, d)
        /\ \A i \in Registered(c, d) : OnlyOf(c, i) /\ (top => i.id # None) => i \in Picture(View, c, top)
    BY <2>2, PictureTrue
  <2> QED BY <1>1, <2>1, <2>3
<1>3. TopologiesMirrored(c)
  <2> SUFFICES ASSUME "topology" \in Dirs(c), NEW i \in Items[c], i.id # None, OnlyOf(c, i)
               PROVE  i \in Registered(c, "topology") <=>
                        topo[i.id] # None /\ topo[i.id].ctx = c /\ topo[i.id].info = i
    BY DEF TopologiesMirrored
  <2>1. PICK top \in BOOLEAN : top = TRUE OBVIOUS
  <2>2. PICK d \in Dirs(c) : d = "topology" OBVIOUS
  <2>3. /\ Picture(View, c, top) \subseteq Registered(c, d)
        /\ \A j \in Registered(c, d) : OnlyOf(c, j) /\ (top => j.id # None) => j \in Picture(View, c, top)
    BY <2>1, <2>2, PictureTrue
  <2>4. Picture(View, c, top) = Shown(topo, c) BY <1>0, <2>1 DEF Picture
  <2>5. ASSUME i \in Registered(c, "topology")
        PROVE  topo[i.id] # None /\ topo[i.id].ctx = c /\ topo[i.id].info = i
    <3>1. i \in Shown(topo, c) BY <2>1, <2>2, <2>3, <2>4, <2>5
    <3>2. PICK e \in Ids : topo[e] # None /\ topo[e].ctx = c /\ topo[e].info = i BY <3>1 DEF Shown
    <3>3. e = i.id BY <3>2 DEF Dates, Placed
    <3> QED BY <3>2, <3>3
  <2>6. ASSUME topo[i.id] # None, topo[i.id].ctx = c, topo[i.id].info = i
        PROVE  i \in Registered(c, "topology")
    <3>1. i.id \in Ids
      <4>1. c \in Contexts BY DEF Plain
      <4>2. i \in Infos BY <4>1, DiscoveryConstants
      <4> QED BY <4>2 DEF Infos
    <3>2. i \in Shown(topo, c) BY <2>6, <3>1 DEF Shown
    <3> QED BY <2>2, <2>3, <2>4, <3>2
  <2> QED BY <2>5, <2>6
<1> QED BY <1>2, <1>3

\* When the watchers of a context have delivered everything and its directories
\* agree, the set and the topologies are what is registered: no order of the
\* snapshots and events of two watchers lets an old event have the last word.
THEOREM WatchersInSync ==
  ASSUME ~NotifiedAhead, WellNamed, WellApart, WellWatched
  PROVE  Spec => []SyncedTrue
<1>1. Init => Reading /\ Dates /\ Followed BY InitSync
<1>2. /\ WatchInv /\ SetInv /\ WatchInv' /\ SetInv' /\ Reading /\ Dates /\ Followed /\ [Next]_vars
      => Reading' /\ Dates' /\ Followed'
  BY ReadingStep, DatesStep, FollowedStep
<1>3. WatchInv /\ SetInv /\ Reading /\ Dates /\ Followed => SyncedTrue BY OrderSynced
<1>4. Spec => []WatchInv BY WatchersKeepUp
<1>5. Spec => []SetInv BY SetInOrder
<1> QED BY <1>1, <1>2, <1>3, <1>4, <1>5, PTL DEF Spec
=============================================================================
