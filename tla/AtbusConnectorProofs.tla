------------------------ MODULE AtbusConnectorProofs ------------------------
(***************************************************************************)
(* Proofs about AtbusConnector for every set of peers, every topology they *)
(* may name, every policy and every timeout.                               *)
(***************************************************************************)
EXTENDS AtbusConnector, Recursion

Links == Peers \cup {Self, None}
EndpointStates == {"none", "opened", "available"}
Tables == UNION {[D -> Handle] : D \in SUBSET Peers}
Ways == {f \in [Peers -> Links \cup {Absent}] :
            \A b \in Peers : f[b] \in Upstreams[b] \cup {Absent}}

\* The views of well-formed states.
Views ==
    [h : Tables, ep : [Peers -> EndpointStates], dial : SUBSET Peers,
     topo : Ways, disc : SUBSET Peers, pend : SUBSET Peers]

\* What a handle of the table keeps by itself.
Sound(g) ==
    /\ g \in Handle
    /\ g.app = "tagged" => g.told = g.ready
    /\ g.lost => g.timer \in 0 .. g.lostIn

\* Every handle is sound, but for the one of b.
GoodBut(s, b) ==
    /\ s \in Views
    /\ \A x \in DOMAIN s.h \ {b} :
          Sound(s.h[x]) /\ (s.h[x].wait => x \notin s.disc)

Good(s) == GoodBut(s, None)

-----------------------------------------------------------------------------
(* Numbers. *)

LEMMA TimesNat ==
  /\ Times \subseteq Nat /\ 0 \in Times
  /\ StartInterval \in Times /\ MaxInterval \in Times /\ LostTimeout \in Times
  /\ \A t \in Times : t > 0 => t - 1 \in Times
BY ConnectorConstants DEF Times



LEMMA TimesInt == \A t \in Times : t \in Nat /\ t \in Int /\ t >= 0 /\ t # NoTimer
BY TimesNat DEF NoTimer

\* The back-off is defined for every number of tries, never 0, and no longer
\* than the start interval or the maximum.
LEMMA BackoffTimes == \A n \in Nat : Backoff[n] \in Times /\ Backoff[n] > 0
<1> DEFINE Step(v) == IF 2 * v >= MaxInterval THEN MaxInterval ELSE 2 * v
           Body(f) == [n \in Nat |->
                         IF n = 0 THEN StartInterval
                         ELSE LET twice == 2 * f[n - 1]
                              IN IF twice >= MaxInterval THEN MaxInterval ELSE twice]
           D == Times \ {0}
           g == [n \in Nat |-> [v \in D |-> Step(v)]]
<1>1. StartInterval \in D BY TimesNat, ConnectorConstants
<1>2. \A v \in D : Step(v) \in D BY ConnectorConstants DEF Times
<1>3. g \in [Nat -> [D -> D]] BY <1>2
<1>4. PICK f \in [Nat -> D] : f[0] = StartInterval /\ \A n \in Nat : f[n + 1] = g[n][f[n]]
  <2> HIDE DEF g, D
  <2>1. \A a \in D : \A e \in [Nat -> [D -> D]] :
          \E f \in [Nat -> D] : f[0] = a /\ \A n \in Nat : f[n + 1] = e[n][f[n]]
    BY RecursionExists
  <2> QED BY <1>1, <1>3, <2>1, Zenon
<1>5. \A n \in Nat : f[n + 1] = Step(f[n]) BY <1>4
<1>6. f = Body(f)
  <2>1. ASSUME NEW n \in Nat PROVE f[n] = Body(f)[n]
    <3>1. CASE n = 0 BY <3>1, <1>4
    <3>2. CASE n # 0
      <4>1. n - 1 \in Nat /\ (n - 1) + 1 = n BY <3>2
      <4>2. f[n] = Step(f[n - 1]) BY <1>5, <4>1
      <4> QED BY <3>2, <4>2
    <3> QED BY <3>1, <3>2
  <2> QED BY <1>4, <2>1
<1>7. Backoff = Body(Backoff)
  <2>1. Backoff = CHOOSE e : e = Body(e) BY Zenon DEF Backoff
  <2> HIDE DEF Body
  <2> QED BY <1>6, <2>1
<1>8. Backoff[0] = StartInterval BY <1>7
<1>9. \A n \in Nat : Backoff[n + 1] = Step(Backoff[n])
  <2> SUFFICES ASSUME NEW n \in Nat PROVE Backoff[n + 1] = Step(Backoff[n]) OBVIOUS
  <2>1. n + 1 \in Nat /\ n + 1 # 0 /\ (n + 1) - 1 = n OBVIOUS
  <2> QED BY <1>7, <2>1
<1> DEFINE T == {n \in Nat : Backoff[n] \in D}
<1>10. 0 \in T BY <1>1, <1>8
<1>11. \A n \in T : n + 1 \in T BY <1>2, <1>9
<1> HIDE DEF T
<1>12. T = Nat
  <2>1. T \subseteq Nat BY DEF T
  <2> QED BY <1>10, <1>11, <2>1, Induction
<1>13. \A n \in Nat : Backoff[n] \in D BY <1>12 DEF T
<1>14. \A v \in D : v \in Times /\ v > 0 BY TimesNat
<1> HIDE DEF D
<1> QED BY <1>13, <1>14

-----------------------------------------------------------------------------
(* Views and their handles. *)

LEMMA ViewFacts ==
  ASSUME NEW s \in Views
  PROVE  /\ DOMAIN s.h \subseteq Peers
         /\ s.h \in [DOMAIN s.h -> Handle]
         /\ s.ep \in [Peers -> EndpointStates]
         /\ s.dial \subseteq Peers /\ s.disc \subseteq Peers /\ s.pend \subseteq Peers
         /\ s.topo \in [Peers -> Links \cup {Absent}]
         /\ \A b \in Peers : s.topo[b] \in Upstreams[b] \cup {Absent}
BY DEF Views, Tables, Ways

LEMMA TableOf ==
  ASSUME NEW D \in SUBSET Peers, NEW f \in [D -> Handle]
  PROVE  f \in Tables
BY DEF Tables

LEMMA EmptyTable == << >> \in Tables
<1>1. << >> \in [{} -> Handle] OBVIOUS
<1>2. {} \in SUBSET Peers OBVIOUS
<1> QED BY <1>1, <1>2, TableOf

\* A view with another table
LEMMA PutTable ==
  ASSUME NEW s \in Views, NEW t \in Tables
  PROVE  LET r == [s EXCEPT !.h = t]
         IN /\ r \in Views /\ r.h = t
            /\ r.ep = s.ep /\ r.dial = s.dial /\ r.topo = s.topo
            /\ r.disc = s.disc /\ r.pend = s.pend
BY DEF Views

\* What a handle is to the others
Outside(g) ==
    [app |-> g.app, told |-> g.told, ready |-> g.ready, active |-> g.active,
     up |-> g.up, proxy |-> g.proxy, for |-> g.for]

\* Only the waits, the tries and the times of b differ.
Touches(s, r, b) ==
    /\ s \in Views /\ r \in Views /\ b \in DOMAIN s.h
    /\ DOMAIN r.h = DOMAIN s.h
    /\ \A x \in DOMAIN s.h : x # b => r.h[x] = s.h[x]
    /\ r.h[b] \in Handle /\ Outside(r.h[b]) = Outside(s.h[b])
    /\ r.h[b].next = 0 => s.h[b].next = 0
    /\ r.ep = s.ep /\ r.dial = s.dial /\ r.topo = s.topo
    /\ r.disc = s.disc /\ r.pend = s.pend

LEMMA TouchSelf ==
  ASSUME NEW s \in Views, NEW b \in DOMAIN s.h PROVE Touches(s, s, b)
BY ViewFacts DEF Touches

LEMMA TouchTrans ==
  ASSUME NEW s, NEW t, NEW r, NEW b, Touches(s, t, b), Touches(t, r, b)
  PROVE  Touches(s, r, b)
BY DEF Touches

LEMMA TouchPut ==
  ASSUME NEW s \in Views, NEW b \in DOMAIN s.h, NEW g \in Handle,
         Outside(g) = Outside(s.h[b]), g.next = 0 => s.h[b].next = 0
  PROVE  LET r == [s EXCEPT !.h = [s.h EXCEPT ![b] = g]]
         IN Touches(s, r, b) /\ r.h[b] = g
<1> DEFINE t == [s.h EXCEPT ![b] = g]
<1>1. t \in [DOMAIN s.h -> Handle] /\ t[b] = g /\ \A x \in DOMAIN s.h : x # b => t[x] = s.h[x]
  BY ViewFacts
<1>2. t \in Tables BY <1>1, ViewFacts, TableOf
<1> HIDE DEF t
<1>3. DOMAIN t = DOMAIN s.h BY <1>1
<1> QED BY <1>1, <1>2, <1>3, PutTable DEF Touches, t

LEMMA TouchGood ==
  ASSUME NEW s, NEW r, NEW b, GoodBut(s, b), Touches(s, r, b),
         Sound(r.h[b]), r.h[b].wait => b \notin r.disc
  PROVE  Good(r)
BY DEF GoodBut, Good, Touches

LEMMA GoodIsBut ==
  ASSUME NEW s, NEW b, Good(s)
  PROVE  GoodBut(s, b) /\ s \in Views
         /\ \A x \in DOMAIN s.h : Sound(s.h[x]) /\ (s.h[x].wait => x \notin s.disc)
BY ViewFacts, ConnectorConstants DEF GoodBut, Good

-----------------------------------------------------------------------------
(* The fields of a handle. *)

LEMMA HandleTimes ==
  ASSUME NEW g \in Handle
  PROVE  /\ g.next \in Times /\ g.lostIn \in Times /\ g.timer \in Times \cup {NoTimer}
         /\ g.tries \in Nat /\ (MaxTry > 0 => g.tries \in 0 .. MaxTry)
         /\ g.next \in Nat /\ g.lostIn \in Nat /\ g.timer \in Nat \cup {NoTimer}
         /\ g.timer \in Int /\ NoTimer \in Int
<1>1. g.next \in Times /\ g.lostIn \in Times /\ g.timer \in Times \cup {NoTimer}
  BY DEF Handle
<1>2. g.tries \in IF MaxTry > 0 THEN 0 .. MaxTry ELSE Nat BY DEF Handle
<1>3. g.tries \in Nat /\ (MaxTry > 0 => g.tries \in 0 .. MaxTry)
  BY <1>2, ConnectorConstants
<1> QED BY <1>1, <1>3, TimesInt DEF NoTimer

LEMMA PutTimer ==
  ASSUME NEW g \in Handle, NEW t \in Times \cup {NoTimer}
  PROVE  LET f == [g EXCEPT !.timer = t]
         IN /\ f \in Handle /\ Outside(f) = Outside(g)
            /\ f.timer = t /\ f.lost = g.lost /\ f.lostIn = g.lostIn /\ f.wait = g.wait
            /\ f.next = g.next /\ f.tries = g.tries
BY DEF Handle, Outside

LEMMA PutWait ==
  ASSUME NEW g \in Handle, NEW v \in BOOLEAN
  PROVE  LET f == [g EXCEPT !.wait = v]
         IN /\ f \in Handle /\ Outside(f) = Outside(g)
            /\ f.timer = g.timer /\ f.lost = g.lost /\ f.lostIn = g.lostIn /\ f.wait = v
            /\ f.next = g.next /\ f.tries = g.tries
BY DEF Handle, Outside

\* The fields that decide whether a handle is sound
LEMMA SoundBy ==
  ASSUME NEW g, NEW f \in Handle, Outside(f) = Outside(g),
         g.app = "tagged" => g.told = g.ready,
         f.lost => f.timer \in 0 .. f.lostIn
  PROVE  Sound(f)
BY DEF Sound, Outside
-----------------------------------------------------------------------------
(* The helpers that touch one handle. *)

LEMMA UpdateTimerTouches ==
  ASSUME NEW s \in Views, NEW b \in DOMAIN s.h, NEW t \in Times
  PROVE  LET r == UpdateTimer(s, b, t)
         IN /\ Touches(s, r, b)
            /\ r.h[b].lost = s.h[b].lost /\ r.h[b].lostIn = s.h[b].lostIn
            /\ r.h[b].wait = s.h[b].wait /\ r.h[b].next = s.h[b].next
            /\ r.h[b].tries = s.h[b].tries
            /\ r.h[b].timer \in {s.h[b].timer, t} /\ r.h[b].timer # NoTimer
            /\ r.h[b].timer <= t
            /\ s.h[b].timer # NoTimer => r.h[b].timer <= s.h[b].timer
<1>1. s.h[b] \in Handle BY ViewFacts
<1>2. s.h[b].timer \in Times \cup {NoTimer} /\ t \in Nat /\ t # NoTimer
  BY <1>1, HandleTimes, TimesNat DEF NoTimer
<1>3. CASE s.h[b].timer # NoTimer /\ s.h[b].timer <= t
  BY <1>1, <1>2, <1>3, HandleTimes, TouchSelf DEF UpdateTimer
<1>4. CASE ~(s.h[b].timer # NoTimer /\ s.h[b].timer <= t)
  <2> DEFINE g == [s.h[b] EXCEPT !.timer = t]
  <2>1. /\ g \in Handle /\ Outside(g) = Outside(s.h[b])
        /\ g.timer = t /\ g.lost = s.h[b].lost /\ g.lostIn = s.h[b].lostIn
        /\ g.wait = s.h[b].wait /\ g.next = s.h[b].next /\ g.tries = s.h[b].tries
    BY <1>1, PutTimer
  <2>2. UpdateTimer(s, b, t) = [s EXCEPT !.h = [s.h EXCEPT ![b] = g]]
    BY <1>4 DEF UpdateTimer
  <2> HIDE DEF g
  <2>3. Touches(s, UpdateTimer(s, b, t), b) /\ UpdateTimer(s, b, t).h[b] = g
    BY <2>1, <2>2, TouchPut
  <2>4. s.h[b].timer # NoTimer => t <= s.h[b].timer
    <3>1. s.h[b].timer \in Int /\ t \in Int BY <1>1, <1>2, HandleTimes
    <3> QED BY <1>4, <3>1
  <2> QED BY <1>2, <2>1, <2>3, <2>4
<1> QED BY <1>3, <1>4

LEMMA DropTimerTouches ==
  ASSUME NEW s \in Views, NEW b \in DOMAIN s.h
  PROVE  LET r == DropTimer(s, b)
         IN /\ Touches(s, r, b)
            /\ r.h[b].lost = s.h[b].lost /\ r.h[b].lostIn = s.h[b].lostIn
            /\ r.h[b].wait = s.h[b].wait /\ r.h[b].next = s.h[b].next
            /\ r.h[b].tries = s.h[b].tries
            /\ s.h[b].lost => r.h[b].timer = s.h[b].timer
<1>1. s.h[b] \in Handle BY ViewFacts
<1>3. CASE NeedTimer(s, b)
  BY <1>3, TouchSelf DEF DropTimer
<1>4. CASE ~NeedTimer(s, b)
  <2> DEFINE g == [s.h[b] EXCEPT !.timer = NoTimer]
  <2>1. /\ g \in Handle /\ Outside(g) = Outside(s.h[b])
        /\ g.lost = s.h[b].lost /\ g.lostIn = s.h[b].lostIn
        /\ g.wait = s.h[b].wait /\ g.next = s.h[b].next /\ g.tries = s.h[b].tries
    BY <1>1, PutTimer
  <2>2. DropTimer(s, b) = [s EXCEPT !.h = [s.h EXCEPT ![b] = g]]
    BY <1>4 DEF DropTimer
  <2> HIDE DEF g
  <2>3. Touches(s, DropTimer(s, b), b) /\ DropTimer(s, b).h[b] = g
    BY <2>1, <2>2, TouchPut
  <2>4. ~s.h[b].lost BY <1>4 DEF NeedTimer
  <2> QED BY <2>1, <2>3, <2>4
<1> QED BY <1>3, <1>4

LEMMA SetWaitingTouches ==
  ASSUME NEW s \in Views, NEW b \in DOMAIN s.h
  PROVE  LET r == SetWaiting(s, b)
         IN /\ Touches(s, r, b)
            /\ r.h[b].lost = s.h[b].lost /\ r.h[b].lostIn = s.h[b].lostIn
            /\ r.h[b].next = s.h[b].next /\ r.h[b].tries = s.h[b].tries
            /\ r.h[b].timer = s.h[b].timer
<1>1. s.h[b] \in Handle BY ViewFacts
<1>3. CASE SetWaiting(s, b) = s
  BY <1>3, TouchSelf
<1>4. CASE SetWaiting(s, b) # s
  <2> DEFINE g == [s.h[b] EXCEPT !.wait = TRUE]
  <2>1. /\ g \in Handle /\ Outside(g) = Outside(s.h[b])
        /\ g.lost = s.h[b].lost /\ g.lostIn = s.h[b].lostIn
        /\ g.timer = s.h[b].timer /\ g.next = s.h[b].next /\ g.tries = s.h[b].tries
    BY <1>1, PutWait
  <2>2. SetWaiting(s, b) = [s EXCEPT !.h = [s.h EXCEPT ![b] = g]]
    BY <1>4 DEF SetWaiting
  <2> HIDE DEF g
  <2>3. Touches(s, SetWaiting(s, b), b) /\ SetWaiting(s, b).h[b] = g
    BY <2>1, <2>2, TouchPut
  <2> QED BY <2>1, <2>3
<1> QED BY <1>3, <1>4

LEMMA SetLostTouches ==
  ASSUME NEW s \in Views, NEW b \in DOMAIN s.h, ~s.h[b].lost
  PROVE  LET r == SetLost(s, b)
         IN /\ Touches(s, r, b) /\ r.h[b].lost
            /\ r.h[b].timer \in 0 .. r.h[b].lostIn
            /\ r.h[b].wait = s.h[b].wait
            /\ r.h[b].next = s.h[b].next /\ r.h[b].tries = s.h[b].tries
<1>1. s.h[b] \in Handle BY ViewFacts
<1> DEFINE g == [[s.h[b] EXCEPT !.lost = TRUE] EXCEPT !.lostIn = LostTimeout]
           t == [s EXCEPT !.h[b].lost = TRUE, !.h[b].lostIn = LostTimeout]
<1>2. /\ g \in Handle /\ Outside(g) = Outside(s.h[b])
      /\ g.lost /\ g.lostIn = LostTimeout /\ g.timer = s.h[b].timer
      /\ g.wait = s.h[b].wait /\ g.next = s.h[b].next /\ g.tries = s.h[b].tries
  BY <1>1, TimesNat DEF Handle, Outside
<1>3. t = [s EXCEPT !.h = [s.h EXCEPT ![b] = g]] BY DEF Views, Tables
<1>4. SetLost(s, b) = UpdateTimer(t, b, LostTimeout) BY DEF SetLost
<1> HIDE DEF g, t
<1>5. Touches(s, t, b) /\ t.h[b] = g BY <1>2, <1>3, TouchPut
<1>6. t \in Views /\ b \in DOMAIN t.h BY <1>5 DEF Touches
<1> DEFINE r == UpdateTimer(t, b, LostTimeout)
<1>7. /\ Touches(t, r, b)
      /\ r.h[b].lost = t.h[b].lost /\ r.h[b].lostIn = t.h[b].lostIn
      /\ r.h[b].wait = t.h[b].wait /\ r.h[b].next = t.h[b].next
      /\ r.h[b].tries = t.h[b].tries
      /\ r.h[b].timer \in {t.h[b].timer, LostTimeout} /\ r.h[b].timer # NoTimer
      /\ r.h[b].timer <= LostTimeout
  BY <1>6, TimesNat, UpdateTimerTouches
<1>8. Touches(s, r, b) BY <1>5, <1>7, TouchTrans
<1> HIDE DEF r
<1>9. r.h[b].timer \in 0 .. LostTimeout
  <2>1. r.h[b] \in Handle BY <1>8 DEF Touches
  <2>2. r.h[b].timer \in Nat BY <2>1, <1>7, HandleTimes
  <2> QED BY <2>2, <1>7, ConnectorConstants
<1>10. r = SetLost(s, b) BY <1>4 DEF r
<1> QED BY <1>2, <1>5, <1>7, <1>8, <1>9, <1>10

\* The handle has the earlier of its timers, and no later one than was asked
\* for.
LEMMA RetimeTouches ==
  ASSUME NEW s \in Views, NEW b \in DOMAIN s.h, ~Exhausted(s, b),
         NEW previous \in Times \cup {NoTimer}
  PROVE  LET r == Retime(s, b, previous)
         IN /\ Touches(s, r, b)
            /\ r.h[b].lost = s.h[b].lost /\ r.h[b].lostIn = s.h[b].lostIn
            /\ r.h[b].wait = s.h[b].wait
            /\ r.h[b].next > 0 /\ r.h[b].timer \in Times
            /\ s.h[b].timer # NoTimer => r.h[b].timer <= s.h[b].timer
            /\ previous # NoTimer => r.h[b].timer <= previous
<1>1. s.h[b] \in Handle BY ViewFacts
<1> DEFINE n == s.h[b].tries
           run == Backoff[n]
           g == [[s.h[b] EXCEPT !.tries = n + 1] EXCEPT !.next = run]
           t == [s EXCEPT !.h[b].tries = @ + 1, !.h[b].next = run]
           d == IF previous = NoTimer \/ run < previous THEN run ELSE previous
<1>2. n \in Nat /\ (MaxTry > 0 => n + 1 <= MaxTry)
  BY <1>1, HandleTimes, ConnectorConstants DEF Exhausted
<1>3. run \in Times /\ run > 0 BY <1>2, BackoffTimes
<1>4. /\ g \in Handle /\ Outside(g) = Outside(s.h[b])
      /\ g.lost = s.h[b].lost /\ g.lostIn = s.h[b].lostIn /\ g.timer = s.h[b].timer
      /\ g.wait = s.h[b].wait /\ g.next = run
  <2> HIDE DEF n, run
  <2>1. n + 1 \in IF MaxTry > 0 THEN 0 .. MaxTry ELSE Nat BY <1>2, ConnectorConstants
  <2> QED BY <1>1, <1>3, <2>1 DEF Handle, Outside
<1>5. t = [s EXCEPT !.h = [s.h EXCEPT ![b] = g]] BY DEF Views, Tables
<1>6. Retime(s, b, previous) = UpdateTimer(t, b, d) BY DEF Retime
<1>7. d \in Times /\ (previous # NoTimer => d <= previous)
  <2> HIDE DEF run
  <2> QED BY <1>3, TimesNat
<1> HIDE DEF g, t, d, run, n
<1>8. Touches(s, t, b) /\ t.h[b] = g BY <1>3, <1>4, <1>5, TimesInt, TouchPut
<1>9. t \in Views /\ b \in DOMAIN t.h BY <1>8 DEF Touches
<1> DEFINE r == UpdateTimer(t, b, d)
<1>10. /\ Touches(t, r, b)
       /\ r.h[b].lost = t.h[b].lost /\ r.h[b].lostIn = t.h[b].lostIn
       /\ r.h[b].wait = t.h[b].wait /\ r.h[b].next = t.h[b].next
       /\ r.h[b].timer # NoTimer /\ r.h[b].timer <= d
       /\ t.h[b].timer # NoTimer => r.h[b].timer <= t.h[b].timer
  BY <1>9, <1>7, UpdateTimerTouches
<1>11. Touches(s, r, b) BY <1>8, <1>10, TouchTrans
<1> HIDE DEF r
<1>12. r.h[b].timer \in Times
  <2>1. r.h[b] \in Handle BY <1>11 DEF Touches
  <2> QED BY <2>1, <1>10, HandleTimes
<1>13. previous # NoTimer => r.h[b].timer <= previous
  <2>1. r.h[b].timer \in Int BY <1>12, TimesInt
  <2>2. d \in Int BY <1>7, TimesInt
  <2>3. previous # NoTimer => previous \in Int BY TimesInt
  <2> QED BY <1>7, <1>10, <2>1, <2>2, <2>3
<1>14. r = Retime(s, b, previous) BY <1>6 DEF r
<1> QED BY <1>3, <1>4, <1>8, <1>10, <1>11, <1>12, <1>13, <1>14
LEMMA TouchesWait ==
  ASSUME NEW s \in Views, NEW b \in DOMAIN s.h, NEW v \in BOOLEAN
  PROVE  LET r == [s EXCEPT !.h[b].wait = v]
         IN /\ Touches(s, r, b)
            /\ r.h[b].lost = s.h[b].lost /\ r.h[b].lostIn = s.h[b].lostIn
            /\ r.h[b].wait = v /\ r.h[b].next = s.h[b].next
            /\ r.h[b].tries = s.h[b].tries /\ r.h[b].timer = s.h[b].timer
<1> DEFINE g == [s.h[b] EXCEPT !.wait = v]
<1>1. s.h[b] \in Handle BY ViewFacts
<1>2. /\ g \in Handle /\ Outside(g) = Outside(s.h[b])
      /\ g.lost = s.h[b].lost /\ g.lostIn = s.h[b].lostIn /\ g.wait = v
      /\ g.next = s.h[b].next /\ g.tries = s.h[b].tries /\ g.timer = s.h[b].timer
  BY <1>1, PutWait
<1>3. [s EXCEPT !.h[b].wait = v] = [s EXCEPT !.h = [s.h EXCEPT ![b] = g]]
  OBVIOUS
<1> HIDE DEF g
<1> QED BY <1>2, <1>3, TouchPut

\* on_remove_endpoint() leaves the handle as it is, or later to reconnect.
LEMMA LapseTouches ==
  ASSUME NEW s, Good(s), NEW b \in DOMAIN s.h
  PROVE  Touches(s, Lapse(s, b).s, b) /\ Good(Lapse(s, b).s)
<1> DEFINE h == s.h[b]
           r == Lapse(s, b).s
           t == IF h.next = 0 THEN Retime(s, b, NoTimer) ELSE s
<1>1. s \in Views /\ Sound(h) /\ h \in Handle /\ (h.wait => b \notin s.disc)
      /\ GoodBut(s, b)
  BY ViewFacts, GoodIsBut DEF Sound
<1>2. CASE ~NeedKeep(s, b) \/ (h.next = 0 /\ Exhausted(s, b))
  <2>1. r = s BY <1>2 DEF Lapse
  <2> QED BY <2>1, <1>1, TouchSelf
<1>3. CASE ~(~NeedKeep(s, b) \/ (h.next = 0 /\ Exhausted(s, b)))
  <2>1. \/ r = t
        \/ b \notin s.disc /\ r = [t EXCEPT !.h[b].wait = TRUE]
    BY <1>3 DEF Lapse
  <2>2. /\ Touches(s, t, b)
        /\ t.h[b].lost = h.lost /\ t.h[b].lostIn = h.lostIn
        /\ t.h[b].wait = h.wait
        /\ h.timer # NoTimer => t.h[b].timer <= h.timer /\ t.h[b].timer \in Times
    <3>1. CASE h.next = 0
      <4>1. ~Exhausted(s, b) /\ NoTimer \in Times \cup {NoTimer} BY <1>3, <3>1
      <4>2. t = Retime(s, b, NoTimer) BY <3>1
      <4> HIDE DEF t
      <4> QED BY <1>1, <4>1, <4>2, RetimeTouches
    <3>2. CASE h.next # 0
      <4>1. t = s BY <3>2
      <4> QED BY <1>1, <4>1, TouchSelf, HandleTimes
    <3> QED BY <3>1, <3>2
  <2> SUFFICES Touches(s, r, b) /\ Good(r) OBVIOUS
  <2> HIDE DEF t, r
  <2>3. t \in Views /\ b \in DOMAIN t.h /\ t.disc = s.disc
        /\ Outside(t.h[b]) = Outside(h) /\ t.h[b] \in Handle
    BY <2>2 DEF Touches
  <2>4. t.h[b].lost => t.h[b].timer \in 0 .. t.h[b].lostIn
    <3>1. SUFFICES ASSUME h.lost PROVE t.h[b].timer \in 0 .. h.lostIn BY <2>2
    <3>2. h.timer \in 0 .. h.lostIn /\ h.lostIn \in Nat BY <3>1, <1>1, HandleTimes DEF Sound
    <3>3. t.h[b].timer <= h.timer /\ t.h[b].timer \in Nat
      BY <2>2, <3>2, TimesInt DEF NoTimer
    <3> QED BY <3>2, <3>3
  <2>5. CASE r = t
    <3>1. Sound(r.h[b]) /\ (r.h[b].wait => b \notin r.disc)
      BY <1>1, <2>2, <2>3, <2>4, <2>5, SoundBy DEF Sound
    <3> QED BY <3>1, <2>2, <2>5, <1>1, TouchGood
  <2>6. CASE b \notin s.disc /\ r = [t EXCEPT !.h[b].wait = TRUE]
    <3>1. /\ Touches(t, r, b)
          /\ r.h[b].lost = t.h[b].lost /\ r.h[b].lostIn = t.h[b].lostIn
          /\ r.h[b].timer = t.h[b].timer
      BY <2>3, <2>6, TouchesWait
    <3>2. Touches(s, r, b) BY <2>2, <3>1, TouchTrans
    <3>3. r.h[b] \in Handle /\ Outside(r.h[b]) = Outside(h) /\ r.disc = s.disc
      BY <3>2 DEF Touches
    <3>4. Sound(r.h[b]) BY <1>1, <2>4, <3>1, <3>3, SoundBy DEF Sound
    <3> QED BY <2>6, <3>2, <3>3, <3>4, <1>1, TouchGood
  <2> QED BY <2>1, <2>5, <2>6
<1> QED BY <1>2, <1>3
-----------------------------------------------------------------------------
(* Marking: readiness changes for many handles, and nothing else that counts *)
(* but the timers of those that are ready. *)

\* What is left of g when it is marked, D being the ids in the table.
Marked(g, f, D) ==
    /\ f \in Handle /\ f.proxy = g.proxy /\ f.active = g.active /\ f.app = g.app
    /\ f.for \in {g.for, g.for \cap D}
    /\ f.wait = g.wait /\ f.lost = g.lost /\ f.lostIn = g.lostIn
    /\ g.app = "tagged" /\ g.told = g.ready => f.told = f.ready
    /\ g.lost => f.timer = g.timer

Marks(s, r) ==
    /\ s \in Views /\ r \in Views /\ DOMAIN r.h = DOMAIN s.h
    /\ \A x \in DOMAIN s.h : Marked(s.h[x], r.h[x], DOMAIN s.h)
    /\ r.ep = s.ep /\ r.dial = s.dial /\ r.topo = s.topo
    /\ r.disc = s.disc /\ r.pend = s.pend

LEMMA MarksGood ==
  ASSUME NEW s, NEW r, Good(s), Marks(s, r) PROVE Good(r)
BY DEF Good, GoodBut, Marks, Marked, Sound

LEMMA SetReadyMarks ==
  ASSUME NEW s \in Views, NEW b
  PROVE  LET r == SetReady(s, b)
         IN /\ Marks(s, r)
            /\ \A x \in DOMAIN s.h : s.h[x].ready => r.h[x].ready
            /\ b \in DOMAIN s.h => r.h[b].ready
<1> DEFINE V == Spread(s, b, TRUE)
           R(g) == [g EXCEPT !.ready = TRUE, !.tries = 0, !.next = 0,
                             !.told = (g.app \in {"tagged", "loose"}),
                             !.for = @ \cap DOMAIN s.h,
                             !.timer = IF g.lost THEN @ ELSE NoTimer]
           t == [x \in DOMAIN s.h |-> IF x \in V THEN R(s.h[x]) ELSE s.h[x]]
           r == SetReady(s, b)
<1>1. r = [s EXCEPT !.h = t] BY DEF SetReady
<1>2. \A g \in Handle : R(g) \in Handle /\ Marked(g, R(g), DOMAIN s.h) /\ R(g).ready
  <2> SUFFICES ASSUME NEW g \in Handle
               PROVE  R(g) \in Handle /\ Marked(g, R(g), DOMAIN s.h) /\ R(g).ready
    OBVIOUS
  <2>1. 0 \in Times /\ 0 \in IF MaxTry > 0 THEN 0 .. MaxTry ELSE Nat
    BY TimesNat, ConnectorConstants
  <2> DEFINE told == g.app \in {"tagged", "loose"}
             for == g.for \cap DOMAIN s.h
             timer == IF g.lost THEN g.timer ELSE NoTimer
  <2>2. told \in BOOLEAN /\ for \in SUBSET Peers /\ timer \in Times \cup {NoTimer}
    BY DEF Handle
  <2>3. R(g) = [g EXCEPT !.ready = TRUE, !.tries = 0, !.next = 0,
                         !.told = told, !.for = for, !.timer = timer]
    OBVIOUS
  <2> HIDE DEF told, for, timer, R
  <2>4. R(g) \in Handle BY <2>1, <2>2, <2>3 DEF Handle
  <2>5. /\ R(g).ready = TRUE /\ R(g).told = told /\ R(g).for = for /\ R(g).timer = timer
        /\ R(g).proxy = g.proxy /\ R(g).active = g.active /\ R(g).app = g.app
        /\ R(g).wait = g.wait /\ R(g).lost = g.lost /\ R(g).lostIn = g.lostIn
    BY <2>3 DEF Handle
  <2>6. g.app = "tagged" => told = TRUE BY DEF told
  <2>7. g.lost => timer = g.timer BY DEF timer
  <2>8. for = g.for \cap DOMAIN s.h BY DEF for
  <2>9. Marked(g, R(g), DOMAIN s.h) BY <2>4, <2>5, <2>6, <2>7, <2>8 DEF Marked
  <2> QED BY <2>4, <2>5, <2>9
<1>3. \A g \in Handle : Marked(g, g, DOMAIN s.h) BY DEF Marked
<1> HIDE DEF R
<1>4. t \in [DOMAIN s.h -> Handle] BY <1>2, ViewFacts
<1>5. t \in Tables BY <1>4, ViewFacts, TableOf
<1>6. \A x \in DOMAIN s.h : t[x] = IF x \in V THEN R(s.h[x]) ELSE s.h[x] OBVIOUS
<1>7. DOMAIN t = DOMAIN s.h OBVIOUS
<1>8. b \in DOMAIN s.h => s.h[b].ready \/ b \in V
  <2> SUFFICES ASSUME b \in DOMAIN s.h, ~s.h[b].ready PROVE b \in V OBVIOUS
  <2>1. b \in Peers BY ViewFacts
  <2>2. s.h[b] \in Handle /\ s.h[b].ready # TRUE BY ViewFacts
  <2> QED BY <2>1, <2>2 DEF Spread, Has, Closure
<1> HIDE DEF t, V
<1>9. r \in Views /\ r.h = t /\ r.ep = s.ep /\ r.dial = s.dial /\ r.topo = s.topo
      /\ r.disc = s.disc /\ r.pend = s.pend
  BY <1>1, <1>5, PutTable
<1>10. \A x \in DOMAIN s.h : s.h[x] \in Handle BY ViewFacts
<1> HIDE DEF r
<1>11. Marks(s, r) BY <1>2, <1>3, <1>6, <1>7, <1>9, <1>10 DEF Marks
<1>12. \A x \in DOMAIN s.h : (s.h[x].ready \/ x \in V) => r.h[x].ready
  BY <1>2, <1>6, <1>9, <1>10
<1> QED BY <1>8, <1>11, <1>12 DEF r

LEMMA SetUnreadyKeeps ==
  ASSUME NEW s \in Views, NEW b, NEW x \in DOMAIN s.h, x \notin Spread(s, b, FALSE)
  PROVE  SetUnready(s, b).h[x] = s.h[x]
<1> DEFINE V == Spread(s, b, FALSE)
<1>1. x \notin V OBVIOUS
<1> HIDE DEF V
<1> QED BY <1>1 DEF SetUnready, Views, V

LEMMA SetUnreadyMarks ==
  ASSUME NEW s \in Views, NEW b
  PROVE  LET r == SetUnready(s, b)
             V == Spread(s, b, FALSE)
         IN /\ Marks(s, r)
            /\ \A x \in DOMAIN s.h :
                  /\ r.h[x].next = s.h[x].next /\ r.h[x].timer = s.h[x].timer
                  /\ r.h[x].tries = s.h[x].tries
                  /\ x \in V => ~r.h[x].ready
                  /\ x \notin V => r.h[x] = s.h[x]
            /\ b \in DOMAIN s.h => ~r.h[b].ready
<1> DEFINE V == Spread(s, b, FALSE)
           U(g) == [g EXCEPT !.ready = FALSE, !.told = FALSE, !.for = @ \cap DOMAIN s.h]
           t == [x \in DOMAIN s.h |-> IF x \in V THEN U(s.h[x]) ELSE s.h[x]]
           r == SetUnready(s, b)
<1>1. r = [s EXCEPT !.h = t] BY DEF SetUnready
<1>2. \A g \in Handle : /\ U(g) \in Handle /\ Marked(g, U(g), DOMAIN s.h) /\ ~U(g).ready
                        /\ U(g).next = g.next /\ U(g).timer = g.timer /\ U(g).tries = g.tries
  <2> SUFFICES ASSUME NEW g \in Handle
               PROVE  /\ U(g) \in Handle /\ Marked(g, U(g), DOMAIN s.h) /\ ~U(g).ready
                      /\ U(g).next = g.next /\ U(g).timer = g.timer /\ U(g).tries = g.tries
    OBVIOUS
  <2> DEFINE for == g.for \cap DOMAIN s.h
  <2>1. for \in SUBSET Peers BY DEF Handle
  <2>2. U(g) = [g EXCEPT !.ready = FALSE, !.told = FALSE, !.for = for] OBVIOUS
  <2> HIDE DEF for, U
  <2>3. U(g) \in Handle BY <2>1, <2>2 DEF Handle
  <2>4. /\ U(g).ready = FALSE /\ U(g).told = FALSE /\ U(g).for = for
        /\ U(g).proxy = g.proxy /\ U(g).active = g.active /\ U(g).app = g.app
        /\ U(g).wait = g.wait /\ U(g).lost = g.lost /\ U(g).lostIn = g.lostIn
        /\ U(g).next = g.next /\ U(g).timer = g.timer /\ U(g).tries = g.tries
    BY <2>2 DEF Handle
  <2>5. for = g.for \cap DOMAIN s.h BY DEF for
  <2>6. Marked(g, U(g), DOMAIN s.h) BY <2>3, <2>4, <2>5 DEF Marked
  <2> QED BY <2>3, <2>4, <2>6
<1>3. \A g \in Handle : Marked(g, g, DOMAIN s.h) BY DEF Marked
<1> HIDE DEF U
<1>4. t \in [DOMAIN s.h -> Handle] BY <1>2, ViewFacts
<1>5. t \in Tables BY <1>4, ViewFacts, TableOf
<1>6. \A x \in DOMAIN s.h : t[x] = IF x \in V THEN U(s.h[x]) ELSE s.h[x] OBVIOUS
<1>7. DOMAIN t = DOMAIN s.h OBVIOUS
<1>8. b \in DOMAIN s.h => ~s.h[b].ready \/ b \in V
  <2> SUFFICES ASSUME b \in DOMAIN s.h, s.h[b].ready PROVE b \in V OBVIOUS
  <2>1. b \in Peers BY ViewFacts
  <2>2. s.h[b].ready # FALSE BY ViewFacts
  <2> QED BY <2>1, <2>2 DEF Spread, Has, Closure
<1> HIDE DEF t, V
<1>9. r \in Views /\ r.h = t /\ r.ep = s.ep /\ r.dial = s.dial /\ r.topo = s.topo
      /\ r.disc = s.disc /\ r.pend = s.pend
  BY <1>1, <1>5, PutTable
<1>10. \A x \in DOMAIN s.h : s.h[x] \in Handle BY ViewFacts
<1> HIDE DEF r
<1>11. Marks(s, r) BY <1>2, <1>3, <1>6, <1>7, <1>9, <1>10 DEF Marks
<1>12. \A x \in DOMAIN s.h :
                  /\ r.h[x].next = s.h[x].next /\ r.h[x].timer = s.h[x].timer
                  /\ r.h[x].tries = s.h[x].tries
                  /\ x \in V => ~r.h[x].ready
                  /\ x \notin V => r.h[x] = s.h[x]
  BY <1>2, <1>6, <1>9, <1>10
<1>13. b \in DOMAIN s.h => ~r.h[b].ready BY <1>8, <1>12
<1> QED BY <1>11, <1>12, <1>13 DEF r, V
-----------------------------------------------------------------------------
(* Closures. *)

LEMMA ClosureWithin ==
  ASSUME NEW roots, NEW next, NEW V \in SUBSET Peers,
         roots \subseteq V, \A y \in V : next[y] \subseteq V
  PROVE  Closure(roots, next) \subseteq V
BY DEF Closure

LEMMA ClosureRoots ==
  ASSUME NEW roots \in SUBSET Peers, NEW next
  PROVE  roots \subseteq Closure(roots, next) /\ Closure(roots, next) \subseteq Peers
BY DEF Closure

LEMMA ClosureClosed ==
  ASSUME NEW roots, NEW next, NEW y \in Closure(roots, next), NEW z \in next[y], z \in Peers
  PROVE  z \in Closure(roots, next)
BY DEF Closure

\* A member is a root, or a link of a member leads to it.
LEMMA ClosureReason ==
  ASSUME NEW roots \in SUBSET Peers, NEW next,
         \A y \in Peers : next[y] \subseteq Peers,
         NEW x \in Closure(roots, next)
  PROVE  x \in roots \/ \E y \in Closure(roots, next) : x \in next[y]
<1> DEFINE C == Closure(roots, next)
           V == {z \in C : z \in roots \/ \E y \in C : z \in next[y]}
<1>1. roots \subseteq C /\ C \subseteq Peers BY ClosureRoots
<1>2. \A y \in C : \A z \in next[y] : z \in C BY <1>1, ClosureClosed
<1> HIDE DEF C
<1>3. V \in SUBSET Peers /\ roots \subseteq V BY <1>1
<1>4. \A y \in V : next[y] \subseteq V BY <1>2
<1>5. C \subseteq V
  <2> HIDE DEF V
  <2> QED BY <1>3, <1>4, ClosureWithin DEF C
<1> QED BY <1>5 DEF C

-----------------------------------------------------------------------------
(* Removing: there are fewer handles, fewer of them ready, and fewer links. *)

Thinner(g, f) ==
    /\ f.active = g.active /\ f.app = g.app
    /\ f.ready => g.ready
    /\ f.next = 0 => g.next = 0
    /\ f.proxy \in {g.proxy, None}
    /\ f.for \subseteq g.for

Thins(s, r) ==
    /\ s \in Views /\ r \in Views
    /\ DOMAIN r.h \subseteq DOMAIN s.h
    /\ \A x \in DOMAIN r.h : Thinner(s.h[x], r.h[x])
    /\ r.dial = s.dial /\ r.topo = s.topo /\ r.disc = s.disc /\ r.pend = s.pend
    /\ \A x \in Peers : r.ep[x] \in {s.ep[x], "none"}

LEMMA ThinsSelf == ASSUME NEW s \in Views PROVE Thins(s, s)
BY DEF Thins, Thinner

LEMMA ThinsTrans ==
  ASSUME NEW s, NEW t, NEW r, Thins(s, t), Thins(t, r) PROVE Thins(s, r)
BY DEF Thins, Thinner

LEMMA OutsideSame ==
  ASSUME NEW g, NEW f, Outside(f) = Outside(g)
  PROVE  /\ f.app = g.app /\ f.told = g.told /\ f.ready = g.ready
         /\ f.active = g.active /\ f.up = g.up /\ f.proxy = g.proxy /\ f.for = g.for
BY DEF Outside

LEMMA TouchesThins == ASSUME NEW s, NEW r, NEW b, Touches(s, r, b) PROVE Thins(s, r)
<1>1. \A x \in DOMAIN r.h : Thinner(s.h[x], r.h[x])
  BY OutsideSame DEF Touches, Thinner
<1> QED BY <1>1 DEF Touches, Thins

\* Every link is named on both sides; handles may still name b, which has left.
LinkedBut(s, b) ==
    \A x \in DOMAIN s.h :
        /\ s.h[x].proxy \notin {None, b} =>
              s.h[x].proxy \in DOMAIN s.h /\ x \in s.h[s.h[x].proxy].for
        /\ \A d \in s.h[x].for : d \in DOMAIN s.h /\ s.h[d].proxy = x

Linked(s) == LinkedBut(s, None)

LEMMA TouchesLinked ==
  ASSUME NEW s, NEW r, NEW b, NEW c, Touches(s, r, b), LinkedBut(s, c)
  PROVE  LinkedBut(r, c)
<1>1. \A x \in DOMAIN r.h : r.h[x].proxy = s.h[x].proxy /\ r.h[x].for = s.h[x].for
  BY OutsideSame DEF Touches
<1> QED BY <1>1 DEF Touches, LinkedBut

LEMMA MarksLinked ==
  ASSUME NEW s, NEW r, NEW c, Marks(s, r), LinkedBut(s, c)
  PROVE  LinkedBut(r, c)
<1>1. \A x \in DOMAIN r.h : /\ r.h[x].proxy = s.h[x].proxy
                           /\ r.h[x].for \in {s.h[x].for, s.h[x].for \cap DOMAIN s.h}
  BY DEF Marks, Marked
<1>2. \A x \in DOMAIN s.h : s.h[x].for \cap DOMAIN s.h = s.h[x].for
  BY DEF LinkedBut
<1>3. \A x \in DOMAIN r.h : r.h[x].proxy = s.h[x].proxy /\ r.h[x].for = s.h[x].for
  BY <1>1, <1>2 DEF Marks
<1> QED BY <1>3 DEF Marks, LinkedBut
\* What is left of the table keeps its state and its proxies, and lists what is
\* still there or named another proxy.
Lets(s, r) ==
    /\ Thins(s, r)
    /\ \A x \in DOMAIN r.h :
          /\ r.h[x].ready = s.h[x].ready /\ r.h[x].told = s.h[x].told
          /\ r.h[x].proxy = s.h[x].proxy
          /\ r.h[x].for = {d \in s.h[x].for : d \in DOMAIN s.h \ DOMAIN r.h => s.h[d].proxy # x}

LEMMA OffFacts ==
  ASSUME NEW s \in Views, NEW p \in DOMAIN s.h
  PROVE  /\ p \in Off(s, p) /\ Off(s, p) \subseteq DOMAIN s.h
         /\ \A x \in Off(s, p) : x = p \/ \E y \in Off(s, p) : Gone(s, y) /\ x \in Sheds(s, y)
<1> DEFINE next == [x \in Peers |-> IF Gone(s, x) THEN Sheds(s, x) ELSE {}]
<1>1. p \in Peers /\ DOMAIN s.h \in SUBSET Peers BY ViewFacts
<1>2. \A y \in Peers : next[y] \subseteq DOMAIN s.h BY DEF Sheds
<1>3. \A y \in Peers : next[y] \subseteq Peers BY <1>1, <1>2
<1>4. \A y \in Peers : \A x \in next[y] : Gone(s, y) /\ x \in Sheds(s, y) OBVIOUS
<1>5. Off(s, p) = Closure({p}, next) BY DEF Off
<1> HIDE DEF next
<1>6. p \in Off(s, p) /\ Off(s, p) \subseteq Peers BY <1>1, <1>5, ClosureRoots
<1>7. {p} \subseteq DOMAIN s.h OBVIOUS
<1>8. Off(s, p) \subseteq DOMAIN s.h BY <1>1, <1>2, <1>5, <1>7, ClosureWithin
<1>9. \A x \in Off(s, p) : x = p \/ \E y \in Off(s, p) : x \in next[y]
  BY <1>1, <1>3, <1>5, ClosureReason
<1> QED BY <1>4, <1>6, <1>8, <1>9

LEMMA CutFacts ==
  ASSUME NEW s \in Views, NEW off \in SUBSET DOMAIN s.h, NEW gone \in SUBSET off
  PROVE  LET r == Cut(s, off, gone)
         IN /\ Lets(s, r) /\ DOMAIN r.h = DOMAIN s.h \ gone
            /\ \A x \in DOMAIN r.h :
                  /\ r.h[x] = [s.h[x] EXCEPT !.for = {d \in s.h[x].for : d \in gone => s.h[d].proxy # x}]
                  /\ r.h[x] \in Handle
<1> DEFINE e == [x \in Peers |-> IF x \in off THEN "none" ELSE s.ep[x]]
           less(x) == {d \in s.h[x].for : d \in gone => s.h[d].proxy # x}
           f == [x \in DOMAIN s.h \ gone |-> [s.h[x] EXCEPT !.for = less(x)]]
           r == Cut(s, off, gone)
<1>1. \A x \in DOMAIN s.h : s.h[x] \in Handle BY ViewFacts
<1>2. \A g \in Handle : \A z \in SUBSET g.for :
         LET k == [g EXCEPT !.for = z]
         IN k \in Handle /\ Thinner(g, k) /\ k.ready = g.ready /\ k.told = g.told
            /\ k.proxy = g.proxy /\ k.for = z
  <2> SUFFICES ASSUME NEW g \in Handle, NEW z \in SUBSET g.for
               PROVE  LET k == [g EXCEPT !.for = z]
                      IN k \in Handle /\ Thinner(g, k) /\ k.ready = g.ready /\ k.told = g.told
                         /\ k.proxy = g.proxy /\ k.for = z
    OBVIOUS
  <2>1. z \in SUBSET Peers BY DEF Handle
  <2> QED BY <2>1 DEF Handle, Thinner
<1>3. \A x \in DOMAIN s.h : less(x) \in SUBSET s.h[x].for OBVIOUS
<1>4. \A x \in DOMAIN s.h \ gone :
         f[x] = [s.h[x] EXCEPT !.for = less(x)]
  OBVIOUS
<1>5. DOMAIN f = DOMAIN s.h \ gone OBVIOUS
<1>6. e \in [Peers -> EndpointStates] /\ \A x \in Peers : e[x] \in {s.ep[x], "none"}
  BY ViewFacts DEF EndpointStates
<1>7. r = [s EXCEPT !.ep = e, !.h = f] BY DEF Cut
<1> HIDE DEF less
<1>8. \A x \in DOMAIN f :
         /\ f[x] \in Handle /\ Thinner(s.h[x], f[x]) /\ f[x].ready = s.h[x].ready
         /\ f[x].told = s.h[x].told /\ f[x].proxy = s.h[x].proxy /\ f[x].for = less(x)
  <2> SUFFICES ASSUME NEW x \in DOMAIN f
      PROVE /\ f[x] \in Handle /\ Thinner(s.h[x], f[x]) /\ f[x].ready = s.h[x].ready
            /\ f[x].told = s.h[x].told /\ f[x].proxy = s.h[x].proxy /\ f[x].for = less(x)
    OBVIOUS
  <2>1. s.h[x] \in Handle /\ less(x) \in SUBSET s.h[x].for /\ f[x] = [s.h[x] EXCEPT !.for = less(x)]
    BY <1>1, <1>3, <1>4, <1>5
  <2> HIDE DEF f
  <2> QED BY <1>2, <2>1
<1>9. f \in Tables
  <2>1. f \in [DOMAIN s.h \ gone -> Handle] BY <1>5, <1>8
  <2>2. DOMAIN s.h \ gone \in SUBSET Peers BY ViewFacts
  <2> QED BY <2>1, <2>2, TableOf
<1> HIDE DEF e, f, r
<1>10. /\ r \in Views /\ r.h = f /\ r.ep = e /\ r.dial = s.dial /\ r.topo = s.topo
       /\ r.disc = s.disc /\ r.pend = s.pend
  BY <1>6, <1>7, <1>9 DEF Views
<1>11. Thins(s, r) BY <1>5, <1>6, <1>8, <1>10 DEF Thins
<1>12. \A x \in DOMAIN f : less(x) = {d \in s.h[x].for : d \in DOMAIN s.h \ DOMAIN f => s.h[d].proxy # x}
  <2>1. DOMAIN s.h \ DOMAIN f = gone BY <1>5
  <2> QED BY <2>1 DEF less
<1>13. Lets(s, r) BY <1>8, <1>10, <1>11, <1>12 DEF Lets
<1> QED BY <1>4, <1>5, <1>8, <1>10, <1>13 DEF r, less
LEMMA LetsSelf ==
  ASSUME NEW s \in Views PROVE Lets(s, s)
BY ThinsSelf, ViewFacts DEF Lets

LEMMA LetsTouches ==
  ASSUME NEW s, NEW t, NEW r, NEW b, Lets(s, t), Touches(t, r, b)
  PROVE  Lets(s, r)
<1>1. Thins(s, r) BY TouchesThins, ThinsTrans DEF Lets
<1>2. DOMAIN r.h = DOMAIN t.h BY DEF Touches
<1>3. \A x \in DOMAIN r.h : /\ r.h[x].ready = t.h[x].ready /\ r.h[x].told = t.h[x].told
                            /\ r.h[x].proxy = t.h[x].proxy /\ r.h[x].for = t.h[x].for
  BY OutsideSame DEF Touches
<1> QED BY <1>1, <1>2, <1>3 DEF Lets

LEMMA CutGood ==
  ASSUME NEW s, Good(s), NEW off \in SUBSET DOMAIN s.h, NEW gone \in SUBSET off
  PROVE  Good(Cut(s, off, gone))
<1> DEFINE r == Cut(s, off, gone)
<1>1. s \in Views /\ \A x \in DOMAIN s.h : Sound(s.h[x]) /\ (s.h[x].wait => x \notin s.disc)
  BY GoodIsBut, ConnectorConstants DEF Good, GoodBut
<1>2. /\ r \in Views /\ r.disc = s.disc /\ DOMAIN r.h \subseteq DOMAIN s.h
      /\ \A x \in DOMAIN r.h :
            /\ r.h[x] = [s.h[x] EXCEPT !.for = {d \in s.h[x].for : d \in gone => s.h[d].proxy # x}]
            /\ r.h[x] \in Handle
  <2>1. /\ Lets(s, r) /\ DOMAIN r.h = DOMAIN s.h \ gone
        /\ \A x \in DOMAIN r.h :
            /\ r.h[x] = [s.h[x] EXCEPT !.for = {d \in s.h[x].for : d \in gone => s.h[d].proxy # x}]
            /\ r.h[x] \in Handle
    BY <1>1, CutFacts
  <2> HIDE DEF r
  <2> QED BY <2>1 DEF Lets, Thins
<1>3. \A g \in Handle : \A z : LET k == [g EXCEPT !.for = z]
         IN k.app = g.app /\ k.told = g.told /\ k.ready = g.ready /\ k.lost = g.lost
            /\ k.timer = g.timer /\ k.lostIn = g.lostIn /\ k.wait = g.wait
  BY DEF Handle
<1> HIDE DEF r
<1>4. \A x \in DOMAIN r.h : Sound(r.h[x]) /\ (r.h[x].wait => x \notin r.disc)
  <2> SUFFICES ASSUME NEW x \in DOMAIN r.h PROVE Sound(r.h[x]) /\ (r.h[x].wait => x \notin r.disc)
    OBVIOUS
  <2> DEFINE z == {d \in s.h[x].for : d \in gone => s.h[d].proxy # x}
  <2>1. x \in DOMAIN s.h /\ Sound(s.h[x]) /\ s.h[x] \in Handle /\ r.h[x] = [s.h[x] EXCEPT !.for = z]
        /\ r.h[x] \in Handle
    BY <1>1, <1>2 DEF Sound
  <2> HIDE DEF z
  <2>2. LET k == r.h[x] IN k.app = s.h[x].app /\ k.told = s.h[x].told /\ k.ready = s.h[x].ready /\ k.lost = s.h[x].lost
            /\ k.timer = s.h[x].timer /\ k.lostIn = s.h[x].lostIn /\ k.wait = s.h[x].wait
    BY <1>3, <2>1
  <2> QED BY <1>1, <1>2, <2>1, <2>2 DEF Sound
<1>5. Good(r) BY <1>2, <1>4 DEF Good, GoodBut
<1> QED BY <1>5 DEF r

\* What parting from p comes to: nothing, or the cut, or the cut and one handle
\* that was left to reconnect.
LEMMA PartedCases ==
  ASSUME NEW s, Good(s), NEW p \in DOMAIN s.h
  PROVE  LET r == Parted(s, p)
             off == Off(s, p)
             gone == {x \in off : Gone(s, x)}
             t == Cut(s, off, gone)
         IN \/ r = s
            \/ /\ s.h[p].for = {} /\ p # Up
               /\ off \in SUBSET DOMAIN s.h /\ gone \in SUBSET off
               /\ Lets(s, t) /\ Good(t) /\ DOMAIN t.h = DOMAIN s.h \ gone
               /\ r = t \/ \E b \in DOMAIN t.h : Touches(t, r, b) /\ Good(r)
<1> DEFINE off == Off(s, p)
           gone == {x \in off : Gone(s, x)}
           kept == off \ gone
           t == Cut(s, off, gone)
           r == Parted(s, p)
<1>1. s \in Views BY DEF Good, GoodBut
<1>2. off \in SUBSET DOMAIN s.h BY <1>1, OffFacts
<1> HIDE DEF off
<1>3. gone \in SUBSET off OBVIOUS
<1>4. Lets(s, t) /\ DOMAIN t.h = DOMAIN s.h \ gone
  <2> HIDE DEF gone
  <2> QED BY <1>1, <1>2, <1>3, CutFacts
<1>5. Good(t)
  <2> HIDE DEF gone
  <2> QED BY <1>2, <1>3, CutGood
<1>6. ASSUME r # s PROVE s.h[p].for = {} /\ p # Up /\ (r = t \/ (kept # {} /\ r = Lapse(t, CHOOSE x \in kept : TRUE).s))
  BY <1>6 DEF Parted, Swept, off
<1>7. kept # {} => (CHOOSE x \in kept : TRUE) \in DOMAIN t.h
  <2> HIDE DEF t
  <2> QED BY <1>2, <1>4
<1>8. \A b \in DOMAIN t.h : Touches(t, Lapse(t, b).s, b) /\ Good(Lapse(t, b).s)
  <2> HIDE DEF t
  <2> QED BY <1>5, LapseTouches
<1>9. r = s \/ /\ s.h[p].for = {} /\ p # Up
               /\ r = t \/ \E b \in DOMAIN t.h : Touches(t, r, b) /\ Good(r)
  <2> HIDE DEF t, kept, r
  <2> QED BY <1>6, <1>7, <1>8
<1> HIDE DEF t, r, gone
<1>10. \/ r = s
       \/ /\ s.h[p].for = {} /\ p # Up
          /\ off \in SUBSET DOMAIN s.h /\ gone \in SUBSET off
          /\ Lets(s, t) /\ Good(t) /\ DOMAIN t.h = DOMAIN s.h \ gone
          /\ r = t \/ \E b \in DOMAIN t.h : Touches(t, r, b) /\ Good(r)
  BY <1>2, <1>3, <1>4, <1>5, <1>9
<1> QED BY <1>10 DEF t, r, gone, off
LEMMA PartedFacts ==
  ASSUME NEW s, Good(s), NEW p \in DOMAIN s.h
  PROVE  LET r == Parted(s, p)
         IN /\ Good(r) /\ Lets(s, r)
            /\ Up \in DOMAIN s.h => Up \in DOMAIN r.h
            /\ s.h[p].proxy \in {None, Up} => DOMAIN s.h \ DOMAIN r.h \subseteq {p}
<1> DEFINE r == Parted(s, p)
           off == Off(s, p)
           gone == {x \in off : Gone(s, x)}
           t == Cut(s, off, gone)
<1>1. s \in Views BY DEF Good, GoodBut
<1>2. \/ r = s
      \/ /\ p # Up
         /\ off \in SUBSET DOMAIN s.h /\ gone \in SUBSET off
         /\ Lets(s, t) /\ Good(t) /\ DOMAIN t.h = DOMAIN s.h \ gone
         /\ r = t \/ \E b \in DOMAIN t.h : Touches(t, r, b) /\ Good(r)
  BY PartedCases
<1>3. /\ \A x \in off : x = p \/ \E y \in off : Gone(s, y) /\ x \in Sheds(s, y)
  BY <1>1, OffFacts
<1>4. p # Up => Up \notin off
  BY <1>3 DEF Sheds
<1>5. s.h[p].proxy \in {None, Up} => off \subseteq {p}
  <2>1. SUFFICES ASSUME s.h[p].proxy \in {None, Up} PROVE off \subseteq {p} OBVIOUS
  <2>2. Sheds(s, p) = {} BY <2>1, <1>1, ViewFacts, ConnectorConstants DEF Sheds
  <2> DEFINE next == [x \in Peers |-> IF Gone(s, x) THEN Sheds(s, x) ELSE {}]
  <2>3. p \in Peers BY <1>1, ViewFacts
  <2>4. next[p] = {} BY <2>2, <2>3
  <2>5. off = Closure({p}, next) BY DEF Off
  <2> HIDE DEF next, off
  <2>6. {p} \in SUBSET Peers /\ \A y \in {p} : next[y] \subseteq {p} BY <2>3, <2>4
  <2> QED BY <2>5, <2>6, ClosureWithin
<1> SUFFICES /\ Good(r) /\ Lets(s, r)
             /\ Up \in DOMAIN s.h => Up \in DOMAIN r.h
             /\ s.h[p].proxy \in {None, Up} => DOMAIN s.h \ DOMAIN r.h \subseteq {p}
  OBVIOUS
<1>6. gone \subseteq off OBVIOUS
<1> HIDE DEF r, off, gone, t
<1>7. CASE r = s BY <1>7, <1>1, LetsSelf
<1>8. CASE r # s
  <2>1. /\ p # Up /\ Lets(s, t) /\ Good(t) /\ DOMAIN t.h = DOMAIN s.h \ gone
        /\ r = t \/ \E b \in DOMAIN t.h : Touches(t, r, b) /\ Good(r)
    BY <1>2, <1>8
  <2>2. Good(r) /\ Lets(s, r) BY <2>1, LetsTouches
  <2>3. DOMAIN r.h = DOMAIN t.h BY <2>1 DEF Touches
  <2> QED BY <1>4, <1>5, <1>6, <2>1, <2>2, <2>3
<1> QED BY <1>7, <1>8

LEMMA PartedLinked ==
  ASSUME NEW s, Good(s), NEW p \in DOMAIN s.h, NEW c, c \notin DOMAIN s.h,
         LinkedBut(s, c)
  PROVE  LinkedBut(Parted(s, p), c)
<1> DEFINE r == Parted(s, p)
           off == Off(s, p)
           gone == {x \in off : Gone(s, x)}
           t == Cut(s, off, gone)
<1>1. s \in Views BY DEF Good, GoodBut
<1>2. \/ r = s
      \/ /\ s.h[p].for = {}
         /\ off \in SUBSET DOMAIN s.h /\ gone \in SUBSET off
         /\ Lets(s, t) /\ DOMAIN t.h = DOMAIN s.h \ gone
         /\ r = t \/ \E b \in DOMAIN t.h : Touches(t, r, b)
  BY PartedCases
<1>3. /\ \A x \in off : x = p \/ \E y \in off : Gone(s, y) /\ x \in Sheds(s, y)
  BY <1>1, OffFacts
\* Whoever is behind a handle that goes has gone as well.
<1>4. s.h[p].for = {} => \A x \in gone : s.h[x].for \subseteq gone
  BY <1>3 DEF Sheds
<1> HIDE DEF r, off, gone, t
<1>5. CASE r = s BY <1>5 DEF r
<1>6. CASE r # s
  <2>1. /\ s.h[p].for = {} /\ gone \subseteq DOMAIN s.h
        /\ Lets(s, t) /\ DOMAIN t.h = DOMAIN s.h \ gone
        /\ r = t \/ \E b \in DOMAIN t.h : Touches(t, r, b)
    BY <1>2, <1>6
  <2>2. \A x \in DOMAIN t.h :
           /\ t.h[x].proxy = s.h[x].proxy
           /\ t.h[x].for = {d \in s.h[x].for : d \in DOMAIN s.h \ DOMAIN t.h => s.h[d].proxy # x}
    BY <2>1 DEF Lets
  <2>3. \A x \in DOMAIN t.h : t.h[x].for = s.h[x].for \ gone
    <3> SUFFICES ASSUME NEW x \in DOMAIN t.h PROVE t.h[x].for = s.h[x].for \ gone OBVIOUS
    <3>1. \A d \in s.h[x].for : d \in DOMAIN s.h /\ s.h[d].proxy = x BY <2>1 DEF LinkedBut
    <3>2. DOMAIN s.h \ DOMAIN t.h = gone BY <2>1
    <3> QED BY <2>2, <3>1, <3>2
  <2>4. LinkedBut(t, c)
    <3> SUFFICES ASSUME NEW x \in DOMAIN t.h
                 PROVE  /\ t.h[x].proxy \notin {None, c} =>
                            t.h[x].proxy \in DOMAIN t.h /\ x \in t.h[t.h[x].proxy].for
                        /\ \A d \in t.h[x].for : d \in DOMAIN t.h /\ t.h[d].proxy = x
      BY DEF LinkedBut
    <3>1. x \in DOMAIN s.h /\ x \notin gone BY <2>1
    <3>2. ASSUME t.h[x].proxy \notin {None, c}
          PROVE  t.h[x].proxy \in DOMAIN t.h /\ x \in t.h[t.h[x].proxy].for
      <4> DEFINE q == s.h[x].proxy
      <4>1. q \in DOMAIN s.h /\ x \in s.h[q].for BY <2>2, <3>1, <3>2 DEF LinkedBut
      <4>2. q \notin gone BY <1>4, <2>1, <3>1, <4>1
      <4>3. q \in DOMAIN t.h BY <2>1, <4>1, <4>2
      <4> QED BY <2>2, <2>3, <3>1, <4>1, <4>3
    <3>3. ASSUME NEW d \in t.h[x].for PROVE d \in DOMAIN t.h /\ t.h[d].proxy = x
      <4>1. d \in s.h[x].for /\ d \notin gone BY <2>3, <3>3
      <4>2. d \in DOMAIN s.h /\ s.h[d].proxy = x BY <3>1, <4>1 DEF LinkedBut
      <4> QED BY <2>1, <2>2, <4>1, <4>2
    <3> QED BY <3>2, <3>3
  <2>5. LinkedBut(r, c) BY <2>1, <2>4, TouchesLinked
  <2> QED BY <2>5 DEF r
<1> QED BY <1>5, <1>6
-----------------------------------------------------------------------------
(* Proxy links. *)

\* What a handle is apart from its links
Inside(g) ==
    [app |-> g.app, told |-> g.told, ready |-> g.ready, active |-> g.active,
     wait |-> g.wait, lost |-> g.lost, lostIn |-> g.lostIn, next |-> g.next,
     tries |-> g.tries, timer |-> g.timer]

LEMMA InsideSame ==
  ASSUME NEW g, NEW f, Inside(f) = Inside(g)
  PROVE  /\ f.app = g.app /\ f.told = g.told /\ f.ready = g.ready
         /\ f.active = g.active /\ f.wait = g.wait /\ f.lost = g.lost
         /\ f.lostIn = g.lostIn /\ f.next = g.next /\ f.tries = g.tries /\ f.timer = g.timer
BY DEF Inside

LEMMA PutProxy ==
  ASSUME NEW g \in Handle, NEW q \in Peers \cup {None}
  PROVE  LET f == [g EXCEPT !.proxy = q]
         IN f \in Handle /\ Inside(f) = Inside(g) /\ f.proxy = q /\ f.for = g.for
BY DEF Handle, Inside

LEMMA PutFor ==
  ASSUME NEW g \in Handle, NEW z \in SUBSET Peers
  PROVE  LET f == [g EXCEPT !.for = z]
         IN f \in Handle /\ Inside(f) = Inside(g) /\ f.proxy = g.proxy /\ f.for = z
BY DEF Handle, Inside

\* Links are changed, and handles may have left.
Relinks(s, r) ==
    /\ s \in Views /\ r \in Views
    /\ DOMAIN r.h \subseteq DOMAIN s.h
    /\ \A x \in DOMAIN r.h : Inside(r.h[x]) = Inside(s.h[x])
    /\ r.ep = s.ep /\ r.dial = s.dial /\ r.topo = s.topo /\ r.disc = s.disc /\ r.pend = s.pend

LEMMA RelinksGood ==
  ASSUME NEW s, NEW r, NEW b, GoodBut(s, b), Relinks(s, r), b \notin DOMAIN r.h
  PROVE  Good(r)
<1>1. \A x \in DOMAIN r.h : Sound(r.h[x]) /\ (r.h[x].wait => x \notin r.disc)
  <2> SUFFICES ASSUME NEW x \in DOMAIN r.h
               PROVE  Sound(r.h[x]) /\ (r.h[x].wait => x \notin r.disc)
    OBVIOUS
  <2>1. x \in DOMAIN s.h \ {b} /\ Inside(r.h[x]) = Inside(s.h[x]) BY DEF Relinks
  <2>2. Sound(s.h[x]) /\ (s.h[x].wait => x \notin s.disc) BY <2>1 DEF GoodBut
  <2>3. r.h[x] \in Handle BY ViewFacts DEF Relinks
  <2> QED BY <2>1, <2>2, <2>3, InsideSame DEF Sound, Relinks
<1> QED BY <1>1 DEF Good, GoodBut, Relinks

LEMMA RelinksFrom ==
  ASSUME NEW s \in Views, NEW t \in Tables, DOMAIN t \subseteq DOMAIN s.h,
         \A x \in DOMAIN t : Inside(t[x]) = Inside(s.h[x])
  PROVE  Relinks(s, [s EXCEPT !.h = t])
BY PutTable DEF Relinks

\* unbind_connection_handle_proxy() up to the disconnect
Unlinked(s, b, p) == [s EXCEPT !.h[b].proxy = None, !.h[p].for = @ \ {b}]

LEMMA UnlinkedFacts ==
  ASSUME NEW s \in Views, NEW b \in DOMAIN s.h, NEW p \in DOMAIN s.h
  PROVE  LET r == Unlinked(s, b, p)
         IN /\ Relinks(s, r) /\ DOMAIN r.h = DOMAIN s.h
            /\ \A x \in DOMAIN s.h :
                  /\ x = b => r.h[x].proxy = None
                  /\ x # b => r.h[x].proxy = s.h[x].proxy
                  /\ x = p => r.h[x].for = s.h[x].for \ {b}
                  /\ x # p => r.h[x].for = s.h[x].for
<1> DEFINE g == [s.h[b] EXCEPT !.proxy = None]
           t == [s.h EXCEPT ![b] = g]
           f == [t[p] EXCEPT !.for = t[p].for \ {b}]
           u == [t EXCEPT ![p] = f]
           r == Unlinked(s, b, p)
<1>2. g \in Handle /\ Inside(g) = Inside(s.h[b]) /\ g.proxy = None /\ g.for = s.h[b].for
  <2>1. s.h[b] \in Handle BY ViewFacts
  <2>2. None \in Peers \cup {None} OBVIOUS
  <2> QED BY <2>1, <2>2, PutProxy
<1> HIDE DEF g
<1>3. t \in [DOMAIN s.h -> Handle] /\ \A x \in DOMAIN s.h : t[x] = IF x = b THEN g ELSE s.h[x]
  BY <1>2, ViewFacts
<1>1. r = [s EXCEPT !.h = u]
  <2> DEFINE s1 == [s EXCEPT !.h = t]
  <2>1. r = [s1 EXCEPT !.h = [s1.h EXCEPT ![p] = [s1.h[p] EXCEPT !.for = s1.h[p].for \ {b}]]]
    BY DEF Unlinked, g
  <2>2. s1.h = t BY DEF Views
  <2> HIDE DEF t, r
  <2>3. r = [s1 EXCEPT !.h = u] BY <2>1, <2>2
  <2> QED BY <2>3 DEF Views
<1> HIDE DEF t
<1>4. t[p] \in Handle /\ t[p].for \ {b} \in SUBSET Peers
  BY <1>3 DEF Handle
<1>5. f \in Handle /\ Inside(f) = Inside(t[p]) /\ f.proxy = t[p].proxy /\ f.for = t[p].for \ {b}
  BY <1>4, PutFor
<1> HIDE DEF f
<1>6. u \in [DOMAIN s.h -> Handle] /\ \A x \in DOMAIN s.h : u[x] = IF x = p THEN f ELSE t[x]
  BY <1>3, <1>5
<1> HIDE DEF u
<1>7. u \in Tables /\ DOMAIN u = DOMAIN s.h BY <1>6, ViewFacts, TableOf
<1>8. \A x \in DOMAIN u :
         /\ Inside(u[x]) = Inside(s.h[x])
         /\ u[x].proxy = IF x = b THEN None ELSE s.h[x].proxy
         /\ u[x].for = IF x = p THEN s.h[x].for \ {b} ELSE s.h[x].for
  BY <1>2, <1>3, <1>5, <1>6, <1>7
<1> HIDE DEF r
<1>9. Relinks(s, r) /\ r.h = u BY <1>1, <1>7, <1>8, RelinksFrom, PutTable
<1> QED BY <1>7, <1>8, <1>9 DEF r
\* The readiness of the handles that stay is the same.
Calm(s, r) == \A x \in DOMAIN r.h \cap DOMAIN s.h : r.h[x].ready = s.h[x].ready

LEMMA UnbindFacts ==
  ASSUME NEW s, Good(s), NEW b \in DOMAIN s.h
  PROVE  LET r == Unbind(s, b)
         IN /\ Good(r) /\ Thins(s, r) /\ Calm(s, r)
            /\ Up \in DOMAIN s.h => Up \in DOMAIN r.h
            /\ Linked(s) =>
                  /\ Linked(r)
                  /\ b \in DOMAIN r.h => r.h[b].proxy = None
                  /\ \A x \in DOMAIN r.h : x # b => r.h[x].proxy = s.h[x].proxy
            /\ \/ s.h[b].proxy = None /\ r = s
               \/ /\ s.h[b].proxy \notin DOMAIN s.h /\ r = s
               \/ /\ s.h[b].proxy \in DOMAIN s.h
                  /\ s.h[s.h[b].proxy].proxy \in {None, Up} =>
                        DOMAIN s.h \ DOMAIN r.h \subseteq {s.h[b].proxy}
<1> DEFINE p == s.h[b].proxy
           t == Unlinked(s, b, p)
           r == Unbind(s, b)
<1>1. s \in Views /\ GoodBut(s, None) BY DEF Good, GoodBut
<1>2. CASE p = None \/ p \notin DOMAIN s.h
  <2>1. r = s BY <1>2 DEF Unbind, Has
  <2>2. Linked(s) => p = None BY <1>2 DEF Linked, LinkedBut
  <2>3. Thins(s, s) /\ Calm(s, s) BY <1>1, ThinsSelf DEF Calm
  <2> QED BY <1>2, <2>1, <2>2, <2>3
<1>3. CASE p # None /\ p \in DOMAIN s.h
  <2>1. r = Parted(t, p) BY <1>3 DEF Unbind, Has, Unlinked
  <2> HIDE DEF p, r
  <2>2. /\ Relinks(s, t) /\ DOMAIN t.h = DOMAIN s.h
        /\ \A x \in DOMAIN s.h :
              /\ x = b => t.h[x].proxy = None
              /\ x # b => t.h[x].proxy = s.h[x].proxy
              /\ x = p => t.h[x].for = s.h[x].for \ {b}
              /\ x # p => t.h[x].for = s.h[x].for
    BY <1>1, <1>3, UnlinkedFacts
  <2> HIDE DEF t
  <2>3. None \notin DOMAIN s.h BY <1>1, ViewFacts, ConnectorConstants
  <2>4. Good(t) BY <1>1, <2>2, <2>3, RelinksGood
  <2>5. /\ Good(r) /\ Lets(t, r)
        /\ Up \in DOMAIN t.h => Up \in DOMAIN r.h
        /\ t.h[p].proxy \in {None, Up} => DOMAIN t.h \ DOMAIN r.h \subseteq {p}
    BY <1>3, <2>1, <2>2, <2>4, PartedFacts
  <2>6. Thins(s, t) /\ Calm(s, t)
    <3>1. \A x \in DOMAIN t.h : Thinner(s.h[x], t.h[x]) /\ t.h[x].ready = s.h[x].ready
      <4> SUFFICES ASSUME NEW x \in DOMAIN t.h PROVE Thinner(s.h[x], t.h[x]) /\ t.h[x].ready = s.h[x].ready
        OBVIOUS
      <4>1. Inside(t.h[x]) = Inside(s.h[x]) BY <2>2 DEF Relinks
      <4>2. /\ t.h[x].app = s.h[x].app /\ t.h[x].active = s.h[x].active
            /\ t.h[x].ready = s.h[x].ready /\ t.h[x].next = s.h[x].next
        BY <4>1, InsideSame
      <4>3. t.h[x].proxy \in {s.h[x].proxy, None} /\ t.h[x].for \subseteq s.h[x].for BY <2>2
      <4> QED BY <4>2, <4>3 DEF Thinner
    <3> QED BY <2>2, <3>1 DEF Thins, Relinks, Calm
  <2>7. Thins(s, r) BY <2>5, <2>6, ThinsTrans DEF Lets
  <2>8. Calm(s, r) BY <2>5, <2>6, <2>7 DEF Lets, Calm, Thins
  <2>9. ASSUME Linked(s)
        PROVE  /\ Linked(r)
               /\ b \in DOMAIN r.h => r.h[b].proxy = None
               /\ \A x \in DOMAIN r.h : x # b => r.h[x].proxy = s.h[x].proxy
    <3>1. LinkedBut(t, None)
      <4> SUFFICES ASSUME NEW x \in DOMAIN s.h
          PROVE /\ t.h[x].proxy # None =>
                       t.h[x].proxy \in DOMAIN s.h /\ x \in t.h[t.h[x].proxy].for
                /\ \A d \in t.h[x].for : d \in DOMAIN s.h /\ t.h[d].proxy = x
        BY <2>2 DEF LinkedBut
      <4>1. ASSUME t.h[x].proxy # None
            PROVE  t.h[x].proxy \in DOMAIN s.h /\ x \in t.h[t.h[x].proxy].for
        <5>1. x # b /\ t.h[x].proxy = s.h[x].proxy BY <2>2, <4>1
        <5>2. s.h[x].proxy \in DOMAIN s.h /\ x \in s.h[s.h[x].proxy].for
          BY <2>9, <4>1, <5>1 DEF Linked, LinkedBut
        <5> QED BY <2>2, <5>1, <5>2
      <4>2. ASSUME NEW d \in t.h[x].for PROVE d \in DOMAIN s.h /\ t.h[d].proxy = x
        <5>1. d \in s.h[x].for BY <2>2
        <5>2. d \in DOMAIN s.h /\ s.h[d].proxy = x BY <2>9, <5>1 DEF Linked, LinkedBut
        <5>3. d # b BY <2>2, <5>2 DEF p
        <5> QED BY <2>2, <5>2, <5>3
      <4> QED BY <4>1, <4>2
    <3>2. Linked(r) BY <1>3, <2>1, <2>2, <2>3, <2>4, <3>1, PartedLinked DEF Linked
    <3> QED BY <2>2, <2>5, <3>2 DEF Lets, Thins
  <2>10. s.h[p].proxy \in {None, Up} => t.h[p].proxy \in {None, Up} BY <1>3, <2>2
  <2> QED BY <1>3, <2>2, <2>5, <2>7, <2>8, <2>9, <2>10 DEF p, r
<1> QED BY <1>2, <1>3

LEMMA LinkingFacts ==
  ASSUME NEW t \in Views, NEW b \in Peers, NEW p \in Peers
  PROVE  LET r == Linking(t, b, p)
         IN /\ Relinks(t, r) /\ DOMAIN r.h = DOMAIN t.h
            /\ \A x \in DOMAIN t.h :
                  /\ x = b => r.h[x].proxy = p
                  /\ x # b => r.h[x].proxy = t.h[x].proxy
                  /\ x = p /\ x # b => r.h[x].for = t.h[x].for \cup {b}
                  /\ x # p \/ x = b => r.h[x].for = t.h[x].for
<1> DEFINE f == [x \in DOMAIN t.h |->
                IF x = b THEN [t.h[x] EXCEPT !.proxy = p]
                ELSE IF x = p THEN [t.h[x] EXCEPT !.for = t.h[x].for \cup {b}] ELSE t.h[x]]
           r == Linking(t, b, p)
<1>1. r = [t EXCEPT !.h = f] BY DEF Linking
<1>2. \A x \in DOMAIN t.h : t.h[x] \in Handle BY ViewFacts
<1>3. \A x \in DOMAIN t.h :
         /\ f[x] \in Handle /\ Inside(f[x]) = Inside(t.h[x])
         /\ f[x].proxy = IF x = b THEN p ELSE t.h[x].proxy
         /\ f[x].for = IF x = p /\ x # b THEN t.h[x].for \cup {b} ELSE t.h[x].for
  <2> SUFFICES ASSUME NEW x \in DOMAIN t.h
      PROVE /\ f[x] \in Handle /\ Inside(f[x]) = Inside(t.h[x])
            /\ f[x].proxy = IF x = b THEN p ELSE t.h[x].proxy
            /\ f[x].for = IF x = p /\ x # b THEN t.h[x].for \cup {b} ELSE t.h[x].for
    OBVIOUS
  <2>1. CASE x = b
    <3>1. f[x] = [t.h[x] EXCEPT !.proxy = p] BY <2>1
    <3> HIDE DEF f
    <3> QED BY <1>2, <2>1, <3>1, PutProxy
  <2>2. CASE x # b /\ x = p
    <3>1. f[x] = [t.h[x] EXCEPT !.for = t.h[x].for \cup {b}] BY <2>2
    <3>2. t.h[x].for \cup {b} \in SUBSET Peers BY <1>2 DEF Handle
    <3> HIDE DEF f
    <3> QED BY <1>2, <2>2, <3>1, <3>2, PutFor
  <2>3. CASE x # b /\ x # p
    <3>1. f[x] = t.h[x] BY <2>3
    <3> QED BY <1>2, <2>3, <3>1
  <2> QED BY <2>1, <2>2, <2>3
<1>4. DOMAIN f = DOMAIN t.h OBVIOUS
<1>5. f \in Tables
  <2>1. f \in [DOMAIN t.h -> Handle] BY <1>3
  <2> QED BY <2>1, ViewFacts, TableOf
<1> HIDE DEF f, r
<1>6. Relinks(t, r) /\ r.h = f BY <1>1, <1>3, <1>4, <1>5, RelinksFrom, PutTable
<1> QED BY <1>3, <1>4, <1>6 DEF r

LEMMA BindFacts ==
  ASSUME NEW s, Good(s), NEW b \in DOMAIN s.h, NEW p \in Peers
  PROVE  LET r == Bind(s, b, p)
             t == Unbind(s, b)
         IN /\ Good(r) /\ DOMAIN r.h \subseteq DOMAIN s.h
            /\ Calm(s, r)
            /\ r.dial = s.dial /\ r.topo = s.topo /\ r.disc = s.disc /\ r.pend = s.pend
            /\ \A x \in Peers : r.ep[x] \in {s.ep[x], "none"}
            /\ \A x \in DOMAIN r.h :
                  /\ r.h[x].active = s.h[x].active /\ r.h[x].app = s.h[x].app
                  /\ r.h[x].next = 0 => s.h[x].next = 0
                  /\ x # b => r.h[x].proxy \in {s.h[x].proxy, None}
            /\ \/ r = s /\ (s.h[b].proxy = p \/ p = b)
               \/ s.h[b].proxy # p /\ p # b /\ r = Linking(t, b, p) /\ DOMAIN r.h = DOMAIN t.h
<1> DEFINE t == Unbind(s, b)
           r == Bind(s, b, p)
<1>1. s \in Views BY DEF Good, GoodBut
<1>2. CASE s.h[b].proxy = p \/ p = b
  <2>1. r = s BY <1>2 DEF Bind
  <2> QED BY <1>1, <1>2, <2>1 DEF Calm
<1>3. CASE ~(s.h[b].proxy = p \/ p = b)
  <2>1. r = Linking(t, b, p) BY <1>3 DEF Bind, Linking
  <2>2. Good(t) /\ Thins(s, t) /\ Calm(s, t) BY UnbindFacts
  <2> HIDE DEF t, r
  <2>3. b \in Peers BY <1>1, ViewFacts
  <2>4. t \in Views /\ GoodBut(t, None) BY <2>2 DEF Good, GoodBut
  <2>5. /\ Relinks(t, r) /\ DOMAIN r.h = DOMAIN t.h
        /\ \A x \in DOMAIN t.h : x # b => r.h[x].proxy = t.h[x].proxy
    BY <2>1, <2>3, <2>4, LinkingFacts
  <2>6. None \notin DOMAIN r.h BY <2>4, <2>5, ViewFacts, ConnectorConstants
  <2>7. Good(r) BY <2>4, <2>5, <2>6, RelinksGood
  <2>8. \A x \in DOMAIN r.h : Inside(r.h[x]) = Inside(t.h[x]) BY <2>5 DEF Relinks
  <2>9. \A x \in DOMAIN r.h :
           /\ r.h[x].active = t.h[x].active /\ r.h[x].app = t.h[x].app
           /\ r.h[x].next = t.h[x].next /\ r.h[x].ready = t.h[x].ready
    BY <2>8, InsideSame
  <2>10. \A x \in DOMAIN r.h : Thinner(s.h[x], t.h[x]) BY <2>2, <2>5 DEF Thins
  <2>11. /\ r.dial = s.dial /\ r.topo = s.topo /\ r.disc = s.disc /\ r.pend = s.pend
         /\ \A x \in Peers : r.ep[x] \in {s.ep[x], "none"}
         /\ DOMAIN r.h \subseteq DOMAIN s.h
    BY <2>2, <2>5 DEF Thins, Relinks
  <2>12. Calm(s, r) BY <2>2, <2>5, <2>9, <2>11 DEF Calm
  <2>13. \A x \in DOMAIN r.h :
                  /\ r.h[x].active = s.h[x].active /\ r.h[x].app = s.h[x].app
                  /\ r.h[x].next = 0 => s.h[x].next = 0
                  /\ x # b => r.h[x].proxy \in {s.h[x].proxy, None}
    BY <2>5, <2>9, <2>10 DEF Thinner
  <2> QED BY <1>3, <2>1, <2>5, <2>7, <2>11, <2>12, <2>13 DEF t, r
<1> QED BY <1>2, <1>3
\* A handle and its new proxy are linked, if leaving the old proxy did not take
\* one of them away.
LEMMA BindLinked ==
  ASSUME NEW s, Good(s), Linked(s), NEW b \in DOMAIN s.h, NEW p \in Peers,
         b \in DOMAIN Bind(s, b, p).h, p \in DOMAIN Bind(s, b, p).h
  PROVE  Linked(Bind(s, b, p)) /\ (p # b => Bind(s, b, p).h[b].proxy = p)
<1> DEFINE t == Unbind(s, b)
           r == Bind(s, b, p)
<1>1. s \in Views BY DEF Good, GoodBut
<1>2. CASE s.h[b].proxy = p \/ p = b
  <2>1. r = s BY <1>2 DEF Bind
  <2> QED BY <1>2, <2>1
<1>3. CASE ~(s.h[b].proxy = p \/ p = b)
  <2>1. r = Linking(t, b, p) /\ DOMAIN r.h = DOMAIN t.h BY <1>3, BindFacts
  <2>2. Good(t) /\ Thins(s, t) BY UnbindFacts
  <2>3. Linked(t) /\ (b \in DOMAIN t.h => t.h[b].proxy = None) BY UnbindFacts
  <2>4. b \in Peers /\ p # None /\ t \in Views
    BY <1>1, <2>2, ViewFacts, ConnectorConstants DEF Thins
  <2>5. b \in DOMAIN r.h /\ p \in DOMAIN r.h OBVIOUS
  <2> SUFFICES Linked(r) /\ r.h[b].proxy = p OBVIOUS
  <2> HIDE DEF t, r
  <2>6. \A x \in DOMAIN t.h :
                  /\ x = b => r.h[x].proxy = p
                  /\ x # b => r.h[x].proxy = t.h[x].proxy
                  /\ x = p /\ x # b => r.h[x].for = t.h[x].for \cup {b}
                  /\ x # p \/ x = b => r.h[x].for = t.h[x].for
    BY <2>1, <2>4, LinkingFacts
  <2>7. ASSUME NEW x \in DOMAIN r.h
        PROVE  /\ r.h[x].proxy # None =>
                    r.h[x].proxy \in DOMAIN r.h /\ x \in r.h[r.h[x].proxy].for
               /\ \A d \in r.h[x].for : d \in DOMAIN r.h /\ r.h[d].proxy = x
    <3>1. ASSUME r.h[x].proxy # None
          PROVE  r.h[x].proxy \in DOMAIN r.h /\ x \in r.h[r.h[x].proxy].for
      <4>1. CASE x = b BY <1>3, <2>1, <2>5, <2>6, <4>1
      <4>2. CASE x # b
        <5>1. r.h[x].proxy = t.h[x].proxy BY <2>1, <2>6, <4>2
        <5>2. t.h[x].proxy \in DOMAIN t.h /\ x \in t.h[t.h[x].proxy].for
          BY <2>1, <2>3, <3>1, <5>1 DEF Linked, LinkedBut
        <5> QED BY <2>1, <2>6, <5>1, <5>2
      <4> QED BY <4>1, <4>2
    <3>2. ASSUME NEW d \in r.h[x].for PROVE d \in DOMAIN r.h /\ r.h[d].proxy = x
      <4>1. CASE d \in t.h[x].for
        <5>1. d \in DOMAIN t.h /\ t.h[d].proxy = x BY <2>1, <2>3, <4>1 DEF Linked, LinkedBut
        <5>2. x # None BY <2>1, <2>4, ViewFacts, ConnectorConstants
        <5>3. d # b BY <2>3, <5>1, <5>2
        <5> QED BY <2>1, <2>6, <5>1, <5>3
      <4>2. CASE d \notin t.h[x].for
        <5>1. x = p /\ d = b BY <2>1, <2>6, <3>2, <4>2
        <5> QED BY <2>1, <2>5, <2>6, <5>1
      <4> QED BY <4>1, <4>2
    <3> QED BY <3>1, <3>2
  <2>8. Linked(r)
    <3>1. \A x \in DOMAIN r.h :
               /\ r.h[x].proxy \notin {None, None} =>
                    r.h[x].proxy \in DOMAIN r.h /\ x \in r.h[r.h[x].proxy].for
               /\ \A d \in r.h[x].for : d \in DOMAIN r.h /\ r.h[d].proxy = x
      BY <2>7
    <3> QED BY <3>1 DEF Linked, LinkedBut
  <2> QED BY <2>1, <2>5, <2>6, <2>8
<1> QED BY <1>2, <1>3

-----------------------------------------------------------------------------
(* remove_connection_handle() *)

\* The first half up to the end of unbind_connection_handle_proxy()
Without(s, b) ==
    LET p == s.h[b].proxy
    IN [s EXCEPT !.h = [x \in DOMAIN s.h \ {b} |->
                          IF x = p THEN [s.h[x] EXCEPT !.for = @ \ {b}] ELSE s.h[x]]]

LEMMA WithoutFacts ==
  ASSUME NEW s \in Views, NEW b \in DOMAIN s.h
  PROVE  LET r == Without(s, b)
         IN /\ Relinks(s, r) /\ DOMAIN r.h = DOMAIN s.h \ {b}
            /\ \A x \in DOMAIN r.h :
                  /\ r.h[x].proxy = s.h[x].proxy
                  /\ x = s.h[b].proxy => r.h[x].for = s.h[x].for \ {b}
                  /\ x # s.h[b].proxy => r.h[x].for = s.h[x].for
<1> DEFINE p == s.h[b].proxy
           f == [x \in DOMAIN s.h \ {b} |->
                   IF x = p THEN [s.h[x] EXCEPT !.for = s.h[x].for \ {b}] ELSE s.h[x]]
           r == Without(s, b)
<1>1. r = [s EXCEPT !.h = f] BY DEF Without
<1>2. \A x \in DOMAIN s.h : s.h[x] \in Handle BY ViewFacts
<1>3. DOMAIN f = DOMAIN s.h \ {b} OBVIOUS
<1>4. \A x \in DOMAIN f :
         /\ f[x] \in Handle /\ Inside(f[x]) = Inside(s.h[x])
         /\ f[x].proxy = s.h[x].proxy
         /\ x = p => f[x].for = s.h[x].for \ {b}
         /\ x # p => f[x].for = s.h[x].for
  <2> SUFFICES ASSUME NEW x \in DOMAIN f
      PROVE /\ f[x] \in Handle /\ Inside(f[x]) = Inside(s.h[x])
            /\ f[x].proxy = s.h[x].proxy
            /\ x = p => f[x].for = s.h[x].for \ {b}
            /\ x # p => f[x].for = s.h[x].for
    OBVIOUS
  <2>0. x \in DOMAIN s.h OBVIOUS
  <2>1. CASE x = p
    <3>1. f[x] = [s.h[x] EXCEPT !.for = s.h[x].for \ {b}] BY <2>1
    <3>2. s.h[x].for \ {b} \in SUBSET Peers BY <1>2, <2>0 DEF Handle
    <3> HIDE DEF f
    <3> QED BY <1>2, <2>0, <2>1, <3>1, <3>2, PutFor
  <2>2. CASE x # p
    <3>1. f[x] = s.h[x] BY <2>2
    <3> QED BY <1>2, <2>2, <3>1
  <2> QED BY <2>1, <2>2
<1>5. f \in Tables
  <2>1. f \in [DOMAIN s.h \ {b} -> Handle] BY <1>3, <1>4
  <2>2. DOMAIN s.h \ {b} \in SUBSET Peers BY ViewFacts
  <2> QED BY <2>1, <2>2, TableOf
<1> HIDE DEF f, r
<1>6. Relinks(s, r) /\ r.h = f BY <1>1, <1>3, <1>4, <1>5, RelinksFrom, PutTable
<1> QED BY <1>3, <1>4, <1>6 DEF r

LEMMA LeaveFacts ==
  ASSUME NEW s, NEW b, GoodBut(s, b), b \in DOMAIN s.h
  PROVE  LET r == Leave(s, b)
         IN /\ Good(r) /\ Thins(s, r) /\ Calm(s, r) /\ b \notin DOMAIN r.h
            /\ \A x \in DOMAIN r.h : r.h[x].proxy = s.h[x].proxy
            /\ Up \in DOMAIN s.h /\ Up # b => Up \in DOMAIN r.h
            /\ Linked(s) =>
                  /\ LinkedBut(r, b)
                  /\ \A x \in DOMAIN r.h : r.h[x].proxy = b => x \in s.h[b].for
<1> DEFINE p == s.h[b].proxy
           t == Without(s, b)
           r == Leave(s, b)
<1>1. s \in Views BY DEF GoodBut
<1>2. /\ Relinks(s, t) /\ DOMAIN t.h = DOMAIN s.h \ {b}
      /\ \A x \in DOMAIN t.h :
            /\ t.h[x].proxy = s.h[x].proxy
            /\ x = p => t.h[x].for = s.h[x].for \ {b}
            /\ x # p => t.h[x].for = s.h[x].for
  BY <1>1, WithoutFacts
<1>3. r = IF p \in DOMAIN t.h THEN Parted(t, p) ELSE t BY DEF Leave, Without, Has
<1> HIDE DEF t, r
<1>4. Good(t) /\ b \notin DOMAIN t.h BY <1>2, RelinksGood
<1>5. Thins(s, t) /\ Calm(s, t)
  <2>1. \A x \in DOMAIN t.h : Thinner(s.h[x], t.h[x]) /\ t.h[x].ready = s.h[x].ready
    <3> SUFFICES ASSUME NEW x \in DOMAIN t.h PROVE Thinner(s.h[x], t.h[x]) /\ t.h[x].ready = s.h[x].ready
      OBVIOUS
    <3>1. Inside(t.h[x]) = Inside(s.h[x]) BY <1>2 DEF Relinks
    <3>2. /\ t.h[x].app = s.h[x].app /\ t.h[x].active = s.h[x].active
          /\ t.h[x].ready = s.h[x].ready /\ t.h[x].next = s.h[x].next
      BY <3>1, InsideSame
    <3>3. t.h[x].proxy \in {s.h[x].proxy, None} /\ t.h[x].for \subseteq s.h[x].for BY <1>2
    <3> QED BY <3>2, <3>3 DEF Thinner
  <2> QED BY <1>2, <2>1 DEF Thins, Relinks, Calm
<1>6. /\ Good(r) /\ Lets(t, r)
      /\ Up \in DOMAIN t.h => Up \in DOMAIN r.h
  <2>1. CASE p \in DOMAIN t.h BY <1>3, <1>4, <2>1, PartedFacts
  <2>2. CASE p \notin DOMAIN t.h
    <3>1. t \in Views BY <1>4 DEF Good, GoodBut
    <3> QED BY <1>3, <1>4, <2>2, <3>1, LetsSelf
  <2> QED BY <2>1, <2>2
<1>7. Thins(s, r) BY <1>5, <1>6, ThinsTrans DEF Lets
<1>8. DOMAIN r.h \subseteq DOMAIN t.h BY <1>6 DEF Lets, Thins
<1>9. Calm(s, r) BY <1>5, <1>6, <1>7, <1>8 DEF Calm, Lets, Thins
<1>10. \A x \in DOMAIN r.h : r.h[x].proxy = s.h[x].proxy BY <1>2, <1>6, <1>8 DEF Lets
<1>11. ASSUME Linked(s)
       PROVE  /\ LinkedBut(r, b)
              /\ \A x \in DOMAIN r.h : r.h[x].proxy = b => x \in s.h[b].for
  <2>1. LinkedBut(t, b)
    <3> SUFFICES ASSUME NEW x \in DOMAIN t.h
          PROVE /\ t.h[x].proxy \notin {None, b} =>
                       t.h[x].proxy \in DOMAIN t.h /\ x \in t.h[t.h[x].proxy].for
                /\ \A d \in t.h[x].for : d \in DOMAIN t.h /\ t.h[d].proxy = x
      BY DEF LinkedBut
    <3>1. x \in DOMAIN s.h /\ x # b BY <1>2
    <3>2. ASSUME t.h[x].proxy \notin {None, b}
          PROVE  t.h[x].proxy \in DOMAIN t.h /\ x \in t.h[t.h[x].proxy].for
      <4>1. s.h[x].proxy \in DOMAIN s.h /\ x \in s.h[s.h[x].proxy].for /\ s.h[x].proxy # b
        BY <1>2, <1>11, <3>1, <3>2 DEF Linked, LinkedBut
      <4> QED BY <1>2, <3>1, <4>1
    <3>3. ASSUME NEW d \in t.h[x].for PROVE d \in DOMAIN t.h /\ t.h[d].proxy = x
      <4>1. d \in s.h[x].for BY <1>2
      <4>2. d \in DOMAIN s.h /\ s.h[d].proxy = x BY <1>11, <3>1, <4>1 DEF Linked, LinkedBut
      <4>3. d # b BY <1>2, <4>2
      <4> QED BY <1>2, <4>2, <4>3
    <3> QED BY <3>2, <3>3
  <2>2. LinkedBut(r, b)
    <3>1. CASE p \in DOMAIN t.h BY <1>3, <1>4, <2>1, <3>1, PartedLinked
    <3>2. CASE p \notin DOMAIN t.h BY <1>3, <2>1, <3>2
    <3> QED BY <3>1, <3>2
  <2>3. b # None BY <1>1, ViewFacts, ConnectorConstants
  <2>4. \A x \in DOMAIN r.h : r.h[x].proxy = b => x \in s.h[b].for
    BY <1>2, <1>8, <1>10, <1>11, <2>3 DEF Linked, LinkedBut
  <2> QED BY <2>2, <2>4
<1>12. Up \in DOMAIN s.h /\ Up # b => Up \in DOMAIN r.h BY <1>2, <1>6
<1> QED BY <1>2, <1>4, <1>6, <1>7, <1>8, <1>9, <1>10, <1>11, <1>12 DEF r
\* Where a proxy that stays stops being ready, so do the handles behind it.
Sinks(s, r) ==
    \A x, d \in DOMAIN r.h \cap DOMAIN s.h :
        d \in s.h[x].for /\ s.h[x].ready /\ ~r.h[x].ready => ~r.h[d].ready

LEMMA SpreadSinks ==
  ASSUME NEW s \in Views, NEW b, NEW x \in DOMAIN s.h, NEW d \in DOMAIN s.h,
         x \in Spread(s, b, FALSE), d \in s.h[x].for, s.h[d].ready
  PROVE  d \in Spread(s, b, FALSE)
<1> DEFINE next == [y \in Peers |-> {e \in DOMAIN s.h :
                          Has(s, y) /\ e \in s.h[y].for /\ s.h[e].ready # FALSE}]
<1>1. Spread(s, b, FALSE) = Closure({b}, next) BY DEF Spread
<1>2. x \in Peers /\ d \in Peers /\ d \in next[x] BY ViewFacts DEF Has
<1> HIDE DEF next
<1>3. x \in Closure({b}, next) BY <1>1
<1>4. d \in Closure({b}, next) BY <1>2, <1>3, ClosureClosed
<1> QED BY <1>1, <1>4

\* What is left of g, cut from its proxy or not, made unready or not
Trimmed(g, k, cut, dim) ==
    /\ k \in Handle
    /\ k.app = g.app /\ k.active = g.active
    /\ k.wait = g.wait /\ k.lost = g.lost
    /\ k.lostIn = g.lostIn /\ k.next = g.next
    /\ k.timer = g.timer /\ k.for = g.for
    /\ cut => k.proxy = None
    /\ ~cut => k.proxy = g.proxy
    /\ k.ready <=> g.ready /\ ~dim
    /\ k.ready \in BOOLEAN
    /\ g.told = g.ready => k.told = k.ready

LEMMA LeftTrimmed ==
  ASSUME NEW g \in Handle, NEW x, NEW U, NEW N
  PROVE  Trimmed(g, [g EXCEPT !.proxy = IF x \in U THEN None ELSE @,
                              !.ready = @ /\ x \notin N,
                              !.told = @ /\ x \notin N], x \in U, x \in N)
<1> DEFINE q == IF x \in U THEN None ELSE g.proxy
           a == g.ready /\ x \notin N
           c == g.told /\ x \notin N
           k == [g EXCEPT !.proxy = q, !.ready = a, !.told = c]
<1>1. q \in Peers \cup {None} /\ a \in BOOLEAN /\ c \in BOOLEAN BY DEF Handle
<1>2. /\ x \in U => q = None
      /\ x \notin U => q = g.proxy
  OBVIOUS
<1>3. k \in Handle
  <2> HIDE DEF q, a, c
  <2>1. [g EXCEPT !.proxy = q] \in Handle BY <1>1 DEF Handle
  <2>2. [[g EXCEPT !.proxy = q] EXCEPT !.ready = a] \in Handle BY <1>1, <2>1 DEF Handle
  <2>3. [[[g EXCEPT !.proxy = q] EXCEPT !.ready = a] EXCEPT !.told = c] \in Handle
    BY <1>1, <2>2 DEF Handle
  <2> QED BY <2>3
<1>4. /\ k.app = g.app /\ k.active = g.active
      /\ k.wait = g.wait /\ k.lost = g.lost
      /\ k.lostIn = g.lostIn /\ k.next = g.next
      /\ k.timer = g.timer /\ k.for = g.for
      /\ k.proxy = q /\ k.ready = a /\ k.told = c
  <2> HIDE DEF q, a, c
  <2> QED BY <1>1 DEF Handle
<1> HIDE DEF k, q
<1>5. Trimmed(g, k, x \in U, x \in N)
  BY <1>1, <1>2, <1>3, <1>4 DEF Trimmed
<1> QED BY <1>5 DEF k, q

LEMMA DropFacts ==
  ASSUME NEW s, Good(s), NEW b \in Peers, b \notin DOMAIN s.h, NEW old \in Handle
  PROVE  LET r == Drop(s, b, old)
         IN /\ Good(r) /\ Thins(s, r) /\ Sinks(s, r)
            /\ LinkedBut(s, b) /\ (\A x \in DOMAIN s.h : s.h[x].proxy = b => x \in old.for)
                  => Linked(r)
            /\ \A x \in DOMAIN s.h \ DOMAIN r.h : s.h[x].proxy \in (DOMAIN s.h \ DOMAIN r.h) \cup {b}
            /\ \A x \in DOMAIN r.h : r.h[x].next = s.h[x].next /\ r.h[x].timer = s.h[x].timer
<1> DEFINE behind(x) == {d \in DOMAIN s.h : /\ s.h[d].proxy = x
                                            /\ d \in IF x = b THEN old.for ELSE s.h[x].for}
           falls(x) == {d \in behind(x) : s.h[d].app \notin {"loose", "closed"}}
           next == [x \in Peers |-> IF Has(s, x) THEN falls(x) ELSE {}]
           gone == Closure(falls(b), next)
           unbound == UNION {behind(x) : x \in gone \cup {b}}
           unready == UNION {Spread(s, x, FALSE) : x \in gone}
           idle == {x \in gone \cup {b} : /\ behind(x) # {} /\ x # Up
                                       /\ IF x = b THEN ~old.active ELSE ~s.h[x].active}
           Left(x) == [s.h[x] EXCEPT !.proxy = IF x \in unbound THEN None ELSE @,
                                  !.ready = @ /\ x \notin unready,
                                  !.told = @ /\ x \notin unready]
           e == [x \in Peers |-> IF x \in idle THEN "none" ELSE s.ep[x]]
           f == [x \in DOMAIN s.h \ gone |-> Left(x)]
           r == Drop(s, b, old)
<1>1. s \in Views /\ \A x \in DOMAIN s.h : Sound(s.h[x]) /\ (s.h[x].wait => x \notin s.disc)
  BY GoodIsBut, ConnectorConstants DEF Good, GoodBut
<1>2. r = [s EXCEPT !.h = f, !.ep = e] BY DEF Drop
<1>3. \A x \in DOMAIN s.h : s.h[x] \in Handle BY <1>1, ViewFacts
<1>4. \A x \in Peers : falls(x) \subseteq behind(x) /\ behind(x) \subseteq DOMAIN s.h OBVIOUS
<1>5. /\ gone \subseteq Peers
      /\ \A x \in gone : \E y \in gone \cup {b} : x \in behind(y)
  <2>1. falls(b) \in SUBSET Peers BY <1>1, ViewFacts
  <2>2. \A y \in Peers : next[y] \subseteq Peers BY <1>1, ViewFacts
  <2>3. \A y \in Peers : next[y] \subseteq falls(y) OBVIOUS
  <2> HIDE DEF falls, behind, next
  <2>4. gone \subseteq Peers BY <2>1, ClosureRoots
  <2>5. \A x \in gone : x \in falls(b) \/ \E y \in gone : x \in next[y]
    BY <2>1, <2>2, ClosureReason
  <2> HIDE DEF gone
  <2> QED BY <1>4, <2>3, <2>4, <2>5
<1>6. gone \subseteq DOMAIN s.h
  <2> HIDE DEF gone, falls
  <2> QED BY <1>4, <1>5
<1>7. \A x \in gone \cup {b} : behind(x) \subseteq unbound OBVIOUS
<1>8. \A x \in unbound : \E y \in gone \cup {b} : x \in behind(y) OBVIOUS
<1>9. \A x, d \in DOMAIN s.h : x \in unready /\ d \in s.h[x].for /\ s.h[d].ready => d \in unready
  <2> SUFFICES ASSUME NEW x \in DOMAIN s.h, NEW d \in DOMAIN s.h,
                      x \in unready, d \in s.h[x].for, s.h[d].ready
               PROVE  d \in unready
    OBVIOUS
  <2>1. PICK y \in gone : x \in Spread(s, y, FALSE) OBVIOUS
  <2> HIDE DEF gone
  <2>2. d \in Spread(s, y, FALSE) BY <1>1, <2>1, SpreadSinks
  <2> QED BY <2>2
<1>10. e \in [Peers -> EndpointStates] /\ \A x \in Peers : e[x] \in {s.ep[x], "none"}
  <2> HIDE DEF idle
  <2> QED BY <1>1, ViewFacts DEF EndpointStates
<1> HIDE DEF gone, unbound, unready, idle, e, Left
<1>11. \A x \in DOMAIN s.h : Trimmed(s.h[x], Left(x), x \in unbound, x \in unready)
  BY <1>3, LeftTrimmed DEF Left
<1>12. DOMAIN f = DOMAIN s.h \ gone /\ \A x \in DOMAIN f : f[x] = Left(x) OBVIOUS
<1>13. f \in Tables
  <2>1. f \in [DOMAIN s.h \ gone -> Handle] BY <1>11, <1>12 DEF Trimmed
  <2>2. DOMAIN s.h \ gone \in SUBSET Peers BY <1>1, ViewFacts
  <2> QED BY <2>1, <2>2, TableOf
<1> SUFFICES /\ Good(r) /\ Thins(s, r) /\ Sinks(s, r)
             /\ LinkedBut(s, b) /\ (\A x \in DOMAIN s.h : s.h[x].proxy = b => x \in old.for)
                  => Linked(r)
             /\ \A x \in DOMAIN s.h \ DOMAIN r.h : s.h[x].proxy \in (DOMAIN s.h \ DOMAIN r.h) \cup {b}
             /\ \A x \in DOMAIN r.h : r.h[x].next = s.h[x].next /\ r.h[x].timer = s.h[x].timer
  OBVIOUS
<1> HIDE DEF f, r
<1>14. /\ r \in Views /\ r.h = f /\ r.ep = e /\ r.dial = s.dial /\ r.topo = s.topo
       /\ r.disc = s.disc /\ r.pend = s.pend
  BY <1>1, <1>2, <1>10, <1>13 DEF Views
<1>15. Thins(s, r)
  <2>1. \A x \in DOMAIN r.h : Thinner(s.h[x], r.h[x])
    <3> SUFFICES ASSUME NEW x \in DOMAIN r.h PROVE Thinner(s.h[x], r.h[x]) OBVIOUS
    <3>1. x \in DOMAIN s.h /\ r.h[x] = Left(x) BY <1>12, <1>14
    <3>2. /\ r.h[x].app = s.h[x].app /\ r.h[x].active = s.h[x].active
          /\ r.h[x].next = s.h[x].next /\ r.h[x].for = s.h[x].for
          /\ r.h[x].ready => s.h[x].ready
      BY <1>11, <3>1 DEF Trimmed
    <3>3. r.h[x].proxy \in {s.h[x].proxy, None} BY <1>11, <3>1 DEF Trimmed
    <3> QED BY <3>2, <3>3 DEF Thinner
  <2> QED BY <1>1, <1>10, <1>12, <1>14, <2>1 DEF Thins
<1>16. Good(r)
  <2>1. \A x \in DOMAIN r.h : Sound(r.h[x]) /\ (r.h[x].wait => x \notin r.disc)
    BY <1>1, <1>11, <1>12, <1>14 DEF Sound, Trimmed
  <2> QED BY <1>14, <2>1 DEF Good, GoodBut
<1>17. Sinks(s, r) BY <1>9, <1>11, <1>12, <1>14 DEF Sinks, Trimmed
<1>18. ASSUME LinkedBut(s, b), \A x \in DOMAIN s.h : s.h[x].proxy = b => x \in old.for
       PROVE  Linked(r)
  <2>1. \A x \in DOMAIN s.h : s.h[x].proxy \in gone \cup {b} => x \in unbound
    <3> SUFFICES ASSUME NEW x \in DOMAIN s.h, s.h[x].proxy \in gone \cup {b} PROVE x \in unbound
      OBVIOUS
    <3>1. None \notin Peers BY ConnectorConstants
    <3>2. x \in behind(s.h[x].proxy) BY <1>5, <1>18, <3>1 DEF LinkedBut
    <3> HIDE DEF behind
    <3> QED BY <1>7, <3>2
  <2>2. \A x \in unbound : s.h[x].proxy \in gone \cup {b} BY <1>8
  <2> HIDE DEF behind
  <2>3. \A x \in gone : x \in unbound BY <1>5, <1>7
  <2>4. ASSUME NEW x \in DOMAIN r.h
        PROVE  /\ r.h[x].proxy # None =>
                    r.h[x].proxy \in DOMAIN r.h /\ x \in r.h[r.h[x].proxy].for
               /\ \A d \in r.h[x].for : d \in DOMAIN r.h /\ r.h[d].proxy = x
    <3>1. x \in DOMAIN s.h /\ x \notin gone /\ x # b BY <1>12, <1>14
    <3>2. ASSUME r.h[x].proxy # None
          PROVE  r.h[x].proxy \in DOMAIN r.h /\ x \in r.h[r.h[x].proxy].for
      <4>1. x \notin unbound /\ r.h[x].proxy = s.h[x].proxy
        BY <1>11, <1>12, <1>14, <3>1, <3>2 DEF Trimmed
      <4>2. s.h[x].proxy \notin gone /\ s.h[x].proxy \notin {None, b} BY <2>1, <3>1, <3>2, <4>1
      <4>3. s.h[x].proxy \in DOMAIN s.h /\ x \in s.h[s.h[x].proxy].for
        BY <1>18, <3>1, <4>2 DEF LinkedBut
      <4> QED BY <1>11, <1>12, <1>14, <4>1, <4>2, <4>3 DEF Trimmed
    <3>3. ASSUME NEW d \in r.h[x].for PROVE d \in DOMAIN r.h /\ r.h[d].proxy = x
      <4>1. d \in s.h[x].for BY <1>11, <1>12, <1>14, <3>1 DEF Trimmed
      <4>2. d \in DOMAIN s.h /\ s.h[d].proxy = x BY <1>18, <3>1, <4>1 DEF LinkedBut
      <4>3. d \notin unbound BY <2>2, <3>1, <4>2
      <4>4. d \notin gone BY <2>3, <4>3
      <4> QED BY <1>11, <1>12, <1>14, <4>2, <4>3, <4>4 DEF Trimmed
    <3> QED BY <3>2, <3>3
  <2> QED BY <2>4 DEF Linked, LinkedBut
<1>19. \A x \in DOMAIN s.h \ DOMAIN r.h : s.h[x].proxy \in (DOMAIN s.h \ DOMAIN r.h) \cup {b}
  <2>1. DOMAIN s.h \ DOMAIN r.h = gone BY <1>6, <1>12, <1>14
  <2>2. \A x \in gone : s.h[x].proxy \in gone \cup {b} BY <1>5
  <2> QED BY <2>1, <2>2
<1>20. \A x \in DOMAIN r.h : r.h[x].next = s.h[x].next /\ r.h[x].timer = s.h[x].timer
  BY <1>11, <1>12, <1>14 DEF Trimmed
<1> QED BY <1>15, <1>16, <1>17, <1>18, <1>19, <1>20
\* A handle that stays behind a proxy that stops being ready does so too.
Follows(s, r) ==
    \A x \in DOMAIN s.h \cap DOMAIN r.h :
        /\ s.h[x].proxy \in DOMAIN s.h \cap DOMAIN r.h
        /\ s.h[s.h[x].proxy].ready /\ ~r.h[s.h[x].proxy].ready
        /\ r.h[x].proxy = s.h[x].proxy
        => ~r.h[x].ready

LEMMA RemoveFacts ==
  ASSUME NEW s, NEW b, GoodBut(s, b), b \in DOMAIN s.h
  PROVE  LET r == RemoveHandle(s, b)
         IN /\ Good(r) /\ Thins(s, r) /\ b \notin DOMAIN r.h
            /\ Linked(s) => Linked(r) /\ Follows(s, r)
<1> DEFINE t == Leave(s, b)
           r == RemoveHandle(s, b)
<1>1. s \in Views /\ b \in Peers /\ s.h[b] \in Handle
  BY ViewFacts DEF GoodBut
<1>2. /\ Good(t) /\ Thins(s, t) /\ Calm(s, t) /\ b \notin DOMAIN t.h
      /\ \A x \in DOMAIN t.h : t.h[x].proxy = s.h[x].proxy
      /\ Linked(s) =>
            /\ LinkedBut(t, b)
            /\ \A x \in DOMAIN t.h : t.h[x].proxy = b => x \in s.h[b].for
  BY LeaveFacts
<1>3. r = Drop(t, b, s.h[b]) BY DEF RemoveHandle
<1> HIDE DEF t, r
<1>4. /\ Good(r) /\ Thins(t, r) /\ Sinks(t, r)
      /\ LinkedBut(t, b) /\ (\A x \in DOMAIN t.h : t.h[x].proxy = b => x \in s.h[b].for)
            => Linked(r)
  BY <1>1, <1>2, <1>3, DropFacts
<1>5. Thins(s, r) /\ b \notin DOMAIN r.h BY <1>2, <1>4, ThinsTrans DEF Thins
<1>6. ASSUME Linked(s) PROVE Linked(r) /\ Follows(s, r)
  <2>1. ASSUME NEW x \in DOMAIN s.h \cap DOMAIN r.h,
               s.h[x].proxy \in DOMAIN s.h \cap DOMAIN r.h,
               s.h[s.h[x].proxy].ready, ~r.h[s.h[x].proxy].ready
        PROVE  ~r.h[x].ready
    <3> DEFINE p == s.h[x].proxy
    <3>1. x \in DOMAIN t.h /\ p \in DOMAIN t.h /\ t.h[x].proxy = p
      BY <1>2, <1>4, <2>1 DEF Thins
    <3>2. p # b /\ p # None BY <1>1, <1>5, <2>1, ViewFacts, ConnectorConstants
    <3>3. x \in t.h[p].for BY <1>2, <1>6, <3>1, <3>2 DEF LinkedBut
    <3>4. t.h[p].ready BY <1>2, <2>1, <3>1 DEF Calm
    <3> QED BY <1>4, <2>1, <3>1, <3>3, <3>4 DEF Sinks
  <2>2. Follows(s, r) BY <2>1 DEF Follows
  <2> QED BY <1>2, <1>4, <1>6, <2>2
<1> QED BY <1>4, <1>5, <1>6 DEF r

-----------------------------------------------------------------------------
(* New handles. *)

\* The table has a handle for b, and every other handle is as it was.
Grows(s, r, b) ==
    /\ s \in Views /\ r \in Views /\ b \in Peers
    /\ DOMAIN r.h = DOMAIN s.h \cup {b}
    /\ \A x \in DOMAIN s.h : x # b => r.h[x] = s.h[x]
    /\ b \in DOMAIN s.h =>
          /\ r.h[b].ready = s.h[b].ready /\ r.h[b].active = s.h[b].active
          /\ r.h[b].next = s.h[b].next
          /\ r.h[b].proxy = s.h[b].proxy /\ r.h[b].for = s.h[b].for
    /\ b \notin DOMAIN s.h =>
          /\ ~r.h[b].ready /\ r.h[b].next = 0
          /\ r.h[b].proxy = None /\ r.h[b].for = {}
    /\ r.ep = s.ep /\ r.dial = s.dial /\ r.topo = s.topo
    /\ r.disc = s.disc /\ r.pend = s.pend

LEMMA MutableFacts ==
  ASSUME NEW s, Good(s), NEW b \in Peers, NEW a
  PROVE  Good(Mutable(s, b, a)) /\ Grows(s, Mutable(s, b, a), b)
<1> DEFINE r == Mutable(s, b, a)
<1>1. s \in Views /\ \A x \in DOMAIN s.h : Sound(s.h[x]) /\ (s.h[x].wait => x \notin s.disc)
  BY GoodIsBut, ConnectorConstants DEF Good, GoodBut
<1>2. CASE b \in DOMAIN s.h
  <2>1. s.h[b] \in Handle BY <1>1, <1>2, ViewFacts
  <2>2. CASE a # "new"
    <3>1. r = s BY <1>2, <2>2 DEF Mutable, Has
    <3>2. DOMAIN s.h \cup {b} = DOMAIN s.h BY <1>2
    <3> QED BY <1>1, <1>2, <3>1, <3>2 DEF Grows
  <2>3. CASE a = "new"
    <3> DEFINE g == [[s.h[b] EXCEPT !.app = "loose"] EXCEPT !.told = FALSE]
               t == [s.h EXCEPT ![b] = g]
    <3>1. /\ g \in Handle /\ g.app = "loose" /\ g.lost = s.h[b].lost
          /\ g.timer = s.h[b].timer /\ g.lostIn = s.h[b].lostIn /\ g.wait = s.h[b].wait
          /\ g.ready = s.h[b].ready /\ g.active = s.h[b].active /\ g.next = s.h[b].next
          /\ g.proxy = s.h[b].proxy /\ g.for = s.h[b].for
      BY <2>1 DEF Handle
    <3>2. r = [s EXCEPT !.h = t] BY <1>1, <1>2, <2>3 DEF Mutable, Has, Views
    <3> HIDE DEF g
    <3>3. t \in [DOMAIN s.h -> Handle] /\ t[b] = g /\ \A x \in DOMAIN s.h : x # b => t[x] = s.h[x]
      BY <1>1, <1>2, <3>1, ViewFacts
    <3>4. t \in Tables BY <1>1, <3>3, ViewFacts, TableOf
    <3> HIDE DEF t, r
    <3>5. /\ r \in Views /\ r.h = t /\ r.ep = s.ep /\ r.dial = s.dial /\ r.topo = s.topo
          /\ r.disc = s.disc /\ r.pend = s.pend
      BY <1>1, <3>2, <3>4, PutTable
    <3>6. DOMAIN r.h = DOMAIN s.h \cup {b} BY <1>2, <3>3, <3>5
    <3>7. Sound(g) BY <1>1, <1>2, <3>1 DEF Sound
    <3>8. Good(r)
      <4>1. \A x \in DOMAIN r.h : Sound(r.h[x]) /\ (r.h[x].wait => x \notin r.disc)
        BY <1>1, <1>2, <3>1, <3>3, <3>5, <3>6, <3>7
      <4> QED BY <3>5, <4>1 DEF Good, GoodBut
    <3>9. Grows(s, r, b) BY <1>1, <1>2, <3>1, <3>3, <3>5, <3>6 DEF Grows
    <3> QED BY <3>8, <3>9 DEF r
  <2> QED BY <2>2, <2>3
<1>3. CASE b \notin DOMAIN s.h
  <2> DEFINE app == IF a = "null" THEN "none" ELSE "tagged"
             up == IF s.topo[b] = Absent THEN None ELSE s.topo[b]
             new == [app |-> app, told |-> FALSE, active |-> FALSE, wait |-> FALSE,
                     lost |-> FALSE, ready |-> FALSE, tries |-> 0, next |-> 0,
                     lostIn |-> 0, up |-> up,
                     proxy |-> None, for |-> {}, timer |-> NoTimer]
             f == [x \in DOMAIN s.h \cup {b} |-> IF x = b THEN new ELSE s.h[x]]
             t == [s EXCEPT !.h = f]
  <2>1. new \in Handle
    <3>1. s.topo[b] \in Links \cup {Absent} /\ None \in Links
      BY <1>1, ViewFacts DEF Links
    <3>4. up \in Links BY <3>1
    <3>2. app \in {"none", "tagged", "loose", "closed"} OBVIOUS
    <3>3. 0 \in Times /\ 0 \in IF MaxTry > 0 THEN 0 .. MaxTry ELSE Nat
      BY TimesNat, ConnectorConstants
    <3> HIDE DEF up, app
    <3> QED BY <3>4, <3>2, <3>3 DEF Handle, Links
  <2>2. /\ Sound(new) /\ ~new.wait /\ ~new.lost /\ ~new.ready /\ new.next = 0
        /\ new.proxy = None /\ new.for = {}
    BY <2>1 DEF Sound
  <2>3. r = IF s.topo[b] = Absent THEN SetLost(t, b) ELSE t BY <1>3 DEF Mutable, Has
  <2> HIDE DEF new
  <2>4. f \in [DOMAIN s.h \cup {b} -> Handle] /\ f[b] = new
        /\ \A x \in DOMAIN s.h : f[x] = s.h[x]
    BY <1>1, <1>3, <2>1, ViewFacts
  <2>5. DOMAIN s.h \cup {b} \in SUBSET Peers BY <1>1, ViewFacts
  <2>6. f \in Tables BY <2>4, <2>5, TableOf
  <2> HIDE DEF f
  <2>7. /\ t \in Views /\ t.h = f /\ t.ep = s.ep /\ t.dial = s.dial /\ t.topo = s.topo
        /\ t.disc = s.disc /\ t.pend = s.pend
    BY <1>1, <2>6, PutTable
  <2> HIDE DEF t, r
  <2>8. Good(t) /\ Grows(s, t, b)
    <3>1. DOMAIN t.h = DOMAIN s.h \cup {b} BY <2>4, <2>7
    <3>2. \A x \in DOMAIN t.h : Sound(t.h[x]) /\ (t.h[x].wait => x \notin t.disc)
      BY <1>1, <2>2, <2>4, <2>7, <3>1
    <3>3. Grows(s, t, b) BY <1>1, <1>3, <2>2, <2>4, <2>7, <3>1 DEF Grows
    <3> QED BY <2>7, <3>2, <3>3 DEF Good, GoodBut
  <2>9. CASE s.topo[b] # Absent BY <2>3, <2>8, <2>9 DEF r
  <2>10. CASE s.topo[b] = Absent
    <3>1. r = SetLost(t, b) BY <2>3, <2>10
    <3>2. b \in DOMAIN t.h /\ t.h[b] = new BY <2>4, <2>7
    <3>3. /\ Touches(t, r, b) /\ r.h[b].lost
          /\ r.h[b].timer \in 0 .. r.h[b].lostIn
          /\ r.h[b].wait = t.h[b].wait /\ r.h[b].next = t.h[b].next
      BY <2>2, <2>7, <3>1, <3>2, SetLostTouches
    <3>4. r.h[b] \in Handle /\ Outside(r.h[b]) = Outside(t.h[b]) BY <3>3 DEF Touches
    <3>5. Sound(r.h[b]) BY <2>2, <3>2, <3>3, <3>4, SoundBy DEF Sound
    <3>6. Good(r)
      <4>1. GoodBut(t, b) BY <2>8, GoodIsBut
      <4> QED BY <2>2, <3>2, <3>3, <3>5, <4>1, TouchGood
    <3>7. r.h[b].ready = t.h[b].ready /\ r.h[b].proxy = t.h[b].proxy /\ r.h[b].for = t.h[b].for
      BY <3>4, OutsideSame
    <3>8. Grows(s, r, b)
      BY <1>3, <2>2, <2>8, <3>2, <3>3, <3>7 DEF Grows, Touches
    <3> QED BY <3>6, <3>8 DEF r
  <2> QED BY <2>9, <2>10
<1> QED BY <1>2, <1>3
-----------------------------------------------------------------------------
(* What holds of every view, and what holds of every view of shallow trees. *)

\* A handle is behind a relay or the upstream, a relay behind the upstream.
Flat(s) ==
    \A x \in DOMAIN s.h :
        /\ s.h[x].proxy \in Relays \cup {Up, None}
        /\ x \in Relays => s.h[x].proxy \in {Up, None}
        /\ x = Up => s.h[x].proxy = None

Fine(s) == Good(s) /\ Linked(s) /\ Flat(s)

LEMMA ThinsFlat ==
  ASSUME NEW s, NEW r, Thins(s, r), Flat(s) PROVE Flat(r)
BY DEF Thins, Thinner, Flat

LEMMA MarksFlat ==
  ASSUME NEW s, NEW r, Marks(s, r), Flat(s) PROVE Flat(r)
BY DEF Marks, Marked, Flat

LEMMA TouchesFine ==
  ASSUME NEW s, NEW r, NEW b, Touches(s, r, b), Good(r), Linked(s), Flat(s)
  PROVE  Fine(r)
BY TouchesLinked, TouchesThins, ThinsFlat DEF Fine, Linked

-----------------------------------------------------------------------------
(* The upstreams of a peer, and where a connection goes to. *)

\* The peers on the way to b, in a shallow tree
Way(b) ==
    {b} \cup (IF b = Up THEN {} ELSE IF b \in Relays THEN {Up} ELSE Relays \cup {Up})

LEMMA AboveFacts ==
  ASSUME NEW s \in Views, NEW b \in Peers
  PROVE  b \in Above(s, b) /\ Above(s, b) \subseteq Peers
<1> DEFINE n == [x \in Peers |-> {u \in Peers : u = s.topo[x] /\ s.topo[u] # Absent}]
<1>1. Above(s, b) = Closure({b}, n) BY DEF Above
<1>2. {b} \in SUBSET Peers OBVIOUS
<1> HIDE DEF n
<1> QED BY <1>1, <1>2, ClosureRoots

LEMMA AboveWay ==
  ASSUME Shallow, NEW s \in Views, NEW b \in Peers
  PROVE  Above(s, b) \subseteq Way(b) /\ Way(b) \subseteq Peers
<1> DEFINE n == [x \in Peers |-> {u \in Peers : u = s.topo[x] /\ s.topo[u] # Absent}]
<1>1. Above(s, b) = Closure({b}, n) BY DEF Above
<1>2. Way(b) \in SUBSET Peers BY ConnectorConstants DEF Way, Relays
<1>3. \A y \in Way(b) : n[y] \subseteq Way(b)
  <2>1. \A y \in Peers : \A u \in n[y] : u \in Peers /\ u \in Upstreams[y] /\ u # Self /\ u # None
    BY ViewFacts, ConnectorConstants
  <2>2. \A y \in Peers : Upstreams[y] \subseteq Relays \cup {Up, Self, None} BY DEF Shallow
  <2>3. \A y \in Relays : Upstreams[y] \subseteq {Up, Self, None} BY DEF Relays
  <2>4. Upstreams[Up] \subseteq {Self, None} BY DEF Shallow
  <2> HIDE DEF n
  <2>5. \A y \in Way(b) : \A u \in n[y] : u \in Way(b)
    BY <1>2, <2>1, <2>2, <2>3, <2>4 DEF Way
  <2> QED BY <2>5
<1> HIDE DEF n
<1>4. {b} \subseteq Way(b) BY DEF Way
<1> QED BY <1>1, <1>2, <1>3, <1>4, ClosureWithin

LEMMA DirectTargetFacts ==
  ASSUME NEW s \in Views, NEW b \in Peers, NEW a, NEW proxyOK,
         NEW p, p = DirectTarget(s, b, a, proxyOK), p \notin {"deny", "next"}
  PROVE  p \in Above(s, b) /\ Usable(s, p, a)
<1> DEFINE ok == {x \in Above(s, b) : Usable(s, x, a)}
           first == {x \in ok : ok \subseteq Above(s, x)}
           C == CHOOSE x \in first : TRUE
<1>1. p = IF proxyOK THEN IF first = {} THEN "next" ELSE C
          ELSE IF s.topo[b] # Absent /\ b \notin Allowed THEN "deny"
          ELSE IF b \in ok THEN b
          ELSE IF Above(s, b) # {b} THEN "deny" ELSE "next"
  BY DEF DirectTarget
<1>2. first # {} => C \in first OBVIOUS
<1>3. first \subseteq ok OBVIOUS
<1>4. \A x \in ok : x \in Above(s, b) /\ Usable(s, x, a) OBVIOUS
<1> HIDE DEF ok, first, C
<1>5. p \in ok BY <1>1, <1>2, <1>3
<1> QED BY <1>4, <1>5

\* A direct connection goes to a peer on the way that the policy accepts; it
\* has a gateway to connect to, unless it is connected already or unknown.
LEMMA DirectFacts ==
  ASSUME NEW s \in Views, NEW b \in Peers, NEW a, NEW proxyOK,
         NEW p, p = Direct(s, b, a, proxyOK), p \notin {"deny", "next"}
  PROVE  /\ p \in Above(s, b) /\ DirectAllowed
         /\ s.topo[p] # Absent => p \in Allowed
         /\ s.ep[p] # "none" \/ p \notin s.disc \/ p \in Connectable
<1> DEFINE has == a = "new" \/ (a = "same" /\ s.h[b].app # "none")
<1>1. /\ DirectAllowed
      /\ p = DirectTarget(s, b, has, proxyOK)
  BY DEF Direct
<1>2. p \in Above(s, b) /\ Usable(s, p, has)
  BY <1>1, DirectTargetFacts
<1> QED BY <1>1, <1>2 DEF Usable

LEMMA NextHopFacts ==
  ASSUME NEW s \in Views, NEW b \in Peers, InTree(s, b)
  PROVE  NextHop(s, b) \in Above(s, b) \cup {Up}
<1>1. CASE Relation(s, b) = "upstream" BY <1>1 DEF NextHop
<1>2. CASE Relation(s, b) # "upstream"
  <2>1. Relation(s, b) = "downstream" BY <1>2 DEF InTree
  <2>2. \E x \in Above(s, b) : s.topo[x] = Self BY <2>1 DEF Relation
  <2>3. NextHop(s, b) = CHOOSE x \in Above(s, b) : s.topo[x] = Self BY <1>2 DEF NextHop
  <2> QED BY <2>2, <2>3
<1> QED BY <1>1, <1>2
-----------------------------------------------------------------------------
(* Readiness follows the proxy over a sequence of steps: some that leave it  *)
(* alone, one that marks, and some that remove.                              *)

Turned(s, b) == {SetReady(s, b), SetUnready(s, b)}

LEMMA TurnFacts ==
  ASSUME NEW s, Good(s), NEW b, NEW r \in Turned(s, b)
  PROVE  Marks(s, r) /\ Good(r) /\ (Fine(s) => Fine(r))
<1>1. s \in Views BY DEF Good, GoodBut
<1>2. Marks(s, r)
  <2>1. CASE r = SetReady(s, b) BY <1>1, <2>1, SetReadyMarks
  <2>2. CASE r = SetUnready(s, b) BY <1>1, <2>2, SetUnreadyMarks
  <2> QED BY <2>1, <2>2 DEF Turned
<1> QED BY <1>2, MarksGood, MarksLinked, MarksFlat DEF Fine, Linked

LEMMA MarkTurns ==
  ASSUME NEW s, NEW b, NEW v PROVE Mark(s, b, v) \in Turned(s, b)
BY DEF Mark, Turned

LEMMA TurnFollows ==
  ASSUME NEW s0, NEW s, Fine(s), Calm(s0, s), NEW b, NEW r \in Turned(s, b)
  PROVE  Follows(s0, r)
<1>1. s \in Views BY DEF Fine, Good, GoodBut
<1>2. Marks(s, r) BY TurnFacts DEF Fine
<1> SUFFICES ASSUME NEW x \in DOMAIN s0.h \cap DOMAIN r.h, NEW p,
                    p = s0.h[x].proxy, p \in DOMAIN s0.h \cap DOMAIN r.h,
                    s0.h[p].ready, ~r.h[p].ready, r.h[x].proxy = p
             PROVE  ~r.h[x].ready
  BY Zenon DEF Follows
<1>3. x \in DOMAIN s.h /\ p \in DOMAIN s.h /\ s.h[x].proxy = p
  BY <1>2 DEF Marks, Marked
<1>4. s.h[p].ready BY <1>3 DEF Calm
<1>5. CASE r = SetReady(s, b) BY <1>1, <1>3, <1>4, <1>5, SetReadyMarks
<1>6. CASE r = SetUnready(s, b)
  <2>1. p \in Spread(s, b, FALSE)
    <3> SUFFICES ASSUME p \notin Spread(s, b, FALSE) PROVE r.h[p] = s.h[p]
      BY <1>4
    <3> QED BY <1>1, <1>3, <1>6, SetUnreadyKeeps
  <2>2. p # None BY <1>1, <1>3, ViewFacts, ConnectorConstants
  <2>3. x \in s.h[p].for BY <1>3, <2>2 DEF Fine, Linked, LinkedBut
  <2>4. CASE s.h[x].ready
    <3>1. x \in Spread(s, b, FALSE) BY <1>1, <1>3, <2>1, <2>3, <2>4, SpreadSinks
    <3> QED BY <1>1, <1>3, <1>6, <3>1, SetUnreadyMarks
  <2>5. CASE ~s.h[x].ready BY <1>1, <1>3, <1>6, <2>5, SetUnreadyMarks
  <2> QED BY <2>4, <2>5
<1> QED BY <1>5, <1>6 DEF Turned

LEMMA CalmFollows ==
  ASSUME NEW s, NEW r, Calm(s, r) PROVE Follows(s, r)
BY DEF Calm, Follows

LEMMA FollowsThins ==
  ASSUME NEW s, s \in Views, NEW t, NEW r, Follows(s, t), Thins(t, r), Follows(t, r)
  PROVE  Follows(s, r)
<1> SUFFICES ASSUME NEW x \in DOMAIN s.h \cap DOMAIN r.h, NEW p,
                    p = s.h[x].proxy, p \in DOMAIN s.h \cap DOMAIN r.h,
                    s.h[p].ready, ~r.h[p].ready, r.h[x].proxy = p
             PROVE  ~r.h[x].ready
  BY Zenon DEF Follows
<1>1. x \in DOMAIN t.h /\ p \in DOMAIN t.h /\ p # None
  BY ViewFacts, ConnectorConstants DEF Thins
<1>2. t.h[x].proxy = p /\ (r.h[x].ready => t.h[x].ready)
  BY <1>1 DEF Thins, Thinner
<1>3. CASE t.h[p].ready BY <1>1, <1>2, <1>3 DEF Follows
<1>4. CASE ~t.h[p].ready BY <1>1, <1>2, <1>4 DEF Follows
<1> QED BY <1>3, <1>4

LEMMA TouchesCalm ==
  ASSUME NEW s, NEW r, NEW b, Touches(s, r, b) PROVE Calm(s, r)
BY OutsideSame DEF Touches, Calm

-----------------------------------------------------------------------------
(* setup_reconnect_timer() *)

LEMMA SetupFacts ==
  ASSUME NEW s, NEW b, GoodBut(s, b), b \in DOMAIN s.h,
         NEW previous \in Times \cup {NoTimer},
         s.h[b].app = "tagged" => s.h[b].told = s.h[b].ready,
         s.h[b].wait => b \notin s.disc,
         s.h[b].lost => s.h[b].timer \in 0 .. s.h[b].lostIn \/ previous = s.h[b].lostIn
  PROVE  LET q == SetupReconnect(s, b, previous)
         IN /\ Good(q.s) /\ Thins(s, q.s)
            /\ \/ /\ q.done = TRUE /\ q.s = Retime(s, b, previous)
                  /\ Touches(s, q.s, b)
                  /\ q.s.h[b].next > 0 /\ q.s.h[b].timer \in Times
               \/ q.done = FALSE /\ q.s = RemoveHandle(s, b)
            /\ Linked(s) => Linked(q.s) /\ Follows(s, q.s)
<1> DEFINE q == SetupReconnect(s, b, previous)
<1>1. s \in Views /\ s.h[b] \in Handle BY ViewFacts DEF GoodBut
<1>2. CASE Exhausted(s, b)
  <2>1. q = [s |-> RemoveHandle(s, b), done |-> FALSE]
    BY <1>2 DEF SetupReconnect, Has
  <2>2. q.s = RemoveHandle(s, b) /\ q.done = FALSE BY <2>1
  <2> HIDE DEF q
  <2>3. Good(q.s) /\ Thins(s, q.s) /\ (Linked(s) => Linked(q.s) /\ Follows(s, q.s))
    BY <2>2, RemoveFacts
  <2> QED BY <2>2, <2>3 DEF q
<1>3. CASE ~Exhausted(s, b)
  <2> DEFINE r == Retime(s, b, previous)
  <2>1. q = [s |-> r, done |-> TRUE] BY <1>3 DEF SetupReconnect, Has
  <2>2. q.s = r /\ q.done = TRUE BY <2>1
  <2> HIDE DEF q
  <2>3. /\ Touches(s, r, b)
        /\ r.h[b].lost = s.h[b].lost /\ r.h[b].lostIn = s.h[b].lostIn
        /\ r.h[b].wait = s.h[b].wait
        /\ r.h[b].next > 0 /\ r.h[b].timer \in Times
        /\ s.h[b].timer # NoTimer => r.h[b].timer <= s.h[b].timer
        /\ previous # NoTimer => r.h[b].timer <= previous
    BY <1>1, <1>3, RetimeTouches
  <2> HIDE DEF r
  <2>4. r.h[b] \in Handle /\ Outside(r.h[b]) = Outside(s.h[b]) BY <2>3 DEF Touches
  <2>5. ASSUME s.h[b].lost PROVE r.h[b].timer \in 0 .. r.h[b].lostIn
    <3>1. s.h[b].lostIn \in Times /\ s.h[b].lostIn \in Nat /\ s.h[b].lostIn # NoTimer
      BY <1>1, HandleTimes, TimesInt
    <3>2. r.h[b].timer \in Nat BY <2>3, TimesInt
    <3>3. CASE previous = s.h[b].lostIn BY <2>3, <3>1, <3>2, <3>3
    <3>4. CASE s.h[b].timer \in 0 .. s.h[b].lostIn
      <4>1. s.h[b].timer # NoTimer /\ s.h[b].timer \in Nat BY <3>1, <3>4 DEF NoTimer
      <4> QED BY <2>3, <3>1, <3>2, <3>4, <4>1
    <3> QED BY <2>5, <3>3, <3>4
  <2>6. Sound(r.h[b]) BY <2>3, <2>4, <2>5, SoundBy
  <2>7. r.disc = s.disc BY <2>3 DEF Touches
  <2>8. Good(r) BY <2>3, <2>6, <2>7, TouchGood
  <2>9. Thins(s, r) /\ Follows(s, r) BY <2>3, TouchesThins, TouchesCalm, CalmFollows
  <2>10. Linked(s) => Linked(r) BY <2>3, TouchesLinked DEF Linked
  <2>11. /\ Good(q.s) /\ Thins(s, q.s)
         /\ Linked(s) => Linked(q.s) /\ Follows(s, q.s)
    BY <2>2, <2>8, <2>9, <2>10
  <2>12. /\ q.done = TRUE /\ q.s = Retime(s, b, previous)
         /\ Touches(s, q.s, b)
         /\ q.s.h[b].next > 0 /\ q.s.h[b].timer \in Times
    BY <2>2, <2>3 DEF r
  <2> QED BY <2>11, <2>12 DEF q
<1> QED BY <1>2, <1>3

\* The usual case: the handle is good.
LEMMA SetupGood ==
  ASSUME NEW s, NEW b, Good(s), b \in DOMAIN s.h
  PROVE  LET q == SetupReconnect(s, b, NoTimer)
         IN /\ Good(q.s) /\ Thins(s, q.s)
            /\ \/ /\ q.done = TRUE /\ q.s = Retime(s, b, NoTimer)
                  /\ Touches(s, q.s, b)
                  /\ q.s.h[b].next > 0 /\ q.s.h[b].timer \in Times
               \/ q.done = FALSE /\ q.s = RemoveHandle(s, b)
            /\ Linked(s) => Linked(q.s) /\ Follows(s, q.s)
<1>1. GoodBut(s, b) /\ Sound(s.h[b]) /\ (s.h[b].wait => b \notin s.disc) BY GoodIsBut
<1>2. NoTimer \in Times \cup {NoTimer} OBVIOUS
<1> QED BY <1>1, <1>2, SetupFacts DEF Sound
-----------------------------------------------------------------------------
(* What comes before the marking leaves readiness alone. *)

\* No handle that stays becomes ready or unready, or free to connect again.
Early(s, r) ==
    \A x \in DOMAIN s.h \cap DOMAIN r.h :
        r.h[x].ready = s.h[x].ready /\ (r.h[x].next = 0 => s.h[x].next = 0)

LEMMA EarlyCalm ==
  ASSUME NEW s, NEW r, Early(s, r) PROVE Calm(s, r)
BY DEF Early, Calm

LEMMA EarlySelf == ASSUME NEW s PROVE Early(s, s)
BY DEF Early

\* Handles were added for V where there were none.
Widens(s, r, V) ==
    /\ s \in Views /\ r \in Views /\ V \subseteq Peers
    /\ DOMAIN r.h = DOMAIN s.h \cup V
    /\ \A x \in DOMAIN s.h :
          /\ r.h[x].ready = s.h[x].ready /\ r.h[x].next = s.h[x].next
          /\ r.h[x].proxy = s.h[x].proxy /\ r.h[x].for = s.h[x].for
    /\ \A x \in V \ DOMAIN s.h :
          ~r.h[x].ready /\ r.h[x].next = 0 /\ r.h[x].proxy = None /\ r.h[x].for = {}
    /\ r.ep = s.ep /\ r.dial = s.dial /\ r.topo = s.topo
    /\ r.disc = s.disc /\ r.pend = s.pend

LEMMA GrowsWidens ==
  ASSUME NEW s, NEW r, NEW b, Grows(s, r, b) PROVE Widens(s, r, {b})
BY DEF Grows, Widens

LEMMA WidensTrans ==
  ASSUME NEW s, NEW t, NEW r, NEW V, NEW W, Widens(s, t, V), Widens(t, r, W)
  PROVE  Widens(s, r, V \cup W)
BY DEF Widens

LEMMA WidensFine ==
  ASSUME NEW s, NEW r, NEW V, Widens(s, r, V), Fine(s), Good(r) PROVE Fine(r)
<1>1. Linked(r)
  <2> SUFFICES ASSUME NEW x \in DOMAIN r.h
               PROVE  /\ r.h[x].proxy # None =>
                            r.h[x].proxy \in DOMAIN r.h /\ x \in r.h[r.h[x].proxy].for
                      /\ \A d \in r.h[x].for : d \in DOMAIN r.h /\ r.h[d].proxy = x
    BY DEF Linked, LinkedBut
  <2>1. CASE x \in DOMAIN s.h
    <3>1. /\ s.h[x].proxy # None =>
                s.h[x].proxy \in DOMAIN s.h /\ x \in s.h[s.h[x].proxy].for
          /\ \A d \in s.h[x].for : d \in DOMAIN s.h /\ s.h[d].proxy = x
      BY <2>1 DEF Fine, Linked, LinkedBut
    <3> QED BY <2>1, <3>1 DEF Widens
  <2>2. CASE x \notin DOMAIN s.h BY <2>2 DEF Widens
  <2> QED BY <2>1, <2>2
<1>2. Flat(r) BY ConnectorConstants DEF Widens, Fine, Flat
<1> QED BY <1>1, <1>2 DEF Fine

LEMMA WidensEarly ==
  ASSUME NEW s0, NEW s, NEW r, NEW V, Early(s0, s), Widens(s, r, V),
         V \cap DOMAIN s0.h \subseteq DOMAIN s.h
  PROVE  Early(s0, r) /\ DOMAIN s.h \subseteq DOMAIN r.h
BY DEF Early, Widens

LEMMA MutableWidens ==
  ASSUME NEW s, Good(s), NEW b \in Peers, NEW p \in Peers, NEW a
  PROVE  LET t == Mutable(Mutable(s, p, "null"), b, a)
         IN /\ Good(Mutable(s, b, a)) /\ Widens(s, Mutable(s, b, a), {b})
            /\ Good(t) /\ Widens(s, t, {p, b})
<1>1. Good(Mutable(s, b, a)) /\ Widens(s, Mutable(s, b, a), {b})
  BY MutableFacts, GrowsWidens
<1>2. Good(Mutable(s, p, "null")) /\ Widens(s, Mutable(s, p, "null"), {p})
  BY MutableFacts, GrowsWidens
<1> DEFINE u == Mutable(s, p, "null")
           t == Mutable(u, b, a)
<1> HIDE DEF u
<1>3. Good(t) /\ Widens(u, t, {b}) BY <1>2, MutableFacts, GrowsWidens DEF u
<1>4. Widens(s, t, {p} \cup {b}) BY <1>2, <1>3, WidensTrans DEF u
<1>5. {p} \cup {b} = {p, b} OBVIOUS
<1> QED BY <1>1, <1>3, <1>4, <1>5 DEF u

LEMMA EndsWidens ==
  ASSUME NEW s, Good(s), NEW b \in Peers, NEW p \in Peers, NEW a
  PROVE  Good(Ends(s, b, p, a)) /\ Widens(s, Ends(s, b, p, a), {p, b})
<1>1. CASE p = b
  <2>1. Ends(s, b, p, a) = Mutable(s, b, a) BY <1>1 DEF Ends
  <2>2. {p, b} = {b} BY <1>1
  <2>3. Good(Mutable(s, b, a)) /\ Widens(s, Mutable(s, b, a), {b}) BY MutableWidens
  <2> QED BY <2>1, <2>2, <2>3
<1>2. CASE p # b
  <2>1. Ends(s, b, p, a) = Mutable(Mutable(s, p, "null"), b, a) BY <1>2 DEF Ends
  <2>2. LET t == Mutable(Mutable(s, p, "null"), b, a)
        IN Good(t) /\ Widens(s, t, {p, b})
    BY MutableWidens
  <2> QED BY <2>1, <2>2
<1> QED BY <1>1, <1>2

\* In a shallow tree no handle that is bound, nor its proxy, goes.
LEMMA BindFine ==
  ASSUME Shallow, NEW s, Fine(s), NEW b \in DOMAIN s.h, NEW p \in DOMAIN s.h, p \in Way(b)
  PROVE  LET r == Bind(s, b, p)
         IN /\ Fine(r) /\ b \in DOMAIN r.h /\ p \in DOMAIN r.h
            /\ p # b => r.h[b].proxy = p
<1> DEFINE r == Bind(s, b, p)
           t == Unbind(s, b)
           q == s.h[b].proxy
<1>1. Good(s) /\ Linked(s) /\ Flat(s) /\ s \in Views /\ b \in Peers /\ p \in Peers
  BY ViewFacts DEF Fine, Good, GoodBut
<1>2. /\ Good(r) /\ DOMAIN r.h \subseteq DOMAIN s.h
      /\ \A x \in DOMAIN r.h : x # b => r.h[x].proxy \in {s.h[x].proxy, None}
      /\ \/ r = s /\ (q = p \/ p = b)
         \/ q # p /\ p # b /\ DOMAIN r.h = DOMAIN t.h
  BY <1>1, BindFacts
<1>3. \/ t = s
      \/ /\ q \in DOMAIN s.h
         /\ s.h[q].proxy \in {None, Up} => DOMAIN s.h \ DOMAIN t.h \subseteq {q}
  BY <1>1, UnbindFacts
<1>4. q \in DOMAIN s.h => s.h[q].proxy \in {None, Up} /\ q # b
  BY <1>1, ViewFacts, ConnectorConstants DEF Flat, Relays
<1> HIDE DEF r, t
<1>5. b \in DOMAIN r.h /\ p \in DOMAIN r.h BY <1>2, <1>3, <1>4
<1>6. Linked(r) /\ (p # b => r.h[b].proxy = p) BY <1>1, <1>5, BindLinked DEF r
<1>7. CASE p = b
  <2>1. r = s BY <1>2, <1>7
  <2> QED BY <1>5, <1>7, <2>1 DEF r
<1>8. CASE p # b
  <2>1. /\ b # Up
        /\ b \in Relays => p = Up
        /\ p \in Relays \cup {Up}
    BY <1>8 DEF Way
  <2>2. Flat(r) BY <1>1, <1>2, <1>6, <1>8, <2>1 DEF Flat
  <2> QED BY <1>2, <1>5, <1>6, <2>2 DEF Fine, r
<1> QED BY <1>7, <1>8

LEMMA BindEarly ==
  ASSUME NEW s0, NEW s, Good(s), NEW b \in DOMAIN s.h, NEW p \in Peers, Early(s0, s)
  PROVE  Early(s0, Bind(s, b, p))
<1>1. /\ Calm(s, Bind(s, b, p)) /\ DOMAIN Bind(s, b, p).h \subseteq DOMAIN s.h
      /\ \A x \in DOMAIN Bind(s, b, p).h : Bind(s, b, p).h[x].next = 0 => s.h[x].next = 0
  BY BindFacts
<1> QED BY <1>1 DEF Early, Calm
-----------------------------------------------------------------------------
(* Opening connections. *)

Site(s) == <<s.topo, s.disc, s.pend>>

LEMMA ThinsSite ==
  ASSUME NEW s, NEW r, Thins(s, r) PROVE Site(r) = Site(s) /\ r.dial = s.dial
BY DEF Thins, Site

LEMMA MarksSite ==
  ASSUME NEW s, NEW r, Marks(s, r) PROVE Site(r) = Site(s) /\ r.dial = s.dial
BY DEF Marks, Site

LEMMA WidensSite ==
  ASSUME NEW s, NEW r, NEW V, Widens(s, r, V)
  PROVE  Site(r) = Site(s) /\ r.dial = s.dial /\ r.ep = s.ep
BY DEF Widens, Site

LEMMA BindSite ==
  ASSUME NEW s, Good(s), NEW b \in DOMAIN s.h, NEW p \in Peers
  PROVE  /\ Good(Bind(s, b, p))
         /\ Site(Bind(s, b, p)) = Site(s) /\ Bind(s, b, p).dial = s.dial
<1>1. /\ Good(Bind(s, b, p))
      /\ Bind(s, b, p).dial = s.dial /\ Bind(s, b, p).topo = s.topo
      /\ Bind(s, b, p).disc = s.disc /\ Bind(s, b, p).pend = s.pend
  BY BindFacts
<1> QED BY <1>1 DEF Site

\* A view that differs in what it dialled only
LEMMA DialSame ==
  ASSUME NEW v, NEW p \in Peers, Good(v)
  PROVE  LET r == [v EXCEPT !.dial = @ \cup {p}]
         IN /\ Good(r) /\ Site(r) = Site(v) /\ r.h = v.h /\ r.ep = v.ep
            /\ r.dial = v.dial \cup {p}
            /\ Fine(v) => Fine(r)
<1> DEFINE r == [v EXCEPT !.dial = @ \cup {p}]
<1>1. v \in Views /\ v.dial \cup {p} \subseteq Peers BY ViewFacts DEF Good, GoodBut
<1>2. /\ r \in Views /\ r.h = v.h /\ r.ep = v.ep /\ r.topo = v.topo /\ r.disc = v.disc
      /\ r.pend = v.pend /\ r.dial = v.dial \cup {p}
  BY <1>1 DEF Views
<1> HIDE DEF r
<1>3. Good(r) BY <1>2 DEF Good, GoodBut
<1>4. Fine(v) => Fine(r) BY <1>2, <1>3 DEF Fine, Linked, LinkedBut, Flat
<1>5. Site(r) = Site(v) BY <1>2 DEF Site
<1> QED BY <1>2, <1>3, <1>4, <1>5 DEF r

\* set_handle_waiting_discovery() of a handle that discovery does not know
LEMMA WaitGood ==
  ASSUME NEW s, Good(s), NEW b \in DOMAIN s.h, b \notin s.disc
  PROVE  Good(SetWaiting(s, b)) /\ Touches(s, SetWaiting(s, b), b)
<1> DEFINE r == SetWaiting(s, b)
<1>1. s \in Views /\ GoodBut(s, b) /\ Sound(s.h[b]) BY GoodIsBut
<1>2. /\ Touches(s, r, b)
      /\ r.h[b].lost = s.h[b].lost /\ r.h[b].lostIn = s.h[b].lostIn
      /\ r.h[b].timer = s.h[b].timer
  BY <1>1, SetWaitingTouches
<1> HIDE DEF r
<1>3. r.h[b] \in Handle /\ Outside(r.h[b]) = Outside(s.h[b]) /\ r.disc = s.disc
  BY <1>2 DEF Touches
<1>4. Sound(r.h[b]) BY <1>1, <1>2, <1>3, SoundBy DEF Sound
<1> QED BY <1>1, <1>2, <1>3, <1>4, TouchGood DEF r

\* What a step may do once readiness is settled: handles fall behind or go.
Settles(s, v) ==
    /\ Good(v) /\ Thins(s, v)
    /\ Linked(s) => Linked(v) /\ Follows(s, v)

LEMMA TouchSettles ==
  ASSUME NEW s, NEW r, NEW b, Touches(s, r, b), Good(r) PROVE Settles(s, r)
BY TouchesThins, TouchesLinked, TouchesCalm, CalmFollows DEF Settles, Linked

LEMMA SettlesTrans ==
  ASSUME NEW s, NEW t, NEW r, Settles(s, t), Settles(t, r) PROVE Settles(s, r)
<1>1. Thins(s, r) BY ThinsTrans DEF Settles
<1>2. Linked(s) => Linked(r) /\ Follows(s, r)
  BY FollowsThins DEF Settles, Thins
<1> QED BY <1>1, <1>2 DEF Settles

LEMMA SettlesSelf == ASSUME NEW s, Good(s) PROVE Settles(s, s)
<1>1. s \in Views BY DEF Good, GoodBut
<1> QED BY <1>1, ThinsSelf DEF Settles, Follows

LEMMA SettlesFine ==
  ASSUME NEW s, NEW r, Settles(s, r), Fine(s) PROVE Fine(r)
BY ThinsFlat DEF Settles, Fine

\* node->connect() is called for p.
Dialled(t, v, p, was) ==
    /\ was = "none" /\ p \in t.disc /\ t.h[p].next = 0
    /\ Touches(t, v, p) /\ v.h[p].next > 0 /\ v.h[p].timer \in Times

LEMMA PaceFacts ==
  ASSUME NEW t, Good(t), NEW p \in DOMAIN t.h, NEW was
  PROVE  \E v : /\ Settles(t, v)
                /\ \/ Pace(t, p, was) = v
                   \/ /\ Pace(t, p, was) = [v EXCEPT !.dial = @ \cup {p}]
                      /\ Dialled(t, v, p, was)
<1> DEFINE r == IF t.h[p].next = 0 THEN SetupReconnect(t, p, NoTimer)
                ELSE [s |-> t, done |-> TRUE]
           w == SetWaiting(r.s, p)
           z == Pace(t, p, was)
<1>1. z = IF ~r.done \/ was # "none" THEN r.s
          ELSE IF p \notin t.disc THEN w
          ELSE IF t.h[p].next = 0 THEN [r.s EXCEPT !.dial = @ \cup {p}] ELSE r.s
  BY DEF Pace
<1>2. /\ Settles(t, r.s)
      /\ r.done = TRUE => p \in DOMAIN r.s.h
      /\ r.done = TRUE /\ t.h[p].next = 0 => Touches(t, r.s, p)
      /\ r.done = TRUE /\ t.h[p].next = 0 => r.s.h[p].next > 0 /\ r.s.h[p].timer \in Times
  <2>1. CASE t.h[p].next = 0
    <3>1. r = SetupReconnect(t, p, NoTimer) BY <2>1
    <3> HIDE DEF r
    <3>2. /\ Good(r.s) /\ Thins(t, r.s)
          /\ \/ /\ Touches(t, r.s, p)
                /\ r.s.h[p].next > 0 /\ r.s.h[p].timer \in Times
             \/ r.done = FALSE
          /\ Linked(t) => Linked(r.s) /\ Follows(t, r.s)
      BY <3>1, SetupGood
    <3>3. Settles(t, r.s) BY <3>2 DEF Settles
    <3> QED BY <3>2, <3>3 DEF Touches
  <2>2. CASE t.h[p].next # 0
    <3>1. r = [s |-> t, done |-> TRUE] BY <2>2
    <3>2. r.s = t BY <3>1
    <3> HIDE DEF r
    <3> QED BY <2>2, <3>2, SettlesSelf
  <2> QED BY <2>1, <2>2
<1> HIDE DEF r, z
<1>3. Good(r.s) /\ r.s.disc = t.disc BY <1>2 DEF Settles, Thins
<1>4. CASE z = r.s BY <1>2, <1>4 DEF z
<1>5. CASE z = w /\ p \in DOMAIN r.s.h /\ p \notin t.disc
  <2>1. Good(w) /\ Touches(r.s, w, p) BY <1>3, <1>5, WaitGood
  <2>2. Settles(t, w) BY <1>2, <2>1, TouchSettles, SettlesTrans
  <2> QED BY <1>5, <2>2 DEF z
<1>6. CASE /\ z = [r.s EXCEPT !.dial = @ \cup {p}] /\ r.done = TRUE /\ was = "none"
           /\ p \in t.disc /\ t.h[p].next = 0
  <2>1. Dialled(t, r.s, p, was) BY <1>2, <1>6 DEF Dialled
  <2> QED BY <1>2, <1>6, <2>1 DEF z
<1>7. r.done \in BOOLEAN
  <2>1. CASE t.h[p].next = 0
    <3>1. r = SetupReconnect(t, p, NoTimer) BY <2>1 DEF r
    <3> QED BY <3>1, SetupGood
  <2>2. CASE t.h[p].next # 0
    <3>1. r = [s |-> t, done |-> TRUE] BY <2>2 DEF r
    <3> QED BY <3>1
  <2> QED BY <2>1, <2>2
<1> QED BY <1>1, <1>2, <1>4, <1>5, <1>6, <1>7
-----------------------------------------------------------------------------
(* on_start_connect_to_same_or_other_upstream_peer() *)

\* What a step comes to in shallow trees: b is the handle that was to connect.
\* Whoever was dialled is known, allowed and out of its back-off, which runs
\* again, and is the proxy of b or b itself.
Spaced(s0, r, b) ==
    \A p \in r.dial :
        /\ DirectAllowed /\ p \in r.disc /\ p \in Connectable
        /\ r.topo[p] # Absent => p \in Allowed
        /\ p \in DOMAIN s0.h => s0.h[p].next = 0
        /\ p \in DOMAIN r.h /\ r.h[p].next > 0 /\ r.h[p].timer # NoTimer
        /\ r.ep[p] = "none"
        /\ b \in DOMAIN r.h => p = b \/ r.h[b].proxy = p

Advances(s0, r, b) == Fine(r) /\ Follows(s0, r) /\ Spaced(s0, r, b)

\* Where a step has got to before it marks a handle.
Arrives(s0, s) == s0 \in Views /\ Fine(s) /\ Early(s0, s)

LEMMA TurnAdvances ==
  ASSUME NEW s0, NEW s, Arrives(s0, s), s.dial = {}, NEW b, NEW c, NEW r \in Turned(s, b)
  PROVE  Advances(s0, r, c)
<1>1. Good(s) /\ Calm(s0, s) BY EarlyCalm DEF Arrives, Fine
<1>2. Follows(s0, r) BY <1>1, TurnFollows DEF Arrives
<1>3. Marks(s, r) /\ Fine(r) BY <1>1, TurnFacts DEF Arrives
<1>4. r.dial = {} BY <1>3 DEF Marks
<1> QED BY <1>2, <1>3, <1>4 DEF Advances, Spaced

LEMMA SettleAdvances ==
  ASSUME NEW s0, s0 \in Views, NEW t, NEW r, NEW c, Fine(t), Follows(s0, t), t.dial = {}, Settles(t, r)
  PROVE  Advances(s0, r, c)
<1>1. Fine(r) BY SettlesFine
<1>2. Follows(s0, r) BY FollowsThins DEF Settles, Fine
<1>3. r.dial = {} BY DEF Settles, Thins
<1> QED BY <1>1, <1>2, <1>3 DEF Advances, Spaced

LEMMA DialPeerGood ==
  ASSUME NEW s, Good(s), NEW b \in Peers, NEW p \in Peers, NEW a
  PROVE  Good(DialPeer(s, b, p, a)) /\ Site(DialPeer(s, b, p, a)) = Site(s)
<1> DEFINE e == Ends(s, b, p, a)
           u == Bind(e, b, p)
           t == Mark(u, b, e.h[p].ready)
           r == DialPeer(s, b, p, a)
<1>1. r = IF e.h[p].ready \/ ~Has(t, p) THEN t ELSE Pace(t, p, s.ep[p]) BY DEF DialPeer
<1> HIDE DEF r
<1>2. Good(e) /\ Widens(s, e, {p, b}) BY EndsWidens
<1>3. b \in DOMAIN e.h BY <1>2 DEF Widens
<1> HIDE DEF e
<1>4. Good(u) /\ Site(u) = Site(s) BY <1>2, <1>3, BindSite, WidensSite
<1> HIDE DEF u
<1>5. t \in Turned(u, b) BY MarkTurns
<1> HIDE DEF t
<1>6. Good(t) /\ Site(t) = Site(s) BY <1>4, <1>5, TurnFacts, MarksSite
<1>7. CASE r = t BY <1>6, <1>7 DEF r
<1>8. CASE r = Pace(t, p, s.ep[p]) /\ p \in DOMAIN t.h
  <2> DEFINE was == s.ep[p]
  <2> HIDE DEF was
  <2>1. PICK v : /\ Settles(t, v)
                 /\ \/ Pace(t, p, was) = v
                    \/ Pace(t, p, was) = [v EXCEPT !.dial = @ \cup {p}]
    BY <1>6, <1>8, PaceFacts
  <2>2. Good(v) /\ Site(v) = Site(s) BY <1>6, <2>1, ThinsSite DEF Settles
  <2>3. r = Pace(t, p, was) BY <1>8 DEF was
  <2> QED BY <2>1, <2>2, <2>3, DialSame DEF r
<1> QED BY <1>1, <1>7, <1>8 DEF Has

LEMMA DialPeerAdvances ==
  ASSUME Shallow, NEW s0, NEW s, Arrives(s0, s), s.dial = {},
         NEW b \in Peers, NEW p \in Way(b), p \in Peers, NEW a,
         {p, b} \cap DOMAIN s0.h \subseteq DOMAIN s.h,
         DirectAllowed, s.topo[p] # Absent => p \in Allowed,
         s.ep[p] # "none" \/ p \notin s.disc \/ p \in Connectable
  PROVE  Advances(s0, DialPeer(s, b, p, a), b)
<1> DEFINE e == Ends(s, b, p, a)
           u == Bind(e, b, p)
           t == Mark(u, b, e.h[p].ready)
           r == DialPeer(s, b, p, a)
<1>1. r = IF e.h[p].ready \/ ~Has(t, p) THEN t ELSE Pace(t, p, s.ep[p]) BY DEF DialPeer
<1> HIDE DEF r
<1>2. Good(e) /\ Widens(s, e, {p, b}) BY EndsWidens DEF Arrives, Fine
<1>3. b \in DOMAIN e.h /\ p \in DOMAIN e.h BY <1>2 DEF Widens
<1> HIDE DEF e
<1>4. Fine(e) /\ Early(s0, e) BY <1>2, WidensFine, WidensEarly DEF Arrives
<1>5. /\ Fine(u) /\ b \in DOMAIN u.h /\ p \in DOMAIN u.h
      /\ p # b => u.h[b].proxy = p
  BY <1>3, <1>4, BindFine
<1>6. Early(s0, u) /\ Site(u) = Site(s) /\ u.dial = {}
  <2>1. Early(s0, u) BY <1>2, <1>3, <1>4, BindEarly
  <2>2. Site(u) = Site(e) /\ u.dial = e.dial BY <1>2, <1>3, BindSite
  <2>3. Site(e) = Site(s) /\ e.dial = s.dial BY <1>2, WidensSite
  <2> QED BY <2>1, <2>2, <2>3
<1>7. s.ep[p] = "none" => u.ep[p] = "none"
  <2>1. \A x \in Peers : u.ep[x] \in {e.ep[x], "none"} BY <1>2, <1>3, BindFacts
  <2> QED BY <1>2, <2>1 DEF Widens
<1> HIDE DEF u
<1>8. t \in Turned(u, b) BY MarkTurns
<1>9. ~e.h[p].ready => t = SetUnready(u, b) BY DEF Mark
<1> HIDE DEF t
<1>10. Advances(s0, t, b) BY <1>5, <1>6, <1>8, TurnAdvances DEF Arrives
<1>11. Marks(u, t) /\ Good(t) BY <1>5, <1>8, TurnFacts DEF Fine
<1>12. t.dial = {} /\ DOMAIN t.h = DOMAIN u.h /\ t.ep = u.ep /\ Site(t) = Site(s)
       /\ t.h[b].proxy = u.h[b].proxy
  BY <1>5, <1>6, <1>11, MarksSite DEF Marks, Marked
<1>13. CASE r = t BY <1>10, <1>13 DEF r
<1>14. CASE r = Pace(t, p, s.ep[p]) /\ ~e.h[p].ready
  <2> DEFINE was == s.ep[p]
  <2> HIDE DEF was
  <2>1. p \in DOMAIN t.h BY <1>5, <1>12
  <2>2. PICK v : /\ Settles(t, v)
                 /\ \/ Pace(t, p, was) = v
                    \/ /\ Pace(t, p, was) = [v EXCEPT !.dial = @ \cup {p}]
                       /\ Dialled(t, v, p, was)
    BY <1>11, <2>1, PaceFacts
  <2>3. Advances(s0, v, b)
    BY <1>10, <1>12, <2>2, SettleAdvances DEF Advances, Arrives
  <2>4. r = Pace(t, p, was) BY <1>14 DEF was
  <2>5. CASE Pace(t, p, was) = v BY <2>3, <2>4, <2>5 DEF r
  <2>6. CASE /\ Pace(t, p, was) = [v EXCEPT !.dial = @ \cup {p}]
             /\ Dialled(t, v, p, was)
    <3>1. r = [v EXCEPT !.dial = @ \cup {p}] BY <2>4, <2>6
    <3>2. /\ Site(r) = Site(v) /\ r.h = v.h /\ r.ep = v.ep
          /\ r.dial = v.dial \cup {p} /\ Fine(r)
      BY <2>2, <2>3, <3>1, DialSame DEF Settles, Advances
    <3>3. Follows(s0, r) BY <2>3, <3>2 DEF Advances, Follows
    <3>4. Site(v) = Site(s) /\ v.dial = {} BY <1>12, <2>2, ThinsSite DEF Settles
    <3>5. r.dial = {p} /\ r.disc = s.disc /\ r.topo = s.topo BY <3>2, <3>4 DEF Site
    <3>6. /\ s.ep[p] = "none" /\ p \in s.disc /\ t.h[p].next = 0
          /\ r.h[p].next > 0 /\ r.h[p].timer \in Times
          /\ Touches(t, v, p)
      BY <1>12, <2>6, <3>2 DEF Dialled, was, Site
    <3>7. p \in DOMAIN r.h /\ p \in Connectable BY <3>2, <3>6 DEF Touches
    <3>8. r.ep[p] = "none" BY <1>7, <1>12, <3>2, <3>6 DEF Touches
    <3>9. p \in DOMAIN s0.h => s0.h[p].next = 0
      <4>1. u \in Views BY <1>5 DEF Fine, Good, GoodBut
      <4>2. \A x \in DOMAIN u.h : SetUnready(u, b).h[x].next = u.h[x].next
        BY <4>1, SetUnreadyMarks
      <4>3. t.h[p].next = u.h[p].next BY <1>5, <1>9, <1>14, <4>2
      <4> QED BY <1>5, <1>6, <3>6, <4>3 DEF Early
    <3>10. p = b \/ r.h[b].proxy = p
      <4>1. CASE p # b BY <1>5, <1>12, <3>2, <3>6, <4>1 DEF Touches
      <4> QED BY <4>1
    <3>11. r.h[p].timer # NoTimer BY <3>6, TimesInt
    <3>12. Spaced(s0, r, b) BY <3>5, <3>6, <3>7, <3>8, <3>9, <3>10, <3>11 DEF Spaced
    <3> QED BY <3>2, <3>3, <3>12 DEF Advances, r
  <2> QED BY <2>2, <2>5, <2>6
<1> QED BY <1>1, <1>5, <1>12, <1>13, <1>14 DEF Has
-----------------------------------------------------------------------------
(* try_connect_to() *)

LEMMA ConnectedGood ==
  ASSUME NEW s, Good(s), NEW b \in Peers, NEW a
  PROVE  Good(ConnectedEndpoint(s, b, a)) /\ Site(ConnectedEndpoint(s, b, a)) = Site(s)
<1> DEFINE m == Mutable(s, b, a)
           r == ConnectedEndpoint(s, b, a)
<1>1. r \in Turned(m, b) BY DEF ConnectedEndpoint, Mark, Turned
<1>2. Good(m) /\ Widens(s, m, {b}) BY MutableFacts, GrowsWidens
<1> HIDE DEF m, r
<1> QED BY <1>1, <1>2, WidensSite, TurnFacts, MarksSite DEF r

LEMMA ConnectedAdvances ==
  ASSUME NEW s0, NEW s, Arrives(s0, s), s.dial = {}, NEW b \in Peers, NEW a,
         b \in DOMAIN s0.h => b \in DOMAIN s.h
  PROVE  Advances(s0, ConnectedEndpoint(s, b, a), b)
<1> DEFINE m == Mutable(s, b, a)
           r == ConnectedEndpoint(s, b, a)
<1>1. r \in Turned(m, b) BY DEF ConnectedEndpoint, Mark, Turned
<1>2. Good(m) /\ Widens(s, m, {b}) BY MutableFacts, GrowsWidens DEF Arrives, Fine
<1> HIDE DEF m, r
<1>3. Fine(m) /\ Early(s0, m) /\ m.dial = {}
  BY <1>2, WidensFine, WidensEarly, WidensSite DEF Arrives
<1> QED BY <1>1, <1>3, TurnAdvances DEF Arrives, r

LEMMA TreePeerGood ==
  ASSUME NEW s, Good(s), NEW b \in Peers, NEW p \in Peers, NEW a
  PROVE  Good(TreePeer(s, b, p, a)) /\ Site(TreePeer(s, b, p, a)) = Site(s)
<1> DEFINE m == Mutable(Mutable(s, p, "null"), b, a)
           u == Bind(m, b, p)
           r == TreePeer(s, b, p, a)
<1>1. r \in Turned(u, b) BY DEF TreePeer, Mark, Turned
<1>2. Good(m) /\ Widens(s, m, {p, b}) BY MutableWidens
<1> HIDE DEF m, r
<1>3. b \in DOMAIN m.h BY <1>2 DEF Widens
<1>4. Good(u) /\ Site(u) = Site(s) BY <1>2, <1>3, BindSite, WidensSite
<1> HIDE DEF u
<1> QED BY <1>1, <1>4, TurnFacts, MarksSite DEF r

LEMMA TreePeerAdvances ==
  ASSUME Shallow, NEW s0, NEW s, Arrives(s0, s), s.dial = {},
         NEW b \in Peers, NEW p \in Way(b), p \in Peers, NEW a,
         {p, b} \cap DOMAIN s0.h \subseteq DOMAIN s.h
  PROVE  Advances(s0, TreePeer(s, b, p, a), b)
<1> DEFINE m == Mutable(Mutable(s, p, "null"), b, a)
           u == Bind(m, b, p)
           r == TreePeer(s, b, p, a)
<1>1. r \in Turned(u, b) BY DEF TreePeer, Mark, Turned
<1>2. Good(m) /\ Widens(s, m, {p, b}) BY MutableWidens DEF Arrives, Fine
<1> HIDE DEF m, r
<1>3. b \in DOMAIN m.h /\ p \in DOMAIN m.h BY <1>2 DEF Widens
<1>4. Fine(m) /\ Early(s0, m) /\ m.dial = {}
  BY <1>2, WidensFine, WidensEarly, WidensSite DEF Arrives
<1>5. Fine(u) /\ Early(s0, u) BY <1>2, <1>3, <1>4, BindFine, BindEarly
<1>6. u.dial = {} BY <1>2, <1>3, <1>4, BindSite
<1> HIDE DEF u
<1> QED BY <1>1, <1>5, <1>6, TurnAdvances DEF Arrives, r

\* What try_connect_to() comes to
LEMMA TryCases ==
  ASSUME NEW s \in Views, NEW b \in Peers, NEW a, NEW proxyOK
  PROVE  LET r == TryConnectTo(s, b, a, proxyOK).s
         IN \/ r = s
            \/ r = ConnectedEndpoint(s, b, a)
            \/ \E p \in Above(s, b) :
                  /\ r = DialPeer(s, b, p, a)
                  /\ DirectAllowed
                  /\ s.topo[p] # Absent => p \in Allowed
                  /\ s.ep[p] # "none" \/ p \notin s.disc \/ p \in Connectable
            \/ \E p \in Above(s, b) \cup {Up} : r = TreePeer(s, b, p, a)
<1> DEFINE target == Direct(s, b, a, proxyOK)
           r == TryConnectTo(s, b, a, proxyOK).s
<1>1. TryConnectTo(s, b, a, proxyOK) = Reach(s, b, a, proxyOK, target) BY DEF TryConnectTo
<1>2. target \notin {"deny", "next"} =>
        /\ target \in Above(s, b) /\ DirectAllowed
        /\ s.topo[target] # Absent => target \in Allowed
        /\ s.ep[target] # "none" \/ target \notin s.disc \/ target \in Connectable
  BY DirectFacts
<1> HIDE DEF target
<1> DEFINE hop == IF InTree(s, b) THEN NextHop(s, b) ELSE Up
<1>3. hop \in Above(s, b) \cup {Up} BY NextHopFacts
<1>4. r = IF s.ep[b] # "none" THEN ConnectedEndpoint(s, b, a)
          ELSE IF target = "deny" THEN s
          ELSE IF target # "next" THEN DialPeer(s, b, target, a)
          ELSE IF ~InTree(s, b) /\ (~proxyOK \/ s.ep[Up] = "none") THEN s
          ELSE TreePeer(s, b, hop, a)
  BY <1>1 DEF Reach
<1> HIDE DEF hop, r
<1> QED BY <1>2, <1>3, <1>4 DEF r

LEMMA TryGood ==
  ASSUME NEW s, Good(s), NEW b \in Peers, NEW a, NEW proxyOK
  PROVE  LET r == TryConnectTo(s, b, a, proxyOK).s
         IN Good(r) /\ Site(r) = Site(s)
<1> DEFINE r == TryConnectTo(s, b, a, proxyOK).s
<1>1. s \in Views BY DEF Good, GoodBut
<1>2. Above(s, b) \subseteq Peers /\ Up \in Peers BY <1>1, AboveFacts, ConnectorConstants
<1>3. \/ r = s \/ r = ConnectedEndpoint(s, b, a)
      \/ \E p \in Above(s, b) : r = DialPeer(s, b, p, a)
      \/ \E p \in Above(s, b) \cup {Up} : r = TreePeer(s, b, p, a)
  BY <1>1, TryCases
<1> HIDE DEF r
<1>4. CASE r = s BY <1>4 DEF r
<1>5. CASE r = ConnectedEndpoint(s, b, a) BY <1>5, ConnectedGood DEF r
<1>6. ASSUME NEW p \in Above(s, b), r = DialPeer(s, b, p, a) PROVE Good(r) /\ Site(r) = Site(s)
  BY <1>2, <1>6, DialPeerGood
<1>7. ASSUME NEW p \in Above(s, b) \cup {Up}, r = TreePeer(s, b, p, a)
      PROVE  Good(r) /\ Site(r) = Site(s)
  BY <1>2, <1>7, TreePeerGood
<1> QED BY <1>3, <1>4, <1>5, <1>6, <1>7 DEF r

\* The handles on the way to b that were there still are.
Room(s0, s, b) == (Above(s, b) \cup {Up}) \cap DOMAIN s0.h \subseteq DOMAIN s.h

LEMMA TryAdvances ==
  ASSUME Shallow, NEW s0, NEW s, Arrives(s0, s), s.dial = {}, NEW b \in Peers,
         Room(s0, s, b), NEW a, NEW proxyOK
  PROVE  Advances(s0, TryConnectTo(s, b, a, proxyOK).s, b)
<1> DEFINE r == TryConnectTo(s, b, a, proxyOK).s
<1>1. s \in Views BY DEF Arrives, Fine, Good, GoodBut
<1>2. /\ Above(s, b) \subseteq Peers /\ Up \in Peers /\ b \in Above(s, b)
      /\ Above(s, b) \subseteq Way(b) /\ Up \in Way(b)
  BY <1>1, AboveFacts, AboveWay, ConnectorConstants DEF Way
<1>3. \/ r = s
      \/ r = ConnectedEndpoint(s, b, a)
      \/ \E p \in Above(s, b) :
            /\ r = DialPeer(s, b, p, a)
            /\ DirectAllowed
            /\ s.topo[p] # Absent => p \in Allowed
            /\ s.ep[p] # "none" \/ p \notin s.disc \/ p \in Connectable
      \/ \E p \in Above(s, b) \cup {Up} : r = TreePeer(s, b, p, a)
  BY <1>1, TryCases
<1>4. \A p \in Above(s, b) \cup {Up} : {p, b} \cap DOMAIN s0.h \subseteq DOMAIN s.h
  BY <1>2 DEF Room
<1> HIDE DEF r
<1>5. CASE r = s
  <2>1. Follows(s0, s) BY EarlyCalm, CalmFollows DEF Arrives
  <2> QED BY <1>5, <2>1 DEF Advances, Spaced, Arrives, r
<1>6. CASE r = ConnectedEndpoint(s, b, a)
  <2>1. b \in DOMAIN s0.h => b \in DOMAIN s.h BY <1>2, <1>4
  <2> QED BY <1>6, <2>1, ConnectedAdvances DEF r
<1>7. ASSUME NEW p \in Above(s, b), r = DialPeer(s, b, p, a), DirectAllowed,
             s.topo[p] # Absent => p \in Allowed,
             s.ep[p] # "none" \/ p \notin s.disc \/ p \in Connectable
      PROVE  Advances(s0, r, b)
  <2>1. p \in Way(b) /\ p \in Peers /\ {p, b} \cap DOMAIN s0.h \subseteq DOMAIN s.h
    BY <1>2, <1>4
  <2> QED BY <1>7, <2>1, DialPeerAdvances
<1>8. ASSUME NEW p \in Above(s, b) \cup {Up}, r = TreePeer(s, b, p, a)
      PROVE  Advances(s0, r, b)
  <2>1. p \in Way(b) /\ p \in Peers /\ {p, b} \cap DOMAIN s0.h \subseteq DOMAIN s.h
    BY <1>2, <1>4
  <2> QED BY <1>8, <2>1, TreePeerAdvances
<1> QED BY <1>3, <1>5, <1>6, <1>7, <1>8 DEF r
-----------------------------------------------------------------------------
(* Steps that alter one handle, and not its links. *)

Alters(s, r, b) ==
    /\ s \in Views /\ r \in Views /\ b \in DOMAIN s.h
    /\ DOMAIN r.h = DOMAIN s.h
    /\ \A x \in DOMAIN s.h : x # b => r.h[x] = s.h[x]
    /\ r.h[b].ready = s.h[b].ready
    /\ r.h[b].proxy = s.h[b].proxy /\ r.h[b].for = s.h[b].for
    /\ r.h[b].next = 0 => s.h[b].next = 0
    /\ r.ep = s.ep /\ r.dial = s.dial /\ r.topo = s.topo
    /\ r.disc = s.disc /\ r.pend = s.pend

LEMMA TouchesAlters ==
  ASSUME NEW s, NEW r, NEW b, Touches(s, r, b) PROVE Alters(s, r, b)
BY OutsideSame DEF Touches, Alters

LEMMA AlterPut ==
  ASSUME NEW s \in Views, NEW b \in DOMAIN s.h, NEW g \in Handle,
         g.ready = s.h[b].ready, g.proxy = s.h[b].proxy, g.for = s.h[b].for,
         g.next = 0 => s.h[b].next = 0
  PROVE  LET r == [s EXCEPT !.h = [s.h EXCEPT ![b] = g]]
         IN Alters(s, r, b) /\ r.h[b] = g
<1> DEFINE t == [s.h EXCEPT ![b] = g]
<1>1. t \in [DOMAIN s.h -> Handle] /\ t[b] = g /\ \A x \in DOMAIN s.h : x # b => t[x] = s.h[x]
  BY ViewFacts
<1>2. t \in Tables BY <1>1, ViewFacts, TableOf
<1> HIDE DEF t
<1>3. DOMAIN t = DOMAIN s.h BY <1>1
<1> QED BY <1>1, <1>2, <1>3, PutTable DEF Alters, t

LEMMA AltersGood ==
  ASSUME NEW s, NEW r, NEW b, GoodBut(s, b), Alters(s, r, b), Sound(r.h[b]),
         r.h[b].wait => b \notin r.disc
  PROVE  Good(r)
BY DEF GoodBut, Good, Alters

LEMMA AltersLinks ==
  ASSUME NEW s, NEW r, NEW b, Alters(s, r, b)
  PROVE  /\ Linked(s) => Linked(r)
         /\ Flat(s) => Flat(r)
         /\ Calm(s, r) /\ Site(r) = Site(s)
BY DEF Alters, Linked, LinkedBut, Flat, Calm, Site

LEMMA AltersArrives ==
  ASSUME NEW s0, NEW s, NEW r, NEW b, Arrives(s0, s), Alters(s, r, b), Good(r)
  PROVE  Arrives(s0, r) /\ r.dial = s.dial
<1>1. Early(s0, r) BY DEF Arrives, Early, Alters
<1> QED BY <1>1, AltersLinks DEF Arrives, Fine, Alters

-----------------------------------------------------------------------------
(* try_direct_reconnect(), on_close_connection() and on_remove_endpoint() *)

LEMMA WaitTrueGood ==
  ASSUME NEW s, Good(s), NEW b \in DOMAIN s.h, b \notin s.disc
  PROVE  LET r == [s EXCEPT !.h[b].wait = TRUE] IN Good(r) /\ Touches(s, r, b)
<1> DEFINE r == [s EXCEPT !.h[b].wait = TRUE]
<1>1. s \in Views /\ GoodBut(s, b) /\ Sound(s.h[b]) BY GoodIsBut
<1>2. /\ Touches(s, r, b)
      /\ r.h[b].lost = s.h[b].lost /\ r.h[b].lostIn = s.h[b].lostIn
      /\ r.h[b].timer = s.h[b].timer
  <2>1. TRUE \in BOOLEAN OBVIOUS
  <2> QED BY <1>1, <2>1, TouchesWait, Zenon
<1> HIDE DEF r
<1>3. r.h[b] \in Handle /\ Outside(r.h[b]) = Outside(s.h[b]) /\ r.disc = s.disc
  BY <1>2 DEF Touches
<1>4. Sound(r.h[b]) BY <1>1, <1>2, <1>3, SoundBy DEF Sound
<1> QED BY <1>1, <1>2, <1>3, <1>4, TouchGood DEF r

LEMMA DirectReconnectCases ==
  ASSUME NEW s, NEW b
  PROVE  LET r == TryDirectReconnect(s, b)
         IN \/ r = s
            \/ r = [s EXCEPT !.h[b].wait = TRUE] /\ b \notin s.disc
            \/ r = TryConnectTo(s, b, "same", FALSE).s
BY DEF TryDirectReconnect

LEMMA DirectReconnectGood ==
  ASSUME NEW s, Good(s), NEW b \in DOMAIN s.h
  PROVE  Good(TryDirectReconnect(s, b)) /\ Site(TryDirectReconnect(s, b)) = Site(s)
<1> DEFINE r == TryDirectReconnect(s, b)
           w == [s EXCEPT !.h[b].wait = TRUE]
           z == TryConnectTo(s, b, "same", FALSE).s
<1>1. b \in Peers BY ViewFacts DEF Good, GoodBut
<1>2. r = s \/ (r = w /\ b \notin s.disc) \/ r = z BY DirectReconnectCases
<1>3. b \notin s.disc => Good(w) /\ Site(w) = Site(s)
  BY WaitTrueGood, TouchesAlters, AltersLinks
<1>4. Good(z) /\ Site(z) = Site(s)
  <2>1. \A pOK : Good(TryConnectTo(s, b, "same", pOK).s) /\ Site(TryConnectTo(s, b, "same", pOK).s) = Site(s)
    BY <1>1, TryGood
  <2> QED BY <2>1, Zenon
<1> HIDE DEF r, w, z
<1> QED BY <1>2, <1>3, <1>4 DEF r

LEMMA DirectReconnectAdvances ==
  ASSUME Shallow, NEW s0, NEW s, Arrives(s0, s), s.dial = {}, NEW b \in DOMAIN s.h,
         Room(s0, s, b)
  PROVE  Advances(s0, TryDirectReconnect(s, b), b)
<1> DEFINE r == TryDirectReconnect(s, b)
           w == [s EXCEPT !.h[b].wait = TRUE]
           z == TryConnectTo(s, b, "same", FALSE).s
<1>1. b \in Peers /\ Good(s) /\ Fine(s) /\ s0 \in Views
  BY ViewFacts DEF Arrives, Fine, Good, GoodBut
<1>2. r = s \/ (r = w /\ b \notin s.disc) \/ r = z BY DirectReconnectCases
<1>3. Follows(s0, s) BY EarlyCalm, CalmFollows DEF Arrives
<1>4. Advances(s0, s, b) BY <1>1, <1>3 DEF Advances, Spaced
<1>5. b \notin s.disc => Advances(s0, w, b)
  BY <1>1, <1>3, WaitTrueGood, TouchSettles, SettleAdvances
<1>6. Advances(s0, z, b)
  <2>1. \A pOK : Advances(s0, TryConnectTo(s, b, "same", pOK).s, b) BY <1>1, TryAdvances
  <2> QED BY <2>1, Zenon
<1> HIDE DEF r, w, z
<1> QED BY <1>2, <1>4, <1>5, <1>6 DEF r

LEMMA RemoveSettles ==
  ASSUME NEW s, Good(s), NEW b \in DOMAIN s.h PROVE Settles(s, RemoveHandle(s, b))
<1>1. GoodBut(s, b) BY GoodIsBut
<1> QED BY <1>1, RemoveFacts DEF Settles

LEMMA OnRemoveSettles ==
  ASSUME NEW s, Good(s), NEW b PROVE Settles(s, OnRemoveEndpoint(s, b))
<1>1. CASE b \notin DOMAIN s.h
  <2>1. OnRemoveEndpoint(s, b) = s BY <1>1 DEF OnRemoveEndpoint, Has
  <2> QED BY <2>1, SettlesSelf
<1>2. CASE b \in DOMAIN s.h
  <2> DEFINE t == Lapse(s, b).s
  <2>1. OnRemoveEndpoint(s, b) = IF Lapse(s, b).gone THEN RemoveHandle(t, b) ELSE t
    BY <1>2 DEF OnRemoveEndpoint, Has
  <2>2. Touches(s, t, b) /\ Good(t) BY <1>2, LapseTouches
  <2> HIDE DEF t
  <2>3. Settles(s, t) /\ b \in DOMAIN t.h BY <2>2, TouchSettles DEF Touches
  <2>4. Settles(s, RemoveHandle(t, b)) BY <2>2, <2>3, RemoveSettles, SettlesTrans
  <2> QED BY <2>1, <2>3, <2>4
<1> QED BY <1>1, <1>2
-----------------------------------------------------------------------------
(* update_topology_peer() *)

\* The proxy a handle was just dialled over stays when the handle goes.
LEMMA RemoveQuiet ==
  ASSUME NEW s, Fine(s), NEW b \in DOMAIN s.h, NEW p \in DOMAIN s.h,
         p = s.h[b].proxy, s.ep[p] = "none"
  PROVE  LET r == RemoveHandle(s, b)
         IN /\ p \in DOMAIN r.h
            /\ r.h[p].next = s.h[p].next /\ r.h[p].timer = s.h[p].timer
<1> DEFINE t == Without(s, b)
           old == s.h[b]
           r == RemoveHandle(s, b)
<1>1. /\ s \in Views /\ GoodBut(s, b) /\ b \in Peers /\ p \in Peers /\ p # None /\ Flat(s)
      /\ Up \in Peers /\ Up # None /\ old \in Handle
  BY ViewFacts, GoodIsBut, ConnectorConstants DEF Fine, Good, GoodBut
<1>2. /\ DOMAIN t.h = DOMAIN s.h \ {b} /\ t.ep = s.ep
      /\ \A x \in DOMAIN t.h : t.h[x].proxy = s.h[x].proxy /\ Inside(t.h[x]) = Inside(s.h[x])
  BY <1>1, WithoutFacts DEF Relinks
<1>3. /\ b # Up /\ p # b
      /\ s.h[p].proxy \in {Up, None}
      /\ Up \in DOMAIN s.h => s.h[Up].proxy = None
  BY <1>1 DEF Flat, Relays
<1>4. Leave(s, b) = t
  <2>1. Leave(s, b) = IF Has(t, p) THEN Parted(t, p) ELSE t BY DEF Leave, Without
  <2>2. Parted(t, p) = t BY <1>2 DEF Parted
  <2> HIDE DEF t
  <2> QED BY <2>1, <2>2
<1>5. Good(Leave(s, b)) BY <1>1, LeaveFacts
<1> HIDE DEF t
<1>6. r = Drop(t, b, old) /\ Good(t) BY <1>4, <1>5 DEF RemoveHandle
<1> HIDE DEF r
<1>7. /\ \A x \in DOMAIN t.h \ DOMAIN r.h : t.h[x].proxy \in (DOMAIN t.h \ DOMAIN r.h) \cup {b}
      /\ \A x \in DOMAIN r.h : r.h[x].next = t.h[x].next /\ r.h[x].timer = t.h[x].timer
  BY <1>1, <1>2, <1>6, DropFacts
<1>8. DOMAIN t.h \subseteq Peers BY <1>1, <1>2, ViewFacts
<1>9. Up \notin DOMAIN t.h \ DOMAIN r.h BY <1>1, <1>2, <1>3, <1>7, <1>8, ConnectorConstants
<1>10. p \in DOMAIN t.h BY <1>2, <1>3
<1>11. p \in DOMAIN r.h
  BY <1>1, <1>2, <1>3, <1>7, <1>8, <1>9, <1>10, ConnectorConstants
<1>12. t.h[p].next = s.h[p].next /\ t.h[p].timer = s.h[p].timer
  BY <1>2, <1>10, InsideSame
<1> QED BY <1>7, <1>11, <1>12 DEF r

LEMMA RetryGood ==
  ASSUME NEW s, Good(s), NEW b PROVE Good(Retry(s, b)) /\ Site(Retry(s, b)) = Site(s)
<1>1. CASE Retry(s, b) = s BY <1>1
<1>2. CASE b \in DOMAIN s.h /\ Retry(s, b) = SetupReconnect(s, b, NoTimer).s
  <2>1. Good(Retry(s, b)) /\ Thins(s, Retry(s, b)) BY <1>2, SetupGood
  <2> QED BY <2>1, ThinsSite
<1> QED BY <1>1, <1>2 DEF Retry, Has

LEMMA RetryAdvances ==
  ASSUME NEW s0, s0 \in Views, NEW s, NEW b, Advances(s0, s, b)
  PROVE  Advances(s0, Retry(s, b), b)
<1> DEFINE r == Retry(s, b)
<1>1. CASE r = s BY <1>1
<1>2. CASE b \in DOMAIN s.h /\ s.h[b].next = 0 /\ r = SetupReconnect(s, b, NoTimer).s
  <2>1. Good(s) /\ Fine(s) /\ Linked(s) BY DEF Advances, Fine
  <2>2. /\ Good(r) /\ Thins(s, r) /\ Linked(r) /\ Follows(s, r)
        /\ Touches(s, r, b) \/ r = RemoveHandle(s, b)
    BY <1>2, <2>1, SetupGood
  <2> HIDE DEF r
  <2>3. Fine(r) /\ Follows(s0, r)
    BY <2>1, <2>2, ThinsFlat, FollowsThins DEF Fine, Advances
  <2>4. b \notin DOMAIN r.h \/ Touches(s, r, b)
    <3>1. GoodBut(s, b) BY <2>1, GoodIsBut
    <3> QED BY <1>2, <2>2, <3>1, RemoveFacts
  <2>5. Spaced(s0, r, b)
    <3> SUFFICES ASSUME NEW p \in r.dial
                 PROVE  /\ DirectAllowed /\ p \in r.disc /\ p \in Connectable
                        /\ r.topo[p] # Absent => p \in Allowed
                        /\ p \in DOMAIN s0.h => s0.h[p].next = 0
                        /\ p \in DOMAIN r.h /\ r.h[p].next > 0 /\ r.h[p].timer # NoTimer
                        /\ r.ep[p] = "none"
                        /\ b \in DOMAIN r.h => p = b \/ r.h[b].proxy = p
      BY DEF Spaced
    <3>1. /\ DirectAllowed /\ p \in s.disc /\ p \in Connectable
          /\ s.topo[p] # Absent => p \in Allowed
          /\ p \in DOMAIN s0.h => s0.h[p].next = 0
          /\ p \in DOMAIN s.h /\ s.h[p].next > 0 /\ s.h[p].timer # NoTimer
          /\ s.ep[p] = "none"
          /\ p = b \/ s.h[b].proxy = p
      BY <1>2, <2>2 DEF Advances, Spaced, Thins
    <3>2. p # b /\ p \in Peers BY <1>2, <2>1, <3>1, ViewFacts DEF Good, GoodBut
    <3>3. r.ep[p] = "none" /\ r.disc = s.disc /\ r.topo = s.topo BY <2>2, <3>1, <3>2 DEF Thins
    <3>4. CASE Touches(s, r, b) BY <3>1, <3>2, <3>3, <3>4, OutsideSame DEF Touches
    <3>5. CASE r = RemoveHandle(s, b) /\ b \notin DOMAIN r.h
      <4>1. p \in DOMAIN r.h /\ r.h[p].next = s.h[p].next /\ r.h[p].timer = s.h[p].timer
        BY <1>2, <2>1, <3>1, <3>2, <3>5, RemoveQuiet
      <4> QED BY <3>1, <3>3, <3>5, <4>1
    <3> QED BY <2>2, <2>4, <3>4, <3>5
  <2> QED BY <2>3, <2>5 DEF Advances, r
<1> QED BY <1>1, <1>2 DEF Retry, Has
LEMMA UpstreamWay ==
  ASSUME Shallow, NEW b \in Peers, NEW u \in Upstreams[b], u \in Peers PROVE u \in Way(b)
<1>1. u # Self /\ u # None BY ConnectorConstants
<1>2. u \in Relays \cup {Up} BY <1>1 DEF Shallow
<1>3. b \in Relays => u = Up BY <1>1 DEF Relays
<1>4. b # Up BY <1>1 DEF Shallow
<1> QED BY <1>2, <1>3, <1>4 DEF Way

LEMMA NewWayGood ==
  ASSUME NEW s, Good(s), NEW b \in DOMAIN s.h, NEW u
  PROVE  Good(NewWay(s, b, u)) /\ Site(NewWay(s, b, u)) = Site(s)
<1> DEFINE r == NewWay(s, b, u)
           w == SetWaiting(s, b)
           z == TryConnectTo(s, b, "same", s.h[b].active).s
<1>1. b \in Peers BY ViewFacts DEF Good, GoodBut
<1>2. \/ r \in Turned(s, b)
      \/ r = RemoveHandle(s, b)
      \/ u \in DOMAIN s.h /\ r \in Turned(Bind(s, b, u), b)
      \/ b \notin s.disc /\ r \in Turned(w, b)
      \/ r = Retry(z, b)
  BY DEF NewWay, Turned, Mark, Has
<1> HIDE DEF r
<1>3. CASE r \in Turned(s, b) BY <1>3, TurnFacts, MarksSite DEF r
<1>4. CASE r = RemoveHandle(s, b)
  <2>1. Good(r) /\ Thins(s, r) BY <1>4, RemoveSettles DEF Settles
  <2> QED BY <2>1, ThinsSite DEF r
<1>5. CASE u \in DOMAIN s.h /\ r \in Turned(Bind(s, b, u), b)
  <2>1. u \in Peers BY <1>5, ViewFacts DEF Good, GoodBut
  <2>2. Good(Bind(s, b, u)) /\ Site(Bind(s, b, u)) = Site(s) BY <2>1, BindSite
  <2> QED BY <1>5, <2>2, TurnFacts, MarksSite DEF r
<1>6. CASE b \notin s.disc /\ r \in Turned(w, b)
  <2>1. Good(w) /\ Touches(s, w, b) BY <1>6, WaitGood
  <2> HIDE DEF w
  <2>2. Site(w) = Site(s) BY <2>1, TouchesAlters, AltersLinks
  <2> QED BY <1>6, <2>1, <2>2, TurnFacts, MarksSite DEF r
<1>7. CASE r = Retry(z, b)
  <2>1. \A pOK : Good(TryConnectTo(s, b, "same", pOK).s) /\ Site(TryConnectTo(s, b, "same", pOK).s) = Site(s)
    BY <1>1, TryGood
  <2>2. Good(z) /\ Site(z) = Site(s) BY <2>1, Zenon
  <2> HIDE DEF z
  <2> QED BY <1>7, <2>2, RetryGood DEF r
<1> QED BY <1>2, <1>3, <1>4, <1>5, <1>6, <1>7 DEF r

LEMMA NewWayAdvances ==
  ASSUME Shallow, NEW s0, NEW s, Arrives(s0, s), s.dial = {}, NEW b \in DOMAIN s.h,
         Room(s0, s, b), NEW u \in Upstreams[b]
  PROVE  Advances(s0, NewWay(s, b, u), b)
<1> DEFINE r == NewWay(s, b, u)
           w == SetWaiting(s, b)
           z == TryConnectTo(s, b, "same", s.h[b].active).s
<1>1. b \in Peers /\ Good(s) /\ s0 \in Views BY ViewFacts DEF Good, GoodBut, Arrives, Fine
<1>2. \/ r \in Turned(s, b)
      \/ r = RemoveHandle(s, b)
      \/ u \in DOMAIN s.h /\ r \in Turned(Bind(s, b, u), b)
      \/ b \notin s.disc /\ r \in Turned(w, b)
      \/ r = Retry(z, b)
  BY DEF NewWay, Turned, Mark, Has
<1> HIDE DEF r
<1>3. CASE r \in Turned(s, b) BY <1>3, TurnAdvances DEF r
<1>4. CASE r = RemoveHandle(s, b)
  <2>1. Settles(s, r) BY <1>1, <1>4, RemoveSettles
  <2>2. Follows(s0, s) BY EarlyCalm, CalmFollows DEF Arrives
  <2> QED BY <1>1, <2>1, <2>2, SettleAdvances DEF r, Arrives
<1>5. CASE u \in DOMAIN s.h /\ r \in Turned(Bind(s, b, u), b)
  <2>1. u \in Peers BY <1>1, <1>5, ViewFacts DEF Good, GoodBut
  <2>2. u \in Way(b) BY <1>1, <2>1, UpstreamWay
  <2>3. Fine(Bind(s, b, u)) BY <1>5, <2>2, BindFine DEF Arrives
  <2>4. Early(s0, Bind(s, b, u)) BY <1>1, <2>1, BindEarly DEF Arrives
  <2>5. Bind(s, b, u).dial = {} BY <1>1, <2>1, BindSite
  <2> QED BY <1>1, <1>5, <2>3, <2>4, <2>5, TurnAdvances DEF r, Arrives
<1>6. CASE b \notin s.disc /\ r \in Turned(w, b)
  <2>1. Good(w) /\ Touches(s, w, b) BY <1>1, <1>6, WaitGood
  <2> HIDE DEF w
  <2>2. Arrives(s0, w) /\ w.dial = {} BY <2>1, TouchesAlters, AltersArrives
  <2> QED BY <1>6, <2>2, TurnAdvances DEF r
<1>7. CASE r = Retry(z, b)
  <2>1. \A pOK : Advances(s0, TryConnectTo(s, b, "same", pOK).s, b) BY <1>1, TryAdvances
  <2>2. Advances(s0, z, b) BY <2>1, Zenon
  <2> HIDE DEF z
  <2> QED BY <1>1, <1>7, <2>2, RetryAdvances DEF r
<1> QED BY <1>2, <1>3, <1>4, <1>5, <1>6, <1>7 DEF r

LEMMA OrphanedGood ==
  ASSUME NEW s, Good(s), NEW b \in Peers, NEW u, NEW h
  PROVE  Good(Orphaned(s, b, u, h)) /\ Site(Orphaned(s, b, u, h)) = Site(s)
<1> DEFINE r == Orphaned(s, b, u, h)
           z == TryConnectTo(s, b, "new", FALSE).s
           k == [s EXCEPT !.h[u].for = @ \cup {b}]
<1>1. r = s \/ (u \in DOMAIN s.h /\ r = k) \/ r = Retry(z, b) BY DEF Orphaned, Has
<1>2. \A pOK : Good(TryConnectTo(s, b, "new", pOK).s) /\ Site(TryConnectTo(s, b, "new", pOK).s) = Site(s)
  BY TryGood
<1>3. Good(z) /\ Site(z) = Site(s) BY <1>2, Zenon
<1>4. u \in DOMAIN s.h => Good(k) /\ Site(k) = Site(s)
  <2> SUFFICES ASSUME u \in DOMAIN s.h PROVE Good(k) /\ Site(k) = Site(s) OBVIOUS
  <2> DEFINE g == [s.h[u] EXCEPT !.for = @ \cup {b}]
             f == [s.h EXCEPT ![u] = g]
  <2>1. s \in Views /\ s.h[u] \in Handle /\ GoodBut(s, None) BY ViewFacts DEF Good, GoodBut
  <2>2. s.h[u].for \cup {b} \in SUBSET Peers BY <2>1 DEF Handle
  <2>3. g \in Handle /\ Inside(g) = Inside(s.h[u]) BY <2>1, <2>2, PutFor
  <2>4. k = [s EXCEPT !.h = f] BY <2>1 DEF Views
  <2> HIDE DEF g, k
  <2>5. f \in [DOMAIN s.h -> Handle] /\ f[u] = g /\ \A x \in DOMAIN s.h : x # u => f[x] = s.h[x]
    BY <2>1, <2>3, ViewFacts
  <2>6. DOMAIN s.h \in SUBSET Peers BY <2>1, ViewFacts
  <2>7. f \in Tables BY <2>5, <2>6, TableOf
  <2> HIDE DEF f
  <2>8. DOMAIN f \subseteq DOMAIN s.h /\ \A x \in DOMAIN f : Inside(f[x]) = Inside(s.h[x])
    BY <2>3, <2>5
  <2>9. Relinks(s, k) BY <2>1, <2>4, <2>7, <2>8, RelinksFrom
  <2>10. None \notin DOMAIN k.h BY <2>9, ViewFacts, ConnectorConstants DEF Relinks
  <2>11. Good(k) BY <2>1, <2>9, <2>10, RelinksGood
  <2>12. Site(k) = Site(s) BY <2>9 DEF Relinks, Site
  <2> QED BY <2>11, <2>12 DEF k
<1> HIDE DEF r, z, k
<1> QED BY <1>1, <1>3, <1>4, RetryGood DEF r
LEMMA PutUp ==
  ASSUME NEW s, Good(s), NEW b \in DOMAIN s.h, NEW u \in Links
  PROVE  LET t == [s EXCEPT !.h[b].up = u]
         IN Alters(s, t, b) /\ Good(t)
<1> DEFINE g == [s.h[b] EXCEPT !.up = u]
           t == [s EXCEPT !.h[b].up = u]
<1>1. s \in Views /\ s.h[b] \in Handle /\ GoodBut(s, b) /\ Sound(s.h[b]) /\ (s.h[b].wait => b \notin s.disc)
  BY GoodIsBut, ViewFacts
<1>2. /\ g \in Handle /\ g.app = s.h[b].app /\ g.told = s.h[b].told /\ g.ready = s.h[b].ready
      /\ g.proxy = s.h[b].proxy /\ g.for = s.h[b].for /\ g.next = s.h[b].next
      /\ g.lost = s.h[b].lost /\ g.timer = s.h[b].timer /\ g.lostIn = s.h[b].lostIn
      /\ g.wait = s.h[b].wait
  BY <1>1 DEF Handle, Links
<1>3. t = [s EXCEPT !.h = [s.h EXCEPT ![b] = g]] BY <1>1 DEF Views, Tables
<1> HIDE DEF g, t
<1>4. Alters(s, t, b) /\ t.h[b] = g BY <1>1, <1>2, <1>3, AlterPut
<1>5. Sound(g) BY <1>1, <1>2 DEF Sound
<1>6. t.disc = s.disc BY <1>4 DEF Alters
<1>7. Good(t) BY <1>1, <1>2, <1>4, <1>5, <1>6, AltersGood
<1> QED BY <1>4, <1>7 DEF t

LEMMA NewUpstreamGood ==
  ASSUME NEW s, Good(s), NEW b \in DOMAIN s.h, NEW u \in Links
  PROVE  Good(NewUpstream(s, b, u)) /\ Site(NewUpstream(s, b, u)) = Site(s)
<1> DEFINE t == [s EXCEPT !.h[b].up = u]
           left == Unbind(t, b)
           r == NewUpstream(s, b, u)
<1>1. r = t \/ (b \in DOMAIN left.h /\ r = NewWay(left, b, u)) \/ r = Orphaned(left, b, u, s.h[b])
  BY DEF NewUpstream, Has
<1>2. Alters(s, t, b) /\ Good(t) BY PutUp
<1> HIDE DEF t, r
<1>3. b \in DOMAIN t.h /\ Site(t) = Site(s) /\ b \in Peers
  BY <1>2, AltersLinks, ViewFacts DEF Alters
<1>4. Good(left) /\ Site(left) = Site(s) BY <1>2, <1>3, UnbindFacts, ThinsSite
<1> HIDE DEF left
<1> QED BY <1>1, <1>2, <1>3, <1>4, NewWayGood, OrphanedGood DEF r

LEMMA AboveSame ==
  ASSUME NEW s, NEW r, NEW b, s.topo = r.topo PROVE Above(r, b) = Above(s, b)
BY DEF Above

LEMMA AboveTop ==
  ASSUME NEW s \in Views, NEW b \in Peers, s.topo[b] \notin Peers
  PROVE  Above(s, b) = {b}
<1> DEFINE n == [x \in Peers |-> {u \in Peers : u = s.topo[x] /\ s.topo[u] # Absent}]
<1>1. Above(s, b) = Closure({b}, n) BY DEF Above
<1>2. \A y \in {b} : n[y] \subseteq {b} OBVIOUS
<1>3. {b} \in SUBSET Peers OBVIOUS
<1> HIDE DEF n
<1>4. Above(s, b) \subseteq {b} BY <1>1, <1>2, <1>3, ClosureWithin
<1> QED BY <1>4, AboveFacts

LEMMA NewUpstreamAdvances ==
  ASSUME Shallow, NEW s0, NEW s, Arrives(s0, s), s.dial = {}, DOMAIN s.h = DOMAIN s0.h,
         NEW b \in DOMAIN s.h, NEW u \in Upstreams[b], s.topo[b] = u
  PROVE  Advances(s0, NewUpstream(s, b, u), b)
<1> DEFINE old == s.h[b].proxy
           t == [s EXCEPT !.h[b].up = u]
           left == Unbind(t, b)
           r == NewUpstream(s, b, u)
<1>1. /\ s \in Views /\ Good(s) /\ s0 \in Views /\ b \in Peers /\ u \in Links /\ Flat(s)
      /\ Up \in Peers /\ Up # None
  BY ViewFacts, ConnectorConstants DEF Arrives, Fine, Good, GoodBut, Links
<1>2. r = IF u # None /\ old # None /\ old \in Above(s, b) THEN t
          ELSE IF b \in DOMAIN left.h THEN NewWay(left, b, u)
          ELSE Orphaned(left, b, u, s.h[b])
  BY DEF NewUpstream, Has
<1>3. Alters(s, t, b) /\ Good(t) BY <1>1, PutUp
<1> HIDE DEF t, r
<1>4. /\ Arrives(s0, t) /\ t.dial = {} /\ b \in DOMAIN t.h /\ t.topo = s.topo
      /\ t.h[b].proxy = old /\ DOMAIN t.h = DOMAIN s0.h /\ t \in Views
  <2>1. Arrives(s0, t) /\ t.dial = s.dial BY <1>3, AltersArrives
  <2>2. /\ b \in DOMAIN t.h /\ t.topo = s.topo
        /\ t.h[b].proxy = old /\ DOMAIN t.h = DOMAIN s0.h /\ t \in Views
    BY <1>3 DEF Alters
  <2> QED BY <2>1, <2>2
<1>5. CASE u # None /\ old # None /\ old \in Above(s, b)
  <2>1. Follows(s0, t) BY <1>4, EarlyCalm, CalmFollows DEF Arrives
  <2> QED BY <1>2, <1>4, <1>5, <2>1 DEF Advances, Spaced, Arrives, r
<1>6. CASE ~(u # None /\ old # None /\ old \in Above(s, b))
  <2>1. /\ Good(left) /\ Thins(t, left) /\ Calm(t, left)
        /\ Up \in DOMAIN t.h => Up \in DOMAIN left.h
        /\ Linked(left)
    BY <1>3, <1>4, UnbindFacts DEF Arrives, Fine
  <2>2. \/ left = t
        \/ /\ old \in DOMAIN t.h
           /\ t.h[old].proxy \in {None, Up} => DOMAIN t.h \ DOMAIN left.h \subseteq {old}
    BY <1>3, <1>4, UnbindFacts
  <2> HIDE DEF left
  <2>3. old \in DOMAIN t.h => t.h[old].proxy \in {None, Up} /\ old # b /\ old # None
    BY <1>1, <1>4, ViewFacts, ConnectorConstants DEF Arrives, Fine, Flat, Relays
  <2>4. DOMAIN t.h \ DOMAIN left.h \subseteq {old} /\ b \in DOMAIN left.h
        /\ DOMAIN left.h \subseteq DOMAIN t.h /\ left.topo = t.topo
        /\ left.dial = {}
    BY <1>4, <2>1, <2>2, <2>3 DEF Thins
  <2>5. Flat(left) BY <1>4, <2>1, ThinsFlat DEF Arrives, Fine
  <2>6. Early(s0, left)
    <3> SUFFICES ASSUME NEW x \in DOMAIN s0.h \cap DOMAIN left.h
                 PROVE  /\ left.h[x].ready = s0.h[x].ready
                        /\ left.h[x].next = 0 => s0.h[x].next = 0
      BY DEF Early
    <3>1. x \in DOMAIN t.h BY <2>4
    <3>2. left.h[x].ready = t.h[x].ready BY <2>1, <3>1 DEF Calm
    <3>3. left.h[x].next = 0 => t.h[x].next = 0 BY <2>1 DEF Thins, Thinner
    <3>4. t.h[x].ready = s0.h[x].ready /\ (t.h[x].next = 0 => s0.h[x].next = 0)
      BY <1>4, <3>1 DEF Arrives, Early
    <3> QED BY <3>2, <3>3, <3>4
  <2>7. Arrives(s0, left) BY <1>4, <2>1, <2>5, <2>6 DEF Arrives, Fine
  <2>8. Room(s0, left, b)
    <3>1. Above(left, b) = Above(s, b) BY <1>4, <2>4, AboveSame
    <3>2. old \notin DOMAIN left.h /\ old \in DOMAIN t.h => old \notin Above(s, b)
      <4> SUFFICES ASSUME old \notin DOMAIN left.h, old \in DOMAIN t.h PROVE old \notin Above(s, b)
        OBVIOUS
      <4>1. CASE u # None BY <1>6, <2>3, <4>1
      <4>2. CASE u = None
        <5>1. Above(s, b) = {b} BY <1>1, <4>2, AboveTop, ConnectorConstants
        <5> QED BY <2>3, <5>1
      <4> QED BY <4>1, <4>2
    <3> QED BY <1>4, <2>1, <2>4, <3>1, <3>2 DEF Room
  <2>9. r = NewWay(left, b, u) BY <1>2, <1>6, <2>4 DEF left
  <2> QED BY <2>4, <2>7, <2>8, <2>9, NewWayAdvances DEF r
<1> QED BY <1>5, <1>6

LEMMA FoundGood ==
  ASSUME NEW s, Good(s), NEW b \in DOMAIN s.h, NEW u \in Links
  PROVE  Good(TopologyFound(s, b, u)) /\ Site(TopologyFound(s, b, u)) = Site(s)
BY DirectReconnectGood, NewUpstreamGood DEF TopologyFound

LEMMA FoundAdvances ==
  ASSUME Shallow, NEW s0, NEW s, Arrives(s0, s), s.dial = {}, DOMAIN s.h = DOMAIN s0.h,
         NEW b \in DOMAIN s.h, NEW u \in Upstreams[b], s.topo[b] = u
  PROVE  Advances(s0, TopologyFound(s, b, u), b)
<1>1. Room(s0, s, b) BY DEF Room
<1> QED BY <1>1, DirectReconnectAdvances, NewUpstreamAdvances DEF TopologyFound

\* The lost topology is found again.
LEMMA FoundAgain ==
  ASSUME NEW s, Good(s), NEW b \in DOMAIN s.h
  PROVE  LET t == [s EXCEPT !.h[b].lost = FALSE, !.h[b].lostIn = 0]
         IN Good(DropTimer(t, b)) /\ Alters(s, DropTimer(t, b), b)
<1> DEFINE g == [s.h[b] EXCEPT !.lost = FALSE, !.lostIn = 0]
           t == [s EXCEPT !.h[b].lost = FALSE, !.h[b].lostIn = 0]
           r == DropTimer(t, b)
<1>1. s \in Views /\ s.h[b] \in Handle /\ GoodBut(s, b) /\ Sound(s.h[b]) /\ (s.h[b].wait => b \notin s.disc)
  BY GoodIsBut, ViewFacts
<1>2. /\ g \in Handle /\ g.app = s.h[b].app /\ g.told = s.h[b].told /\ g.ready = s.h[b].ready
      /\ g.proxy = s.h[b].proxy /\ g.for = s.h[b].for /\ g.next = s.h[b].next
      /\ ~g.lost /\ g.timer = s.h[b].timer
      /\ g.wait = s.h[b].wait
  BY <1>1, TimesNat DEF Handle
<1>3. t = [s EXCEPT !.h = [s.h EXCEPT ![b] = g]] BY <1>1 DEF Views, Tables
<1> HIDE DEF g, t
<1>4. Alters(s, t, b) /\ t.h[b] = g BY <1>1, <1>2, <1>3, AlterPut
<1>5. Sound(g) BY <1>1, <1>2 DEF Sound
<1>6. t.disc = s.disc /\ t \in Views /\ b \in DOMAIN t.h BY <1>4 DEF Alters
<1>7. Good(t) BY <1>1, <1>2, <1>4, <1>5, <1>6, AltersGood
<1>8. /\ Touches(t, r, b)
      /\ r.h[b].lost = t.h[b].lost /\ r.h[b].wait = t.h[b].wait /\ r.h[b].next = t.h[b].next
  BY <1>6, DropTimerTouches
<1> HIDE DEF r
<1>9. r.h[b] \in Handle /\ Outside(r.h[b]) = Outside(t.h[b]) /\ r.disc = t.disc
  BY <1>8 DEF Touches
<1>10. Sound(r.h[b]) BY <1>2, <1>4, <1>5, <1>8, <1>9, SoundBy DEF Sound
<1>11. GoodBut(t, b) BY <1>7, GoodIsBut
<1>12. Good(r) BY <1>1, <1>2, <1>4, <1>6, <1>8, <1>9, <1>10, <1>11, TouchGood
<1>13. Alters(s, r, b) BY <1>4, <1>8, TouchesAlters DEF Alters
<1> QED BY <1>12, <1>13 DEF r, t
-----------------------------------------------------------------------------
(* The callback of the timer *)

\* The timer is set, no later than the deadline of a lost topology.
LEMMA TimerGood ==
  ASSUME NEW s, NEW b, GoodBut(s, b), b \in DOMAIN s.h, NEW d \in Times,
         s.h[b].app = "tagged" => s.h[b].told = s.h[b].ready,
         s.h[b].wait => b \notin s.disc,
         s.h[b].lost => d <= s.h[b].lostIn
  PROVE  Good(UpdateTimer(s, b, d)) /\ Touches(s, UpdateTimer(s, b, d), b)
<1> DEFINE r == UpdateTimer(s, b, d)
<1>1. s \in Views /\ s.h[b] \in Handle BY ViewFacts DEF GoodBut
<1>2. /\ Touches(s, r, b)
      /\ r.h[b].lost = s.h[b].lost /\ r.h[b].lostIn = s.h[b].lostIn
      /\ r.h[b].wait = s.h[b].wait
      /\ r.h[b].timer \in {s.h[b].timer, d} /\ r.h[b].timer # NoTimer
      /\ r.h[b].timer <= d
  BY <1>1, UpdateTimerTouches
<1> HIDE DEF r
<1>3. r.h[b] \in Handle /\ Outside(r.h[b]) = Outside(s.h[b]) /\ r.disc = s.disc
  BY <1>2 DEF Touches
<1>4. r.h[b].timer \in Nat /\ s.h[b].lostIn \in Nat /\ d \in Nat
  BY <1>1, <1>2, <1>3, HandleTimes, TimesInt
<1>5. r.h[b].lost => r.h[b].timer \in 0 .. r.h[b].lostIn BY <1>2, <1>4
<1>6. Sound(r.h[b]) BY <1>3, <1>5, SoundBy
<1> QED BY <1>2, <1>3, <1>6, TouchGood DEF r

\* The timer has fired: what is left is as good as before, but for the timer.
LEMMA FiredFacts ==
  ASSUME NEW s, Good(s), NEW b \in DOMAIN s.h
  PROVE  LET t == [s EXCEPT !.h[b].timer = NoTimer]
         IN /\ GoodBut(t, b) /\ Touches(s, t, b) /\ b \in DOMAIN t.h
            /\ t.h[b].app = "tagged" => t.h[b].told = t.h[b].ready
            /\ t.h[b].wait => b \notin t.disc
            /\ t.h[b].lostIn \in Times /\ t.h[b].next \in Times
            /\ t.h[b].timer = NoTimer /\ t.h[b] \in Handle
<1> DEFINE g == [s.h[b] EXCEPT !.timer = NoTimer]
           t == [s EXCEPT !.h[b].timer = NoTimer]
<1>1. s \in Views /\ s.h[b] \in Handle /\ GoodBut(s, b) /\ Sound(s.h[b]) /\ (s.h[b].wait => b \notin s.disc)
  BY GoodIsBut, ViewFacts
<1>2. /\ g \in Handle /\ Outside(g) = Outside(s.h[b])
      /\ g.timer = NoTimer /\ g.lost = s.h[b].lost /\ g.lostIn = s.h[b].lostIn
      /\ g.wait = s.h[b].wait /\ g.next = s.h[b].next
  BY <1>1, PutTimer
<1>3. t = [s EXCEPT !.h = [s.h EXCEPT ![b] = g]] BY <1>1 DEF Views, Tables
<1> HIDE DEF g, t
<1>4. Touches(s, t, b) /\ t.h[b] = g BY <1>1, <1>2, <1>3, TouchPut
<1>5. b \in DOMAIN t.h /\ t.disc = s.disc BY <1>4 DEF Touches
<1>6. g.app = "tagged" => g.told = g.ready BY <1>1, <1>2, OutsideSame DEF Sound
<1>7. GoodBut(t, b) BY <1>1, <1>4 DEF GoodBut, Touches
<1>8. g.lostIn \in Times /\ g.next \in Times BY <1>2, HandleTimes
<1> QED BY <1>1, <1>2, <1>4, <1>5, <1>6, <1>7, <1>8 DEF t

LEMMA OnTimerSteps ==
  ASSUME NEW s, Good(s), NEW b \in DOMAIN s.h
  PROVE  LET r == OnTimer(s, b)
         IN /\ Good(r) /\ Site(r) = Site(s)
            /\ Shallow /\ Fine(s) /\ s.dial = {} => Advances(s, r, b)
<1> DEFINE t == [s EXCEPT !.h[b].timer = NoTimer]
           h == t.h[b]
           deadline == IF h.lost THEN h.lostIn ELSE NoTimer
           d == IF deadline = NoTimer \/ deadline > h.next THEN h.next ELSE deadline
           q == SetupReconnect(t, b, deadline)
           r == OnTimer(s, b)
<1>1. r = IF h.lost /\ h.lostIn = 0 THEN RemoveHandle(t, b)
          ELSE IF h.ready
          THEN IF deadline = NoTimer THEN t ELSE UpdateTimer(t, b, deadline)
          ELSE IF h.next > 0 THEN UpdateTimer(t, b, d)
          ELSE IF q.done THEN TryDirectReconnect(q.s, b) ELSE q.s
  BY DEF OnTimer
<1>2. /\ GoodBut(t, b) /\ Touches(s, t, b) /\ b \in DOMAIN t.h
      /\ h.app = "tagged" => h.told = h.ready
      /\ h.wait => b \notin t.disc
      /\ h.lostIn \in Times /\ h.next \in Times
      /\ h.timer = NoTimer /\ h \in Handle
  BY FiredFacts
<1> HIDE DEF r, t
<1>3. /\ deadline \in Times \cup {NoTimer} /\ (h.lost => deadline = h.lostIn)
      /\ deadline = NoTimer => ~h.lost
  BY <1>2, TimesInt
<1>4. d \in Times /\ (h.lost => d <= h.lostIn) BY <1>2, <1>3, TimesInt
<1> HIDE DEF deadline, d
<1>5. /\ Good(q.s) /\ Thins(t, q.s)
      /\ \/ q.done = TRUE /\ Touches(t, q.s, b)
         \/ q.done = FALSE
      /\ Linked(t) => Linked(q.s) /\ Follows(t, q.s)
  <2>1. h.lost => h.timer \in 0 .. h.lostIn \/ deadline = h.lostIn BY <1>3
  <2>2. /\ Good(q.s) /\ Thins(t, q.s)
        /\ \/ /\ q.done = TRUE /\ q.s = Retime(t, b, deadline)
              /\ Touches(t, q.s, b)
              /\ q.s.h[b].next > 0 /\ q.s.h[b].timer \in Times
           \/ q.done = FALSE /\ q.s = RemoveHandle(t, b)
        /\ Linked(t) => Linked(q.s) /\ Follows(t, q.s)
    BY <1>2, <1>3, <2>1, SetupFacts
  <2> QED BY <2>2
<1> HIDE DEF q
<1>6. /\ Site(t) = Site(s) /\ (Linked(s) => Linked(t)) /\ (Flat(s) => Flat(t))
      /\ t.dial = s.dial /\ DOMAIN t.h = DOMAIN s.h /\ Calm(s, t) /\ t \in Views /\ s \in Views
  BY <1>2, TouchesAlters, AltersLinks DEF Touches
<1> DEFINE Done(v) == /\ Good(v) /\ Site(v) = Site(s)
                      /\ Shallow /\ Fine(s) /\ s.dial = {} => Advances(s, v, b)
\* What thins t, and stays good and linked, will do.
<1>7. ASSUME NEW v, Good(v), Thins(t, v), Linked(t) => Linked(v) /\ Follows(t, v)
      PROVE  Done(v)
  <2>1. Site(v) = Site(s) /\ v.dial = s.dial BY <1>6, <1>7, ThinsSite
  <2>2. ASSUME Fine(s), s.dial = {} PROVE Advances(s, v, b)
    <3>1. Linked(v) /\ Flat(v) BY <1>6, <1>7, <2>2, ThinsFlat DEF Fine
    <3>2. Follows(s, t) BY <1>6, CalmFollows
    <3>3. Follows(s, v) BY <1>6, <1>7, <2>2, <3>2, FollowsThins DEF Fine
    <3> QED BY <1>7, <2>1, <2>2, <3>1, <3>3 DEF Advances, Fine, Spaced
  <2> QED BY <1>7, <2>1, <2>2
<1>8. ASSUME NEW v, Good(v), Touches(t, v, b) PROVE Done(v)
  <2>1. Thins(t, v) /\ Follows(t, v) /\ (Linked(t) => Linked(v))
    BY <1>8, TouchesThins, TouchesCalm, CalmFollows, TouchesLinked DEF Linked
  <2> HIDE DEF Done
  <2> QED BY <1>7, <1>8, <2>1
<1>9. CASE r = RemoveHandle(t, b)
  <2>1. Good(r) /\ Thins(t, r) /\ (Linked(t) => Linked(r) /\ Follows(t, r))
    BY <1>2, <1>9, RemoveFacts
  <2> HIDE DEF Done
  <2>2. Done(r) BY <1>7, <2>1
  <2> QED BY <2>2 DEF Done, r
<1>10. CASE r = t /\ ~h.lost
  <2>1. Sound(h) BY <1>2, <1>10 DEF Sound
  <2>2. Touches(t, t, b) BY <1>2, <1>6, TouchSelf
  <2>3. Good(t) BY <1>2, <2>1, <2>2, TouchGood
  <2> HIDE DEF Done
  <2>4. Done(r) BY <1>8, <1>10, <2>2, <2>3
  <2> QED BY <2>4 DEF Done, r
<1>11. CASE r = UpdateTimer(t, b, deadline) /\ deadline # NoTimer
  <2>1. deadline \in Times /\ (h.lost => deadline <= h.lostIn) BY <1>2, <1>3, <1>11, TimesInt
  <2>2. Good(r) /\ Touches(t, r, b) BY <1>2, <1>11, <2>1, TimerGood
  <2> HIDE DEF Done
  <2>3. Done(r) BY <1>8, <2>2
  <2> QED BY <2>3 DEF Done, r
<1>12. CASE r = UpdateTimer(t, b, d)
  <2>1. Good(r) /\ Touches(t, r, b) BY <1>2, <1>4, <1>12, TimerGood
  <2> HIDE DEF Done
  <2>2. Done(r) BY <1>8, <2>1
  <2> QED BY <2>2 DEF Done, r
<1>13. CASE r = q.s
  <2> HIDE DEF Done
  <2>1. Done(r) BY <1>5, <1>7, <1>13
  <2> QED BY <2>1 DEF Done, r
<1>14. CASE r = TryDirectReconnect(q.s, b) /\ q.done = TRUE
  <2> DEFINE v == q.s
  <2> HIDE DEF v
  <2>1. Good(v) /\ Touches(t, v, b) BY <1>5, <1>14 DEF v
  <2>2. Done(v)
    <3> HIDE DEF Done
    <3> QED BY <1>8, <2>1
  <2>3. Touches(s, v, b) BY <1>2, <2>1, TouchTrans
  <2>4. b \in DOMAIN v.h /\ DOMAIN v.h = DOMAIN s.h /\ v.dial = s.dial BY <2>3 DEF Touches
  <2>5. r = TryDirectReconnect(v, b) BY <1>14 DEF v
  <2>6. Good(r) /\ Site(r) = Site(s) BY <2>1, <2>2, <2>4, <2>5, DirectReconnectGood
  <2>7. ASSUME Shallow, Fine(s), s.dial = {} PROVE Advances(s, r, b)
    <3>1. Arrives(s, s) BY <1>6, <2>7, EarlySelf DEF Arrives
    <3>2. Arrives(s, v) BY <2>1, <2>3, <3>1, TouchesAlters, AltersArrives
    <3>3. Room(s, v, b) BY <2>4 DEF Room
    <3> QED BY <2>4, <2>5, <2>7, <3>2, <3>3, DirectReconnectAdvances
  <2> QED BY <2>6, <2>7 DEF r
<1>15. q.done \in BOOLEAN BY <1>5
<1> QED BY <1>1, <1>3, <1>9, <1>10, <1>11, <1>12, <1>13, <1>14, <1>15
-----------------------------------------------------------------------------
(* Some views an action starts from or ends with *)

Outcome(s0, r) == Fine(r) /\ Follows(s0, r) /\ \E c : Spaced(s0, r, c)

LEMMA AdvancesOutcome ==
  ASSUME NEW s0, NEW r, NEW b, Advances(s0, r, b) PROVE Outcome(s0, r)
BY DEF Advances, Outcome

LEMMA ArrivesOutcome ==
  ASSUME NEW s0, NEW s, Arrives(s0, s), s.dial = {} PROVE Outcome(s0, s)
<1>1. Follows(s0, s) BY EarlyCalm, CalmFollows DEF Arrives
<1>2. \A c : Spaced(s0, s, c) BY DEF Spaced
<1> QED BY <1>1, <1>2 DEF Outcome, Arrives

LEMMA SettlesOutcome ==
  ASSUME NEW s0, NEW s, Arrives(s0, s), s.dial = {}, NEW r, Settles(s, r) PROVE Outcome(s0, r)
<1>1. Follows(s0, s) /\ s0 \in Views /\ Fine(s) BY EarlyCalm, CalmFollows DEF Arrives
<1>2. \A c : Advances(s0, r, c) BY <1>1, SettleAdvances
<1> QED BY <1>2, AdvancesOutcome

\* The app handle that is not the table's is closed, or told that it is unready.
LEMMA LooseFacts ==
  ASSUME NEW s, Good(s), NEW b \in DOMAIN s.h, s.h[b].app = "loose"
  PROVE  LET t == [s EXCEPT !.h[b].app = "closed", !.h[b].told = FALSE]
             u == [s EXCEPT !.h[b].told = FALSE]
         IN Good(t) /\ Alters(s, t, b) /\ Good(u) /\ Alters(s, u, b)
<1> DEFINE g == [s.h[b] EXCEPT !.app = "closed", !.told = FALSE]
           f == [s.h[b] EXCEPT !.told = FALSE]
           t == [s EXCEPT !.h[b].app = "closed", !.h[b].told = FALSE]
           u == [s EXCEPT !.h[b].told = FALSE]
<1>1. s \in Views /\ s.h[b] \in Handle /\ GoodBut(s, b) /\ Sound(s.h[b]) /\ (s.h[b].wait => b \notin s.disc)
  BY GoodIsBut, ViewFacts
<1>2. /\ g \in Handle /\ g.app = "closed" /\ g.ready = s.h[b].ready
      /\ g.proxy = s.h[b].proxy /\ g.for = s.h[b].for /\ g.next = s.h[b].next
      /\ g.lost = s.h[b].lost /\ g.timer = s.h[b].timer /\ g.lostIn = s.h[b].lostIn
      /\ g.wait = s.h[b].wait
  BY <1>1 DEF Handle
<1>3. /\ f \in Handle /\ f.app = "loose" /\ f.ready = s.h[b].ready
      /\ f.proxy = s.h[b].proxy /\ f.for = s.h[b].for /\ f.next = s.h[b].next
      /\ f.lost = s.h[b].lost /\ f.timer = s.h[b].timer /\ f.lostIn = s.h[b].lostIn
      /\ f.wait = s.h[b].wait
  BY <1>1 DEF Handle
<1>4. t = [s EXCEPT !.h = [s.h EXCEPT ![b] = g]] BY <1>1 DEF Views, Tables
<1>5. u = [s EXCEPT !.h = [s.h EXCEPT ![b] = f]] BY <1>1 DEF Views, Tables
<1> HIDE DEF g, f, t, u
<1>6. Alters(s, t, b) /\ t.h[b] = g BY <1>1, <1>2, <1>4, AlterPut
<1>7. Alters(s, u, b) /\ u.h[b] = f BY <1>1, <1>3, <1>5, AlterPut
<1>8. Sound(g) BY <1>1, <1>2 DEF Sound
<1>9. Sound(f) BY <1>1, <1>3 DEF Sound
<1>10. t.disc = s.disc /\ u.disc = s.disc BY <1>6, <1>7 DEF Alters
<1>11. Good(t) BY <1>1, <1>2, <1>6, <1>8, <1>10, AltersGood
<1>12. Good(u) BY <1>1, <1>3, <1>7, <1>9, <1>10, AltersGood
<1> QED BY <1>6, <1>7, <1>11, <1>12 DEF t, u

\* on_start_connect() sets the flag of the handle.
LEMMA ActiveFacts ==
  ASSUME NEW s, Good(s), NEW b \in DOMAIN s.h
  PROVE  LET t == [s EXCEPT !.h[b].active = TRUE]
         IN /\ Good(t)
            /\ \A s0 : Advances(s0, s, b) => Advances(s0, t, b)
<1> DEFINE g == [s.h[b] EXCEPT !.active = TRUE]
           t == [s EXCEPT !.h[b].active = TRUE]
<1>1. s \in Views /\ s.h[b] \in Handle /\ GoodBut(s, b) /\ Sound(s.h[b]) /\ (s.h[b].wait => b \notin s.disc)
  BY GoodIsBut, ViewFacts
<1>2. /\ g \in Handle /\ g.app = s.h[b].app /\ g.told = s.h[b].told /\ g.ready = s.h[b].ready
      /\ g.proxy = s.h[b].proxy /\ g.for = s.h[b].for /\ g.next = s.h[b].next
      /\ g.lost = s.h[b].lost /\ g.timer = s.h[b].timer /\ g.lostIn = s.h[b].lostIn
      /\ g.wait = s.h[b].wait
  BY <1>1 DEF Handle
<1>3. t = [s EXCEPT !.h = [s.h EXCEPT ![b] = g]] BY <1>1 DEF Views, Tables
<1> HIDE DEF g, t
<1>4. Alters(s, t, b) /\ t.h[b] = g BY <1>1, <1>2, <1>3, AlterPut
<1>5. Sound(g) BY <1>1, <1>2 DEF Sound
<1>6. t.disc = s.disc BY <1>4 DEF Alters
<1>7. Good(t) BY <1>1, <1>2, <1>4, <1>5, <1>6, AltersGood
<1>8. ASSUME NEW s0, Advances(s0, s, b) PROVE Advances(s0, t, b)
  <2>1. Fine(t) BY <1>4, <1>7, <1>8, AltersLinks DEF Advances, Fine
  <2>2. \A x \in DOMAIN s.h : /\ t.h[x].ready = s.h[x].ready /\ t.h[x].next = s.h[x].next
                              /\ t.h[x].proxy = s.h[x].proxy /\ t.h[x].timer = s.h[x].timer
    BY <1>2, <1>4 DEF Alters
  <2>3. Follows(s0, t) BY <1>4, <1>8, <2>2 DEF Advances, Follows, Alters
  <2>4. Spaced(s0, t, b) BY <1>4, <1>8, <2>2 DEF Advances, Spaced, Alters
  <2> QED BY <2>1, <2>3, <2>4 DEF Advances
<1> QED BY <1>7, <1>8 DEF t

\* The same table, where the registries have changed
LEMMA SameTable ==
  ASSUME NEW s, NEW r \in Views, r.h = s.h,
         \A x \in DOMAIN s.h : Sound(s.h[x]) /\ (s.h[x].wait => x \notin r.disc)
  PROVE  /\ Good(r)
         /\ Linked(s) => Linked(r)
         /\ Flat(s) => Flat(r)
BY DEF Good, GoodBut, Linked, LinkedBut, Flat

LEMMA PutEndpoint ==
  ASSUME NEW s \in Views, NEW b \in Peers, NEW e \in EndpointStates
  PROVE  LET r == [s EXCEPT !.ep[b] = e]
         IN r \in Views /\ r.h = s.h /\ r.dial = s.dial /\ r.disc = s.disc /\ r.topo = s.topo
BY DEF Views

LEMMA PutTopo ==
  ASSUME NEW s \in Views, NEW b \in Peers, NEW u \in Upstreams[b] \cup {Absent}
  PROVE  LET r == [s EXCEPT !.topo[b] = u]
         IN r \in Views /\ r.h = s.h /\ r.dial = s.dial /\ r.disc = s.disc /\ r.topo[b] = u
<1>1. s.topo \in [Peers -> Links \cup {Absent}] /\ \A x \in Peers : s.topo[x] \in Upstreams[x] \cup {Absent}
  BY ViewFacts
<1>2. u \in Links \cup {Absent} BY ConnectorConstants DEF Links
<1> DEFINE w == [s.topo EXCEPT ![b] = u]
<1>3. w \in [Peers -> Links \cup {Absent}] BY <1>1, <1>2
<1>4. \A x \in Peers : w[x] \in Upstreams[x] \cup {Absent} BY <1>1
<1>5. w \in Ways /\ w[b] = u BY <1>1, <1>3, <1>4 DEF Ways
<1>6. [s EXCEPT !.topo[b] = u] = [s EXCEPT !.topo = w] BY DEF Views
<1> HIDE DEF w
<1> QED BY <1>5, <1>6 DEF Views

LEMMA PutDisc ==
  ASSUME NEW s \in Views, NEW d \in SUBSET Peers
  PROVE  LET r == [s EXCEPT !.disc = d]
         IN r \in Views /\ r.h = s.h /\ r.dial = s.dial /\ r.disc = d /\ r.topo = s.topo
BY DEF Views
-----------------------------------------------------------------------------
(* The invariants and the actions *)

TypeInv ==
    /\ handles \in Tables /\ ep \in [Peers -> EndpointStates] /\ dial \subseteq Peers
    /\ topo \in Ways /\ disc \subseteq Peers /\ faults \in 0 .. MaxFaults
    /\ \A x \in DOMAIN handles :
          Sound(handles[x]) /\ (handles[x].wait => x \notin disc)

LinkInv == Linked(View({})) /\ Flat(View({}))

Sets(r) ==
    handles' = r.h /\ ep' = r.ep /\ dial' = r.dial /\ topo' = r.topo /\ disc' = r.disc

\* What an action may do: the view it makes of the state is good, and fits
\* what there was before.
Made(r) == Good(r) /\ (Shallow /\ LinkInv => Outcome(View({}), r))

LEMMA ViewGood ==
  ASSUME TypeInv, NEW pend \in Pending \cup {{}}
  PROVE  LET v == View(pend)
         IN /\ Good(v) /\ v \in Views /\ v.h = handles /\ v.ep = ep /\ v.dial = {}
            /\ v.topo = topo /\ v.disc = disc
            /\ LinkInv => Fine(v) /\ Arrives(View({}), v)
<1>1. pend \subseteq Peers BY DEF Pending, TypeInv, Tables
<1>2. \A z \in SUBSET Peers : /\ View(z) \in Views /\ View(z).h = handles /\ View(z).ep = ep
                              /\ View(z).dial = {} /\ View(z).topo = topo /\ View(z).disc = disc
  BY DEF View, Views, TypeInv
<1>3. \A z \in SUBSET Peers : Good(View(z))
  BY <1>2 DEF Good, GoodBut, TypeInv
<1>4. {} \in SUBSET Peers OBVIOUS
<1>5. ASSUME LinkInv PROVE Fine(View(pend)) /\ Arrives(View({}), View(pend))
  <2> DEFINE v == View(pend)
             o == View({})
  <2>1. v.h = handles /\ o.h = handles /\ Good(v) /\ o \in Views BY <1>1, <1>2, <1>3, <1>4
  <2>2. Linked(o) /\ Flat(o) BY <1>5 DEF LinkInv
  <2> HIDE DEF v, o
  <2>3. Fine(v) BY <2>1, <2>2 DEF Fine, Linked, LinkedBut, Flat
  <2>4. Early(o, v) BY <2>1 DEF Early
  <2> QED BY <2>1, <2>3, <2>4 DEF Arrives, v, o
<1> QED BY <1>1, <1>2, <1>3, <1>5

LEMMA SetsInv ==
  ASSUME TypeInv, NEW r, Good(r), Sets(r), faults' \in 0 .. MaxFaults
  PROVE  TypeInv'
<1>1. r \in Views /\ \A x \in DOMAIN r.h : Sound(r.h[x]) /\ (r.h[x].wait => x \notin r.disc)
  BY GoodIsBut, ConnectorConstants DEF Good, GoodBut
<1>2. /\ r.h \in Tables /\ r.ep \in [Peers -> EndpointStates] /\ r.dial \subseteq Peers
      /\ r.topo \in Ways /\ r.disc \subseteq Peers
  BY <1>1 DEF Views
<1> QED BY <1>1, <1>2 DEF TypeInv, Sets

LEMMA SetsLinks ==
  ASSUME NEW r, Fine(r), Sets(r) PROVE LinkInv'
<1>1. LinkInv' <=> /\ \A x \in DOMAIN handles' :
                        /\ handles'[x].proxy \notin {None, None} =>
                             /\ handles'[x].proxy \in DOMAIN handles'
                             /\ x \in handles'[handles'[x].proxy].for
                        /\ \A d \in handles'[x].for :
                             d \in DOMAIN handles' /\ handles'[d].proxy = x
                   /\ \A x \in DOMAIN handles' :
                        /\ handles'[x].proxy \in Relays \cup {Up, None}
                        /\ x \in Relays => handles'[x].proxy \in {Up, None}
                        /\ x = Up => handles'[x].proxy = None
  BY DEF LinkInv, Linked, LinkedBut, Flat, View
<1> QED BY <1>1 DEF Fine, Linked, LinkedBut, Flat, Sets

LEMMA BecomeSets ==
  ASSUME NEW r, Become(r) PROVE Sets(r)
BY DEF Become, Sets

LEMMA ConnectMade ==
  ASSUME TypeInv, NEW b \in Peers, Connect(b) PROVE \E r : Sets(r) /\ Made(r)
<1>1. PICK pend \in Pending :
        \E r \in {TryConnectTo(View(pend), b, "new", TRUE).s} :
           Become(IF Has(r, b) /\ r.h[b].app = "tagged"
                  THEN [r EXCEPT !.h[b].active = TRUE] ELSE r)
  BY DEF Connect
<1> DEFINE v == View(pend)
           r == TryConnectTo(v, b, "new", TRUE).s
           t == IF Has(r, b) /\ r.h[b].app = "tagged" THEN [r EXCEPT !.h[b].active = TRUE] ELSE r
<1>2. Become(t) BY <1>1
<1>3. /\ Good(v) /\ v.h = handles /\ v.dial = {}
      /\ LinkInv => Arrives(View({}), v)
  BY ViewGood
<1>4. View({}).h = handles BY DEF View
<1> DEFINE o == View({})
<1> HIDE DEF v, o
<1>5. Good(r)
  <2>1. \A pOK : Good(TryConnectTo(v, b, "new", pOK).s) BY <1>3, TryGood
  <2> QED BY <2>1, Zenon
<1>6. ASSUME Shallow, LinkInv PROVE Advances(o, r, b)
  <2>1. Room(o, v, b) BY <1>3, <1>4 DEF Room, o
  <2>2. \A pOK : Advances(o, TryConnectTo(v, b, "new", pOK).s, b)
    BY <1>3, <1>6, <2>1, TryAdvances DEF o
  <2> QED BY <2>2, Zenon
<1> HIDE DEF r
<1>7. Good(t) /\ (Advances(o, r, b) => Advances(o, t, b))
  <2>1. CASE b \in DOMAIN r.h /\ t = [r EXCEPT !.h[b].active = TRUE]
    BY <1>5, <2>1, ActiveFacts
  <2>2. CASE t = r BY <1>5, <2>2
  <2> QED BY <2>1, <2>2 DEF Has
<1> HIDE DEF t
<1>8. Made(t) BY <1>6, <1>7, AdvancesOutcome DEF Made, o
<1> QED BY <1>2, <1>8, BecomeSets

LEMMA CloseMade ==
  ASSUME TypeInv, NEW b \in Peers, Close(b) PROVE \E r : Sets(r) /\ Made(r)
<1>1. PICK pend \in Pending :
        LET s == View(pend)
        IN Become(IF s.h[b].app = "tagged" THEN CloseHandle(s, b)
                  ELSE [s EXCEPT !.h[b].app = "closed", !.h[b].told = FALSE])
  BY DEF Close
<1> DEFINE v == View(pend)
           o == View({})
           t == IF v.h[b].app = "tagged" THEN CloseHandle(v, b)
                ELSE [v EXCEPT !.h[b].app = "closed", !.h[b].told = FALSE]
<1>2. Become(t) BY <1>1
<1>3. /\ Good(v) /\ v.h = handles /\ v.dial = {}
      /\ LinkInv => Arrives(o, v)
  BY ViewGood
<1>4. b \in DOMAIN v.h /\ v.h[b].app \in {"tagged", "loose"}
  BY <1>3 DEF Close, Has, View
<1> HIDE DEF v, o
<1>5. CASE v.h[b].app = "tagged"
  <2> DEFINE u == SetUnready(v, b)
  <2>1. t = RemoveHandle(u, b) BY <1>5 DEF CloseHandle
  <2>2. u \in Turned(v, b) BY DEF Turned
  <2> HIDE DEF u, t
  <2>3. Marks(v, u) /\ Good(u) BY <1>3, <2>2, TurnFacts
  <2>4. b \in DOMAIN u.h /\ u.dial = {} BY <1>3, <1>4, <2>3 DEF Marks
  <2>5. Settles(u, t) BY <2>1, <2>3, <2>4, RemoveSettles
  <2>6. ASSUME LinkInv PROVE Outcome(o, t)
    <3>1. Advances(o, u, b) BY <1>3, <2>2, <2>6, TurnAdvances
    <3>2. Advances(o, t, b) BY <1>3, <2>4, <2>5, <2>6, <3>1, SettleAdvances DEF Advances, Arrives
    <3> QED BY <3>2, AdvancesOutcome
  <2>7. Made(t) BY <2>5, <2>6 DEF Made, Settles, o
  <2> QED BY <1>2, <2>7, BecomeSets DEF t
<1>6. CASE v.h[b].app = "loose"
  <2>1. t = [v EXCEPT !.h[b].app = "closed", !.h[b].told = FALSE] BY <1>6
  <2>2. Good(t) /\ Alters(v, t, b) BY <1>3, <1>4, <1>6, <2>1, LooseFacts
  <2> HIDE DEF t
  <2>3. LinkInv => Outcome(o, t)
    BY <1>3, <2>2, AltersArrives, ArrivesOutcome
  <2>4. Made(t) BY <2>2, <2>3 DEF Made, o
  <2> QED BY <1>2, <2>4, BecomeSets DEF t
<1> QED BY <1>4, <1>5, <1>6

LEMMA SendFailsMade ==
  ASSUME TypeInv, NEW b \in Peers, SendFails(b) PROVE \E r : Sets(r) /\ Made(r)
<1> DEFINE o == View({})
           u == [o EXCEPT !.h[b].told = FALSE]
           t == SetUnready(o, b)
<1>1. b \in DOMAIN o.h /\ (Become(t) \/ (o.h[b].app = "loose" /\ Become(u)))
  BY DEF SendFails, Has
<1>2. Good(o) /\ o.dial = {} /\ (LinkInv => Arrives(o, o)) BY ViewGood
<1> HIDE DEF o
<1>3. CASE Become(t)
  <2>1. t \in Turned(o, b) BY DEF Turned
  <2> HIDE DEF t
  <2>2. Good(t) BY <1>2, <2>1, TurnFacts
  <2>3. LinkInv => Outcome(o, t) BY <1>2, <2>1, TurnAdvances, AdvancesOutcome
  <2>4. Made(t) BY <2>2, <2>3 DEF Made, o
  <2> QED BY <1>3, <2>4, BecomeSets DEF t
<1>4. CASE o.h[b].app = "loose" /\ Become(u)
  <2>1. Good(u) /\ Alters(o, u, b) BY <1>1, <1>2, <1>4, LooseFacts
  <2> HIDE DEF u
  <2>2. LinkInv => Outcome(o, u) BY <1>2, <2>1, AltersArrives, ArrivesOutcome
  <2>3. Made(u) BY <2>1, <2>2 DEF Made, o
  <2> QED BY <1>4, <2>3, BecomeSets DEF u
<1> QED BY <1>1, <1>3, <1>4
\* A view that starts from another registry
LEMMA SameArrives ==
  ASSUME NEW s0, NEW s, NEW r \in Views, r.h = s.h, s0.h = s.h,
         \A x \in DOMAIN s.h : Sound(s.h[x]) /\ (s.h[x].wait => x \notin r.disc)
  PROVE  Good(r) /\ (Arrives(s0, s) => Arrives(s0, r))
<1>1. Good(r) /\ (Linked(s) => Linked(r)) /\ (Flat(s) => Flat(r)) BY SameTable
<1>2. Early(s0, r) BY DEF Early
<1> QED BY <1>1, <1>2 DEF Arrives, Fine

LEMMA DiscoveryPutMade ==
  ASSUME TypeInv, NEW b \in Peers, DiscoveryPut(b) PROVE \E r : Sets(r) /\ Made(r)
<1>1. PICK pend \in Pending :
        LET s == [View(pend) EXCEPT !.disc = @ \cup {b}]
        IN Become(IF Has(s, b) /\ s.h[b].wait
                  THEN TryDirectReconnect([s EXCEPT !.h[b].wait = FALSE], b) ELSE s)
  BY DEF DiscoveryPut
<1> DEFINE v == View(pend)
           o == View({})
           D == v.disc \cup {b}
           s == [v EXCEPT !.disc = D]
           w == [s EXCEPT !.h[b].wait = FALSE]
           t == IF Has(s, b) /\ s.h[b].wait THEN TryDirectReconnect(w, b) ELSE s
<1>2. Become(t)
  <2>1. s = [v EXCEPT !.disc = @ \cup {b}] BY DEF View
  <2> QED BY <1>1, <2>1
<1>3. /\ Good(v) /\ v \in Views /\ v.h = handles /\ v.dial = {}
      /\ LinkInv => Arrives(o, v)
  BY ViewGood
<1>4. o.h = handles BY DEF View
<1> HIDE DEF v, o
<1>5. D \in SUBSET Peers BY <1>3, ViewFacts
<1>6. s \in Views /\ s.h = v.h /\ s.dial = v.dial /\ s.disc = D BY <1>3, <1>5, PutDisc
<1> HIDE DEF s
<1>7. \A x \in DOMAIN v.h : Sound(v.h[x]) /\ (v.h[x].wait => x \notin v.disc)
  BY <1>3, GoodIsBut
<1>8. CASE ~(b \in DOMAIN s.h /\ s.h[b].wait)
  <2>1. t = s BY <1>8 DEF Has
  <2>2. \A x \in DOMAIN v.h : v.h[x].wait => x \notin s.disc BY <1>6, <1>7, <1>8
  <2>3. Good(s) /\ (Arrives(o, v) => Arrives(o, s)) BY <1>3, <1>4, <1>6, <1>7, <2>2, SameArrives
  <2>4. LinkInv => Outcome(o, s) BY <1>3, <1>6, <2>3, ArrivesOutcome
  <2>5. Made(s) BY <2>3, <2>4 DEF Made, o
  <2> QED BY <1>2, <2>1, <2>5, BecomeSets
<1>9. CASE b \in DOMAIN s.h /\ s.h[b].wait
  <2>1. t = TryDirectReconnect(w, b) BY <1>9 DEF Has
  <2>2. /\ Touches(s, w, b)
        /\ w.h[b].lost = s.h[b].lost /\ w.h[b].lostIn = s.h[b].lostIn
        /\ w.h[b].wait = FALSE /\ w.h[b].timer = s.h[b].timer
    <3>1. FALSE \in BOOLEAN OBVIOUS
    <3> QED BY <1>6, <1>9, <3>1, TouchesWait, Zenon
  <2> HIDE DEF w, t
  <2>3. w.h[b] \in Handle /\ Outside(w.h[b]) = Outside(s.h[b]) BY <2>2 DEF Touches
  <2>4. Sound(w.h[b]) BY <1>6, <1>7, <1>9, <2>2, <2>3, SoundBy DEF Sound
  <2>5. GoodBut(s, b) BY <1>6, <1>7 DEF GoodBut
  <2>6. Good(w) BY <2>2, <2>4, <2>5, TouchGood
  <2>7. b \in DOMAIN w.h /\ w.dial = {} /\ DOMAIN w.h = DOMAIN s.h
    BY <1>3, <1>6, <1>9, <2>2 DEF Touches
  <2>8. Good(t) BY <2>1, <2>6, <2>7, DirectReconnectGood
  <2>9. ASSUME Shallow, LinkInv PROVE Outcome(o, t)
    <3>1. /\ (Linked(v) => Linked(s)) /\ (Flat(v) => Flat(s)) /\ Linked(v) /\ Flat(v) /\ o \in Views
      BY <1>3, <1>6, <2>9 DEF Linked, LinkedBut, Flat, Arrives, Fine
    <3>2. Linked(w) /\ Flat(w) BY <2>2, <3>1, TouchesAlters, AltersLinks
    <3>3. Early(o, w) BY <1>3, <1>4, <1>6, <2>2, OutsideSame DEF Early, Touches
    <3>4. Arrives(o, w) BY <2>6, <3>1, <3>2, <3>3 DEF Arrives, Fine
    <3>5. Room(o, w, b) BY <1>3, <1>4, <1>6, <2>7 DEF Room
    <3> QED BY <2>1, <2>7, <2>9, <3>4, <3>5, DirectReconnectAdvances, AdvancesOutcome
  <2>10. Made(t) BY <2>8, <2>9 DEF Made, o
  <2> QED BY <1>2, <2>10, BecomeSets DEF t
<1> QED BY <1>8, <1>9

LEMMA DiscoveryDeleteMade ==
  ASSUME TypeInv, NEW b \in Peers, DiscoveryDelete(b) PROVE \E r : Sets(r) /\ Made(r)
<1> DEFINE o == View({})
           D == o.disc \ {b}
           s == [o EXCEPT !.disc = D]
           t == IF Has(s, b) THEN SetWaiting(s, b) ELSE s
<1>1. Become(t)
  <2>1. s = [o EXCEPT !.disc = @ \ {b}] BY DEF View
  <2> QED BY <2>1 DEF DiscoveryDelete
<1>2. Good(o) /\ o \in Views /\ o.dial = {} /\ (LinkInv => Arrives(o, o)) BY ViewGood
<1> HIDE DEF o
<1>3. D \in SUBSET Peers BY <1>2, ViewFacts
<1>4. s \in Views /\ s.h = o.h /\ s.dial = o.dial /\ s.disc = D BY <1>2, <1>3, PutDisc
<1> HIDE DEF s
<1>5. \A x \in DOMAIN o.h : Sound(o.h[x]) /\ (o.h[x].wait => x \notin s.disc)
  BY <1>2, <1>4, GoodIsBut
<1>6. Good(s) /\ (Arrives(o, o) => Arrives(o, s)) BY <1>4, <1>5, SameArrives
<1>7. CASE t = s
  <2>1. LinkInv => Outcome(o, s) BY <1>2, <1>4, <1>6, ArrivesOutcome
  <2>2. Made(s) BY <1>6, <2>1 DEF Made, o
  <2> QED BY <1>1, <1>7, <2>2, BecomeSets
<1>8. CASE b \in DOMAIN s.h /\ t = SetWaiting(s, b)
  <2>1. Good(t) /\ Touches(s, t, b) BY <1>4, <1>6, <1>8, WaitGood
  <2> HIDE DEF t
  <2>2. LinkInv => Outcome(o, t)
    BY <1>2, <1>4, <1>6, <2>1, TouchesAlters, AltersArrives, ArrivesOutcome
  <2>3. Made(t) BY <2>1, <2>2 DEF Made, o
  <2> QED BY <1>1, <2>3, BecomeSets DEF t
<1> QED BY <1>7, <1>8 DEF Has

LEMMA LostGood ==
  ASSUME NEW s, Good(s), NEW b \in DOMAIN s.h
  PROVE  Good(SetLost(s, b)) /\ (SetLost(s, b) = s \/ Touches(s, SetLost(s, b), b))
<1> DEFINE r == SetLost(s, b)
<1>1. s \in Views /\ GoodBut(s, b) /\ Sound(s.h[b]) /\ (s.h[b].wait => b \notin s.disc)
  BY GoodIsBut
<1>2. CASE s.h[b].lost
  <2>1. r = s BY <1>2 DEF SetLost
  <2> QED BY <2>1
<1>3. CASE ~s.h[b].lost
  <2>1. /\ Touches(s, r, b) /\ r.h[b].timer \in 0 .. r.h[b].lostIn
        /\ r.h[b].wait = s.h[b].wait
    BY <1>1, <1>3, SetLostTouches
  <2> HIDE DEF r
  <2>2. r.h[b] \in Handle /\ Outside(r.h[b]) = Outside(s.h[b]) /\ r.disc = s.disc
    BY <2>1 DEF Touches
  <2>3. Sound(r.h[b]) BY <1>1, <2>1, <2>2, SoundBy DEF Sound
  <2>4. Good(r) BY <1>1, <2>1, <2>2, <2>3, TouchGood
  <2> QED BY <2>1, <2>4 DEF r
<1> QED BY <1>2, <1>3

LEMMA RemoveTopologyMade ==
  ASSUME TypeInv, NEW b \in Peers, RemoveTopology(b) PROVE \E r : Sets(r) /\ Made(r)
<1> DEFINE o == View({})
           s == [o EXCEPT !.topo[b] = Absent]
           t == IF Has(s, b) THEN SetLost(s, b) ELSE s
<1>1. Become(t) BY DEF RemoveTopology
<1>2. Good(o) /\ o \in Views /\ o.dial = {} /\ (LinkInv => Arrives(o, o)) BY ViewGood
<1> HIDE DEF o
<1>3. s \in Views /\ s.h = o.h /\ s.dial = o.dial /\ s.disc = o.disc BY <1>2, PutTopo
<1> HIDE DEF s
<1>4. \A x \in DOMAIN o.h : Sound(o.h[x]) /\ (o.h[x].wait => x \notin s.disc)
  BY <1>2, <1>3, GoodIsBut
<1>5. Good(s) /\ (Arrives(o, o) => Arrives(o, s)) BY <1>3, <1>4, SameArrives
<1>6. CASE t = s
  <2>1. LinkInv => Outcome(o, s) BY <1>2, <1>3, <1>5, ArrivesOutcome
  <2>2. Made(s) BY <1>5, <2>1 DEF Made, o
  <2> QED BY <1>1, <1>6, <2>2, BecomeSets
<1>7. CASE b \in DOMAIN s.h /\ t = SetLost(s, b) /\ t # s
  <2>1. Good(t) /\ Touches(s, t, b) BY <1>5, <1>7, LostGood
  <2> HIDE DEF t
  <2>2. LinkInv => Outcome(o, t)
    BY <1>2, <1>3, <1>5, <2>1, TouchesAlters, AltersArrives, ArrivesOutcome
  <2>3. Made(t) BY <2>1, <2>2 DEF Made, o
  <2> QED BY <1>1, <2>3, BecomeSets DEF t
<1> QED BY <1>6, <1>7 DEF Has

LEMMA UpdateTopologyMade ==
  ASSUME TypeInv, NEW b \in Peers, NEW u \in Upstreams[b], UpdateTopology(b, u)
  PROVE  \E r : Sets(r) /\ Made(r)
<1>1. PICK pend \in Pending :
        LET s == [View(pend) EXCEPT !.topo[b] = u]
        IN Become(IF ~Has(s, b) THEN s
                  ELSE TopologyFound(DropTimer([s EXCEPT !.h[b].lost = FALSE,
                                                         !.h[b].lostIn = 0], b), b, u))
  BY DEF UpdateTopology
<1> DEFINE v == View(pend)
           o == View({})
           s == [v EXCEPT !.topo[b] = u]
           w == DropTimer([s EXCEPT !.h[b].lost = FALSE, !.h[b].lostIn = 0], b)
           t == IF ~Has(s, b) THEN s ELSE TopologyFound(w, b, u)
<1>2. Become(t) BY <1>1
<1>3. /\ Good(v) /\ v \in Views /\ v.h = handles /\ v.dial = {}
      /\ LinkInv => Arrives(o, v)
  BY ViewGood
<1>4. o.h = handles BY DEF View
<1> HIDE DEF v, o
<1>5. s \in Views /\ s.h = v.h /\ s.dial = v.dial /\ s.disc = v.disc /\ s.topo[b] = u
  BY <1>3, PutTopo
<1> HIDE DEF s
<1>6. \A x \in DOMAIN v.h : Sound(v.h[x]) /\ (v.h[x].wait => x \notin s.disc)
  BY <1>3, <1>5, GoodIsBut
<1>7. Good(s) /\ (Arrives(o, v) => Arrives(o, s)) BY <1>3, <1>4, <1>5, <1>6, SameArrives
<1>8. CASE b \notin DOMAIN s.h
  <2>1. t = s BY <1>8 DEF Has
  <2>2. LinkInv => Outcome(o, s) BY <1>3, <1>5, <1>7, ArrivesOutcome
  <2>3. Made(s) BY <1>7, <2>2 DEF Made, o
  <2> QED BY <1>2, <2>1, <2>3, BecomeSets
<1>9. CASE b \in DOMAIN s.h
  <2>1. t = TopologyFound(w, b, u) BY <1>9 DEF Has
  <2>2. Good(w) /\ Alters(s, w, b) BY <1>7, <1>9, FoundAgain
  <2> HIDE DEF w, t
  <2>3. b \in DOMAIN w.h /\ w.dial = {} /\ DOMAIN w.h = DOMAIN o.h /\ w.topo[b] = u
    BY <1>3, <1>4, <1>5, <1>9, <2>2 DEF Alters
  <2>4. u \in Links BY ConnectorConstants DEF Links
  <2>5. Good(t) BY <2>1, <2>2, <2>3, <2>4, FoundGood
  <2>6. ASSUME Shallow, LinkInv PROVE Outcome(o, t)
    <3>1. Arrives(o, w) BY <1>3, <1>7, <2>2, <2>6, AltersArrives
    <3> QED BY <2>1, <2>3, <2>6, <3>1, FoundAdvances, AdvancesOutcome
  <2>7. Made(t) BY <2>5, <2>6 DEF Made, o
  <2> QED BY <1>2, <2>7, BecomeSets DEF t
<1> QED BY <1>8, <1>9
LEMMA UpdateMade ==
  ASSUME TypeInv, NEW b \in Peers, NEW e \in EndpointStates,
         Become(OnUpdateEndpoint([View({}) EXCEPT !.ep[b] = e], b))
  PROVE  \E r : Sets(r) /\ Made(r)
<1> DEFINE o == View({})
           s == [o EXCEPT !.ep[b] = e]
           t == OnUpdateEndpoint(s, b)
<1>1. Become(t) OBVIOUS
<1>2. Good(o) /\ o \in Views /\ o.dial = {} /\ (LinkInv => Arrives(o, o)) BY ViewGood
<1> HIDE DEF o
<1>3. s \in Views /\ s.h = o.h /\ s.dial = o.dial /\ s.disc = o.disc BY <1>2, PutEndpoint
<1> HIDE DEF s
<1>4. \A x \in DOMAIN o.h : Sound(o.h[x]) /\ (o.h[x].wait => x \notin s.disc)
  BY <1>2, <1>3, GoodIsBut
<1>5. Good(s) /\ (Arrives(o, o) => Arrives(o, s)) BY <1>3, <1>4, SameArrives
<1>6. t = s \/ t \in Turned(s, b) BY DEF OnUpdateEndpoint, Turned
<1> HIDE DEF t
<1>7. Good(t) BY <1>5, <1>6, TurnFacts
<1>8. LinkInv => Outcome(o, t)
  BY <1>2, <1>3, <1>5, <1>6, ArrivesOutcome, TurnAdvances, AdvancesOutcome
<1>9. Made(t) BY <1>7, <1>8 DEF Made, o
<1> QED BY <1>1, <1>9, BecomeSets DEF t

LEMMA ConnectionLostMade ==
  ASSUME TypeInv, NEW b \in Peers, ConnectionLost(b) PROVE \E r : Sets(r) /\ Made(r)
<1> DEFINE o == View({})
           s == [o EXCEPT !.ep[b] = "opened"]
<1>1. Good(o) /\ o \in Views /\ o.dial = {} /\ (LinkInv => Arrives(o, o)) BY ViewGood
<1>2. Sets(s)
  BY <1>1 DEF ConnectionLost, Sets, View
<1> HIDE DEF o
<1>3. "opened" \in EndpointStates BY DEF EndpointStates
<1>4. s \in Views /\ s.h = o.h /\ s.dial = o.dial /\ s.disc = o.disc BY <1>1, <1>3, PutEndpoint
<1> HIDE DEF s
<1>5. \A x \in DOMAIN o.h : Sound(o.h[x]) /\ (o.h[x].wait => x \notin s.disc)
  BY <1>1, <1>4, GoodIsBut
<1>6. Good(s) /\ (Arrives(o, o) => Arrives(o, s)) BY <1>4, <1>5, SameArrives
<1>7. LinkInv => Outcome(o, s) BY <1>1, <1>4, <1>6, ArrivesOutcome
<1>8. Made(s) BY <1>6, <1>7 DEF Made, o
<1> QED BY <1>2, <1>8

LEMMA EndpointRemovedMade ==
  ASSUME TypeInv, NEW b \in Peers, EndpointRemoved(b) PROVE \E r : Sets(r) /\ Made(r)
<1>1. PICK pend \in Pending : Become(OnRemoveEndpoint([View(pend) EXCEPT !.ep[b] = "none"], b))
  BY DEF EndpointRemoved
<1> DEFINE v == View(pend)
           o == View({})
           s == [v EXCEPT !.ep[b] = "none"]
           t == OnRemoveEndpoint(s, b)
<1>2. Become(t) BY <1>1
<1>3. /\ Good(v) /\ v \in Views /\ v.h = handles /\ v.dial = {}
      /\ LinkInv => Arrives(o, v)
  BY ViewGood
<1>4. o.h = handles BY DEF View
<1> HIDE DEF v, o
<1>5. "none" \in EndpointStates BY DEF EndpointStates
<1>6. s \in Views /\ s.h = v.h /\ s.dial = v.dial /\ s.disc = v.disc BY <1>3, <1>5, PutEndpoint
<1> HIDE DEF s
<1>7. \A x \in DOMAIN v.h : Sound(v.h[x]) /\ (v.h[x].wait => x \notin s.disc)
  BY <1>3, <1>6, GoodIsBut
<1>8. Good(s) /\ (Arrives(o, v) => Arrives(o, s)) BY <1>3, <1>4, <1>6, <1>7, SameArrives
<1>9. Settles(s, t) BY <1>8, OnRemoveSettles
<1> HIDE DEF t
<1>10. LinkInv => Outcome(o, t) BY <1>3, <1>6, <1>8, <1>9, SettlesOutcome
<1>11. Made(t) BY <1>9, <1>10 DEF Made, Settles, o
<1> QED BY <1>2, <1>11, BecomeSets

LEMMA TimerMade ==
  ASSUME TypeInv, NEW b \in Peers, Timer(b) PROVE \E r : Sets(r) /\ Made(r)
<1>1. PICK pend \in Pending : Become(OnTimer(View(pend), b)) BY DEF Timer
<1> DEFINE v == View(pend)
           o == View({})
           t == OnTimer(v, b)
<1>2. Become(t) BY <1>1
<1>3. /\ Good(v) /\ v \in Views /\ v.h = handles /\ v.dial = {}
      /\ LinkInv => Fine(v)
  BY ViewGood
<1>4. o.h = handles BY DEF View
<1>5. b \in DOMAIN v.h BY <1>3 DEF Timer, Has, View
<1> HIDE DEF v, o
<1>6. Good(t) /\ (Shallow /\ Fine(v) => Advances(v, t, b)) BY <1>3, <1>5, OnTimerSteps
<1> HIDE DEF t
<1>7. ASSUME Shallow, LinkInv PROVE Outcome(o, t)
  <2>1. Advances(v, t, b) BY <1>3, <1>6, <1>7
  <2>2. Follows(o, t) /\ Spaced(o, t, b) /\ Fine(t)
    BY <1>3, <1>4, <2>1 DEF Advances, Follows, Spaced
  <2> QED BY <2>2 DEF Outcome
<1>8. Made(t) BY <1>6, <1>7 DEF Made, o
<1> QED BY <1>2, <1>8, BecomeSets

\* One unit of time: no timer was due, so the one of a handle that lost its
\* topology is still no later than its deadline.
LEMMA TickMade ==
  ASSUME TypeInv, Tick PROVE \E r : Sets(r) /\ Made(r)
<1> DEFINE D(n) == IF n > 0 THEN n - 1 ELSE n
           late(g) == [g EXCEPT !.next = D(@), !.lostIn = D(@), !.timer = D(@)]
           f == [x \in DOMAIN handles |-> late(handles[x])]
           o == View({})
           s == [o EXCEPT !.h = f]
<1>1. Good(o) /\ o \in Views /\ o.dial = {} /\ o.h = handles /\ (LinkInv => Arrives(o, o))
  BY ViewGood
<1>2. \A g \in Handle : /\ D(g.next) \in Times /\ D(g.lostIn) \in Times
                        /\ D(g.timer) \in Times \cup {NoTimer}
  <2>1. \A n \in Times : n \in Nat /\ n # NoTimer /\ (n > 0 => n - 1 \in Times)
    BY TimesNat, TimesInt
  <2>2. \A n \in Times : D(n) \in Times BY <2>1
  <2>3. D(NoTimer) = NoTimer BY DEF NoTimer
  <2>4. \A g \in Handle : g.next \in Times /\ g.lostIn \in Times /\ g.timer \in Times \cup {NoTimer}
    BY HandleTimes
  <2> HIDE DEF D
  <2> QED BY <2>2, <2>3, <2>4
<1>3. \A g \in Handle :
        /\ late(g) \in Handle
        /\ late(g).app = g.app /\ late(g).told = g.told /\ late(g).ready = g.ready
        /\ late(g).proxy = g.proxy /\ late(g).for = g.for
        /\ late(g).wait = g.wait /\ late(g).lost = g.lost
        /\ late(g).lostIn = D(g.lostIn) /\ late(g).timer = D(g.timer)
  <2> SUFFICES ASSUME NEW g \in Handle
               PROVE  /\ late(g) \in Handle
                      /\ late(g).app = g.app /\ late(g).told = g.told /\ late(g).ready = g.ready
                      /\ late(g).proxy = g.proxy /\ late(g).for = g.for
                      /\ late(g).wait = g.wait /\ late(g).lost = g.lost
                      /\ late(g).lostIn = D(g.lostIn) /\ late(g).timer = D(g.timer)
    OBVIOUS
  <2> DEFINE n == D(g.next)
             l == D(g.lostIn)
             m == D(g.timer)
             k == [g EXCEPT !.next = n, !.lostIn = l, !.timer = m]
  <2>1. late(g) = k BY DEF Handle
  <2>2. n \in Times /\ l \in Times /\ m \in Times \cup {NoTimer} BY <1>2
  <2> HIDE DEF n, l, m
  <2>3. /\ k \in Handle
        /\ k.app = g.app /\ k.told = g.told /\ k.ready = g.ready
        /\ k.proxy = g.proxy /\ k.for = g.for
        /\ k.wait = g.wait /\ k.lost = g.lost
        /\ k.lostIn = l /\ k.timer = m
    <3> HIDE DEF D
    <3> QED BY <2>2 DEF Handle
  <2> HIDE DEF late, k
  <2>4. l = D(g.lostIn) /\ m = D(g.timer) BY DEF l, m
  <2> HIDE DEF D
  <2> QED BY <2>1, <2>3, <2>4
<1>4. \A g \in Handle : Sound(g) /\ g.timer # 0 => Sound(late(g))
  <2> SUFFICES ASSUME NEW g \in Handle, Sound(g), g.timer # 0 PROVE Sound(late(g)) OBVIOUS
  <2>1. g.lost => D(g.timer) \in 0 .. D(g.lostIn)
    <3>1. g.lostIn \in Nat BY HandleTimes
    <3> QED BY <3>1 DEF Sound
  <2> HIDE DEF late, D
  <2> QED BY <1>3, <2>1 DEF Sound
<1>5. \A x \in DOMAIN handles :
        handles[x] \in Handle /\ Sound(handles[x]) /\ handles[x].timer # 0
        /\ (handles[x].wait => x \notin disc)
  BY <1>1, ViewFacts DEF TypeInv, Tick
<1> HIDE DEF late
<1>6. f \in [DOMAIN handles -> Handle] /\ DOMAIN f = DOMAIN handles
      /\ \A x \in DOMAIN handles : f[x] = late(handles[x])
  BY <1>3, <1>5
<1>7. DOMAIN handles \in SUBSET Peers BY <1>1, ViewFacts
<1>8. f \in Tables BY <1>6, <1>7, TableOf
<1>9. handles' = f /\ dial' = {} /\ ep' = ep /\ topo' = topo /\ disc' = disc
  BY DEF Tick, late
<1>10. o.ep = ep /\ o.topo = topo /\ o.disc = disc BY DEF View
<1> HIDE DEF f, o
<1>11. /\ s \in Views /\ s.h = f /\ s.dial = {} /\ s.disc = disc /\ s.ep = ep /\ s.topo = topo
  BY <1>1, <1>8, <1>10, PutTable
<1> HIDE DEF s
<1>12. Good(s)
  BY <1>3, <1>4, <1>5, <1>6, <1>11 DEF Good, GoodBut
<1>13. ASSUME LinkInv PROVE Outcome(o, s)
  <2>1. Linked(o) /\ Flat(o) BY <1>1, <1>13 DEF Arrives, Fine
  <2>2. \A x \in DOMAIN handles : /\ s.h[x].proxy = handles[x].proxy
                                  /\ s.h[x].for = handles[x].for
                                  /\ s.h[x].ready = handles[x].ready
    BY <1>3, <1>5, <1>6, <1>11
  <2>3. DOMAIN s.h = DOMAIN o.h BY <1>1, <1>6, <1>11
  <2>4. Linked(s) BY <1>1, <2>1, <2>2, <2>3 DEF Linked, LinkedBut
  <2>5. Flat(s) BY <1>1, <2>1, <2>2, <2>3 DEF Flat
  <2>6. Follows(o, s) BY <1>1, <2>2, <2>3 DEF Follows
  <2>7. \A c : Spaced(o, s, c) BY <1>11 DEF Spaced
  <2> QED BY <1>12, <2>4, <2>5, <2>6, <2>7 DEF Outcome, Fine
<1>14. Made(s) BY <1>12, <1>13 DEF Made, o
<1>15. Sets(s) BY <1>9, <1>11 DEF Sets
<1> QED BY <1>14, <1>15
LEMMA GainMade ==
  ASSUME TypeInv, NEW b \in Peers, Gain(b) PROVE \E r : Sets(r) /\ Made(r)
<1>1. CASE Connect(b) BY <1>1, ConnectMade
<1>2. CASE DiscoveryPut(b) BY <1>2, DiscoveryPutMade
<1>3. CASE EndpointAdded(b)
  <2>1. PICK e \in {"opened", "available"} :
          Become(OnUpdateEndpoint([View({}) EXCEPT !.ep[b] = e], b))
    BY <1>3 DEF EndpointAdded
  <2> QED BY <2>1, UpdateMade DEF EndpointStates
<1>4. CASE NewConnection(b)
  <2>1. Become(OnUpdateEndpoint([View({}) EXCEPT !.ep[b] = "available"], b))
    BY <1>4 DEF NewConnection
  <2> QED BY <2>1, UpdateMade DEF EndpointStates
<1>5. CASE \E u \in Upstreams[b] : topo[b] \in {u, Absent} /\ UpdateTopology(b, u)
  BY <1>5, UpdateTopologyMade
<1> QED BY <1>1, <1>2, <1>3, <1>4, <1>5 DEF Gain

LEMMA LossMade ==
  ASSUME TypeInv, NEW b \in Peers, Loss(b) PROVE \E r : Sets(r) /\ Made(r)
<1>1. CASE Close(b) BY <1>1, CloseMade
<1>2. CASE SendFails(b) BY <1>2, SendFailsMade
<1>3. CASE ConnectionLost(b) BY <1>3, ConnectionLostMade
<1>4. CASE EndpointRemoved(b) BY <1>4, EndpointRemovedMade
<1>5. CASE DiscoveryDelete(b) BY <1>5, DiscoveryDeleteMade
<1>6. CASE RemoveTopology(b) BY <1>6, RemoveTopologyMade
<1>7. CASE \E u \in Upstreams[b] : topo[b] \notin {u, Absent} /\ UpdateTopology(b, u)
  BY <1>7, UpdateTopologyMade
<1> QED BY <1>1, <1>2, <1>3, <1>4, <1>5, <1>6, <1>7 DEF Loss

LEMMA NextMade ==
  ASSUME TypeInv, Next
  PROVE  faults' \in 0 .. MaxFaults /\ \E r : Sets(r) /\ Made(r)
<1>1. CASE \E b \in Peers : (Gain(b) \/ Timer(b)) /\ UNCHANGED faults
  BY <1>1, GainMade, TimerMade DEF TypeInv
<1>2. CASE \E b \in Peers : faults < MaxFaults /\ Loss(b) /\ faults' = faults + 1
  <2>1. faults' \in 0 .. MaxFaults BY <1>2, ConnectorConstants DEF TypeInv
  <2> QED BY <1>2, <2>1, LossMade
<1>3. CASE Tick /\ UNCHANGED faults BY <1>3, TickMade DEF TypeInv
<1> QED BY <1>1, <1>2, <1>3 DEF Next

LEMMA InitInv == Init => TypeInv /\ LinkInv
<1> SUFFICES ASSUME Init PROVE TypeInv /\ LinkInv OBVIOUS
<1>1. handles \in Tables /\ DOMAIN handles = {} BY EmptyTable DEF Init
<1>2. topo \in Ways BY DEF Init, Ways, Links
<1>3. ep \in [Peers -> EndpointStates] /\ dial \subseteq Peers /\ disc \subseteq Peers
      /\ faults \in 0 .. MaxFaults
  BY ConnectorConstants DEF Init, EndpointStates
<1>4. LinkInv BY <1>1 DEF LinkInv, Linked, LinkedBut, Flat, View
<1> QED BY <1>1, <1>2, <1>3, <1>4 DEF TypeInv

LEMMA TypeStep == TypeInv /\ [Next]_vars => TypeInv'
<1> SUFFICES ASSUME TypeInv, [Next]_vars PROVE TypeInv' OBVIOUS
<1>1. CASE Next BY <1>1, NextMade, SetsInv DEF Made
<1>2. CASE UNCHANGED vars BY <1>2 DEF vars, TypeInv
<1> QED BY <1>1, <1>2

\* What a step makes of a state whose links are as they should be.
LEMMA StepOutcome ==
  ASSUME Shallow, TypeInv, LinkInv, Next
  PROVE  \E r : Sets(r) /\ Outcome(View({}), r)
BY NextMade DEF Made

LEMMA LinkStep ==
  ASSUME Shallow PROVE TypeInv /\ LinkInv /\ [Next]_vars => LinkInv'
<1> SUFFICES ASSUME TypeInv, LinkInv, [Next]_vars PROVE LinkInv' OBVIOUS
<1>1. CASE Next BY <1>1, StepOutcome, SetsLinks DEF Outcome
<1>2. CASE UNCHANGED vars
  BY <1>2 DEF vars, LinkInv, Linked, LinkedBut, Flat, View
<1> QED BY <1>1, <1>2

\* Whatever the peers, the topology and the discovery set do, and however often
\* they do it, every handle of the table stays within its types: tries and
\* timers within their limits, a proxy and upstream that are links of the tree
\* (setup_reconnect_timer(), bind_connection_handle_proxy()).
THEOREM HandlesTyped == Spec => []TypeOK
<1>1. Init => TypeInv BY InitInv
<1>2. TypeInv => TypeOK
  BY DEF TypeInv, TypeOK, Tables, Ways, Sound, EndpointStates
<1> QED BY <1>1, <1>2, TypeStep, PTL DEF Spec

\* The app is told what is: the ready flag of an app handle that carries its
\* bus id is the flag of the connection handle (set_handle_ready(),
\* set_handle_unready()), in every order of the events of the bus.
THEOREM AppToldReady == Spec => []ToldReady
<1>1. Init => TypeInv BY InitInv
<1>2. TypeInv => ToldReady BY DEF TypeInv, ToldReady, Sound
<1> QED BY <1>1, <1>2, TypeStep, PTL DEF Spec

\* No handle is forgotten: one that lost its topology has a timer no later than
\* its deadline, and one waits for discovery only while discovery does not know
\* its node (update_timer(), set_handle_lost_topology(),
\* resume_handle_discovery()).
THEOREM WaitersAreWatched == Spec => []WaitersWatched
<1>1. Init => TypeInv BY InitInv
<1>2. TypeInv => WaitersWatched
  BY DEF TypeInv, WaitersWatched, LostWatched, WaitsForUnknown, Sound
<1> QED BY <1>1, <1>2, TypeStep, PTL DEF Spec

LEMMA LinksHold == ASSUME Shallow PROVE Spec => [](TypeInv /\ LinkInv)
<1> DEFINE Inv == TypeInv /\ LinkInv
<1>1. Init => Inv BY InitInv
<1>2. Inv /\ [Next]_vars => Inv' BY TypeStep, LinkStep
<1> HIDE DEF Inv
<1>3. Spec => []Inv BY <1>1, <1>2, PTL DEF Spec
<1> QED BY <1>3 DEF Inv

\* With at most one relay between a peer and the upstream, a handle and its
\* proxy name each other after every handler, the nested disconnects of
\* unbind_connection_handle_proxy() and on_remove_endpoint() included.
THEOREM LinksConsistent ==
  ASSUME Shallow PROVE Spec => []HandlesConsistent
<1>1. TypeInv /\ LinkInv => HandlesConsistent
  <2> SUFFICES ASSUME TypeInv, LinkInv PROVE HandlesConsistent OBVIOUS
  <2>1. TypeOK /\ ToldReady
    BY DEF TypeInv, TypeOK, ToldReady, Tables, Ways, Sound, EndpointStates
  <2>2. ProxyLinked BY DEF LinkInv, Linked, LinkedBut, ProxyLinked, View
  <2> QED BY <2>1, <2>2 DEF HandlesConsistent
<1> QED BY <1>1, LinksHold, PTL

\* A proxy that stops being ready takes along every handle that stays behind
\* it, in the same step (set_handle_unready() goes along proxy_for_bus_id).
THEOREM UnreadyWithProxy ==
  ASSUME Shallow PROVE Spec => UnreadyFollowsProxy
<1> DEFINE Falls == \A b \in DOMAIN handles \cap DOMAIN handles' :
              LET p == handles[b].proxy
              IN /\ p \in DOMAIN handles \cap DOMAIN handles'
                 /\ handles[p].ready /\ ~handles'[p].ready
                 /\ handles'[b].proxy = p
                 => ~handles'[b].ready
<1>1. TypeInv /\ LinkInv /\ [Next]_vars => [Falls]_vars
  <2> SUFFICES ASSUME TypeInv, LinkInv, Next PROVE Falls OBVIOUS
  <2>1. PICK r : Sets(r) /\ Outcome(View({}), r) BY StepOutcome
  <2> QED BY <2>1 DEF Outcome, Follows, Sets, View
<1> HIDE DEF Falls
<1>2. Spec => [][Falls]_vars BY <1>1, LinksHold, PTL DEF Spec
<1> QED BY <1>2 DEF Falls, UnreadyFollowsProxy

\* node->connect() is only called for a peer discovery knows and the policy
\* allows, outside of the back-off of its handle, and leaves a back-off and a
\* timer running (on_start_connect_to_same_or_other_upstream_peer(),
\* setup_reconnect_timer()).
THEOREM ConnectsArePaced ==
  ASSUME Shallow PROVE Spec => DialsPaced
<1> DEFINE Paced == \A p \in dial' :
          /\ DirectAllowed /\ p \in disc' \cap Connectable
          /\ topo'[p] # Absent => p \in Allowed
          /\ p \in DOMAIN handles => handles[p].next = 0
          /\ handles'[p].next > 0 /\ handles'[p].timer # NoTimer
<1>1. TypeInv /\ LinkInv /\ [Next]_vars => [Paced]_vars
  <2> SUFFICES ASSUME TypeInv, LinkInv, Next PROVE Paced OBVIOUS
  <2>1. PICK r : Sets(r) /\ Outcome(View({}), r) BY StepOutcome
  <2>2. PICK c : Spaced(View({}), r, c) BY <2>1 DEF Outcome
  <2> QED BY <2>1, <2>2 DEF Spaced, Sets, View
<1> HIDE DEF Paced
<1>2. Spec => [][Paced]_vars BY <1>1, LinksHold, PTL DEF Spec
<1> QED BY <1>2 DEF Paced, DialsPaced
=============================================================================
