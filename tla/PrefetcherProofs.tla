----------------------------- MODULE PrefetcherProofs --------------------------
(***************************************************************************)
(* The trackers of the reinforcement learners, for queues and pages of any *)
(* size: every action leaves its tracker once, in order, with one reward   *)
(* that says what happened to its line.  Scooby and CBP teach it to their   *)
(* engine; RLP hands it to its irregular engine, which keeps nothing of it  *)
(* and never acts.                                                         *)
(* The hypotheses are the ones the code runs with: a queue has a place, and *)
(* an address is tracked once (enable_track_multiple is off).  With it on a *)
(* demand rewards the oldest entry of an address and the others are called  *)
(* incorrect later.  The POWER7 prefetcher, for any number of cores and any *)
(* cycles between demands, exploits the fastest of the configurations it    *)
(* has timed.  SMS has a region in one table, once, with the pattern of     *)
(* what was touched.                                                        *)
(***************************************************************************)
EXTENDS Integers, Sequences, FiniteSets, SequenceTheorems, FiniteSetTheorems,
        WellFoundedInduction, TLAPS

CONSTANTS
  Page, Blocks, Actions, PtSize, StSize, ActionTrackerSize, Thresholds, Degrees,
  TrackMultiple, RewardAll, RewardOutOfBounds, RewardTrackerHit, MaxActions, \* as in Scooby
  Pages, State, QueueSize, HsqSize, IrSets, IrWay, IrDegree,                 \* as in Rlp
  Lines, HstSize, PrefDegree,                                                \* as in Cbp
  Core, Pc, Line, StreamTrackers, StrideTrackers, ExploreEpoch, ExploitEpoch,
  DefaultDegree, MaxStep, MaxCycle,                                          \* as in Power7
  Region, FtSize, AtSize, PhtSets, PhtAssoc, Degree, BufferSize, MaxAccesses \* as in Sms

VARIABLE s

Scooby == INSTANCE Scooby
Rlp == INSTANCE Rlp
Cbp == INSTANCE Cbp
Power7 == INSTANCE Power7
Sms == INSTANCE Sms

-----------------------------------------------------------------------------
(* What the three trackers share.  Their entries are open (in E): rewarded  *)
(* at most once, rightly, and not yet called incorrect.  The tracker q      *)
(* holds the last of n actions, numbered without a gap, an address other    *)
(* than `none' once; the action evicted last (ev) is the one before them,   *)
(* and the successor of the one learned from last (ta; in RLP, handed on    *)
(* last), which had its reward (it is in T).                                *)
Once(q, none) == \A i, j \in 1 .. Len(q) : q[i].addr = q[j].addr /\ q[i].addr # none => i = j
Numbered(q, n) == \A i \in 1 .. Len(q) : q[i].id = n - Len(q) + i - 1
Tracking(E, none, q, n) == n \in Int /\ q \in Seq(E) /\ Once(q, none) /\ Numbered(q, n)
Evicted(E, q, n, ev) == ev = <<>> \/ \E e \in E : ev = <<e>> /\ e.id = n - Len(q) - 1
Taught(E, T, ev, ta) ==
  ta = <<>> \/ \E d \in T, e \in E : ta = <<d, e>> /\ ev = <<e>> /\ e.id = d.id + 1
Learning(E, T, none, q, n, ev, ta) ==
  Tracking(E, none, q, n) /\ Evicted(E, q, n, ev) /\ Taught(E, T, ev, ta)

(* What the lemmas below say of a step: entries change and stay the same    *)
(* actions; the engine learns from the action evicted, with its successor v. *)
InPlace(E, q, f) ==
  f \in [1 .. Len(q) -> E] /\ \A i \in 1 .. Len(q) : f[i].id = q[i].id /\ f[i].addr = q[i].addr
Learns(T, ev, ta, v, new) ==
  /\ ev = <<>> => new = ta
  /\ ev # <<>> => \E d \in T : d.id = ev[1].id /\ new = <<d, v>>
InOrder(E, waiting, n) ==
  \A i \in DOMAIN waiting : waiting[i] \in E /\ waiting[i].id = n - Len(waiting) + i - 1

(* Entries changed in place stay the actions they were.                     *)
LEMMA ChangedInPlace ==
  ASSUME NEW E, NEW T, NEW none, NEW q, NEW n, NEW ev, NEW ta, Learning(E, T, none, q, n, ev, ta),
         NEW f, InPlace(E, q, f)
  PROVE  Learning(E, T, none, f, n, ev, ta) /\ Len(f) = Len(q)
<1>1. Len(q) \in Nat
  BY DEF Learning, Tracking
<1>2. f \in Seq(E) /\ Len(f) = Len(q)
  <2>1. f \in [1 .. Len(q) -> E]
    BY DEF InPlace
  <2> QED BY <1>1, <2>1
<1> QED BY <1>1, <1>2 DEF Learning, Tracking, Once, Numbered, Evicted, InPlace

(* The oldest action leaves, after the one before it was learned from.      *)
LEMMA OldestEvicted ==
  ASSUME NEW E, NEW T, NEW none, NEW q, NEW n, NEW ev, NEW ta, Learning(E, T, none, q, n, ev, ta),
         q # <<>>, NEW new, Learns(T, ev, ta, Head(q), new)
  PROVE  /\ Learning(E, T, none, Tail(q), n, <<Head(q)>>, new)
         /\ Len(Tail(q)) = Len(q) - 1
         /\ \A i \in 1 .. Len(Tail(q)) : i + 1 \in 1 .. Len(q) /\ Tail(q)[i] = q[i + 1]
<1> DEFINE r == Tail(q)
           h == Head(q)
<1>1. q \in Seq(E) /\ Len(q) \in Nat /\ Len(q) > 0 /\ h = q[1] /\ n \in Int
  BY DEF Learning, Tracking
<1>2. /\ r \in Seq(E) /\ Len(r) = Len(q) - 1
      /\ \A i \in 1 .. Len(r) : r[i] = q[i + 1]
  BY <1>1, HeadTailProperties
<1>3. h \in E /\ h.id = n - Len(q)
  BY <1>1 DEF Learning, Tracking, Numbered
<1> HIDE DEF r, h
<1>4. \A i \in 1 .. Len(r) : i + 1 \in 1 .. Len(q)
  BY <1>1, <1>2
<1>5. Once(r, none)
  BY SMTT(60), <1>2, <1>4 DEF Learning, Tracking, Once
<1>6. Numbered(r, n)
  <2> SUFFICES ASSUME NEW i \in 1 .. Len(r) PROVE r[i].id = n - Len(r) + i - 1
    BY DEF Numbered
  <2>1. r[i].id = n - Len(q) + (i + 1) - 1
    BY <1>2, <1>4 DEF Learning, Tracking, Numbered
  <2>2. n - Len(q) + (i + 1) - 1 = n - (Len(q) - 1) + i - 1
    BY <1>1
  <2>3. n - Len(r) + i - 1 = n - (Len(q) - 1) + i - 1
    BY <1>2
  <2> QED BY <2>1, <2>2, <2>3
<1>7. Evicted(E, r, n, <<h>>)
  <2>1. n - Len(q) = n - Len(r) - 1
    BY <1>1, <1>2
  <2> QED BY <1>3, <2>1 DEF Evicted
<1>8. Taught(E, T, <<h>>, new)
  <2>1. CASE ev = <<>>
    BY <2>1 DEF Learning, Taught, Learns
  <2>2. CASE ev # <<>>
    <3>1. PICK d \in T : d.id = ev[1].id /\ new = <<d, h>>
      BY <2>2 DEF h, Learns
    <3>2. d.id = n - Len(q) - 1
      BY <2>2, <3>1 DEF Learning, Evicted
    <3>3. h.id = d.id + 1
      BY <1>1, <1>3, <3>2
    <3> QED BY <1>3, <3>1, <3>3 DEF Taught
  <2> QED BY <2>1, <2>2
<1> QED BY <1>1, <1>2, <1>4, <1>5, <1>6, <1>7, <1>8 DEF r, h, Learning, Tracking

(* An action is taken.                                                      *)
LEMMA ActionTaken ==
  ASSUME NEW E, NEW T, NEW none, NEW q, NEW n, NEW ev, NEW ta, Learning(E, T, none, q, n, ev, ta),
         NEW e \in E, e.id = n, e.addr = none \/ \A i \in 1 .. Len(q) : q[i].addr # e.addr
  PROVE  LET r == Append(q, e) IN
         /\ Learning(E, T, none, r, n + 1, ev, ta)
         /\ Len(r) = Len(q) + 1 /\ r # <<>> /\ r[Len(r)] = e
<1> DEFINE r == Append(q, e)
<1>1. q \in Seq(E) /\ Len(q) \in Nat /\ n \in Int
  BY DEF Learning, Tracking
<1>2. /\ r \in Seq(E) /\ r # <<>> /\ Len(r) = Len(q) + 1
      /\ \A i \in 1 .. Len(q) : r[i] = q[i]
      /\ r[Len(q) + 1] = e
  BY <1>1, AppendProperties
<1> HIDE DEF r
<1>3. \A i \in 1 .. Len(r) : i \in 1 .. Len(q) \/ i = Len(q) + 1
  BY <1>1, <1>2
<1>4. Once(r, none)
  BY <1>2, <1>3 DEF Learning, Tracking, Once
<1>5. Numbered(r, n + 1)
  <2> SUFFICES ASSUME NEW i \in 1 .. Len(r) PROVE r[i].id = n + 1 - Len(r) + i - 1
    BY <1>1, <1>2 DEF Numbered
  <2>1. CASE i \in 1 .. Len(q)
    <3>1. r[i].id = n - Len(q) + i - 1
      BY <1>2, <2>1 DEF Learning, Tracking, Numbered
    <3> QED BY <1>1, <1>2, <3>1
  <2>2. CASE i = Len(q) + 1
    <3>1. r[i].id = n
      BY <1>2, <2>2
    <3> QED BY <1>1, <1>2, <2>2, <3>1
  <2> QED BY <1>3, <2>1, <2>2
<1>6. Evicted(E, r, n + 1, ev)
  <2>1. n + 1 - Len(r) - 1 = n - Len(q) - 1
    BY <1>1, <1>2
  <2> QED BY <1>1, <1>2, <2>1 DEF Learning, Evicted
<1>7. Learning(E, T, none, r, n + 1, ev, ta)
  BY <1>1, <1>2, <1>4, <1>5, <1>6 DEF Learning, Tracking
<1> QED BY <1>2, <1>7 DEF r

(* The actions not yet learned from are the last ones, in order.            *)
LEMMA WaitingInOrder ==
  ASSUME NEW E, NEW T, NEW none, NEW q, NEW n, NEW ev, NEW ta, Learning(E, T, none, q, n, ev, ta)
  PROVE  InOrder(E, ev \o q, n)
<1> DEFINE waiting == ev \o q
<1>1. q \in Seq(E) /\ Len(q) \in Nat /\ n \in Int
  BY DEF Learning, Tracking
<1> SUFFICES ASSUME NEW i \in DOMAIN waiting
             PROVE  waiting[i] \in E /\ waiting[i].id = n - Len(waiting) + i - 1
  BY DEF InOrder
<1>2. CASE ev = <<>>
  <2>1. waiting = q /\ i \in 1 .. Len(q)
    BY <1>1, <1>2
  <2> QED BY <1>1, <2>1 DEF Learning, Tracking, Numbered
<1>3. CASE ev # <<>>
  <2>1. PICK e \in E : ev = <<e>> /\ e.id = n - Len(q) - 1
    BY <1>3 DEF Learning, Evicted
  <2>2. /\ waiting \in Seq(E) /\ Len(waiting) = 1 + Len(q)
        /\ \A j \in 1 .. 1 + Len(q) : waiting[j] = IF j <= 1 THEN <<e>>[j] ELSE q[j - 1]
    <3>1. <<e>> \in Seq(E) /\ Len(<<e>>) = 1 /\ waiting = <<e>> \o q
      BY <2>1
    <3> HIDE DEF waiting
    <3> QED BY <1>1, <3>1, ConcatProperties
  <2> HIDE DEF waiting
  <2>3. i \in 1 .. 1 + Len(q) /\ waiting[i] \in E
    BY <2>2
  <2>4. CASE i = 1
    <3>1. waiting[i] = e
      BY <2>2, <2>3, <2>4
    <3>2. n - Len(q) - 1 = n - (1 + Len(q)) + 1 - 1
      BY <1>1
    <3> QED BY <2>1, <2>2, <2>4, <3>1, <3>2
  <2>5. CASE i # 1
    <3>1. i - 1 \in 1 .. Len(q) /\ ~(i <= 1)
      BY <1>1, <2>3, <2>5
    <3>2. waiting[i] = q[i - 1]
      BY <2>2, <2>3, <3>1
    <3>3. q[i - 1].id = n - Len(q) + (i - 1) - 1
      BY <3>1 DEF Learning, Tracking, Numbered
    <3>4. n - Len(q) + (i - 1) - 1 = n - (1 + Len(q)) + i - 1
      BY <1>1, <2>3
    <3> QED BY <2>2, <2>3, <3>2, <3>3, <3>4
  <2> QED BY <2>4, <2>5
<1> QED BY <1>2, <1>3

(* A fill and a hit in the cache.                                           *)
Filled(q, found) ==
  [i \in DOMAIN q |-> IF i \in found THEN [q[i] EXCEPT !.filled = TRUE] ELSE q[i]]
Hit(q, found) ==
  [i \in DOMAIN q |-> IF i \in found THEN [q[i] EXCEPT !.hit = TRUE] ELSE q[i]]

(* More open entries, as when a state comes to know more actions.           *)
LEMMA MoreOpen ==
  ASSUME NEW E, NEW T, NEW none, NEW q, NEW n, NEW ev, NEW ta, Learning(E, T, none, q, n, ev, ta),
         NEW F, E \subseteq F
  PROVE  Learning(F, T, none, q, n, ev, ta)
<1>1. q \in Seq(F)
  BY DEF Learning, Tracking
<1> QED BY <1>1 DEF Learning, Tracking, Evicted, Taught

-----------------------------------------------------------------------------
(* Scooby.                                                                  *)
ScoobyAddr == {Scooby!NoPrefetch} \cup (Page \X Int)
ScoobyRewards == {"unset", "correct_timely", "correct_untimely", "incorrect", "none",
            "out_of_bounds", "tracker_hit"}
ScoobyEntry == [id : Int, addr : ScoobyAddr, filled : BOOLEAN, hit : BOOLEAN, reward : ScoobyRewards,
          times : Nat, seen : {"unseen", "timely", "late"}]
ScoobyOpen == {e \in ScoobyEntry : /\ e.times = IF e.reward = "unset" THEN 0 ELSE 1
                       /\ e.reward # "incorrect"
                       /\ Scooby!Truthful(e)}
ScoobyRewarded == {e \in ScoobyEntry : e.times = 1 /\ Scooby!Truthful(e)}

ScoobyFields(t) ==
  t = [st |-> t.st, tracker |-> t.tracker, evicted |-> t.evicted, taught |-> t.taught,
       actions |-> t.actions, flying |-> t.flying]

ScoobyLearning(t) ==
  /\ ScoobyFields(t) /\ Len(t.tracker) <= PtSize
  /\ Learning(ScoobyOpen, ScoobyRewarded, Scooby!NoPrefetch, t.tracker, t.actions, t.evicted, t.taught)

(* The oldest entry of an address is its only one.                          *)
LEMMA ScoobySearchFindsTheLine ==
  ASSUME NEW q \in Seq(ScoobyOpen), Once(q, Scooby!NoPrefetch), NEW addr, addr # Scooby!NoPrefetch, NEW all
  PROVE  Scooby!search_pt(q, addr, all) = {i \in 1 .. Len(q) : q[i].addr = addr}
<1> DEFINE found == {i \in DOMAIN q : q[i].addr = addr}
<1>1. DOMAIN q = 1 .. Len(q)
  OBVIOUS
<1>2. Scooby!search_pt(q, addr, all) = IF all \/ found = {} THEN found ELSE {Scooby!Min(found)}
  BY DEF Scooby!search_pt
<1>3. ASSUME found # {} PROVE {Scooby!Min(found)} = found
  <2>1. PICK i \in 1 .. Len(q) : q[i].addr = addr
    BY <1>1, <1>3
  <2>2. found = {i}
    BY <1>1, <2>1 DEF Once
  <2>3. Scooby!Min({i}) = i
    BY <2>1 DEF Scooby!Min
  <2> QED BY <2>2, <2>3
<1> QED BY <1>1, <1>2, <1>3

(* A demand rewards and witnesses the entry of its line, in place.          *)
ScoobyDemanded(e) ==
  LET type == IF e.filled THEN "correct_timely" ELSE "correct_untimely"
      r == IF e.reward = "unset" THEN Scooby!assign_reward(e, type) ELSE e
  IN IF r.seen = "unseen" THEN [r EXCEPT !.seen = IF r.filled THEN "timely" ELSE "late"] ELSE r

LEMMA ScoobyDemandInPlace ==
  ASSUME NEW q \in Seq(ScoobyOpen), Once(q, Scooby!NoPrefetch), NEW addr, addr # Scooby!NoPrefetch
  PROVE  Scooby!Witnessed(Scooby!reward_demand(q, addr), addr)
           = [i \in 1 .. Len(q) |-> IF q[i].addr = addr THEN ScoobyDemanded(q[i]) ELSE q[i]]
<1> DEFINE found == Scooby!search_pt(q, addr, RewardAll)
           due == {i \in found : \A j \in found : j <= i => q[j].reward = "unset"}
           Type(e) == IF e.filled THEN "correct_timely" ELSE "correct_untimely"
           r == Scooby!reward_demand(q, addr)
<1>1. DOMAIN q = 1 .. Len(q)
  OBVIOUS
<1>2. found = {i \in 1 .. Len(q) : q[i].addr = addr}
  BY ScoobySearchFindsTheLine
<1>3. due = {i \in 1 .. Len(q) : q[i].addr = addr /\ q[i].reward = "unset"}
  BY <1>2 DEF Once
<1>4. r = [i \in 1 .. Len(q) |->
             IF q[i].addr = addr /\ q[i].reward = "unset"
             THEN Scooby!assign_reward(q[i], Type(q[i])) ELSE q[i]]
  <2>1. r = [i \in DOMAIN q |->
               IF i \in due THEN Scooby!assign_reward(q[i], Type(q[i])) ELSE q[i]]
    BY DEF Scooby!reward_demand
  <2> QED BY <1>1, <1>3, <2>1
<1>5. Scooby!Witnessed(r, addr)
        = [i \in 1 .. Len(q) |->
             IF r[i].addr = addr /\ r[i].seen = "unseen"
             THEN [r[i] EXCEPT !.seen = IF r[i].filled THEN "timely" ELSE "late"]
             ELSE r[i]]
  <2>1. DOMAIN r = 1 .. Len(q)
    BY <1>4
  <2> HIDE DEF r
  <2> QED BY <2>1 DEF Scooby!Witnessed
<1>6. ASSUME NEW i \in 1 .. Len(q)
      PROVE  (IF r[i].addr = addr /\ r[i].seen = "unseen"
              THEN [r[i] EXCEPT !.seen = IF r[i].filled THEN "timely" ELSE "late"]
              ELSE r[i])
             = IF q[i].addr = addr THEN ScoobyDemanded(q[i]) ELSE q[i]
  <2>1. q[i] \in ScoobyEntry
    BY DEF ScoobyOpen
  <2>2. CASE q[i].addr = addr /\ q[i].reward = "unset"
    <3>1. r[i] = Scooby!assign_reward(q[i], Type(q[i]))
      BY <1>4, <2>2
    <3>2. r[i].addr = addr
      BY <2>1, <2>2, <3>1 DEF Scooby!assign_reward, ScoobyEntry
    <3> QED BY <2>2, <3>1, <3>2 DEF ScoobyDemanded
  <2>3. CASE q[i].addr # addr
    BY <1>4, <2>3
  <2>4. CASE q[i].addr = addr /\ q[i].reward # "unset"
    BY <1>4, <2>4 DEF ScoobyDemanded
  <2> QED BY <2>2, <2>3, <2>4
<1> QED BY <1>5, <1>6

(* What assign_reward does to an entry.                                     *)
LEMMA ScoobyRewardGiven ==
  ASSUME NEW e \in ScoobyEntry, NEW type \in ScoobyRewards
  PROVE  LET r == Scooby!assign_reward(e, type) IN
         /\ r \in ScoobyEntry /\ r.id = e.id /\ r.addr = e.addr /\ r.filled = e.filled
         /\ r.reward = type /\ r.times = e.times + 1 /\ r.seen = e.seen
<1> DEFINE q == [e EXCEPT !.reward = type]
           r == [q EXCEPT !.times = e.times + 1]
<1>1. Scooby!assign_reward(e, type) = r
  BY DEF Scooby!assign_reward
<1>2. /\ q \in ScoobyEntry /\ q.id = e.id /\ q.addr = e.addr /\ q.filled = e.filled
      /\ q.reward = type /\ q.seen = e.seen /\ e.times + 1 \in Nat
  BY DEF ScoobyEntry
<1>3. \A n \in Nat, p \in ScoobyEntry :
        /\ [p EXCEPT !.times = n] \in ScoobyEntry
        /\ [p EXCEPT !.times = n].id = p.id
        /\ [p EXCEPT !.times = n].addr = p.addr
        /\ [p EXCEPT !.times = n].filled = p.filled
        /\ [p EXCEPT !.times = n].reward = p.reward
        /\ [p EXCEPT !.times = n].times = n
        /\ [p EXCEPT !.times = n].seen = p.seen
  BY DEF ScoobyEntry
<1> HIDE DEF q
<1> QED BY <1>1, <1>2, <1>3

(* Reward and witness agree.                                                *)
LEMMA ScoobyDemandedStaysOpen ==
  ASSUME NEW e \in ScoobyOpen, e.addr # Scooby!NoPrefetch
  PROVE  ScoobyDemanded(e) \in ScoobyOpen /\ ScoobyDemanded(e).id = e.id /\ ScoobyDemanded(e).addr = e.addr
<1>0. e \in ScoobyEntry
  BY DEF ScoobyOpen
<1>1. CASE e.reward = "unset"
  <2> DEFINE type == IF e.filled THEN "correct_timely" ELSE "correct_untimely"
             r == Scooby!assign_reward(e, type)
             f == [r EXCEPT !.seen = IF r.filled THEN "timely" ELSE "late"]
  <2>1. e.times = 0 /\ e.seen = "unseen"
    BY <1>1 DEF ScoobyOpen, Scooby!Truthful
  <2>2. /\ r \in ScoobyEntry /\ r.id = e.id /\ r.addr = e.addr /\ r.filled = e.filled
        /\ r.reward = type /\ r.times = 1 /\ r.seen = "unseen"
    <3>1. type \in ScoobyRewards
      BY DEF ScoobyRewards
    <3> HIDE DEF type
    <3> QED BY <1>0, <2>1, <3>1, ScoobyRewardGiven
  <2>3. ScoobyDemanded(e) = f
    BY <1>1, <2>2 DEF ScoobyDemanded
  <2> HIDE DEF r
  <2>4. /\ f \in ScoobyEntry /\ f.id = e.id /\ f.addr = e.addr /\ f.times = 1
        /\ f.reward = type /\ f.seen = IF e.filled THEN "timely" ELSE "late"
    BY <2>2 DEF ScoobyEntry
  <2> HIDE DEF f
  <2>5. f \in ScoobyOpen
    BY <2>4 DEF ScoobyOpen, Scooby!Truthful
  <2> QED BY <2>3, <2>4, <2>5
<1>2. CASE e.reward # "unset"
  <2>1. e.reward \in {"correct_timely", "correct_untimely"}
    BY <1>2 DEF ScoobyOpen, Scooby!Truthful, ScoobyEntry, ScoobyRewards
  <2>2. e.seen # "unseen"
    BY <2>1 DEF ScoobyOpen, Scooby!Truthful
  <2>3. ScoobyDemanded(e) = e
    BY <1>2, <2>2 DEF ScoobyDemanded
  <2> QED BY <2>3
<1> QED BY <1>1, <1>2

LEMMA ScoobyDemandKeepsLearning ==
  ASSUME NEW q, NEW n, NEW ev, NEW ta, NEW addr, addr # Scooby!NoPrefetch,
         Learning(ScoobyOpen, ScoobyRewarded, Scooby!NoPrefetch, q, n, ev, ta)
  PROVE  LET f == Scooby!Witnessed(Scooby!reward_demand(q, addr), addr) IN
         /\ Learning(ScoobyOpen, ScoobyRewarded, Scooby!NoPrefetch, f, n, ev, ta)
         /\ Len(f) = Len(q)
<1> DEFINE f == [i \in 1 .. Len(q) |-> IF q[i].addr = addr THEN ScoobyDemanded(q[i]) ELSE q[i]]
<1>1. q \in Seq(ScoobyOpen) /\ Once(q, Scooby!NoPrefetch)
  BY DEF Learning, Tracking
<1>2. Scooby!Witnessed(Scooby!reward_demand(q, addr), addr) = f
  BY <1>1, ScoobyDemandInPlace
<1>3. ASSUME NEW i \in 1 .. Len(q)
      PROVE  f[i] \in ScoobyOpen /\ f[i].id = q[i].id /\ f[i].addr = q[i].addr
  <2>1. q[i] \in ScoobyOpen
    BY <1>1
  <2>2. CASE q[i].addr = addr
    BY <2>1, <2>2, ScoobyDemandedStaysOpen
  <2>3. CASE q[i].addr # addr
    BY <2>1, <2>3
  <2> QED BY <2>2, <2>3
<1>4. InPlace(ScoobyOpen, q, f)
  BY <1>3 DEF InPlace
<1> HIDE DEF f
<1>5. Learning(ScoobyOpen, ScoobyRewarded, Scooby!NoPrefetch, f, n, ev, ta) /\ Len(f) = Len(q)
  BY <1>4, ChangedInPlace
<1> QED BY <1>2, <1>5

(* A fill or a hit in the cache changes no number, address or reward.      *)
LEMMA ScoobyArrivalKeepsLearning ==
  ASSUME NEW q, NEW n, NEW ev, NEW ta, NEW found,
         Learning(ScoobyOpen, ScoobyRewarded, Scooby!NoPrefetch, q, n, ev, ta)
  PROVE  LET f == Filled(q, found)  h == Hit(q, found) IN
         /\ Learning(ScoobyOpen, ScoobyRewarded, Scooby!NoPrefetch, f, n, ev, ta) /\ Len(f) = Len(q)
         /\ Learning(ScoobyOpen, ScoobyRewarded, Scooby!NoPrefetch, h, n, ev, ta) /\ Len(h) = Len(q)
<1> DEFINE f == Filled(q, found)
           h == Hit(q, found)
<1>1. DOMAIN q = 1 .. Len(q) /\ \A i \in 1 .. Len(q) : q[i] \in ScoobyOpen
  BY DEF Learning, Tracking
<1>2. ASSUME NEW e \in ScoobyOpen, NEW x \in {[e EXCEPT !.filled = TRUE], [e EXCEPT !.hit = TRUE]}
      PROVE  x \in ScoobyOpen /\ x.id = e.id /\ x.addr = e.addr
  <2>1. e \in ScoobyEntry
    BY DEF ScoobyOpen
  <2>2. /\ x \in ScoobyEntry /\ x.id = e.id /\ x.addr = e.addr /\ x.reward = e.reward
        /\ x.times = e.times /\ x.seen = e.seen
    BY <2>1 DEF ScoobyEntry
  <2> QED BY <2>2 DEF ScoobyOpen, Scooby!Truthful
<1>3. \A i \in 1 .. Len(q) : f[i] \in ScoobyOpen /\ f[i].id = q[i].id /\ f[i].addr = q[i].addr
  BY <1>1, <1>2 DEF Filled
<1>4. \A i \in 1 .. Len(q) : h[i] \in ScoobyOpen /\ h[i].id = q[i].id /\ h[i].addr = q[i].addr
  BY <1>1, <1>2 DEF Hit
<1>5. InPlace(ScoobyOpen, q, f) /\ InPlace(ScoobyOpen, q, h)
  BY <1>1, <1>3, <1>4 DEF InPlace, Filled, Hit
<1> HIDE DEF f, h
<1>6. /\ Learning(ScoobyOpen, ScoobyRewarded, Scooby!NoPrefetch, f, n, ev, ta) /\ Len(f) = Len(q)
      /\ Learning(ScoobyOpen, ScoobyRewarded, Scooby!NoPrefetch, h, n, ev, ta) /\ Len(h) = Len(q)
  BY <1>5, ChangedInPlace
<1> QED BY <1>6 DEF f, h

(* The engine learns from an action with its one reward.                    *)
LEMMA ScoobyTrainTeachesOnce ==
  ASSUME NEW t, ScoobyLearning(t), NEW v
  PROVE  LET u == Scooby!train(t, v) IN
         /\ ScoobyFields(u)
         /\ u.st = t.st /\ u.tracker = t.tracker /\ u.actions = t.actions /\ u.flying = t.flying
         /\ Learns(ScoobyRewarded, t.evicted, t.taught, v, u.taught)
<1>1. CASE t.evicted = <<>>
  BY <1>1 DEF ScoobyLearning, Scooby!train, Learns
<1>2. CASE t.evicted # <<>>
  <2>1. PICK e \in ScoobyOpen : t.evicted = <<e>>
    BY <1>2 DEF ScoobyLearning, Learning, Evicted
  <2> DEFINE due == IF e.reward = "unset" THEN Scooby!reward_evicted(e) ELSE e
             u == [t EXCEPT !.taught = <<due, v>>]
  <2>2. Head(t.evicted) = e /\ t.evicted[1] = e /\ e \in ScoobyEntry
    BY <2>1 DEF ScoobyOpen
  <2>3. Scooby!train(t, v) = u
    BY <1>2, <2>2 DEF Scooby!train
  <2>4. due \in ScoobyRewarded /\ due.id = e.id
    <3>1. CASE e.reward = "unset"
      <4> DEFINE type == IF e.addr = Scooby!NoPrefetch THEN "none" ELSE "incorrect"
      <4>1. type \in ScoobyRewards /\ due = Scooby!assign_reward(e, type)
        BY <3>1 DEF ScoobyRewards, Scooby!reward_evicted
      <4>2. e.times = 0 /\ e.seen = "unseen"
        BY <2>1, <3>1 DEF ScoobyOpen, Scooby!Truthful
      <4>3. /\ due \in ScoobyEntry /\ due.id = e.id /\ due.addr = e.addr
            /\ due.reward = type /\ due.times = 1 /\ due.seen = "unseen"
        <5> HIDE DEF due, type
        <5> QED BY <2>2, <4>1, <4>2, ScoobyRewardGiven
      <4> HIDE DEF due
      <4> QED BY <4>3 DEF ScoobyRewarded, Scooby!Truthful
    <3>2. CASE e.reward # "unset"
      BY <2>1, <3>2 DEF ScoobyOpen, ScoobyRewarded
    <3> QED BY <3>1, <3>2
  <2> HIDE DEF due
  <2>5. /\ ScoobyFields(u) /\ u.taught = <<due, v>>
        /\ u.st = t.st /\ u.tracker = t.tracker /\ u.actions = t.actions /\ u.flying = t.flying
    BY DEF ScoobyLearning, ScoobyFields
  <2>6. Learns(ScoobyRewarded, t.evicted, t.taught, v, u.taught)
    BY <1>2, <2>2, <2>4, <2>5 DEF Learns
  <2> QED BY <2>3, <2>5, <2>6
<1> QED BY <1>1, <1>2

LEMMA ScoobyNewEntryIsOpen ==
  ASSUME NEW addr \in ScoobyAddr, NEW n \in Int
  PROVE  LET e == Scooby!NewEntry(addr, n) IN
         e \in ScoobyOpen /\ e.id = n /\ e.addr = addr /\ e.times = 0
BY DEF Scooby!NewEntry, ScoobyEntry, ScoobyRewards, ScoobyOpen, Scooby!Truthful

(* track: a full tracker gives up its oldest action, which is the successor *)
(* of the action learned from.                                              *)
LEMMA ScoobyTrackKeepsLearning ==
  ASSUME PtSize \in Nat \ {0}, ~TrackMultiple, NEW t, ScoobyLearning(t), NEW addr \in ScoobyAddr
  PROVE  LET u == Scooby!track(t, addr) IN
         /\ ScoobyLearning(u)
         /\ addr = Scooby!NoPrefetch =>
              /\ u.tracker # <<>>
              /\ u.tracker[Len(u.tracker)] = Scooby!NewEntry(addr, t.actions)
<1> DEFINE none == Scooby!NoPrefetch
           full == Len(t.tracker) >= PtSize
           victim == Head(t.tracker)
           e == Scooby!NewEntry(addr, t.actions)
           u == IF full THEN [Scooby!train(t, victim) EXCEPT !.evicted = <<victim>>,
                                                             !.tracker = Tail(@)]
                ELSE t
           v == [u EXCEPT !.tracker = Append(@, e), !.actions = @ + 1]
           known == Scooby!tracked(t, addr) /\ addr # none
<1>1. Scooby!track(t, addr) = IF known THEN t ELSE v
  BY DEF Scooby!track
<1>2. /\ t.tracker \in Seq(ScoobyOpen) /\ Len(t.tracker) \in Nat /\ Once(t.tracker, none)
      /\ t.actions \in Int /\ Len(t.tracker) <= PtSize
      /\ Learning(ScoobyOpen, ScoobyRewarded, none, t.tracker, t.actions, t.evicted, t.taught)
  BY DEF ScoobyLearning, Learning, Tracking
<1>3. ASSUME ~known
      PROVE  addr = none \/ \A i \in 1 .. Len(t.tracker) : t.tracker[i].addr # addr
  <2> SUFFICES ASSUME addr # none
               PROVE  \A i \in 1 .. Len(t.tracker) : t.tracker[i].addr # addr
    OBVIOUS
  <2>1. Scooby!search_pt(t.tracker, addr, FALSE) = {}
    BY <1>3 DEF Scooby!tracked
  <2>2. {i \in 1 .. Len(t.tracker) : t.tracker[i].addr = addr} = {}
    BY ZenonT(60), <1>2, <2>1, ScoobySearchFindsTheLine
  <2> QED BY <2>2
<1>4. /\ ScoobyLearning(u) /\ u.actions = t.actions /\ Len(u.tracker) < PtSize
      /\ \A i \in 1 .. Len(u.tracker) : \E j \in 1 .. Len(t.tracker) :
           u.tracker[i].addr = t.tracker[j].addr
  <2>1. CASE full
    <3> DEFINE w == Scooby!train(t, victim)
    <3>0. u = [w EXCEPT !.evicted = <<victim>>, !.tracker = Tail(@)]
      BY <2>1
    <3>1. t.tracker # <<>>
      BY <1>2, <2>1
    <3>2. /\ ScoobyFields(w)
          /\ w.st = t.st /\ w.tracker = t.tracker /\ w.actions = t.actions /\ w.flying = t.flying
          /\ Learns(ScoobyRewarded, t.evicted, t.taught, victim, w.taught)
      BY ScoobyTrainTeachesOnce
    <3> HIDE DEF w
    <3>3. /\ Learning(ScoobyOpen, ScoobyRewarded, none, Tail(t.tracker), t.actions, <<victim>>, w.taught)
          /\ Len(Tail(t.tracker)) = Len(t.tracker) - 1
          /\ \A i \in 1 .. Len(Tail(t.tracker)) :
               i + 1 \in 1 .. Len(t.tracker) /\ Tail(t.tracker)[i] = t.tracker[i + 1]
      <4> HIDE DEF none
      <4> QED BY <1>2, <3>1, <3>2, OldestEvicted
    <3>4. /\ ScoobyFields(u) /\ u.actions = t.actions /\ u.tracker = Tail(t.tracker)
          /\ u.evicted = <<victim>> /\ u.taught = w.taught
      BY <3>0, <3>2 DEF ScoobyFields
    <3> HIDE DEF u, victim
    <3>5. ScoobyLearning(u) /\ Len(u.tracker) < PtSize
      BY <1>2, <3>3, <3>4 DEF ScoobyLearning
    <3> QED BY <3>3, <3>4, <3>5
  <2>2. CASE ~full
    BY <1>2, <2>2
  <2> QED BY <2>1, <2>2
<1>5. CASE known
  BY <1>1, <1>5
<1>6. CASE ~known
  <2> HIDE DEF u, none
  <2>1. e \in ScoobyOpen /\ e.id = t.actions /\ e.addr = addr
    BY <1>2, ScoobyNewEntryIsOpen
  <2> HIDE DEF e
  <2>2. e.addr = none \/ \A i \in 1 .. Len(u.tracker) : u.tracker[i].addr # e.addr
    BY <1>3, <1>4, <1>6, <2>1
  <2>3. Learning(ScoobyOpen, ScoobyRewarded, none, u.tracker, t.actions, u.evicted, u.taught) /\ ScoobyFields(u)
    BY <1>4 DEF ScoobyLearning, none
  <2>4. LET r == Append(u.tracker, e) IN
        /\ Learning(ScoobyOpen, ScoobyRewarded, none, r, t.actions + 1, u.evicted, u.taught)
        /\ Len(r) = Len(u.tracker) + 1 /\ r # <<>> /\ r[Len(r)] = e
    BY <2>1, <2>2, <2>3, ActionTaken
  <2>5. /\ ScoobyFields(v) /\ v.tracker = Append(u.tracker, e) /\ v.actions = t.actions + 1
        /\ v.evicted = u.evicted /\ v.taught = u.taught
    <3>1. v = [u EXCEPT !.tracker = Append(@, e), !.actions = @ + 1]
      BY DEF e
    <3> HIDE DEF v
    <3> QED BY <1>4, <2>3, <3>1 DEF ScoobyFields
  <2>6. Scooby!track(t, addr) = v
    BY <1>1, <1>6
  <2> HIDE DEF v
  <2>7. Len(u.tracker) \in Nat
    BY <2>3 DEF Learning, Tracking
  <2>8. ScoobyLearning(v)
    BY <1>4, <2>4, <2>5, <2>7 DEF ScoobyLearning, none
  <2> QED BY <2>4, <2>5, <2>6, <2>8 DEF e
<1> QED BY <1>5, <1>6

LEMMA ScoobyTrackRewardedKeepsLearning ==
  ASSUME PtSize \in Nat \ {0}, ~TrackMultiple, NEW t, ScoobyLearning(t),
         NEW type \in {"out_of_bounds", "tracker_hit"}
  PROVE  ScoobyLearning(Scooby!track_rewarded(t, type))
<1> DEFINE u == Scooby!track(t, Scooby!NoPrefetch)
           e == Scooby!NewEntry(Scooby!NoPrefetch, t.actions)
           last == Len(u.tracker)
           r == Scooby!assign_reward(e, type)
           f == [u.tracker EXCEPT ![last] = r]
           v == [u EXCEPT !.tracker = f]
<1>1. Scooby!NoPrefetch \in ScoobyAddr /\ t.actions \in Int
  BY DEF ScoobyAddr, ScoobyLearning, Learning, Tracking
<1>2. ScoobyLearning(u) /\ u.tracker # <<>> /\ u.tracker[last] = e
  BY <1>1, ScoobyTrackKeepsLearning
<1>3. e \in ScoobyEntry /\ e.addr = Scooby!NoPrefetch /\ e.times = 0
  BY <1>1, ScoobyNewEntryIsOpen DEF ScoobyOpen
<1>4. Scooby!track_rewarded(t, type) = [u EXCEPT !.tracker[last] = r]
  BY <1>2 DEF Scooby!track_rewarded
<1> HIDE DEF u, e
<1>5. [u EXCEPT !.tracker[last] = r] = v
  OBVIOUS
<1>6. r \in ScoobyOpen /\ r.id = e.id /\ r.addr = e.addr
  <2>1. type \in ScoobyRewards
    BY DEF ScoobyRewards
  <2>2. /\ r \in ScoobyEntry /\ r.id = e.id /\ r.addr = e.addr
        /\ r.reward = type /\ r.times = 1
    BY <1>3, <2>1, ScoobyRewardGiven
  <2> HIDE DEF r
  <2> QED BY <1>3, <2>2 DEF ScoobyOpen, Scooby!Truthful
<1> HIDE DEF r
<1>7. /\ u.tracker \in Seq(ScoobyOpen) /\ last \in 1 .. Len(u.tracker) /\ ScoobyFields(u)
      /\ Learning(ScoobyOpen, ScoobyRewarded, Scooby!NoPrefetch, u.tracker, u.actions, u.evicted, u.taught)
  BY <1>2 DEF ScoobyLearning, Learning, Tracking
<1>8. \A i \in 1 .. Len(u.tracker) :
        f[i] \in ScoobyOpen /\ f[i].id = u.tracker[i].id /\ f[i].addr = u.tracker[i].addr
  BY <1>2, <1>6, <1>7
<1>9. InPlace(ScoobyOpen, u.tracker, f)
  BY <1>7, <1>8 DEF InPlace
<1> HIDE DEF f
<1>10. /\ Learning(ScoobyOpen, ScoobyRewarded, Scooby!NoPrefetch, f, u.actions, u.evicted, u.taught)
       /\ Len(f) = Len(u.tracker)
  BY <1>7, <1>9, ChangedInPlace
<1>11. /\ ScoobyFields(v) /\ v.evicted = u.evicted /\ v.taught = u.taught /\ v.actions = u.actions
       /\ v.tracker = f
  BY <1>7 DEF ScoobyFields
<1> HIDE DEF v
<1>12. ScoobyLearning(v)
  BY <1>2, <1>10, <1>11 DEF ScoobyLearning
<1> QED BY <1>4, <1>5, <1>12

LEMMA ScoobyPredictKeepsLearning ==
  ASSUME PtSize \in Nat \ {0}, ~TrackMultiple, Actions \subseteq Int, Blocks \in Nat,
         NEW t, ScoobyLearning(t), NEW page \in Page, NEW block \in 0 .. Blocks - 1,
         NEW action \in Actions
  PROVE  ScoobyLearning(Scooby!predict(t, page, block, action))
<1> DEFINE target == block + action
           addr == <<page, target>>
           u == Scooby!track(t, addr)
           degree == Scooby!History!get_dyn_pref_degree(t.st, page, action, Thresholds, Degrees)
           v == [u EXCEPT !.st = Scooby!History!track_in_st(@, page, target, action),
                          !.flying = @ \cup {addr}
                                \cup Scooby!gen_multi_degree_pref(page, block, action, degree)]
<1>1. Scooby!NoPrefetch \in ScoobyAddr /\ addr \in ScoobyAddr
  BY DEF ScoobyAddr
<1>2. ScoobyLearning(u) /\ ScoobyLearning(Scooby!track(t, Scooby!NoPrefetch))
  <2> HIDE DEF addr
  <2> QED BY <1>1, ScoobyTrackKeepsLearning
<1>3. ScoobyLearning(Scooby!track_rewarded(t, "out_of_bounds"))
  BY ScoobyTrackRewardedKeepsLearning
<1>4. ScoobyLearning(Scooby!track_rewarded(u, "tracker_hit"))
  <2> HIDE DEF u
  <2> QED BY <1>2, ScoobyTrackRewardedKeepsLearning
<1>5. ScoobyLearning(v)
  <2> HIDE DEF u
  <2>1. ScoobyFields(u)
    BY <1>2 DEF ScoobyLearning
  <2>2. PICK x, y : v = [u EXCEPT !.st = x, !.flying = y]
    OBVIOUS
  <2> HIDE DEF v
  <2>3. /\ ScoobyFields(v) /\ v.evicted = u.evicted /\ v.taught = u.taught /\ v.actions = u.actions
        /\ v.tracker = u.tracker
    BY <2>1, <2>2 DEF ScoobyFields
  <2> QED BY <1>2, <2>1, <2>3 DEF ScoobyLearning
<1>6. Scooby!predict(t, page, block, action)
        = IF action = 0 THEN Scooby!track(t, Scooby!NoPrefetch)
          ELSE IF ~Scooby!InPage(target)
          THEN IF RewardOutOfBounds THEN Scooby!track_rewarded(t, "out_of_bounds") ELSE t
          ELSE IF Scooby!tracked(t, addr)
          THEN IF RewardTrackerHit THEN Scooby!track_rewarded(u, "tracker_hit") ELSE u
          ELSE v
  BY DEF Scooby!predict
<1> HIDE DEF v, u, addr, target
<1> QED BY <1>2, <1>3, <1>4, <1>5, <1>6

LEMMA ScoobyInit == PtSize \in Nat \ {0} /\ Scooby!Init => ScoobyLearning(s)
<1> SUFFICES ASSUME PtSize \in Nat \ {0}, Scooby!Init PROVE ScoobyLearning(s)
  OBVIOUS
<1>1. /\ ScoobyFields(s) /\ s.actions = 0 /\ s.tracker = <<>> /\ s.evicted = <<>> /\ s.taught = <<>>
  BY DEF Scooby!Init, ScoobyFields
<1>2. Learning(ScoobyOpen, ScoobyRewarded, Scooby!NoPrefetch, <<>>, 0, <<>>, <<>>)
  BY DEF Learning, Tracking, Once, Numbered, Evicted, Taught
<1> QED BY <1>1, <1>2 DEF ScoobyLearning

LEMMA ScoobyStep ==
  ASSUME PtSize \in Nat \ {0}, ~TrackMultiple, Actions \subseteq Int, Blocks \in Nat,
         ScoobyLearning(s), [Scooby!Next]_s
  PROVE  ScoobyLearning(s')
<1>1. /\ ScoobyFields(s) /\ Len(s.tracker) <= PtSize
      /\ Learning(ScoobyOpen, ScoobyRewarded, Scooby!NoPrefetch, s.tracker, s.actions, s.evicted, s.taught)
  BY DEF ScoobyLearning
<1>2. CASE Scooby!invoke_prefetcher
  <2>1. PICK page \in Page, block \in 0 .. (Blocks - 1), action \in Actions :
          s' = Scooby!predict([s EXCEPT
                 !.tracker = Scooby!Witnessed(Scooby!reward_demand(@, <<page, block>>), <<page, block>>),
                 !.st = Scooby!History!update_local_state(@, page)], page, block, action)
    BY <1>2 DEF Scooby!invoke_prefetcher
  <2> DEFINE addr == <<page, block>>
             q == Scooby!Witnessed(Scooby!reward_demand(s.tracker, addr), addr)
  <2>2. PICK x : x = Scooby!History!update_local_state(s.st, page)
    OBVIOUS
  <2> DEFINE t == [s EXCEPT !.tracker = q, !.st = x]
  <2>3. addr # Scooby!NoPrefetch
    BY DEF Scooby!NoPrefetch
  <2>4. /\ Learning(ScoobyOpen, ScoobyRewarded, Scooby!NoPrefetch, q, s.actions, s.evicted, s.taught)
        /\ Len(q) = Len(s.tracker)
    <3> HIDE DEF addr
    <3>1. \A p, n, ev, ta : Learning(ScoobyOpen, ScoobyRewarded, Scooby!NoPrefetch, p, n, ev, ta) =>
            LET f == Scooby!Witnessed(Scooby!reward_demand(p, addr), addr) IN
            /\ Learning(ScoobyOpen, ScoobyRewarded, Scooby!NoPrefetch, f, n, ev, ta)
            /\ Len(f) = Len(p)
      BY <2>3, ScoobyDemandKeepsLearning
    <3> QED BY <1>1, <3>1
  <2>5. s' = Scooby!predict(t, page, block, action)
    BY <2>1, <2>2
  <2> HIDE DEF q
  <2>6. /\ ScoobyFields(t) /\ t.tracker = q /\ t.evicted = s.evicted /\ t.taught = s.taught
        /\ t.actions = s.actions
    <3>1. t = [s EXCEPT !.tracker = q, !.st = x]
      OBVIOUS
    <3> HIDE DEF t
    <3> QED BY <1>1, <3>1 DEF ScoobyFields
  <2> HIDE DEF t
  <2>7. ScoobyLearning(t)
    BY <1>1, <2>4, <2>6 DEF ScoobyLearning
  <2> QED BY <2>5, <2>7, ScoobyPredictKeepsLearning
<1>3. CASE Scooby!register_fill \/ Scooby!register_prefetch_hit
  <2>1. PICK found, x : \/ s' = [s EXCEPT !.flying = x, !.tracker = Filled(@, found)]
                        \/ s' = [s EXCEPT !.flying = x, !.tracker = Hit(@, found)]
    BY <1>3 DEF Scooby!register_fill, Scooby!register_prefetch_hit, Filled, Hit
  <2> DEFINE f == Filled(s.tracker, found)
             h == Hit(s.tracker, found)
  <2>2. s' = [s EXCEPT !.flying = x, !.tracker = f] \/ s' = [s EXCEPT !.flying = x, !.tracker = h]
    BY <2>1
  <2>3. /\ Learning(ScoobyOpen, ScoobyRewarded, Scooby!NoPrefetch, f, s.actions, s.evicted, s.taught)
        /\ Len(f) = Len(s.tracker)
        /\ Learning(ScoobyOpen, ScoobyRewarded, Scooby!NoPrefetch, h, s.actions, s.evicted, s.taught)
        /\ Len(h) = Len(s.tracker)
    BY SMTT(60), <1>1, ScoobyArrivalKeepsLearning
  <2> HIDE DEF f, h
  <2>4. PICK q : /\ Learning(ScoobyOpen, ScoobyRewarded, Scooby!NoPrefetch, q, s.actions, s.evicted, s.taught)
                 /\ Len(q) = Len(s.tracker)
                 /\ s' = [s EXCEPT !.flying = x, !.tracker = q]
    BY <2>2, <2>3
  <2>5. /\ ScoobyFields(s') /\ s'.tracker = q /\ s'.evicted = s.evicted /\ s'.taught = s.taught
        /\ s'.actions = s.actions
    BY <1>1, <2>4 DEF ScoobyFields
  <2> QED BY SMTT(60), <1>1, <2>4, <2>5 DEF ScoobyLearning
<1>4. CASE s' = s
  BY <1>4
<1> QED BY <1>2, <1>3, <1>4 DEF Scooby!Next

(* Scooby learns from every action once, in the order the actions were     *)
(* taken, with the action taken next as its successor and with one reward,  *)
(* which says what happened to its line while it was tracked: the           *)
(* assertions of reward, assign_reward and train in scooby.cc never fail.   *)
THEOREM ScoobyLearnsFromEachActionOnce ==
  ASSUME PtSize \in Nat \ {0}, ~TrackMultiple, Actions \subseteq Int, Blocks \in Nat
  PROVE  Scooby!Spec => []Scooby!LearnsFromEachActionOnce
<1>1. Scooby!Init => ScoobyLearning(s)
  BY ScoobyInit
<1>2. ScoobyLearning(s) /\ [Scooby!Next]_s => ScoobyLearning(s)'
  BY ScoobyStep
<1>3. ScoobyLearning(s) => Scooby!LearnsFromEachActionOnce
  <2> SUFFICES ASSUME ScoobyLearning(s) PROVE Scooby!LearnsFromEachActionOnce
    OBVIOUS
  <2>1. InOrder(ScoobyOpen, s.evicted \o s.tracker, s.actions)
    BY WaitingInOrder DEF ScoobyLearning
  <2>2. s.taught # <<>> =>
          /\ s.taught[1].times = 1 /\ Scooby!Truthful(s.taught[1])
          /\ s.taught[2].id = s.taught[1].id + 1
          /\ s.taught[2] = s.evicted[1]
    BY DEF ScoobyLearning, Learning, Taught, ScoobyRewarded
  <2>3. Len(s.tracker) <= PtSize
    BY DEF ScoobyLearning
  <2> QED BY <2>1, <2>2, <2>3 DEF Scooby!LearnsFromEachActionOnce, InOrder, ScoobyOpen
<1> QED BY <1>1, <1>2, <1>3, PTL DEF Scooby!Spec

-----------------------------------------------------------------------------
(* RLP.  Its irregular engine never acts: its tables and its history of     *)
(* states are empty, so that it knows no line to prefetch, and no entry of  *)
(* the queue is its own.                                                    *)
RlpRewards == {"unset", "correct_timely", "correct_untimely", "incorrect", "none"}
RlpEntry == [id : Int, addr : Int, state : State, action : Int, ir : {FALSE},
             filled : BOOLEAN, hit : BOOLEAN, reward : RlpRewards, times : Nat,
             seen : {"unseen", "timely", "late"}]

NothingKnown == [x \in State |-> [w \in 0 .. (IrSets - 1) |-> <<>>]]

RlpFields(t) ==
  t = [st |-> t.st, queue |-> t.queue, hsq |-> t.hsq, table |-> t.table,
       irEvicted |-> t.irEvicted, rpEvicted |-> t.rpEvicted, handed |-> t.handed,
       actions |-> t.actions, flying |-> t.flying]

Silent(t) ==
  /\ RlpFields(t) /\ t.actions \in Int /\ t.queue \in Seq(RlpEntry)
  /\ t.hsq = <<>> /\ t.irEvicted = <<>> /\ t.table = NothingKnown

(* updateQ enters no action into a set that does not hold it.               *)
Known(table, a, b, c) == [table EXCEPT ![a][b] = Rlp!updateQ(@, c)]

LEMMA NothingLearned ==
  ASSUME NEW a, NEW b, NEW c PROVE Known(NothingKnown, a, b, c) = NothingKnown
<1> DEFINE row == [w \in 0 .. (IrSets - 1) |-> <<>>]
           new == [row EXCEPT ![b] = Rlp!updateQ(@, c)]
<1>1. Rlp!updateQ(<<>>, c) = <<>>
  BY DEF Rlp!updateQ, Rlp!ToSet
<1>2. new = row
  <2>1. new = [w \in 0 .. (IrSets - 1) |-> IF w = b THEN Rlp!updateQ(row[w], c) ELSE row[w]]
    BY <1>1
  <2> QED BY <1>1, <2>1
<1>3. \A x \in State : NothingKnown[x] = row
  BY DEF NothingKnown
<1>4. Known(NothingKnown, a, b, c)
        = [NothingKnown EXCEPT ![a] = [NothingKnown[a] EXCEPT ![b] = Rlp!updateQ(@, c)]]
  BY DEF Known
<1> HIDE DEF row
<1>5. CASE a \in State
  <2>1. [NothingKnown[a] EXCEPT ![b] = Rlp!updateQ(@, c)] = row
    BY <1>2, <1>3, <1>5
  <2>2. [NothingKnown EXCEPT ![a] = row] = NothingKnown
    BY <1>3, <1>5 DEF NothingKnown
  <2> QED BY <1>4, <2>1, <2>2
<1>6. CASE a \notin State
  BY <1>4, <1>6 DEF NothingKnown
<1> QED BY <1>5, <1>6

LEMMA IrregularEngineIdle ==
  ASSUME NEW t, Silent(t), NEW line, NEW state \in State, NEW prefetch
  PROVE  /\ Rlp!Chosen(t, state) = {Rlp!NoPrefetch}
         /\ Rlp!ir_predict(t, line, state, Rlp!NoPrefetch, prefetch) = t
<1>1. \A w \in 0 .. (IrSets - 1) : Rlp!ToSet(t.table[state][w]) = {}
  BY DEF Silent, NothingKnown, Rlp!ToSet
<1>2. Rlp!Chosen(t, state) = {Rlp!NoPrefetch}
  BY <1>1 DEF Rlp!Chosen
<1>3. Rlp!ir_track(t, Rlp!NoPrefetch, line, state, prefetch) = t
  BY DEF Rlp!ir_track
<1>4. Rlp!ir_predict(t, line, state, Rlp!NoPrefetch, prefetch) = t
  BY <1>3 DEF Rlp!ir_predict
<1> QED BY <1>2, <1>4

(* RpEvict: the oldest entry of a full queue leaves, and ir_train is handed *)
(* the one before it.                                                       *)
Due(e) == IF e.reward = "unset" THEN Rlp!reward_evicted(e) ELSE e

RlpEvicts(t, w) ==
  /\ RlpFields(w)
  /\ w.st = t.st /\ w.actions = t.actions /\ w.flying = t.flying
  /\ w.hsq = t.hsq /\ w.irEvicted = t.irEvicted /\ w.table = t.table
  /\ w.rpEvicted = <<Head(t.queue)>> /\ w.queue = Tail(t.queue)
  /\ w.handed = IF t.rpEvicted = <<>> THEN t.handed
                ELSE <<Due(Head(t.rpEvicted)), Head(t.queue)>>

LEMMA RpEvictEvicts ==
  ASSUME NEW t, Silent(t)
  PROVE  IF Len(t.queue) < QueueSize THEN Rlp!RpEvict(t) = t ELSE RlpEvicts(t, Rlp!RpEvict(t))
<1> DEFINE victim == Head(t.queue)
           last == Head(t.rpEvicted)
           u == IF t.rpEvicted = <<>> THEN t ELSE Rlp!ir_train(t, last, victim)
           w == [u EXCEPT !.rpEvicted = <<victim>>, !.queue = Tail(@)]
<1>1. Rlp!RpEvict(t) = IF Len(t.queue) < QueueSize THEN t ELSE w
  BY DEF Rlp!RpEvict
<1>2. /\ RlpFields(u) /\ u.st = t.st /\ u.actions = t.actions /\ u.flying = t.flying
      /\ u.hsq = t.hsq /\ u.irEvicted = t.irEvicted /\ u.table = t.table /\ u.queue = t.queue
      /\ u.handed = IF t.rpEvicted = <<>> THEN t.handed ELSE <<Due(last), victim>>
  <2>1. CASE t.rpEvicted = <<>>
    BY <2>1 DEF Silent
  <2>2. CASE t.rpEvicted # <<>>
    <3> DEFINE due == Due(last)
               table == [t.table EXCEPT ![last.state][last.action % IrSets]
                                          = Rlp!updateQ(@, last.action)]
    <3>1. u = [t EXCEPT !.handed = <<due, victim>>, !.table = table]
      BY <2>2 DEF Rlp!ir_train, Due
    <3>2. table = t.table
      <4>1. t.table = NothingKnown
        BY DEF Silent
      <4>2. table = Known(t.table, last.state, last.action % IrSets, last.action)
        BY DEF Known
      <4> HIDE DEF table, last
      <4> QED BY <4>1, <4>2, NothingLearned
    <3> HIDE DEF u, due, table
    <3>3. RlpFields(t)
      BY DEF Silent
    <3>4. /\ RlpFields(u) /\ u.st = t.st /\ u.actions = t.actions /\ u.flying = t.flying
          /\ u.hsq = t.hsq /\ u.irEvicted = t.irEvicted /\ u.table = t.table
          /\ u.queue = t.queue /\ u.handed = <<due, victim>>
      BY <3>1, <3>2, <3>3 DEF RlpFields
    <3> QED BY <2>2, <3>4 DEF due
  <2> QED BY <2>1, <2>2
<1> HIDE DEF u
<1>3. /\ RlpFields(w) /\ w.st = u.st /\ w.actions = u.actions /\ w.flying = u.flying
      /\ w.hsq = u.hsq /\ w.irEvicted = u.irEvicted /\ w.table = u.table /\ w.handed = u.handed
      /\ w.rpEvicted = <<victim>> /\ w.queue = Tail(u.queue)
  <2>1. w = [u EXCEPT !.rpEvicted = <<victim>>, !.queue = Tail(@)]
    OBVIOUS
  <2> HIDE DEF w, victim
  <2> QED BY <1>2, <2>1 DEF RlpFields
<1> HIDE DEF w
<1>4. RlpEvicts(t, w)
  BY <1>2, <1>3 DEF RlpEvicts
<1> QED BY <1>1, <1>4

LEMMA RlpNewEntry ==
  ASSUME NEW addr \in Int, NEW state \in State, NEW action \in Int, NEW n \in Int
  PROVE  LET e == Rlp!NewEntry(addr, state, action, FALSE, n) IN
         /\ e \in RlpEntry /\ e.id = n /\ e.addr = addr
         /\ e.times = 0 /\ e.reward = "unset" /\ e.seen = "unseen"
BY DEF Rlp!NewEntry, RlpEntry, RlpRewards

(* What rp_track does when it takes an action: an eviction from a full      *)
(* queue, then a new entry.                                                 *)
RlpTakes(t, w, v, e) ==
  /\ IF Len(t.queue) < QueueSize THEN w = t ELSE RlpEvicts(t, w)
  /\ RlpFields(v)
  /\ v.st = w.st /\ v.flying = w.flying
  /\ v.hsq = w.hsq /\ v.irEvicted = w.irEvicted /\ v.table = w.table
  /\ v.rpEvicted = w.rpEvicted /\ v.handed = w.handed
  /\ v.queue = Append(w.queue, e) /\ v.actions = w.actions + 1

LEMMA RpTrackTakes ==
  ASSUME NEW t, Silent(t), NEW addr, NEW state, NEW action, NEW prefetch
  PROVE  LET v == Rlp!rp_track(t, addr, state, action, prefetch) IN
         \/ v = t
         \/ /\ RlpTakes(t, Rlp!RpEvict(t), v, Rlp!NewEntry(addr, state, action, FALSE, t.actions))
            /\ Rlp!rp_search_pq(t.queue, addr) = {} \/ addr = Rlp!NoPrefetch \/ TrackMultiple
<1> DEFINE w == Rlp!RpEvict(t)
           e == Rlp!NewEntry(addr, state, action, FALSE, t.actions)
           v == [w EXCEPT !.queue = Append(@, e), !.actions = @ + 1]
           stays == \/ /\ Rlp!rp_search_pq(t.queue, addr) # {} /\ addr # Rlp!NoPrefetch
                       /\ ~TrackMultiple
                    \/ ~prefetch
<1>1. Rlp!rp_track(t, addr, state, action, prefetch) = IF stays THEN t ELSE v
  BY DEF Rlp!rp_track, Rlp!Queued
<1>2. IF Len(t.queue) < QueueSize THEN w = t ELSE RlpEvicts(t, w)
  BY RpEvictEvicts
<1>3. RlpFields(w)
  BY <1>2 DEF Silent, RlpEvicts
<1> HIDE DEF w, e
<1>4. RlpTakes(t, w, v, e)
  <2>1. v = [w EXCEPT !.queue = Append(@, e), !.actions = @ + 1]
    OBVIOUS
  <2> HIDE DEF v
  <2>2. /\ RlpFields(v)
        /\ v.st = w.st /\ v.flying = w.flying
        /\ v.hsq = w.hsq /\ v.irEvicted = w.irEvicted /\ v.table = w.table
        /\ v.rpEvicted = w.rpEvicted /\ v.handed = w.handed
        /\ v.queue = Append(w.queue, e) /\ v.actions = w.actions + 1
    BY <1>3, <2>1 DEF RlpFields
  <2> QED BY <1>2, <2>2 DEF RlpTakes
<1> HIDE DEF v
<1> QED BY <1>1, <1>4 DEF w, e

LEMMA RpTrackStaysSilent ==
  ASSUME QueueSize \in Nat \ {0}, NEW t, Silent(t),
         NEW addr \in Int, NEW state \in State, NEW action \in Int, NEW prefetch
  PROVE  Silent(Rlp!rp_track(t, addr, state, action, prefetch))
<1> DEFINE w == Rlp!RpEvict(t)
           v == Rlp!rp_track(t, addr, state, action, prefetch)
           e == Rlp!NewEntry(addr, state, action, FALSE, t.actions)
<1>1. v = t \/ RlpTakes(t, w, v, e)
  BY RpTrackTakes
<1>2. e \in RlpEntry
  BY RlpNewEntry DEF Silent
<1> HIDE DEF w, v, e
<1>3. ASSUME RlpTakes(t, w, v, e) PROVE Silent(v)
  <2>1. /\ w.queue \in Seq(RlpEntry) /\ w.actions \in Int
        /\ w.hsq = <<>> /\ w.irEvicted = <<>> /\ w.table = NothingKnown
    <3>1. CASE Len(t.queue) < QueueSize
      BY <1>3, <3>1 DEF RlpTakes, Silent
    <3>2. CASE ~(Len(t.queue) < QueueSize)
      <4>1. t.queue \in Seq(RlpEntry) /\ t.queue # <<>>
        BY <3>2 DEF Silent
      <4>2. Tail(t.queue) \in Seq(RlpEntry)
        BY <4>1
      <4> QED BY <1>3, <3>2, <4>2 DEF RlpTakes, RlpEvicts, Silent
    <3> QED BY <3>1, <3>2
  <2>2. Append(w.queue, e) \in Seq(RlpEntry)
    BY <1>2, <2>1
  <2> QED BY <1>3, <2>1, <2>2 DEF RlpTakes, Silent
<1> QED BY <1>1, <1>3 DEF v

(* The fields the irregular engine reads.                                   *)
LEMMA StillSilent ==
  ASSUME NEW t, Silent(t), NEW u, RlpFields(u), u.actions = t.actions,
         u.queue \in Seq(RlpEntry), u.hsq = t.hsq, u.irEvicted = t.irEvicted, u.table = t.table
  PROVE  Silent(u)
BY DEF Silent

(* rp_predict tracks its action or leaves the queue as it is; it may change *)
(* the history of pages and the prefetches in flight.                       *)
Besides(t, u) ==
  /\ RlpFields(u) /\ u.queue = t.queue /\ u.actions = t.actions
  /\ u.hsq = t.hsq /\ u.irEvicted = t.irEvicted /\ u.table = t.table
  /\ u.rpEvicted = t.rpEvicted /\ u.handed = t.handed

LEMMA BesidesTheQueue ==
  ASSUME NEW t, RlpFields(t), NEW x, NEW y
  PROVE  Besides(t, [t EXCEPT !.st = x]) /\ Besides(t, [[t EXCEPT !.st = x] EXCEPT !.flying = y])
<1> DEFINE u == [t EXCEPT !.st = x]
           v == [u EXCEPT !.flying = y]
<1>1. Besides(t, u)
  BY DEF RlpFields, Besides
<1> HIDE DEF u
<1>2. Besides(t, v)
  BY <1>1 DEF RlpFields, Besides
<1> QED BY <1>1, <1>2 DEF u

LEMMA RpPredictTracks ==
  ASSUME Pages \in Nat, Blocks \in Nat, Actions \subseteq Int, NEW t,
         NEW page \in 1 .. Pages, NEW block \in 0 .. (Blocks - 1), NEW state \in State,
         NEW action \in Actions, NEW prefetch,
         \A addr \in Int : RlpFields(Rlp!rp_track(t, addr, state, action, prefetch))
  PROVE  LET v == Rlp!rp_predict(t, page, block, state, action, prefetch) IN
         \/ v = t
         \/ \E addr \in Int : LET u == Rlp!rp_track(t, addr, state, action, prefetch) IN
              v = u \/ Besides(u, v)
<1> DEFINE target == block + action
           addr == Rlp!Line(page, target)
           degree == Rlp!rp_get_dyn_pref_degree(t.st, page, action)
           u == Rlp!rp_track(t, addr, state, action, prefetch)
           v == [u EXCEPT !.st = Rlp!track_in_st(@, page, target, action)]
           w == [v EXCEPT !.flying = @ \cup {addr}
                     \cup Rlp!rp_gen_multi_degree_pref(page, block, action, degree)]
<1>1. addr \in Int /\ Rlp!NoPrefetch \in Int
  BY DEF Rlp!Line, Rlp!NoPrefetch
<1>2. Rlp!rp_predict(t, page, block, state, action, prefetch)
        = IF action = 0 THEN Rlp!rp_track(t, Rlp!NoPrefetch, state, action, prefetch)
          ELSE IF ~Rlp!InPage(target) THEN t
          ELSE IF Rlp!rp_search_pq(t.queue, addr) # {} THEN u
          ELSE IF ~prefetch THEN v
          ELSE w
  BY DEF Rlp!rp_predict
<1>3. PICK x, y : v = [u EXCEPT !.st = x] /\ w = [v EXCEPT !.flying = y]
  OBVIOUS
<1> HIDE DEF v, w
<1>4. RlpFields(u)
  <2> HIDE DEF addr
  <2> QED BY <1>1
<1> HIDE DEF u
<1>5. Besides(u, v) /\ Besides(u, w)
  BY <1>3, <1>4, BesidesTheQueue
<1> HIDE DEF addr, target
<1> QED BY <1>1, <1>2, <1>5 DEF u

LEMMA RpPredictStaysSilent ==
  ASSUME QueueSize \in Nat \ {0}, Pages \in Nat, Blocks \in Nat, Actions \subseteq Int,
         NEW t, Silent(t),
         NEW page \in 1 .. Pages, NEW block \in 0 .. (Blocks - 1), NEW state \in State,
         NEW action \in Actions, NEW prefetch
  PROVE  Silent(Rlp!rp_predict(t, page, block, state, action, prefetch))
<1> DEFINE v == Rlp!rp_predict(t, page, block, state, action, prefetch)
<1>1. \A addr \in Int : Silent(Rlp!rp_track(t, addr, state, action, prefetch))
  BY RpTrackStaysSilent
<1>2. \/ v = t
      \/ \E addr \in Int : LET u == Rlp!rp_track(t, addr, state, action, prefetch) IN
           v = u \/ Besides(u, v)
  BY <1>1, RpPredictTracks DEF Silent
<1> HIDE DEF v
<1>3. CASE v = t
  BY <1>3 DEF v
<1>4. CASE v # t
  <2>1. PICK u : Silent(u) /\ (v = u \/ Besides(u, v))
    BY <1>1, <1>2, <1>4
  <2>2. Silent(v)
    BY <2>1 DEF Silent, Besides
  <2> QED BY <2>2 DEF v
<1> QED BY <1>3, <1>4

(* What assign_reward does to an entry.                                     *)
LEMMA RlpRewardGiven ==
  ASSUME NEW e \in RlpEntry, NEW type \in RlpRewards
  PROVE  LET r == Rlp!assign_reward(e, type) IN
         /\ r \in RlpEntry /\ r.id = e.id /\ r.addr = e.addr /\ r.filled = e.filled
         /\ r.reward = type /\ r.times = e.times + 1 /\ r.seen = e.seen
<1> DEFINE q == [e EXCEPT !.reward = type]
           r == [q EXCEPT !.times = e.times + 1]
<1>1. Rlp!assign_reward(e, type) = r
  BY DEF Rlp!assign_reward
<1>2. /\ q \in RlpEntry /\ q.id = e.id /\ q.addr = e.addr /\ q.filled = e.filled
      /\ q.reward = type /\ q.seen = e.seen /\ e.times + 1 \in Nat
  <2>1. q \in RlpEntry
    BY DEF RlpEntry
  <2>2. /\ q.id = e.id /\ q.addr = e.addr /\ q.filled = e.filled
        /\ q.reward = type /\ q.seen = e.seen /\ e.times + 1 \in Nat
    BY DEF RlpEntry
  <2> QED BY <2>1, <2>2
<1>3. \A n \in Nat, p \in RlpEntry :
        /\ [p EXCEPT !.times = n] \in RlpEntry
        /\ [p EXCEPT !.times = n].id = p.id
        /\ [p EXCEPT !.times = n].addr = p.addr
        /\ [p EXCEPT !.times = n].filled = p.filled
        /\ [p EXCEPT !.times = n].reward = p.reward
        /\ [p EXCEPT !.times = n].times = n
        /\ [p EXCEPT !.times = n].seen = p.seen
  BY DEF RlpEntry
<1> HIDE DEF q
<1> QED BY <1>1, <1>2, <1>3

LEMMA RlpDemandKeepsEntries ==
  ASSUME NEW q \in Seq(RlpEntry), NEW addr
  PROVE  Rlp!Witnessed(Rlp!reward_demand(q, addr), addr) \in Seq(RlpEntry)
<1> DEFINE found == Rlp!search_pq(q, addr, RewardAll)
           due == {i \in found : \A j \in found : j <= i => q[j].reward = "unset"}
           Type(e) == IF e.filled THEN "correct_timely" ELSE "correct_untimely"
           r == Rlp!reward_demand(q, addr)
           f == Rlp!Witnessed(r, addr)
<1>1. r = [i \in DOMAIN q |-> IF i \in due THEN Rlp!assign_reward(q[i], Type(q[i])) ELSE q[i]]
  BY DEF Rlp!reward_demand
<1>2. \A e \in RlpEntry : Rlp!assign_reward(e, Type(e)) \in RlpEntry
  <2> TAKE e \in RlpEntry
  <2>1. Type(e) \in RlpRewards
    BY DEF RlpRewards
  <2> HIDE DEF Type
  <2> QED BY <2>1, RlpRewardGiven
<1>3. r \in Seq(RlpEntry)
  <2> HIDE DEF due, Type, r
  <2>1. \A i \in DOMAIN q : r[i] \in RlpEntry
    BY <1>1, <1>2
  <2>2. r \in [1 .. Len(q) -> RlpEntry]
    BY <1>1, <2>1
  <2> QED BY <2>2
<1> HIDE DEF r
<1>4. f = [i \in DOMAIN r |->
             IF r[i].addr = addr /\ r[i].seen = "unseen"
             THEN [r[i] EXCEPT !.seen = IF r[i].filled THEN "timely" ELSE "late"]
             ELSE r[i]]
  BY DEF Rlp!Witnessed
<1>5. \A e \in RlpEntry : [e EXCEPT !.seen = IF e.filled THEN "timely" ELSE "late"] \in RlpEntry
  BY DEF RlpEntry
<1> HIDE DEF f
<1>6. \A i \in DOMAIN r : f[i] \in RlpEntry
  BY <1>3, <1>4, <1>5
<1>7. f \in [1 .. Len(r) -> RlpEntry] /\ Len(r) \in Nat
  BY <1>3, <1>4, <1>6
<1> QED BY <1>7 DEF f, r

LEMMA RlpArrivalKeepsEntries ==
  ASSUME NEW q \in Seq(RlpEntry), NEW found
  PROVE  Filled(q, found) \in Seq(RlpEntry) /\ Hit(q, found) \in Seq(RlpEntry)
<1>1. DOMAIN q = 1 .. Len(q) /\ \A i \in 1 .. Len(q) : q[i] \in RlpEntry
  OBVIOUS
<1>2. ASSUME NEW i \in 1 .. Len(q)
      PROVE  /\ (IF i \in found THEN [q[i] EXCEPT !.filled = TRUE] ELSE q[i]) \in RlpEntry
             /\ (IF i \in found THEN [q[i] EXCEPT !.hit = TRUE] ELSE q[i]) \in RlpEntry
  <2>1. PICK e \in RlpEntry : e = q[i]
    BY <1>1
  <2>2. [e EXCEPT !.filled = TRUE] \in RlpEntry /\ [e EXCEPT !.hit = TRUE] \in RlpEntry
    BY DEF RlpEntry
  <2> QED BY <2>1, <2>2
<1>3. Filled(q, found) \in [1 .. Len(q) -> RlpEntry]
  BY <1>1, <1>2 DEF Filled
<1>4. Hit(q, found) \in [1 .. Len(q) -> RlpEntry]
  BY <1>1, <1>2 DEF Hit
<1> QED BY SMTT(60), <1>3, <1>4

(* A step of RLP: the engines predict, or a prefetch arrives.               *)
Rewarded(t, line, x) ==
  [[t EXCEPT !.queue = Rlp!Witnessed(Rlp!reward_demand(@, line), line)] EXCEPT !.st = x]

LEMMA RlpRewardedFields ==
  ASSUME NEW t, RlpFields(t), NEW line, NEW x
  PROVE  LET u == Rewarded(t, line, x) IN
         /\ RlpFields(u) /\ u.queue = Rlp!Witnessed(Rlp!reward_demand(t.queue, line), line)
         /\ u.actions = t.actions /\ u.hsq = t.hsq /\ u.irEvicted = t.irEvicted
         /\ u.table = t.table /\ u.rpEvicted = t.rpEvicted /\ u.handed = t.handed
<1> DEFINE q == Rlp!Witnessed(Rlp!reward_demand(t.queue, line), line)
           v == [t EXCEPT !.queue = q]
           u == [v EXCEPT !.st = x]
<1>1. Rewarded(t, line, x) = u
  BY DEF Rewarded
<1> HIDE DEF q
<1>2. /\ RlpFields(v) /\ v.queue = q
      /\ v.actions = t.actions /\ v.hsq = t.hsq /\ v.irEvicted = t.irEvicted
      /\ v.table = t.table /\ v.rpEvicted = t.rpEvicted /\ v.handed = t.handed
  BY DEF RlpFields
<1> HIDE DEF v
<1>3. /\ RlpFields(u) /\ u.queue = q
      /\ u.actions = t.actions /\ u.hsq = t.hsq /\ u.irEvicted = t.irEvicted
      /\ u.table = t.table /\ u.rpEvicted = t.rpEvicted /\ u.handed = t.handed
  BY <1>2 DEF RlpFields
<1> QED BY <1>1, <1>3 DEF q

(* What a demand does, the irregular engine having been silent: the reward  *)
(* of its line and the regular engine's prediction.                         *)
RlpDemandMade ==
  \E page \in 1 .. Pages, block \in 0 .. (Blocks - 1), state \in State, action \in Actions :
    \E prefetch, x :
      /\ Silent(Rewarded(s, Rlp!Line(page, block), x))
      /\ s' = Rlp!rp_predict(Rewarded(s, Rlp!Line(page, block), x),
                             page, block, state, action, prefetch)

(* What an arriving line does: marks in the queue, and no more.             *)
RlpLineArrived ==
  \E found, q :
    /\ q \in {Filled(s.queue, found), Hit(s.queue, found)}
    /\ q \in Seq(RlpEntry)
    /\ RlpFields(s') /\ s'.queue = q /\ s'.actions = s.actions
    /\ s'.hsq = s.hsq /\ s'.irEvicted = s.irEvicted /\ s'.table = s.table
    /\ s'.rpEvicted = s.rpEvicted /\ s'.handed = s.handed

LEMMA RlpStep ==
  ASSUME Pages \in Nat, Blocks \in Nat, Silent(s), [Rlp!Next]_s
  PROVE  s' = s \/ RlpDemandMade \/ RlpLineArrived
<1>0. RlpFields(s) /\ s.queue \in Seq(RlpEntry)
  BY DEF Silent
<1>1. CASE Rlp!invoke_prefetcher
  <2>1. PICK page \in 1 .. Pages, block \in 0 .. (Blocks - 1), state \in State,
             rp \in Actions, turn \in BOOLEAN :
          s' \in Rlp!predict([s EXCEPT
                   !.queue = Rlp!Witnessed(Rlp!reward_demand(@, Rlp!Line(page, block)),
                                           Rlp!Line(page, block)),
                   !.st = Rlp!update_local_state(@, page)], page, block, state, rp, turn)
    BY <1>1 DEF Rlp!invoke_prefetcher
  <2> DEFINE line == Rlp!Line(page, block)
  <2>2. PICK x : x = Rlp!update_local_state(s.st, page)
    OBVIOUS
  <2> DEFINE t == Rewarded(s, line, x)
  <2>3. s' \in Rlp!predict(t, page, block, state, rp, turn)
    <3>1. t = [s EXCEPT !.queue = Rlp!Witnessed(Rlp!reward_demand(@, line), line),
                        !.st = Rlp!update_local_state(@, page)]
      BY <2>2 DEF Rewarded
    <3> HIDE DEF t
    <3> QED BY <2>1, <3>1
  <2>4. Silent(t)
    <3> HIDE DEF line
    <3>1. /\ RlpFields(t) /\ t.queue = Rlp!Witnessed(Rlp!reward_demand(s.queue, line), line)
          /\ t.actions = s.actions /\ t.hsq = s.hsq /\ t.irEvicted = s.irEvicted
          /\ t.table = s.table
      BY <1>0, RlpRewardedFields
    <3>2. t.queue \in Seq(RlpEntry)
      BY <1>0, <3>1, RlpDemandKeepsEntries
    <3> HIDE DEF t
    <3> QED BY <3>1, <3>2, StillSilent
  <2> HIDE DEF t
  <2>5. PICK ir \in Rlp!Chosen(t, state) :
          s' = Rlp!rp_predict(Rlp!ir_predict(t, line, state, ir, turn),
                              page, block, state, rp, ~turn)
    BY <2>3 DEF Rlp!predict
  <2>6. s' = Rlp!rp_predict(t, page, block, state, rp, ~turn)
    <3> HIDE DEF line
    <3>1. ir = Rlp!NoPrefetch
      BY <2>4, IrregularEngineIdle
    <3>2. Rlp!ir_predict(t, line, state, ir, turn) = t
      BY <2>4, <3>1, IrregularEngineIdle
    <3> QED BY <2>5, <3>2
  <2>7. \E p, y : /\ Silent(Rewarded(s, Rlp!Line(page, block), y))
                  /\ s' = Rlp!rp_predict(Rewarded(s, Rlp!Line(page, block), y),
                                         page, block, state, rp, p)
    BY <2>4, <2>6 DEF t
  <2> QED BY <2>7 DEF RlpDemandMade
<1>2. CASE Rlp!register_fill \/ Rlp!register_prefetch_hit
  <2>1. PICK found, x : \/ s' = [s EXCEPT !.flying = x, !.queue = Filled(@, found)]
                        \/ s' = [s EXCEPT !.flying = x, !.queue = Hit(@, found)]
    BY <1>2 DEF Rlp!register_fill, Rlp!register_prefetch_hit, Filled, Hit
  <2>2. Filled(s.queue, found) \in Seq(RlpEntry) /\ Hit(s.queue, found) \in Seq(RlpEntry)
    BY <1>0, RlpArrivalKeepsEntries
  <2>3. PICK q : /\ q \in {Filled(s.queue, found), Hit(s.queue, found)}
                 /\ q \in Seq(RlpEntry)
                 /\ s' = [s EXCEPT !.flying = x, !.queue = q]
    BY <2>1, <2>2
  <2>4. /\ RlpFields(s') /\ s'.queue = q /\ s'.actions = s.actions
        /\ s'.hsq = s.hsq /\ s'.irEvicted = s.irEvicted /\ s'.table = s.table
        /\ s'.rpEvicted = s.rpEvicted /\ s'.handed = s.handed
    BY <1>0, <2>3 DEF RlpFields
  <2> QED BY SMTT(60), <2>3, <2>4 DEF RlpLineArrived
<1>3. CASE s' = s
  BY <1>3
<1> QED BY <1>1, <1>2, <1>3 DEF Rlp!Next

LEMMA RlpStepStaysSilent ==
  ASSUME QueueSize \in Nat \ {0}, Pages \in Nat, Blocks \in Nat, Actions \subseteq Int,
         Silent(s), [Rlp!Next]_s
  PROVE  Silent(s')
<1>1. CASE s' = s
  BY <1>1
<1>2. CASE RlpDemandMade
  BY <1>2, RpPredictStaysSilent DEF RlpDemandMade
<1>3. CASE RlpLineArrived
  BY <1>3, StillSilent DEF RlpLineArrived
<1> QED BY <1>1, <1>2, <1>3, RlpStep

(* RLP's irregular engine stays silent, however large its table and its     *)
(* history are: ir_track returns before track_in_hsq when it is given no    *)
(* address, and an engine that has learned nothing has no other to give.    *)
THEOREM IrregularEngineStaysSilent ==
  ASSUME QueueSize \in Nat \ {0}, Pages \in Nat, Blocks \in Nat, Actions \subseteq Int
  PROVE  Rlp!Spec => []Rlp!IrregularEngineSilent
<1>1. Rlp!Init => Silent(s)
  BY DEF Rlp!Init, Silent, RlpFields, NothingKnown
<1>2. Silent(s) /\ [Rlp!Next]_s => Silent(s)'
  BY RlpStepStaysSilent
<1>3. Silent(s) => Rlp!IrregularEngineSilent
  <2> SUFFICES ASSUME Silent(s) PROVE Rlp!IrregularEngineSilent
    OBVIOUS
  <2>1. \A i \in DOMAIN s.queue : s.queue[i] \in RlpEntry
    BY DEF Silent
  <2>2. \A i \in DOMAIN s.queue : ~s.queue[i].ir
    BY <2>1 DEF RlpEntry
  <2> QED BY <2>2 DEF Silent, NothingKnown, Rlp!IrregularEngineSilent
<1> QED BY <1>1, <1>2, <1>3, PTL DEF Rlp!Spec

(* RLP's queue hands each action over once.                                 *)
RlpOpen == {e \in RlpEntry : /\ e.times = IF e.reward = "unset" THEN 0 ELSE 1
                             /\ e.reward # "incorrect"
                             /\ Rlp!Truthful(e)}
RlpRewarded == {e \in RlpEntry : e.times = 1 /\ Rlp!Truthful(e)}

RlpLearning(t) ==
  /\ Silent(t) /\ Len(t.queue) <= QueueSize
  /\ Learning(RlpOpen, RlpRewarded, Rlp!NoPrefetch, t.queue, t.actions, t.rpEvicted, t.handed)

(* The oldest entry of an address is its only one.                          *)
LEMMA RlpSearchFindsTheLine ==
  ASSUME NEW q \in Seq(RlpOpen), Once(q, Rlp!NoPrefetch), NEW addr, addr # Rlp!NoPrefetch, NEW all
  PROVE  Rlp!search_pq(q, addr, all) = {i \in 1 .. Len(q) : q[i].addr = addr}
<1> DEFINE found == {i \in DOMAIN q : q[i].addr = addr}
<1>1. DOMAIN q = 1 .. Len(q)
  OBVIOUS
<1>2. Rlp!search_pq(q, addr, all) = IF all \/ found = {} THEN found ELSE {Rlp!Min(found)}
  BY DEF Rlp!search_pq, Rlp!Searched
<1>3. ASSUME found # {} PROVE {Rlp!Min(found)} = found
  <2>1. PICK i \in 1 .. Len(q) : q[i].addr = addr
    BY <1>1, <1>3
  <2>2. found = {i}
    BY <1>1, <2>1 DEF Once
  <2>3. Rlp!Min({i}) = i
    BY <2>1 DEF Rlp!Min
  <2> QED BY <2>2, <2>3
<1> QED BY <1>1, <1>2, <1>3

(* A demand rewards and witnesses the entry of its line, in place.          *)
RlpDemanded(e) ==
  LET type == IF e.filled THEN "correct_timely" ELSE "correct_untimely"
      r == IF e.reward = "unset" THEN Rlp!assign_reward(e, type) ELSE e
  IN IF r.seen = "unseen" THEN [r EXCEPT !.seen = IF r.filled THEN "timely" ELSE "late"] ELSE r

LEMMA RlpDemandInPlace ==
  ASSUME NEW q \in Seq(RlpOpen), Once(q, Rlp!NoPrefetch), NEW addr, addr # Rlp!NoPrefetch
  PROVE  Rlp!Witnessed(Rlp!reward_demand(q, addr), addr)
           = [i \in 1 .. Len(q) |-> IF q[i].addr = addr THEN RlpDemanded(q[i]) ELSE q[i]]
<1> DEFINE found == Rlp!search_pq(q, addr, RewardAll)
           due == {i \in found : \A j \in found : j <= i => q[j].reward = "unset"}
           Type(e) == IF e.filled THEN "correct_timely" ELSE "correct_untimely"
           r == Rlp!reward_demand(q, addr)
<1>1. DOMAIN q = 1 .. Len(q)
  OBVIOUS
<1>2. found = {i \in 1 .. Len(q) : q[i].addr = addr}
  BY RlpSearchFindsTheLine
<1>3. due = {i \in 1 .. Len(q) : q[i].addr = addr /\ q[i].reward = "unset"}
  BY <1>2 DEF Once
<1>4. r = [i \in 1 .. Len(q) |->
             IF q[i].addr = addr /\ q[i].reward = "unset"
             THEN Rlp!assign_reward(q[i], Type(q[i])) ELSE q[i]]
  <2>1. r = [i \in DOMAIN q |->
               IF i \in due THEN Rlp!assign_reward(q[i], Type(q[i])) ELSE q[i]]
    BY DEF Rlp!reward_demand
  <2> QED BY <1>1, <1>3, <2>1
<1>5. Rlp!Witnessed(r, addr)
        = [i \in 1 .. Len(q) |->
             IF r[i].addr = addr /\ r[i].seen = "unseen"
             THEN [r[i] EXCEPT !.seen = IF r[i].filled THEN "timely" ELSE "late"]
             ELSE r[i]]
  <2>1. DOMAIN r = 1 .. Len(q)
    BY <1>4
  <2> HIDE DEF r
  <2> QED BY <2>1 DEF Rlp!Witnessed
<1>6. ASSUME NEW i \in 1 .. Len(q)
      PROVE  (IF r[i].addr = addr /\ r[i].seen = "unseen"
              THEN [r[i] EXCEPT !.seen = IF r[i].filled THEN "timely" ELSE "late"]
              ELSE r[i])
             = IF q[i].addr = addr THEN RlpDemanded(q[i]) ELSE q[i]
  <2>1. q[i] \in RlpEntry
    BY DEF RlpOpen
  <2>2. CASE q[i].addr = addr /\ q[i].reward = "unset"
    <3>1. r[i] = Rlp!assign_reward(q[i], Type(q[i]))
      BY <1>4, <2>2
    <3>2. r[i].addr = addr
      BY <2>1, <2>2, <3>1 DEF Rlp!assign_reward, RlpEntry
    <3> QED BY <2>2, <3>1, <3>2 DEF RlpDemanded
  <2>3. CASE q[i].addr # addr
    BY <1>4, <2>3
  <2>4. CASE q[i].addr = addr /\ q[i].reward # "unset"
    BY <1>4, <2>4 DEF RlpDemanded
  <2> QED BY <2>2, <2>3, <2>4
<1> QED BY <1>5, <1>6

(* Reward and witness agree.                                                *)
LEMMA RlpDemandedStaysOpen ==
  ASSUME NEW e \in RlpOpen, e.addr # Rlp!NoPrefetch
  PROVE  RlpDemanded(e) \in RlpOpen /\ RlpDemanded(e).id = e.id /\ RlpDemanded(e).addr = e.addr
<1>0. e \in RlpEntry
  BY DEF RlpOpen
<1>1. CASE e.reward = "unset"
  <2> DEFINE type == IF e.filled THEN "correct_timely" ELSE "correct_untimely"
             r == Rlp!assign_reward(e, type)
             f == [r EXCEPT !.seen = IF r.filled THEN "timely" ELSE "late"]
  <2>1. e.times = 0 /\ e.seen = "unseen"
    BY <1>1 DEF RlpOpen, Rlp!Truthful
  <2>2. /\ r \in RlpEntry /\ r.id = e.id /\ r.addr = e.addr /\ r.filled = e.filled
        /\ r.reward = type /\ r.times = 1 /\ r.seen = "unseen"
    <3>1. type \in RlpRewards
      BY DEF RlpRewards
    <3> HIDE DEF type
    <3> QED BY <1>0, <2>1, <3>1, RlpRewardGiven
  <2>3. RlpDemanded(e) = f
    BY <1>1, <2>2 DEF RlpDemanded
  <2> HIDE DEF r
  <2>4. /\ f \in RlpEntry /\ f.id = e.id /\ f.addr = e.addr /\ f.times = 1
        /\ f.reward = type /\ f.seen = IF e.filled THEN "timely" ELSE "late"
    BY <2>2 DEF RlpEntry
  <2> HIDE DEF f
  <2>5. f \in RlpOpen
    BY <2>4 DEF RlpOpen, Rlp!Truthful
  <2> QED BY <2>3, <2>4, <2>5
<1>2. CASE e.reward # "unset"
  <2>1. e.reward \in {"correct_timely", "correct_untimely"}
    BY <1>2 DEF RlpOpen, Rlp!Truthful, RlpEntry, RlpRewards
  <2>2. e.seen # "unseen"
    BY <2>1 DEF RlpOpen, Rlp!Truthful
  <2>3. RlpDemanded(e) = e
    BY <1>2, <2>2 DEF RlpDemanded
  <2> QED BY <2>3
<1> QED BY <1>1, <1>2

LEMMA RlpDemandKeepsLearning ==
  ASSUME NEW q, NEW n, NEW ev, NEW ta, NEW addr, addr # Rlp!NoPrefetch,
         Learning(RlpOpen, RlpRewarded, Rlp!NoPrefetch, q, n, ev, ta)
  PROVE  LET f == Rlp!Witnessed(Rlp!reward_demand(q, addr), addr) IN
         /\ Learning(RlpOpen, RlpRewarded, Rlp!NoPrefetch, f, n, ev, ta)
         /\ Len(f) = Len(q)
<1> DEFINE f == [i \in 1 .. Len(q) |-> IF q[i].addr = addr THEN RlpDemanded(q[i]) ELSE q[i]]
<1>1. q \in Seq(RlpOpen) /\ Once(q, Rlp!NoPrefetch)
  BY DEF Learning, Tracking
<1>2. Rlp!Witnessed(Rlp!reward_demand(q, addr), addr) = f
  BY <1>1, RlpDemandInPlace
<1>3. ASSUME NEW i \in 1 .. Len(q)
      PROVE  f[i] \in RlpOpen /\ f[i].id = q[i].id /\ f[i].addr = q[i].addr
  <2>1. q[i] \in RlpOpen
    BY <1>1
  <2>2. CASE q[i].addr = addr
    BY <2>1, <2>2, RlpDemandedStaysOpen
  <2>3. CASE q[i].addr # addr
    BY <2>1, <2>3
  <2> QED BY <2>2, <2>3
<1>4. InPlace(RlpOpen, q, f)
  BY <1>3 DEF InPlace
<1> HIDE DEF f
<1>5. Learning(RlpOpen, RlpRewarded, Rlp!NoPrefetch, f, n, ev, ta) /\ Len(f) = Len(q)
  BY <1>4, ChangedInPlace
<1> QED BY <1>2, <1>5

(* A fill or a hit in the cache changes no number, address or reward.      *)
LEMMA RlpArrivalKeepsLearning ==
  ASSUME NEW q, NEW n, NEW ev, NEW ta, NEW found,
         Learning(RlpOpen, RlpRewarded, Rlp!NoPrefetch, q, n, ev, ta)
  PROVE  LET f == Filled(q, found)  h == Hit(q, found) IN
         /\ Learning(RlpOpen, RlpRewarded, Rlp!NoPrefetch, f, n, ev, ta) /\ Len(f) = Len(q)
         /\ Learning(RlpOpen, RlpRewarded, Rlp!NoPrefetch, h, n, ev, ta) /\ Len(h) = Len(q)
<1> DEFINE f == Filled(q, found)
           h == Hit(q, found)
<1>1. DOMAIN q = 1 .. Len(q) /\ \A i \in 1 .. Len(q) : q[i] \in RlpOpen
  BY DEF Learning, Tracking
<1>2. ASSUME NEW e \in RlpOpen, NEW x \in {[e EXCEPT !.filled = TRUE], [e EXCEPT !.hit = TRUE]}
      PROVE  x \in RlpOpen /\ x.id = e.id /\ x.addr = e.addr
  <2>1. e \in RlpEntry
    BY DEF RlpOpen
  <2>2. /\ x \in RlpEntry /\ x.id = e.id /\ x.addr = e.addr /\ x.reward = e.reward
        /\ x.times = e.times /\ x.seen = e.seen
    BY <2>1 DEF RlpEntry
  <2> QED BY <2>2 DEF RlpOpen, Rlp!Truthful
<1>3. \A i \in 1 .. Len(q) : f[i] \in RlpOpen /\ f[i].id = q[i].id /\ f[i].addr = q[i].addr
  BY <1>1, <1>2 DEF Filled
<1>4. \A i \in 1 .. Len(q) : h[i] \in RlpOpen /\ h[i].id = q[i].id /\ h[i].addr = q[i].addr
  BY <1>1, <1>2 DEF Hit
<1>5. InPlace(RlpOpen, q, f) /\ InPlace(RlpOpen, q, h)
  BY <1>1, <1>3, <1>4 DEF InPlace, Filled, Hit
<1> HIDE DEF f, h
<1>6. /\ Learning(RlpOpen, RlpRewarded, Rlp!NoPrefetch, f, n, ev, ta) /\ Len(f) = Len(q)
      /\ Learning(RlpOpen, RlpRewarded, Rlp!NoPrefetch, h, n, ev, ta) /\ Len(h) = Len(q)
  BY <1>5, ChangedInPlace
<1> QED BY <1>6 DEF f, h

LEMMA RlpDueIsRewarded ==
  ASSUME NEW e \in RlpOpen PROVE Due(e) \in RlpRewarded /\ Due(e).id = e.id
<1>0. e \in RlpEntry
  BY DEF RlpOpen
<1>1. CASE e.reward = "unset"
  <2> DEFINE type == IF e.addr = Rlp!NoPrefetch THEN "none" ELSE "incorrect"
             due == Due(e)
  <2>1. type \in RlpRewards /\ due = Rlp!assign_reward(e, type)
    BY <1>1 DEF RlpRewards, Due, Rlp!reward_evicted
  <2>2. e.times = 0 /\ e.seen = "unseen"
    BY <1>1 DEF RlpOpen, Rlp!Truthful
  <2>3. /\ due \in RlpEntry /\ due.id = e.id /\ due.addr = e.addr
        /\ due.reward = type /\ due.times = 1 /\ due.seen = "unseen"
    <3> HIDE DEF due, type
    <3> QED BY <1>0, <2>1, <2>2, RlpRewardGiven
  <2> HIDE DEF due
  <2>4. due \in RlpRewarded
    BY <2>3 DEF RlpRewarded, Rlp!Truthful
  <2> QED BY <2>3, <2>4 DEF due
<1>2. CASE e.reward # "unset"
  BY <1>2 DEF Due, RlpOpen, RlpRewarded
<1> QED BY <1>1, <1>2

LEMMA RpTrackKeepsLearning ==
  ASSUME QueueSize \in Nat \ {0}, ~TrackMultiple, NEW t, RlpLearning(t),
         NEW addr \in Int, NEW state \in State, NEW action \in Int, NEW prefetch
  PROVE  RlpLearning(Rlp!rp_track(t, addr, state, action, prefetch))
<1> DEFINE none == Rlp!NoPrefetch
           w == Rlp!RpEvict(t)
           v == Rlp!rp_track(t, addr, state, action, prefetch)
           e == Rlp!NewEntry(addr, state, action, FALSE, t.actions)
<1>1. /\ t.queue \in Seq(RlpOpen) /\ Len(t.queue) \in Nat /\ t.actions \in Int
      /\ Len(t.queue) <= QueueSize /\ Silent(t)
      /\ Learning(RlpOpen, RlpRewarded, none, t.queue, t.actions, t.rpEvicted, t.handed)
  BY DEF RlpLearning, Learning, Tracking
<1>2. \/ v = t
      \/ /\ RlpTakes(t, w, v, e)
         /\ Rlp!rp_search_pq(t.queue, addr) = {} \/ addr = none
  BY <1>1, RpTrackTakes
<1>3. e \in RlpOpen /\ e.id = t.actions /\ e.addr = addr
  <2>1. /\ e \in RlpEntry /\ e.id = t.actions /\ e.addr = addr
        /\ e.times = 0 /\ e.reward = "unset" /\ e.seen = "unseen"
    <3>1. \A n \in Int : LET x == Rlp!NewEntry(addr, state, action, FALSE, n) IN
            /\ x \in RlpEntry /\ x.id = n /\ x.addr = addr
            /\ x.times = 0 /\ x.reward = "unset" /\ x.seen = "unseen"
      BY DEF Rlp!NewEntry, RlpEntry, RlpRewards
    <3> QED BY <1>1, <3>1
  <2> HIDE DEF e
  <2> QED BY <2>1 DEF RlpOpen, Rlp!Truthful
<1>4. Silent(v)
  BY <1>1, RpTrackStaysSilent
<1> HIDE DEF w, v, e, none
<1>5. ASSUME RlpTakes(t, w, v, e), Rlp!rp_search_pq(t.queue, addr) = {} \/ addr = none
      PROVE  RlpLearning(v)
  <2>1. addr = none \/ \A i \in 1 .. Len(t.queue) : t.queue[i].addr # addr
    <3> SUFFICES ASSUME Rlp!rp_search_pq(t.queue, addr) = {}, NEW i \in 1 .. Len(t.queue),
                        t.queue[i].addr = addr
                 PROVE  FALSE
      BY <1>5
    <3>1. i \in DOMAIN t.queue /\ ~t.queue[i].ir
      <4>1. i \in DOMAIN t.queue /\ t.queue[i] \in RlpOpen
        BY <1>1
      <4>2. \A x \in RlpOpen : x.ir = FALSE
        BY DEF RlpOpen, RlpEntry
      <4> QED BY <4>1, <4>2
    <3>2. {j \in DOMAIN t.queue : t.queue[j].addr = addr /\ ~t.queue[j].ir} = {}
      BY DEF Rlp!rp_search_pq, Rlp!Searched
    <3> QED BY <3>1, <3>2
  <2>2. /\ Learning(RlpOpen, RlpRewarded, none, w.queue, t.actions, w.rpEvicted, w.handed)
        /\ Len(w.queue) < QueueSize /\ w.actions = t.actions
        /\ \A i \in 1 .. Len(w.queue) : \E j \in 1 .. Len(t.queue) :
             w.queue[i].addr = t.queue[j].addr
    <3>1. CASE Len(t.queue) < QueueSize
      BY <1>1, <1>5, <3>1 DEF RlpTakes
    <3>2. CASE ~(Len(t.queue) < QueueSize)
      <4>1. RlpEvicts(t, w) /\ t.queue # <<>>
        BY <1>1, <1>5, <3>2 DEF RlpTakes
      <4>2. Learns(RlpRewarded, t.rpEvicted, t.handed, Head(t.queue), w.handed)
        <5>1. CASE t.rpEvicted = <<>>
          BY <4>1, <5>1 DEF RlpEvicts, Learns
        <5>2. CASE t.rpEvicted # <<>>
          <6>1. PICK d \in RlpOpen : t.rpEvicted = <<d>>
            BY <1>1, <5>2 DEF Learning, Evicted
          <6>2. Head(t.rpEvicted) = d /\ t.rpEvicted[1] = d
            BY <6>1
          <6>3. w.handed = <<Due(d), Head(t.queue)>>
            BY <4>1, <5>2, <6>2 DEF RlpEvicts
          <6>4. Due(d) \in RlpRewarded /\ Due(d).id = d.id
            BY RlpDueIsRewarded
          <6> QED BY <5>2, <6>2, <6>3, <6>4 DEF Learns
        <5> QED BY <5>1, <5>2
      <4>3. /\ Learning(RlpOpen, RlpRewarded, none, Tail(t.queue), t.actions, <<Head(t.queue)>>,
                        w.handed)
            /\ Len(Tail(t.queue)) = Len(t.queue) - 1
            /\ \A i \in 1 .. Len(Tail(t.queue)) :
                 i + 1 \in 1 .. Len(t.queue) /\ Tail(t.queue)[i] = t.queue[i + 1]
        BY <1>1, <4>1, <4>2, OldestEvicted
      <4>4. /\ w.queue = Tail(t.queue) /\ w.rpEvicted = <<Head(t.queue)>>
            /\ w.actions = t.actions
        BY <4>1 DEF RlpEvicts
      <4>5. Len(w.queue) < QueueSize
        BY <1>1, <4>3, <4>4
      <4>6. ASSUME NEW i \in 1 .. Len(w.queue)
            PROVE  \E j \in 1 .. Len(t.queue) : w.queue[i].addr = t.queue[j].addr
        <5>1. i + 1 \in 1 .. Len(t.queue) /\ w.queue[i] = t.queue[i + 1]
          BY <4>3, <4>4
        <5> QED BY <5>1
      <4> QED BY <4>3, <4>4, <4>5, <4>6
    <3> QED BY <3>1, <3>2
  <2>3. e.addr = none \/ \A i \in 1 .. Len(w.queue) : w.queue[i].addr # e.addr
    BY <1>3, <2>1, <2>2
  <2>4. LET r == Append(w.queue, e) IN
        /\ Learning(RlpOpen, RlpRewarded, none, r, t.actions + 1, w.rpEvicted, w.handed)
        /\ Len(r) = Len(w.queue) + 1
    BY <1>3, <2>2, <2>3, ActionTaken
  <2>5. Len(w.queue) \in Nat
    BY <2>2 DEF Learning, Tracking
  <2> QED BY <1>4, <1>5, <2>2, <2>4, <2>5 DEF RlpTakes, RlpLearning, none
<1> QED BY <1>2, <1>5 DEF v

LEMMA RpPredictKeepsLearning ==
  ASSUME QueueSize \in Nat \ {0}, ~TrackMultiple, Pages \in Nat, Blocks \in Nat,
         Actions \subseteq Int, NEW t, RlpLearning(t),
         NEW page \in 1 .. Pages, NEW block \in 0 .. (Blocks - 1), NEW state \in State,
         NEW action \in Actions, NEW prefetch
  PROVE  RlpLearning(Rlp!rp_predict(t, page, block, state, action, prefetch))
<1> DEFINE v == Rlp!rp_predict(t, page, block, state, action, prefetch)
<1>1. \A addr \in Int : RlpLearning(Rlp!rp_track(t, addr, state, action, prefetch))
  BY RpTrackKeepsLearning
<1>2. \/ v = t
      \/ \E addr \in Int : LET u == Rlp!rp_track(t, addr, state, action, prefetch) IN
           v = u \/ Besides(u, v)
  BY <1>1, RpPredictTracks DEF RlpLearning, Silent
<1> HIDE DEF v
<1>3. CASE v = t
  BY <1>3 DEF v
<1>4. CASE v # t
  <2>1. PICK u : RlpLearning(u) /\ (v = u \/ Besides(u, v))
    BY <1>1, <1>2, <1>4
  <2>2. RlpLearning(v)
    BY <2>1 DEF RlpLearning, Silent, Besides
  <2> QED BY <2>2 DEF v
<1> QED BY <1>3, <1>4

LEMMA RlpStepKeepsLearning ==
  ASSUME QueueSize \in Nat \ {0}, ~TrackMultiple, Pages \in Nat, Blocks \in Nat \ {0},
         Actions \subseteq Int, RlpLearning(s), [Rlp!Next]_s
  PROVE  RlpLearning(s')
<1>0. /\ Silent(s) /\ RlpFields(s) /\ Len(s.queue) <= QueueSize
      /\ Learning(RlpOpen, RlpRewarded, Rlp!NoPrefetch, s.queue, s.actions, s.rpEvicted, s.handed)
  BY DEF RlpLearning, Silent
<1>1. CASE s' = s
  BY <1>1
<1>2. CASE RlpDemandMade
  <2>1. PICK page \in 1 .. Pages, block \in 0 .. (Blocks - 1), state \in State,
             action \in Actions :
          \E prefetch, x : /\ Silent(Rewarded(s, Rlp!Line(page, block), x))
                           /\ s' = Rlp!rp_predict(Rewarded(s, Rlp!Line(page, block), x),
                                                  page, block, state, action, prefetch)
    BY <1>2 DEF RlpDemandMade
  <2>8. PICK prefetch, x : /\ Silent(Rewarded(s, Rlp!Line(page, block), x))
                           /\ s' = Rlp!rp_predict(Rewarded(s, Rlp!Line(page, block), x),
                                                  page, block, state, action, prefetch)
    BY <2>1
  <2> DEFINE line == Rlp!Line(page, block)
             t == Rewarded(s, line, x)
             q == Rlp!Witnessed(Rlp!reward_demand(s.queue, line), line)
  <2>2. line # Rlp!NoPrefetch
    <3>1. page * Blocks \in Nat /\ page * Blocks >= 1
      <4>1. page \in Nat /\ page >= 1 /\ Blocks >= 1
        OBVIOUS
      <4>2. \A m, n \in Nat : m >= 1 /\ n >= 1 => m * n \in Nat /\ m * n >= 1
        OBVIOUS
      <4> QED BY <4>1, <4>2
    <3> QED BY <3>1 DEF Rlp!Line, Rlp!NoPrefetch
  <2> HIDE DEF line
  <2>3. /\ t.queue = q /\ t.actions = s.actions /\ t.rpEvicted = s.rpEvicted
        /\ t.handed = s.handed
    BY <1>0, RlpRewardedFields
  <2>4. /\ Learning(RlpOpen, RlpRewarded, Rlp!NoPrefetch, q, s.actions, s.rpEvicted, s.handed)
        /\ Len(q) = Len(s.queue)
    <3>1. \A p, n, ev, ta : Learning(RlpOpen, RlpRewarded, Rlp!NoPrefetch, p, n, ev, ta) =>
            LET f == Rlp!Witnessed(Rlp!reward_demand(p, line), line) IN
            /\ Learning(RlpOpen, RlpRewarded, Rlp!NoPrefetch, f, n, ev, ta)
            /\ Len(f) = Len(p)
      BY <2>2, RlpDemandKeepsLearning
    <3> QED BY <1>0, <3>1
  <2>5. Silent(t)
    BY <2>8 DEF line
  <2> HIDE DEF t, q
  <2>6. RlpLearning(t)
    BY <1>0, <2>3, <2>4, <2>5 DEF RlpLearning
  <2>7. s' = Rlp!rp_predict(t, page, block, state, action, prefetch)
    BY <2>8 DEF t, line
  <2> QED BY <2>6, <2>7, RpPredictKeepsLearning
<1>3. CASE RlpLineArrived
  <2>1. PICK found, q : /\ q \in {Filled(s.queue, found), Hit(s.queue, found)}
                        /\ q \in Seq(RlpEntry)
                        /\ RlpFields(s') /\ s'.queue = q /\ s'.actions = s.actions
                        /\ s'.hsq = s.hsq /\ s'.irEvicted = s.irEvicted /\ s'.table = s.table
                        /\ s'.rpEvicted = s.rpEvicted /\ s'.handed = s.handed
    BY <1>3 DEF RlpLineArrived
  <2>2. /\ Learning(RlpOpen, RlpRewarded, Rlp!NoPrefetch, q, s.actions, s.rpEvicted, s.handed)
        /\ Len(q) = Len(s.queue)
    BY <1>0, <2>1, RlpArrivalKeepsLearning
  <2>3. Silent(s')
    BY <1>0, <2>1, StillSilent
  <2> QED BY <1>0, <2>1, <2>2, <2>3 DEF RlpLearning
<1> QED BY <1>0, <1>1, <1>2, <1>3, RlpStep

(* RLP rewards every action of the regular engine once, as its line earned:  *)
(* on a demand, or when it leaves.  It hands them on in the order they were  *)
(* taken, each with its successor, so that the assertions of reward,         *)
(* assign_reward and ir_train in rlp.cc never fail.  All of them go to       *)
(* ir_train, whose engine keeps none (IrregularEngineStaysSilent); rp_train  *)
(* has no caller, so that no engine learns from them.                       *)
THEOREM RlpHandsOverEachActionOnce ==
  ASSUME QueueSize \in Nat \ {0}, ~TrackMultiple, Pages \in Nat, Blocks \in Nat \ {0},
         Actions \subseteq Int
  PROVE  Rlp!Spec => []Rlp!HandedOverOnce
<1>1. Rlp!Init => RlpLearning(s)
  <2> SUFFICES ASSUME Rlp!Init PROVE RlpLearning(s)
    OBVIOUS
  <2>1. Silent(s)
    BY DEF Rlp!Init, Silent, RlpFields, NothingKnown
  <2>2. /\ s.queue = <<>> /\ s.actions = 0 /\ s.rpEvicted = <<>> /\ s.handed = <<>>
    BY DEF Rlp!Init
  <2>3. Learning(RlpOpen, RlpRewarded, Rlp!NoPrefetch, <<>>, 0, <<>>, <<>>)
    BY DEF Learning, Tracking, Once, Numbered, Evicted, Taught
  <2> QED BY <2>1, <2>2, <2>3 DEF RlpLearning
<1>2. RlpLearning(s) /\ [Rlp!Next]_s => RlpLearning(s)'
  BY RlpStepKeepsLearning
<1>3. RlpLearning(s) => Rlp!HandedOverOnce
  <2> SUFFICES ASSUME RlpLearning(s) PROVE Rlp!HandedOverOnce
    OBVIOUS
  <2>1. InOrder(RlpOpen, s.rpEvicted \o s.queue, s.actions)
    BY WaitingInOrder DEF RlpLearning
  <2>2. s.handed # <<>> =>
          /\ s.handed[1].times = 1 /\ Rlp!Truthful(s.handed[1])
          /\ s.handed[2].id = s.handed[1].id + 1
          /\ s.handed[2] = s.rpEvicted[1]
          /\ ~s.handed[1].ir /\ ~s.handed[2].ir
    <3> SUFFICES ASSUME s.handed # <<>>
                 PROVE  /\ s.handed[1].times = 1 /\ Rlp!Truthful(s.handed[1])
                        /\ s.handed[2].id = s.handed[1].id + 1
                        /\ s.handed[2] = s.rpEvicted[1]
                        /\ ~s.handed[1].ir /\ ~s.handed[2].ir
      OBVIOUS
    <3>1. PICK d \in RlpRewarded, e \in RlpOpen :
            s.handed = <<d, e>> /\ s.rpEvicted = <<e>> /\ e.id = d.id + 1
      BY DEF RlpLearning, Learning, Taught
    <3>2. d.ir = FALSE /\ e.ir = FALSE
      BY DEF RlpRewarded, RlpOpen, RlpEntry
    <3>3. d.times = 1 /\ Rlp!Truthful(d)
      BY DEF RlpRewarded
    <3> QED BY <3>1, <3>2, <3>3
  <2>3. Len(s.queue) <= QueueSize
    BY DEF RlpLearning
  <2> QED BY <2>1, <2>2, <2>3 DEF Rlp!HandedOverOnce, InOrder, RlpOpen
<1> QED BY <1>1, <1>2, <1>3, PTL DEF Rlp!Spec

-----------------------------------------------------------------------------
(* CBP.  An entry's action is one its state knows, and states only come to  *)
(* know more; a rewarded entry has the place at which its line was demanded. *)
CbpRewards == {"unset", "queue_hit", "queue_unhit", "none"}
CbpEntry == [id : Int, addr : Int, state : State, action : Int, filled : BOOLEAN, hit : BOOLEAN,
             reward : CbpRewards, depth : Nat, times : Nat, seen : Int]
CbpOpen(known) == {e \in CbpEntry : /\ e.times = IF e.reward = "unset" THEN 0 ELSE 1
                                    /\ e.reward # "queue_unhit"
                                    /\ Cbp!Truthful(e)
                                    /\ e.action \in known[e.state]}
CbpRewarded == {e \in CbpEntry : e.times = 1 /\ Cbp!Truthful(e)}

CbpFields(t) ==
  t = [st |-> t.st, queue |-> t.queue, evicted |-> t.evicted, taught |-> t.taught,
       hst |-> t.hst, known |-> t.known, actions |-> t.actions, flying |-> t.flying]

CbpLearning(t) ==
  /\ CbpFields(t) /\ Len(t.queue) <= PtSize /\ t.known \in [State -> SUBSET Int]
  /\ Learning(CbpOpen(t.known), CbpRewarded, Cbp!NoPrefetch, t.queue, t.actions,
              t.evicted, t.taught)

Grown(k, l) == /\ k \in [State -> SUBSET Int] /\ l \in [State -> SUBSET Int]
               /\ \A x \in State : k[x] \subseteq l[x]

LEMMA KnownStaysKnown ==
  ASSUME NEW k, NEW l, Grown(k, l) PROVE CbpOpen(k) \subseteq CbpOpen(l)
<1> SUFFICES ASSUME NEW e \in CbpOpen(k) PROVE e \in CbpOpen(l)
  OBVIOUS
<1>1. e \in CbpEntry /\ e.action \in k[e.state]
  BY DEF CbpOpen
<1>2. e.state \in State
  BY <1>1 DEF CbpEntry
<1>3. e.action \in l[e.state]
  BY <1>1, <1>2 DEF Grown
<1> QED BY <1>3 DEF CbpOpen

(* What assign_reward does to an entry.                                     *)
LEMMA CbpRewardGiven ==
  ASSUME NEW e \in CbpEntry, NEW type \in CbpRewards, NEW depth \in Nat
  PROVE  LET r == Cbp!assign_reward(e, type, depth) IN
         /\ r \in CbpEntry /\ r.id = e.id /\ r.addr = e.addr
         /\ r.state = e.state /\ r.action = e.action
         /\ r.reward = type /\ r.depth = depth /\ r.times = e.times + 1 /\ r.seen = e.seen
<1> DEFINE q == [e EXCEPT !.reward = type]
           p == [q EXCEPT !.depth = depth]
           r == [p EXCEPT !.times = e.times + 1]
<1>1. Cbp!assign_reward(e, type, depth) = r
  BY DEF Cbp!assign_reward
<1>2. \A x \in CbpEntry :
        LET y == [x EXCEPT !.reward = type] IN
        /\ y \in CbpEntry
        /\ y.id = x.id /\ y.addr = x.addr /\ y.state = x.state /\ y.action = x.action
        /\ y.reward = type /\ y.times = x.times /\ y.seen = x.seen
  <2> TAKE x \in CbpEntry
  <2>1. [x EXCEPT !.reward = type] \in CbpEntry
    BY DEF CbpEntry
  <2> QED BY <2>1 DEF CbpEntry
<1>3. \A x \in CbpEntry :
        LET y == [x EXCEPT !.depth = depth] IN
        /\ y \in CbpEntry
        /\ y.id = x.id /\ y.addr = x.addr /\ y.state = x.state /\ y.action = x.action
        /\ y.reward = x.reward /\ y.times = x.times /\ y.seen = x.seen /\ y.depth = depth
  <2> TAKE x \in CbpEntry
  <2>1. [x EXCEPT !.depth = depth] \in CbpEntry
    BY DEF CbpEntry
  <2> QED BY <2>1 DEF CbpEntry
<1>4. \A x \in CbpEntry, n \in Nat :
        LET y == [x EXCEPT !.times = n] IN
        /\ y \in CbpEntry
        /\ y.id = x.id /\ y.addr = x.addr /\ y.state = x.state /\ y.action = x.action
        /\ y.reward = x.reward /\ y.times = n /\ y.seen = x.seen /\ y.depth = x.depth
  <2> TAKE x \in CbpEntry, n \in Nat
  <2>1. [x EXCEPT !.times = n] \in CbpEntry
    BY DEF CbpEntry
  <2> QED BY <2>1 DEF CbpEntry
<1>5. e.times + 1 \in Nat
  BY DEF CbpEntry
<1>6. /\ q \in CbpEntry
      /\ q.id = e.id /\ q.addr = e.addr /\ q.state = e.state /\ q.action = e.action
      /\ q.reward = type /\ q.times = e.times /\ q.seen = e.seen
  BY <1>2
<1> HIDE DEF q
<1>7. /\ p \in CbpEntry
      /\ p.id = e.id /\ p.addr = e.addr /\ p.state = e.state /\ p.action = e.action
      /\ p.reward = type /\ p.times = e.times /\ p.seen = e.seen /\ p.depth = depth
  BY <1>3, <1>6
<1> HIDE DEF p
<1> QED BY <1>1, <1>4, <1>5, <1>7

LEMMA CbpSearchFindsTheLine ==
  ASSUME NEW E, NEW q \in Seq(E), Once(q, Cbp!NoPrefetch), NEW addr, addr # Cbp!NoPrefetch, NEW all
  PROVE  Cbp!search_pt(q, addr, all) = {i \in 1 .. Len(q) : q[i].addr = addr}
<1> DEFINE found == {i \in DOMAIN q : q[i].addr = addr}
<1>1. DOMAIN q = 1 .. Len(q)
  OBVIOUS
<1>2. Cbp!search_pt(q, addr, all) = IF all \/ found = {} THEN found ELSE {Cbp!Min(found)}
  BY DEF Cbp!search_pt
<1>3. ASSUME found # {} PROVE {Cbp!Min(found)} = found
  <2>1. PICK i \in 1 .. Len(q) : q[i].addr = addr
    BY <1>1, <1>3
  <2>2. found = {i}
    BY <1>1, <2>1 DEF Once
  <2>3. Cbp!Min({i}) = i
    BY <2>1 DEF Cbp!Min
  <2> QED BY <2>2, <2>3
<1> QED BY <1>1, <1>2, <1>3

(* A demand rewards and witnesses the entry of its line, at place i + 1.    *)
CbpDemanded(e, i) ==
  LET r == IF e.reward = "unset" THEN Cbp!assign_reward(e, "queue_hit", i) ELSE e
  IN IF r.seen = -1 THEN [r EXCEPT !.seen = i] ELSE r

LEMMA CbpDemandInPlace ==
  ASSUME NEW q \in Seq(CbpEntry), Once(q, Cbp!NoPrefetch), NEW addr, addr # Cbp!NoPrefetch
  PROVE  Cbp!Witnessed(Cbp!reward_demand(q, addr), addr)
           = [i \in 1 .. Len(q) |-> IF q[i].addr = addr THEN CbpDemanded(q[i], i - 1) ELSE q[i]]
<1> DEFINE found == Cbp!search_pt(q, addr, RewardAll)
           due == {i \in found : \A j \in found : j <= i => q[j].reward = "unset"}
           r == Cbp!reward_demand(q, addr)
<1>1. DOMAIN q = 1 .. Len(q)
  OBVIOUS
<1>2. found = {i \in 1 .. Len(q) : q[i].addr = addr}
  BY CbpSearchFindsTheLine
<1>3. due = {i \in 1 .. Len(q) : q[i].addr = addr /\ q[i].reward = "unset"}
  BY <1>2 DEF Once
<1>4. r = [i \in 1 .. Len(q) |->
             IF q[i].addr = addr /\ q[i].reward = "unset"
             THEN Cbp!assign_reward(q[i], "queue_hit", i - 1) ELSE q[i]]
  <2>1. r = [i \in DOMAIN q |->
               IF i \in due THEN Cbp!assign_reward(q[i], "queue_hit", i - 1) ELSE q[i]]
    BY DEF Cbp!reward_demand
  <2> QED BY <1>1, <1>3, <2>1
<1>5. Cbp!Witnessed(r, addr)
        = [i \in 1 .. Len(q) |->
             IF r[i].addr = addr /\ r[i].seen = -1 THEN [r[i] EXCEPT !.seen = i - 1] ELSE r[i]]
  <2>1. DOMAIN r = 1 .. Len(q)
    BY <1>4
  <2> HIDE DEF r
  <2> QED BY <2>1 DEF Cbp!Witnessed
<1>6. ASSUME NEW i \in 1 .. Len(q)
      PROVE  (IF r[i].addr = addr /\ r[i].seen = -1 THEN [r[i] EXCEPT !.seen = i - 1] ELSE r[i])
             = IF q[i].addr = addr THEN CbpDemanded(q[i], i - 1) ELSE q[i]
  <2>1. q[i] \in CbpEntry
    OBVIOUS
  <2>2. CASE q[i].addr = addr /\ q[i].reward = "unset"
    <3>1. r[i] = Cbp!assign_reward(q[i], "queue_hit", i - 1)
      BY <1>4, <2>2
    <3>2. r[i].addr = addr
      <4>1. \A e \in CbpEntry, n \in Nat : Cbp!assign_reward(e, "queue_hit", n).addr = e.addr
        BY CbpRewardGiven DEF CbpRewards
      <4>2. i - 1 \in Nat
        OBVIOUS
      <4> HIDE DEF r
      <4> QED BY <2>1, <2>2, <3>1, <4>1, <4>2
    <3> QED BY <2>2, <3>1, <3>2 DEF CbpDemanded
  <2>3. CASE q[i].addr # addr
    BY <1>4, <2>3
  <2>4. CASE q[i].addr = addr /\ q[i].reward # "unset"
    BY <1>4, <2>4 DEF CbpDemanded
  <2> QED BY <2>2, <2>3, <2>4
<1> QED BY <1>5, <1>6

(* Reward and witness agree.                                                *)
LEMMA CbpDemandedStaysOpen ==
  ASSUME NEW known, NEW e \in CbpOpen(known), e.addr # Cbp!NoPrefetch, NEW i \in Nat
  PROVE  LET f == CbpDemanded(e, i) IN f \in CbpOpen(known) /\ f.id = e.id /\ f.addr = e.addr
<1>0. e \in CbpEntry /\ e.action \in known[e.state]
  BY DEF CbpOpen
<1>1. CASE e.reward = "unset"
  <2> DEFINE r == Cbp!assign_reward(e, "queue_hit", i)
             f == [r EXCEPT !.seen = i]
  <2>1. e.times = 0 /\ e.seen = -1
    BY <1>1 DEF CbpOpen, Cbp!Truthful
  <2>2. /\ r \in CbpEntry /\ r.id = e.id /\ r.addr = e.addr
        /\ r.state = e.state /\ r.action = e.action
        /\ r.reward = "queue_hit" /\ r.depth = i /\ r.times = 1 /\ r.seen = -1
    <3>1. "queue_hit" \in CbpRewards
      BY DEF CbpRewards
    <3> QED BY <1>0, <2>1, <3>1, CbpRewardGiven
  <2>3. CbpDemanded(e, i) = f
    BY <1>1, <2>2 DEF CbpDemanded
  <2> HIDE DEF r
  <2>4. /\ f \in CbpEntry /\ f.id = e.id /\ f.addr = e.addr
        /\ f.state = e.state /\ f.action = e.action
        /\ f.reward = "queue_hit" /\ f.depth = i /\ f.times = 1 /\ f.seen = i
    <3>1. f \in CbpEntry
      BY <2>2 DEF CbpEntry
    <3> QED BY <2>2, <3>1 DEF CbpEntry
  <2> HIDE DEF f
  <2>5. f \in CbpOpen(known)
    BY <1>0, <2>4 DEF CbpOpen, Cbp!Truthful
  <2> QED BY <2>3, <2>4, <2>5
<1>2. CASE e.reward # "unset"
  <2>1. e.reward = "queue_hit" /\ e.seen = e.depth
    BY <1>2 DEF CbpOpen, Cbp!Truthful, CbpEntry, CbpRewards
  <2>2. e.seen # -1
    BY <1>0, <2>1 DEF CbpEntry
  <2>3. CbpDemanded(e, i) = e
    BY <1>2, <2>2 DEF CbpDemanded
  <2> QED BY <2>3
<1> QED BY <1>1, <1>2

LEMMA CbpDemandKeepsLearning ==
  ASSUME NEW known, NEW q, NEW n, NEW ev, NEW ta, NEW addr, addr # Cbp!NoPrefetch,
         Learning(CbpOpen(known), CbpRewarded, Cbp!NoPrefetch, q, n, ev, ta)
  PROVE  LET f == Cbp!Witnessed(Cbp!reward_demand(q, addr), addr) IN
         /\ Learning(CbpOpen(known), CbpRewarded, Cbp!NoPrefetch, f, n, ev, ta)
         /\ Len(f) = Len(q)
<1> DEFINE f == [i \in 1 .. Len(q) |-> IF q[i].addr = addr THEN CbpDemanded(q[i], i - 1) ELSE q[i]]
<1>1. q \in Seq(CbpOpen(known)) /\ Once(q, Cbp!NoPrefetch)
  BY DEF Learning, Tracking
<1>2. Cbp!Witnessed(Cbp!reward_demand(q, addr), addr) = f
  <2>1. CbpOpen(known) \subseteq CbpEntry
    BY DEF CbpOpen
  <2>2. q \in Seq(CbpEntry)
    BY <1>1, <2>1
  <2> QED BY <1>1, <2>2, CbpDemandInPlace
<1>3. ASSUME NEW i \in 1 .. Len(q)
      PROVE  f[i] \in CbpOpen(known) /\ f[i].id = q[i].id /\ f[i].addr = q[i].addr
  <2>1. q[i] \in CbpOpen(known) /\ i - 1 \in Nat
    BY <1>1
  <2>2. CASE q[i].addr = addr
    BY <2>1, <2>2, CbpDemandedStaysOpen
  <2>3. CASE q[i].addr # addr
    BY <2>1, <2>3
  <2> QED BY <2>2, <2>3
<1>4. InPlace(CbpOpen(known), q, f)
  BY <1>3 DEF InPlace
<1> HIDE DEF f
<1>5. Learning(CbpOpen(known), CbpRewarded, Cbp!NoPrefetch, f, n, ev, ta) /\ Len(f) = Len(q)
  BY <1>4, ChangedInPlace
<1> QED BY <1>2, <1>5

(* A fill or a hit in the cache changes no number, address or reward.       *)
LEMMA CbpArrivalKeepsLearning ==
  ASSUME NEW known, NEW q, NEW n, NEW ev, NEW ta, NEW found,
         Learning(CbpOpen(known), CbpRewarded, Cbp!NoPrefetch, q, n, ev, ta)
  PROVE  LET f == Filled(q, found)  h == Hit(q, found) IN
         /\ Learning(CbpOpen(known), CbpRewarded, Cbp!NoPrefetch, f, n, ev, ta) /\ Len(f) = Len(q)
         /\ Learning(CbpOpen(known), CbpRewarded, Cbp!NoPrefetch, h, n, ev, ta) /\ Len(h) = Len(q)
<1> DEFINE f == Filled(q, found)
           h == Hit(q, found)
<1>1. DOMAIN q = 1 .. Len(q) /\ \A i \in 1 .. Len(q) : q[i] \in CbpOpen(known)
  BY DEF Learning, Tracking
<1>2. ASSUME NEW e \in CbpOpen(known),
             NEW x \in {[e EXCEPT !.filled = TRUE], [e EXCEPT !.hit = TRUE]}
      PROVE  x \in CbpOpen(known) /\ x.id = e.id /\ x.addr = e.addr
  <2>1. e \in CbpEntry
    BY DEF CbpOpen
  <2>2. x \in CbpEntry
    BY <2>1 DEF CbpEntry
  <2>3. /\ x.id = e.id /\ x.addr = e.addr /\ x.reward = e.reward /\ x.depth = e.depth
        /\ x.state = e.state /\ x.action = e.action /\ x.times = e.times /\ x.seen = e.seen
    BY <2>1 DEF CbpEntry
  <2> QED BY <2>2, <2>3 DEF CbpOpen, Cbp!Truthful
<1>3. \A i \in 1 .. Len(q) : f[i] \in CbpOpen(known) /\ f[i].id = q[i].id /\ f[i].addr = q[i].addr
  BY <1>1, <1>2 DEF Filled
<1>4. \A i \in 1 .. Len(q) : h[i] \in CbpOpen(known) /\ h[i].id = q[i].id /\ h[i].addr = q[i].addr
  BY <1>1, <1>2 DEF Hit
<1>5. InPlace(CbpOpen(known), q, f) /\ InPlace(CbpOpen(known), q, h)
  BY <1>1, <1>3, <1>4 DEF InPlace, Filled, Hit
<1> HIDE DEF f, h
<1>6. /\ Learning(CbpOpen(known), CbpRewarded, Cbp!NoPrefetch, f, n, ev, ta) /\ Len(f) = Len(q)
      /\ Learning(CbpOpen(known), CbpRewarded, Cbp!NoPrefetch, h, n, ev, ta) /\ Len(h) = Len(q)
  BY <1>5, ChangedInPlace
<1> QED BY <1>6 DEF f, h

(* track_in_hst: the states of the history come to know the line demanded.  *)
LEMMA CbpRecalls ==
  ASSUME NEW t, CbpLearning(t), NEW line \in Int, NEW state
  PROVE  LET r == Cbp!Recalled(t, line, state) IN
         /\ CbpLearning(r) /\ Grown(t.known, r.known)
         /\ r.queue = t.queue /\ r.evicted = t.evicted /\ r.taught = t.taught
         /\ r.actions = t.actions
<1> DEFINE past == Cbp!ToSet(t.hst)
           known == [x \in State |-> IF x \in past THEN t.known[x] \cup {line} ELSE t.known[x]]
           r == Cbp!Recalled(t, line, state)
<1>1. CbpFields(t) /\ t.known \in [State -> SUBSET Int]
  BY SMTT(60) DEF CbpLearning
<1>2. PICK h : r = [t EXCEPT !.known = known, !.hst = h]
  BY DEF Cbp!Recalled
<1>3. known \in [State -> SUBSET Int] /\ Grown(t.known, known)
  <2>1. \A x \in State : known[x] \in SUBSET Int /\ t.known[x] \subseteq known[x]
    BY <1>1
  <2>2. known \in [State -> SUBSET Int]
    BY <2>1
  <2> HIDE DEF known
  <2> QED BY <1>1, <2>1, <2>2 DEF Grown
<1> HIDE DEF r, known
<1>4. /\ CbpFields(r) /\ r.known = known
      /\ r.queue = t.queue /\ r.evicted = t.evicted /\ r.taught = t.taught
      /\ r.actions = t.actions
  BY <1>1, <1>2 DEF CbpFields
<1>5. Learning(CbpOpen(known), CbpRewarded, Cbp!NoPrefetch, t.queue, t.actions,
               t.evicted, t.taught)
  BY <1>3, KnownStaysKnown, MoreOpen DEF CbpLearning
<1>6. CbpLearning(r)
  BY <1>3, <1>4, <1>5 DEF CbpLearning
<1> QED BY <1>3, <1>4, <1>6 DEF r

(* The engine learns from an action with its one reward.                    *)
LEMMA CbpTrainTeachesOnce ==
  ASSUME NEW t, CbpLearning(t), NEW v
  PROVE  LET u == Cbp!train(t, v) IN
         /\ CbpFields(u) /\ Grown(t.known, u.known)
         /\ u.queue = t.queue /\ u.evicted = t.evicted /\ u.actions = t.actions
         /\ Learns(CbpRewarded, t.evicted, t.taught, v, u.taught)
<1>0. CbpFields(t) /\ t.known \in [State -> SUBSET Int]
  BY DEF CbpLearning
<1>1. CASE t.evicted = <<>>
  BY <1>0, <1>1 DEF Cbp!train, Learns, Grown
<1>2. CASE t.evicted # <<>>
  <2>1. PICK e \in CbpOpen(t.known) : t.evicted = <<e>>
    BY <1>2 DEF CbpLearning, Learning, Evicted
  <2> DEFINE due == IF e.reward = "unset" THEN Cbp!reward_evicted(e) ELSE e
             known == [t.known EXCEPT ![e.state] = @ \cup {e.action}]
             u == [t EXCEPT !.taught = <<due, v>>, !.known = known]
  <2>2. Head(t.evicted) = e /\ t.evicted[1] = e /\ e \in CbpEntry
    BY <2>1 DEF CbpOpen
  <2>3. Cbp!train(t, v) = u
    BY <1>2, <2>2 DEF Cbp!train
  <2>4. due \in CbpRewarded /\ due.id = e.id
    <3>1. CASE e.reward = "unset"
      <4> DEFINE type == IF e.addr = Cbp!NoPrefetch THEN "none" ELSE "queue_unhit"
      <4>1. type \in CbpRewards /\ due = Cbp!assign_reward(e, type, 0)
        BY <3>1 DEF CbpRewards, Cbp!reward_evicted
      <4>2. e.times = 0 /\ e.seen = -1
        BY <3>1 DEF CbpOpen, Cbp!Truthful
      <4>3. /\ due \in CbpEntry /\ due.id = e.id /\ due.addr = e.addr
            /\ due.reward = type /\ due.times = 1 /\ due.seen = -1
        <5> HIDE DEF due, type
        <5> QED BY <2>2, <4>1, <4>2, CbpRewardGiven
      <4> HIDE DEF due
      <4> QED BY <4>3 DEF CbpRewarded, Cbp!Truthful
    <3>2. CASE e.reward # "unset"
      BY <3>2 DEF CbpOpen, CbpRewarded
    <3> QED BY <3>1, <3>2
  <2>5. known \in [State -> SUBSET Int] /\ Grown(t.known, known)
    <3>1. e.state \in State /\ e.action \in Int
      BY <2>2 DEF CbpEntry
    <3>2. \A x \in State : known[x] \in SUBSET Int /\ t.known[x] \subseteq known[x]
      BY <1>0, <3>1
    <3>3. known \in [State -> SUBSET Int]
      BY <1>0, <3>1
    <3> HIDE DEF known
    <3> QED BY <1>0, <3>2, <3>3 DEF Grown
  <2> HIDE DEF due, known
  <2>6. /\ CbpFields(u) /\ u.taught = <<due, v>> /\ u.known = known
        /\ u.queue = t.queue /\ u.evicted = t.evicted /\ u.actions = t.actions
    <3>1. u = [t EXCEPT !.taught = <<due, v>>, !.known = known]
      OBVIOUS
    <3> HIDE DEF u
    <3> QED BY <1>0, <3>1 DEF CbpFields
  <2>7. Learns(CbpRewarded, t.evicted, t.taught, v, u.taught)
    BY <1>2, <2>2, <2>4, <2>6 DEF Learns
  <2> QED BY <2>3, <2>5, <2>6, <2>7
<1> QED BY <1>1, <1>2

LEMMA CbpNewEntryIsOpen ==
  ASSUME NEW known \in [State -> SUBSET Int], NEW addr \in Int, NEW state \in State,
         NEW action \in known[state], NEW n \in Int
  PROVE  LET e == Cbp!NewEntry(addr, state, action, n) IN
         e \in CbpOpen(known) /\ e.id = n /\ e.addr = addr /\ e.times = 0
<1> DEFINE e == Cbp!NewEntry(addr, state, action, n)
<1>1. action \in Int
  OBVIOUS
<1>2. e \in CbpEntry
  BY <1>1 DEF Cbp!NewEntry, CbpEntry, CbpRewards
<1>3. /\ e.id = n /\ e.addr = addr /\ e.times = 0 /\ e.reward = "unset" /\ e.seen = -1
      /\ e.state = state /\ e.action = action
  BY DEF Cbp!NewEntry
<1> HIDE DEF e
<1>4. e \in CbpOpen(known)
  BY <1>2, <1>3 DEF CbpOpen, Cbp!Truthful
<1> QED BY <1>3, <1>4 DEF e

(* track: a full queue gives up its oldest action, which is the successor   *)
(* of the action learned from.                                              *)
LEMMA CbpTrackKeepsLearning ==
  ASSUME PtSize \in Nat \ {0}, ~TrackMultiple, NEW t, CbpLearning(t),
         NEW addr \in Int, NEW line \in Int, NEW state \in State, NEW action \in t.known[state]
  PROVE  LET u == Cbp!track(t, addr, line, state, action) IN
         /\ CbpLearning(u)
         /\ addr = Cbp!NoPrefetch =>
              /\ u.queue # <<>>
              /\ u.queue[Len(u.queue)] = Cbp!NewEntry(addr, state, action, t.actions)
         /\ addr # Cbp!NoPrefetch /\ Cbp!tracked(t, addr) => u = t
<1> DEFINE none == Cbp!NoPrefetch
           r == Cbp!Recalled(t, line, state)
           victim == Head(r.queue)
           full == Len(r.queue) >= PtSize
           e == Cbp!NewEntry(addr, state, action, t.actions)
           u == IF full THEN [Cbp!train(r, victim) EXCEPT !.evicted = <<victim>>,
                                                          !.queue = Tail(@)]
                ELSE r
           v == [u EXCEPT !.queue = Append(@, e), !.actions = @ + 1]
           known == Cbp!tracked(t, addr) /\ addr # none
<1>1. Cbp!track(t, addr, line, state, action) = IF known THEN t ELSE v
  BY DEF Cbp!track
<1>2. /\ CbpLearning(r) /\ Grown(t.known, r.known)
      /\ r.queue = t.queue /\ r.evicted = t.evicted /\ r.taught = t.taught
      /\ r.actions = t.actions
  BY CbpRecalls
<1>3. /\ t.queue \in Seq(CbpOpen(t.known)) /\ Len(t.queue) \in Nat /\ Once(t.queue, none)
      /\ t.actions \in Int /\ Len(t.queue) <= PtSize
  BY DEF CbpLearning, Learning, Tracking
<1> HIDE DEF r
<1>4. ASSUME ~known
      PROVE  addr = none \/ \A i \in 1 .. Len(t.queue) : t.queue[i].addr # addr
  <2> SUFFICES ASSUME addr # none
               PROVE  \A i \in 1 .. Len(t.queue) : t.queue[i].addr # addr
    OBVIOUS
  <2>1. Cbp!search_pt(t.queue, addr, FALSE) = {}
    BY <1>4 DEF Cbp!tracked
  <2>2. /\ t.queue \in Seq(CbpOpen(t.known)) /\ Once(t.queue, Cbp!NoPrefetch)
        /\ addr # Cbp!NoPrefetch
    BY <1>3
  <2>3. \A all : Cbp!search_pt(t.queue, addr, all)
                   = {i \in 1 .. Len(t.queue) : t.queue[i].addr = addr}
    BY <2>2, CbpSearchFindsTheLine
  <2>4. {i \in 1 .. Len(t.queue) : t.queue[i].addr = addr} = {}
    BY <2>1, <2>3
  <2> QED BY <2>4
<1>5. /\ CbpLearning(u) /\ Grown(r.known, u.known)
      /\ u.actions = t.actions /\ Len(u.queue) < PtSize
      /\ \A i \in 1 .. Len(u.queue) : \E j \in 1 .. Len(t.queue) :
           u.queue[i].addr = t.queue[j].addr
  <2>1. CASE full
    <3> DEFINE w == Cbp!train(r, victim)
    <3>1. u = [w EXCEPT !.evicted = <<victim>>, !.queue = Tail(@)]
      BY <2>1
    <3>2. r.queue # <<>>
      BY <1>2, <1>3, <2>1
    <3>3. /\ CbpFields(w) /\ Grown(r.known, w.known)
          /\ w.queue = r.queue /\ w.evicted = r.evicted /\ w.actions = r.actions
          /\ Learns(CbpRewarded, r.evicted, r.taught, victim, w.taught)
      BY <1>2, CbpTrainTeachesOnce
    <3> HIDE DEF w, none
    <3>4. Learning(CbpOpen(r.known), CbpRewarded, none, r.queue, r.actions, r.evicted, r.taught)
      BY <1>2 DEF CbpLearning, none
    <3>5. Learning(CbpOpen(w.known), CbpRewarded, none, r.queue, r.actions, r.evicted, r.taught)
      BY <3>3, <3>4, KnownStaysKnown, MoreOpen
    <3>6. /\ Learning(CbpOpen(w.known), CbpRewarded, none, Tail(r.queue), r.actions, <<victim>>,
                      w.taught)
          /\ Len(Tail(r.queue)) = Len(r.queue) - 1
          /\ \A i \in 1 .. Len(Tail(r.queue)) :
               i + 1 \in 1 .. Len(r.queue) /\ Tail(r.queue)[i] = r.queue[i + 1]
      BY <3>2, <3>3, <3>5, OldestEvicted
    <3> HIDE DEF u, victim
    <3>7. /\ CbpFields(u) /\ u.actions = r.actions /\ u.queue = Tail(r.queue)
          /\ u.evicted = <<victim>> /\ u.taught = w.taught /\ u.known = w.known
      BY <3>1, <3>3 DEF CbpFields
    <3>8. CbpLearning(u) /\ Grown(r.known, u.known) /\ Len(u.queue) < PtSize
      <4>1. u.known \in [State -> SUBSET Int]
        BY <3>3, <3>7 DEF Grown
      <4>2. Len(u.queue) = Len(t.queue) - 1
        BY <1>2, <3>6, <3>7
      <4> QED BY <1>3, <3>3, <3>6, <3>7, <4>1, <4>2 DEF CbpLearning, none
    <3>9. ASSUME NEW i \in 1 .. Len(u.queue)
          PROVE  \E j \in 1 .. Len(t.queue) : u.queue[i].addr = t.queue[j].addr
      <4>1. i + 1 \in 1 .. Len(t.queue) /\ u.queue[i] = t.queue[i + 1]
        BY <1>2, <3>6, <3>7
      <4> QED BY <4>1
    <3> QED BY <1>2, <3>7, <3>8, <3>9
  <2>2. CASE ~full
    BY <1>2, <1>3, <2>2 DEF Grown
  <2> QED BY <2>1, <2>2
<1>6. CASE known
  BY <1>1, <1>6
<1>7. CASE ~known
  <2> HIDE DEF u
  <2>1. u.known \in [State -> SUBSET Int] /\ action \in u.known[state]
    BY <1>2, <1>5 DEF Grown
  <2>2. e \in CbpOpen(u.known) /\ e.id = t.actions /\ e.addr = addr
    <3>1. PICK k \in [State -> SUBSET Int] : k = u.known
      BY <2>1
    <3>2. action \in k[state]
      BY <2>1, <3>1
    <3>3. \A n \in Int : /\ Cbp!NewEntry(addr, state, action, n) \in CbpOpen(k)
                          /\ Cbp!NewEntry(addr, state, action, n).id = n
                          /\ Cbp!NewEntry(addr, state, action, n).addr = addr
      BY <3>2, CbpNewEntryIsOpen
    <3> QED BY <1>3, <3>1, <3>3
  <2> HIDE DEF e, none
  <2>3. e.addr = none \/ \A i \in 1 .. Len(u.queue) : u.queue[i].addr # e.addr
    BY <1>4, <1>5, <1>7, <2>2
  <2>4. /\ Learning(CbpOpen(u.known), CbpRewarded, none, u.queue, t.actions, u.evicted, u.taught)
        /\ CbpFields(u)
    BY <1>5 DEF CbpLearning, none
  <2>5. LET q == Append(u.queue, e) IN
        /\ Learning(CbpOpen(u.known), CbpRewarded, none, q, t.actions + 1, u.evicted, u.taught)
        /\ Len(q) = Len(u.queue) + 1 /\ q # <<>> /\ q[Len(q)] = e
    BY <2>2, <2>3, <2>4, ActionTaken
  <2>6. /\ CbpFields(v) /\ v.queue = Append(u.queue, e) /\ v.actions = t.actions + 1
        /\ v.evicted = u.evicted /\ v.taught = u.taught /\ v.known = u.known
    <3>1. v = [u EXCEPT !.queue = Append(@, e), !.actions = @ + 1]
      BY DEF e
    <3> HIDE DEF v
    <3> QED BY <1>5, <2>4, <3>1 DEF CbpFields
  <2>7. Cbp!track(t, addr, line, state, action) = v
    BY <1>1, <1>7
  <2> HIDE DEF v
  <2>8. Len(u.queue) \in Nat
    BY <2>4 DEF Learning, Tracking
  <2>9. CbpLearning(v)
    BY <1>5, <2>1, <2>5, <2>6, <2>8 DEF CbpLearning, none
  <2> QED BY <1>7, <2>5, <2>6, <2>7, <2>9 DEF e, none
<1> QED BY <1>6, <1>7

LEMMA CbpPredictKeepsLearning ==
  ASSUME PtSize \in Nat \ {0}, ~TrackMultiple, NEW t, CbpLearning(t),
         NEW line \in Int, NEW state \in State, NEW action \in t.known[state]
  PROVE  CbpLearning(Cbp!predict(t, line, state, action))
<1> DEFINE none == Cbp!NoPrefetch
           u == Cbp!track(t, action, line, state, action)
           v == Cbp!track(u, none, line, state, action)
           z == Cbp!track(t, none, line, state, action)
           e == Cbp!NewEntry(none, state, action, t.actions)
           last == Len(z.queue)
           r == Cbp!assign_reward(e, "queue_hit", 0)
           q == [z.queue EXCEPT ![last] = r]
           x == [z EXCEPT !.queue = q]
           y == [u EXCEPT !.st = Cbp!track_in_st(@, Cbp!PageOf(line), action),
                          !.flying = @ \cup {action} \cup Cbp!gen_multi_degree_pref(action)]
<1>1. none \in Int /\ action \in Int /\ t.known \in [State -> SUBSET Int] /\ t.actions \in Int
  BY DEF CbpLearning, Learning, Tracking, Cbp!NoPrefetch
<1>2. CbpLearning(u) /\ (action # none /\ Cbp!tracked(t, action) => u = t)
  BY <1>1, CbpTrackKeepsLearning
<1>3. CbpLearning(z) /\ z.queue # <<>> /\ z.queue[last] = e
  BY <1>1, CbpTrackKeepsLearning
<1>4. Cbp!predict(t, line, state, action)
        = IF action = none THEN z
          ELSE IF Cbp!tracked(t, action)
          THEN [v EXCEPT !.queue[Len(v.queue)] = Cbp!assign_reward(@, "queue_hit", 0)]
          ELSE y
  BY DEF Cbp!predict
<1>5. CASE action = none
  BY <1>3, <1>4, <1>5
<1>6. CASE action # none /\ Cbp!tracked(t, action)
  <2>1. Cbp!predict(t, line, state, action) = x
    <3>1. v = z
      BY <1>2, <1>6
    <3> HIDE DEF z, v, e
    <3>2. Cbp!predict(t, line, state, action)
            = [z EXCEPT !.queue[last] = Cbp!assign_reward(@, "queue_hit", 0)]
      BY <1>4, <1>6, <3>1
    <3> QED BY <1>3, <3>2
  <2>2. e \in CbpEntry /\ e.addr = none /\ e.times = 0 /\ e.action = action /\ e.state = state
    BY <1>1, CbpNewEntryIsOpen DEF CbpOpen, Cbp!NewEntry
  <2> HIDE DEF u, z, v, e, y
  <2>3. /\ CbpFields(z) /\ z.queue \in Seq(CbpOpen(z.known)) /\ Len(z.queue) \in Nat
        /\ last \in 1 .. Len(z.queue)
        /\ Learning(CbpOpen(z.known), CbpRewarded, none, z.queue, z.actions, z.evicted, z.taught)
    BY <1>3 DEF CbpLearning, Learning, Tracking
  <2>4. e \in CbpOpen(z.known)
    BY <1>3, <2>3
  <2>5. r \in CbpOpen(z.known) /\ r.id = e.id /\ r.addr = e.addr
    <3>1. "queue_hit" \in CbpRewards
      BY DEF CbpRewards
    <3>2. /\ r \in CbpEntry /\ r.id = e.id /\ r.addr = e.addr
          /\ r.state = e.state /\ r.action = e.action
          /\ r.reward = "queue_hit" /\ r.times = 1
      BY <2>2, <3>1, CbpRewardGiven
    <3> HIDE DEF r
    <3> QED BY <2>2, <2>4, <3>2 DEF CbpOpen, Cbp!Truthful
  <2> HIDE DEF r, none
  <2>6. \A i \in 1 .. Len(z.queue) :
          q[i] \in CbpOpen(z.known) /\ q[i].id = z.queue[i].id /\ q[i].addr = z.queue[i].addr
    BY <1>3, <2>3, <2>5
  <2>7. InPlace(CbpOpen(z.known), z.queue, q)
    BY <2>3, <2>6 DEF InPlace
  <2> HIDE DEF q
  <2>8. /\ Learning(CbpOpen(z.known), CbpRewarded, none, q, z.actions, z.evicted, z.taught)
        /\ Len(q) = Len(z.queue)
    BY <2>3, <2>7, ChangedInPlace
  <2>9. /\ CbpFields(x) /\ x.evicted = z.evicted /\ x.taught = z.taught /\ x.actions = z.actions
        /\ x.queue = q /\ x.known = z.known
    BY <2>3 DEF CbpFields
  <2> HIDE DEF x
  <2>10. CbpLearning(x)
    BY <1>3, <2>8, <2>9 DEF CbpLearning, none
  <2> QED BY <2>1, <2>10
<1>7. CASE action # none /\ ~Cbp!tracked(t, action)
  <2>1. PICK a, b : y = [u EXCEPT !.st = a, !.flying = b]
    OBVIOUS
  <2>2. Cbp!predict(t, line, state, action) = y
    BY <1>4, <1>7
  <2> HIDE DEF u, y
  <2>3. CbpFields(u)
    BY <1>2 DEF CbpLearning
  <2>4. /\ CbpFields(y) /\ y.evicted = u.evicted /\ y.taught = u.taught /\ y.actions = u.actions
        /\ y.queue = u.queue /\ y.known = u.known
    BY <2>1, <2>3 DEF CbpFields
  <2>5. CbpLearning(y)
    BY <1>2, <2>4 DEF CbpLearning
  <2> QED BY <2>2, <2>5
<1> QED BY <1>5, <1>6, <1>7

LEMMA CbpStep ==
  ASSUME PtSize \in Nat \ {0}, ~TrackMultiple, Lines \in Nat, CbpLearning(s), [Cbp!Next]_s
  PROVE  CbpLearning(s')
<1>1. /\ CbpFields(s) /\ Len(s.queue) <= PtSize /\ s.known \in [State -> SUBSET Int]
      /\ Learning(CbpOpen(s.known), CbpRewarded, Cbp!NoPrefetch, s.queue, s.actions,
                  s.evicted, s.taught)
  BY DEF CbpLearning
<1>2. CASE Cbp!invoke_prefetcher
  <2>1. PICK line \in 1 .. Lines, state \in State :
          \E action \in s.known[state] :
            s' = Cbp!predict([s EXCEPT
                   !.queue = Cbp!Witnessed(Cbp!reward_demand(@, line), line),
                   !.st = Cbp!update_local_state(@, line)], line, state, action)
    BY <1>2 DEF Cbp!invoke_prefetcher
  <2> DEFINE q == Cbp!Witnessed(Cbp!reward_demand(s.queue, line), line)
  <2>2. PICK x : x = Cbp!update_local_state(s.st, line)
    OBVIOUS
  <2> DEFINE t == [s EXCEPT !.queue = q, !.st = x]
  <2>3. PICK action \in s.known[state] : s' = Cbp!predict(t, line, state, action)
    BY <2>1, <2>2
  <2>4. line \in Int /\ line # Cbp!NoPrefetch
    BY DEF Cbp!NoPrefetch
  <2>5. /\ Learning(CbpOpen(s.known), CbpRewarded, Cbp!NoPrefetch, q, s.actions,
                    s.evicted, s.taught)
        /\ Len(q) = Len(s.queue)
    <3>1. \A p, n, ev, ta, k : Learning(CbpOpen(k), CbpRewarded, Cbp!NoPrefetch, p, n, ev, ta) =>
            LET f == Cbp!Witnessed(Cbp!reward_demand(p, line), line) IN
            /\ Learning(CbpOpen(k), CbpRewarded, Cbp!NoPrefetch, f, n, ev, ta)
            /\ Len(f) = Len(p)
      BY <2>4, CbpDemandKeepsLearning
    <3> QED BY <1>1, <3>1
  <2> HIDE DEF q
  <2>6. /\ CbpFields(t) /\ t.queue = q /\ t.evicted = s.evicted /\ t.taught = s.taught
        /\ t.actions = s.actions /\ t.known = s.known
    <3>1. t = [s EXCEPT !.queue = q, !.st = x]
      OBVIOUS
    <3> HIDE DEF t
    <3> QED BY <1>1, <3>1 DEF CbpFields
  <2> HIDE DEF t
  <2>7. CbpLearning(t)
    BY <1>1, <2>5, <2>6 DEF CbpLearning
  <2> QED BY <2>3, <2>4, <2>6, <2>7, CbpPredictKeepsLearning
<1>3. CASE Cbp!register_fill \/ Cbp!register_prefetch_hit
  <2>1. PICK found, x : \/ s' = [s EXCEPT !.flying = x, !.queue = Filled(@, found)]
                        \/ s' = [s EXCEPT !.flying = x, !.queue = Hit(@, found)]
    BY <1>3 DEF Cbp!register_fill, Cbp!register_prefetch_hit, Filled, Hit
  <2> DEFINE f == Filled(s.queue, found)
             h == Hit(s.queue, found)
  <2>2. s' = [s EXCEPT !.flying = x, !.queue = f] \/ s' = [s EXCEPT !.flying = x, !.queue = h]
    BY <2>1
  <2>3. /\ Learning(CbpOpen(s.known), CbpRewarded, Cbp!NoPrefetch, f, s.actions,
                    s.evicted, s.taught)
        /\ Len(f) = Len(s.queue)
        /\ Learning(CbpOpen(s.known), CbpRewarded, Cbp!NoPrefetch, h, s.actions,
                    s.evicted, s.taught)
        /\ Len(h) = Len(s.queue)
    <3>1. \A p, n, ev, ta, k : Learning(CbpOpen(k), CbpRewarded, Cbp!NoPrefetch, p, n, ev, ta) =>
            /\ Learning(CbpOpen(k), CbpRewarded, Cbp!NoPrefetch, Filled(p, found), n, ev, ta)
            /\ Len(Filled(p, found)) = Len(p)
            /\ Learning(CbpOpen(k), CbpRewarded, Cbp!NoPrefetch, Hit(p, found), n, ev, ta)
            /\ Len(Hit(p, found)) = Len(p)
      BY CbpArrivalKeepsLearning
    <3> QED BY <1>1, <3>1
  <2> HIDE DEF f, h
  <2>4. PICK q : /\ Learning(CbpOpen(s.known), CbpRewarded, Cbp!NoPrefetch, q, s.actions,
                             s.evicted, s.taught)
                 /\ Len(q) = Len(s.queue)
                 /\ s' = [s EXCEPT !.flying = x, !.queue = q]
    BY <2>2, <2>3
  <2>5. /\ CbpFields(s') /\ s'.queue = q /\ s'.evicted = s.evicted /\ s'.taught = s.taught
        /\ s'.actions = s.actions /\ s'.known = s.known
    BY <1>1, <2>4 DEF CbpFields
  <2> QED BY SMTT(60), <1>1, <2>4, <2>5 DEF CbpLearning
<1>4. CASE s' = s
  BY <1>4
<1> QED BY <1>2, <1>3, <1>4 DEF Cbp!Next

(* CBP learns from every action once, in the order the actions were taken,  *)
(* for a state that knows it and with one reward, the one its line earned:   *)
(* the assertions of reward, assign_reward and train in cbp.cc never fail.  *)
THEOREM CbpLearnsFromEachActionOnce ==
  ASSUME PtSize \in Nat \ {0}, ~TrackMultiple, Lines \in Nat
  PROVE  Cbp!Spec => []Cbp!LearnsFromEachActionOnce
<1>1. Cbp!Init => CbpLearning(s)
  <2> SUFFICES ASSUME Cbp!Init PROVE CbpLearning(s)
    OBVIOUS
  <2>1. /\ CbpFields(s) /\ s.queue = <<>> /\ s.actions = 0 /\ s.evicted = <<>> /\ s.taught = <<>>
        /\ s.known = [x \in State |-> {Cbp!NoPrefetch}]
    BY DEF Cbp!Init, CbpFields
  <2>2. s.known \in [State -> SUBSET Int]
    BY <2>1 DEF Cbp!NoPrefetch
  <2>3. Learning(CbpOpen(s.known), CbpRewarded, Cbp!NoPrefetch, <<>>, 0, <<>>, <<>>)
    BY DEF Learning, Tracking, Once, Numbered, Evicted, Taught
  <2> QED BY <2>1, <2>2, <2>3 DEF CbpLearning
<1>2. CbpLearning(s) /\ [Cbp!Next]_s => CbpLearning(s)'
  BY CbpStep
<1>3. CbpLearning(s) => Cbp!LearnsFromEachActionOnce
  <2> SUFFICES ASSUME CbpLearning(s) PROVE Cbp!LearnsFromEachActionOnce
    OBVIOUS
  <2>1. InOrder(CbpOpen(s.known), s.evicted \o s.queue, s.actions)
    BY WaitingInOrder DEF CbpLearning
  <2>2. s.taught # <<>> =>
          /\ s.taught[1].times = 1 /\ Cbp!Truthful(s.taught[1])
          /\ s.taught[2].id = s.taught[1].id + 1
          /\ s.taught[2] = s.evicted[1]
    BY DEF CbpLearning, Learning, Taught, CbpRewarded
  <2>3. Len(s.queue) <= PtSize
    BY DEF CbpLearning
  <2> QED BY <2>1, <2>2, <2>3 DEF Cbp!LearnsFromEachActionOnce, InOrder, CbpOpen
<1> QED BY <1>1, <1>2, <1>3, PTL DEF Cbp!Spec

-----------------------------------------------------------------------------
(* The tables of the prefetchers are short sequences in which an entry is  *)
(* looked for by its key and moved to one end when it is used.             *)
Without(q, i) == SubSeq(q, 1, i - 1) \o SubSeq(q, i + 1, Len(q))
KeptOnce(E, key, limit, q) ==
  /\ q \in Seq(E) /\ Len(q) <= limit
  /\ \A i, j \in 1 .. Len(q) : key[q[i]] = key[q[j]] => i = j
Unknown(key, q, k) == \A i \in 1 .. Len(q) : key[q[i]] # k

(* A nonempty set of numbers has a first one. *)
LEMMA FirstOfNumbers ==
  ASSUME NEW T \in SUBSET Nat, T # {}
  PROVE  \E n \in T : \A x \in T : n <= x
<1>1. PICK n \in T : \A x \in T : <<x, n>> \notin OpToRel(<, Nat)
  BY NatLessThanWellFounded, WFMin, Zenon
<1>2. \A x \in T : ~(x < n)
  BY <1>1, Zenon DEF OpToRel
<1> QED BY <1>2

LEMMA WithoutIs ==
  ASSUME NEW E, NEW q \in Seq(E), NEW i \in 1 .. Len(q)
  PROVE  /\ Without(q, i) \in Seq(E) /\ Len(Without(q, i)) = Len(q) - 1
         /\ \A j \in 1 .. Len(q) - 1 : Without(q, i)[j] = q[IF j < i THEN j ELSE j + 1]
<1> DEFINE a == SubSeq(q, 1, i - 1)
           b == SubSeq(q, i + 1, Len(q))
<1>0. Len(q) \in Nat
  OBVIOUS
<1>1. a \in Seq(E) /\ Len(a) = i - 1 /\ \A j \in 1 .. i - 1 : a[j] = q[j]
  BY <1>0, SubSeqProperties
<1>2. b \in Seq(E) /\ Len(b) = Len(q) - i /\ \A j \in 1 .. Len(q) - i : b[j] = q[i + j]
  <2>1. b \in Seq(E) /\ Len(b) = Len(q) - i /\ \A j \in 1 .. Len(q) - (i + 1) + 1 : b[j] = q[(i + 1) + j - 1]
    BY <1>0, SubSeqProperties
  <2>2. \A j \in 1 .. Len(q) - i : j \in 1 .. Len(q) - (i + 1) + 1 /\ (i + 1) + j - 1 = i + j
    BY <1>0
  <2> QED BY <2>1, <2>2
<1> HIDE DEF a, b
<1>3. /\ a \o b \in Seq(E) /\ Len(a \o b) = Len(q) - 1
      /\ \A j \in 1 .. Len(q) - 1 : (a \o b)[j] = IF j <= i - 1 THEN a[j] ELSE b[j - (i - 1)]
  <2>1. /\ a \o b \in Seq(E) /\ Len(a \o b) = Len(a) + Len(b)
        /\ \A j \in 1 .. Len(a) + Len(b) : (a \o b)[j] = IF j <= Len(a) THEN a[j] ELSE b[j - Len(a)]
    BY <1>1, <1>2, ConcatProperties
  <2>2. Len(a) + Len(b) = Len(q) - 1
    BY <1>0, <1>1, <1>2
  <2> QED BY <1>1, <2>1, <2>2
<1>4. ASSUME NEW j \in 1 .. Len(q) - 1
      PROVE  (a \o b)[j] = q[IF j < i THEN j ELSE j + 1]
  <2>1. CASE j < i
    BY <1>0, <1>1, <1>3, <2>1
  <2>2. CASE ~(j < i)
    <3>1. (a \o b)[j] = b[j - (i - 1)] /\ j - (i - 1) \in 1 .. Len(q) - i
      <4>1. j \in Int /\ j >= i /\ j <= Len(q) - 1 /\ i \in Int /\ i >= 1
        BY <1>0, <2>2
      <4>2. ~(j <= i - 1)
        BY <4>1
      <4> QED BY <1>0, <1>3, <4>1, <4>2
    <3>2. i + (j - (i - 1)) = j + 1
      BY <1>0
    <3> QED BY <1>2, <2>2, <3>1, <3>2
  <2> QED BY <2>1, <2>2
<1> QED BY <1>3, <1>4 DEF a, b, Without

(* What is used moves to the back, or to the front. *)
LEMMA MovedToBack ==
  ASSUME NEW E, NEW key, NEW limit, NEW q, KeptOnce(E, key, limit, q), NEW i \in 1 .. Len(q),
         NEW e \in E, key[e] = key[q[i]]
  PROVE  KeptOnce(E, key, limit, Append(Without(q, i), e))
<1> DEFINE r == Without(q, i)
           a == Append(r, e)
<1>0. q \in Seq(E) /\ Len(q) \in Nat /\ Len(q) > 0
  BY DEF KeptOnce
<1>1. r \in Seq(E) /\ Len(r) = Len(q) - 1 /\ \A j \in 1 .. Len(r) : r[j] = q[IF j < i THEN j ELSE j + 1]
  BY <1>0, WithoutIs
<1> HIDE DEF r
<1>2. /\ a \in Seq(E) /\ Len(a) = Len(q)
      /\ \A j \in 1 .. Len(q) : a[j] = IF j = Len(q) THEN e ELSE r[j]
  BY <1>0, <1>1, AppendProperties
<1> HIDE DEF a
<1> DEFINE from(j) == IF j = Len(q) THEN i ELSE IF j < i THEN j ELSE j + 1
<1>3. ASSUME NEW j \in 1 .. Len(q)
      PROVE  from(j) \in 1 .. Len(q) /\ key[a[j]] = key[q[from(j)]]
  BY <1>0, <1>1, <1>2
<1>4. \A j, k \in 1 .. Len(q) : from(j) = from(k) => j = k
  BY <1>0
<1> HIDE DEF from
<1>5. ASSUME NEW j \in 1 .. Len(a), NEW k \in 1 .. Len(a), key[a[j]] = key[a[k]]
      PROVE  j = k
  <2>1. from(j) \in 1 .. Len(q) /\ from(k) \in 1 .. Len(q) /\ key[q[from(j)]] = key[q[from(k)]]
    BY <1>2, <1>3, <1>5
  <2>2. from(j) = from(k)
    BY <2>1 DEF KeptOnce
  <2> QED BY <1>2, <1>4, <2>2
<1>6. Len(a) <= limit
  BY <1>2 DEF KeptOnce
<1> QED BY <1>2, <1>5, <1>6 DEF KeptOnce, a, r

LEMMA MovedToFront ==
  ASSUME NEW E, NEW key, NEW limit, NEW q, KeptOnce(E, key, limit, q), NEW i \in 1 .. Len(q),
         NEW e \in E, key[e] = key[q[i]]
  PROVE  KeptOnce(E, key, limit, <<e>> \o Without(q, i))
<1> DEFINE r == Without(q, i)
           a == <<e>> \o r
<1>0. q \in Seq(E) /\ Len(q) \in Nat /\ Len(q) > 0
  BY DEF KeptOnce
<1>1. r \in Seq(E) /\ Len(r) = Len(q) - 1 /\ \A j \in 1 .. Len(r) : r[j] = q[IF j < i THEN j ELSE j + 1]
  BY <1>0, WithoutIs
<1> HIDE DEF r
<1>2. /\ a \in Seq(E) /\ Len(a) = Len(q)
      /\ \A j \in 1 .. Len(q) : a[j] = IF j = 1 THEN e ELSE r[j - 1]
  <2>1. <<e>> \in Seq(E) /\ Len(<<e>>) = 1 /\ <<e>>[1] = e
    OBVIOUS
  <2>2. /\ a \in Seq(E) /\ Len(a) = 1 + Len(r)
        /\ \A j \in 1 .. 1 + Len(r) : a[j] = IF j <= 1 THEN <<e>>[j] ELSE r[j - 1]
    BY <1>1, <2>1, ConcatProperties
  <2> QED BY <1>0, <1>1, <2>1, <2>2
<1> HIDE DEF a
<1> DEFINE from(j) == IF j = 1 THEN i ELSE IF j - 1 < i THEN j - 1 ELSE j
<1>3. ASSUME NEW j \in 1 .. Len(q)
      PROVE  from(j) \in 1 .. Len(q) /\ key[a[j]] = key[q[from(j)]]
  BY <1>0, <1>1, <1>2
<1>4. \A j, k \in 1 .. Len(q) : from(j) = from(k) => j = k
  BY <1>0
<1> HIDE DEF from
<1>5. ASSUME NEW j \in 1 .. Len(a), NEW k \in 1 .. Len(a), key[a[j]] = key[a[k]]
      PROVE  j = k
  <2>1. from(j) \in 1 .. Len(q) /\ from(k) \in 1 .. Len(q) /\ key[q[from(j)]] = key[q[from(k)]]
    BY <1>2, <1>3, <1>5
  <2>2. from(j) = from(k)
    BY <2>1 DEF KeptOnce
  <2> QED BY <1>2, <1>4, <2>2
<1>6. Len(a) <= limit
  BY <1>2 DEF KeptOnce
<1> QED BY <1>2, <1>5, <1>6 DEF KeptOnce, a, r

(* A new one comes in at one end, and a full table loses the other end. *)
LEMMA EnteredAtBack ==
  ASSUME NEW E, NEW key, NEW limit \in Nat \ {0}, NEW q, KeptOnce(E, key, limit, q),
         NEW e \in E, Unknown(key, q, key[e])
  PROVE  KeptOnce(E, key, limit, Append(IF Len(q) >= limit THEN Tail(q) ELSE q, e))
<1>0. q \in Seq(E) /\ Len(q) \in Nat /\ Len(q) <= limit
  BY DEF KeptOnce
<1>1. PICK n, r : n = (IF Len(q) >= limit THEN 1 ELSE 0) /\ r = (IF Len(q) >= limit THEN Tail(q) ELSE q)
  OBVIOUS
<1>2. r \in Seq(E) /\ Len(r) = Len(q) - n /\ Len(r) \in Nat /\ \A j \in 1 .. Len(r) : r[j] = q[j + n]
  <2>1. CASE Len(q) >= limit
    <3>1. q # <<>>
      BY <1>0, <2>1
    <3> QED BY <1>0, <1>1, <2>1, <3>1, HeadTailProperties
  <2>2. CASE ~(Len(q) >= limit)
    BY <1>0, <1>1, <2>2
  <2> QED BY <2>1, <2>2
<1>3. PICK a : a = Append(r, e)
  OBVIOUS
<1>4. /\ a \in Seq(E) /\ Len(a) = Len(r) + 1
      /\ \A j \in 1 .. Len(a) : a[j] = IF j = Len(a) THEN e ELSE q[j + n]
  BY <1>2, <1>3, AppendProperties
<1>5. Len(a) <= limit
  BY <1>0, <1>1, <1>2, <1>4
<1>6. ASSUME NEW j \in 1 .. Len(a), NEW k \in 1 .. Len(a), key[a[j]] = key[a[k]]
      PROVE  j = k
  <2>1. \A x \in 1 .. Len(a) : x # Len(a) => x + n \in 1 .. Len(q)
    BY <1>0, <1>1, <1>2, <1>4
  <2>2. ASSUME NEW x \in 1 .. Len(a), x # Len(a)  PROVE key[a[x]] # key[e]
    BY <1>4, <2>1, <2>2 DEF Unknown
  <2>3. CASE j = Len(a) \/ k = Len(a)
    BY <1>4, <1>6, <2>2, <2>3
  <2>4. CASE j # Len(a) /\ k # Len(a)
    <3>1. j + n = k + n
      BY SMTT(60), <1>4, <1>6, <2>1, <2>4 DEF KeptOnce
    <3> QED BY <1>1, <3>1
  <2> QED BY <2>3, <2>4
<1> QED BY SMTT(60), <1>1, <1>3, <1>4, <1>5, <1>6 DEF KeptOnce

LEMMA EnteredAtFront ==
  ASSUME NEW E, NEW key, NEW limit \in Nat \ {0}, NEW q, KeptOnce(E, key, limit, q),
         NEW e \in E, Unknown(key, q, key[e])
  PROVE  KeptOnce(E, key, limit, <<e>> \o (IF Len(q) >= limit THEN SubSeq(q, 1, Len(q) - 1) ELSE q))
<1>0. q \in Seq(E) /\ Len(q) \in Nat /\ Len(q) <= limit
  BY DEF KeptOnce
<1>1. PICK n, r : /\ n = (IF Len(q) >= limit THEN 1 ELSE 0)
                  /\ r = (IF Len(q) >= limit THEN SubSeq(q, 1, Len(q) - 1) ELSE q)
  OBVIOUS
<1>2. r \in Seq(E) /\ Len(r) = Len(q) - n /\ Len(r) \in Nat /\ \A j \in 1 .. Len(r) : r[j] = q[j]
  <2>1. CASE Len(q) >= limit
    <3>1. \A j \in 1 .. Len(q) - 1 : q[j] \in E
      BY <1>0
    <3>2. /\ r \in Seq(E) /\ Len(r) = (IF 1 <= Len(q) - 1 THEN Len(q) - 1 - 1 + 1 ELSE 0)
          /\ \A j \in 1 .. Len(q) - 1 - 1 + 1 : r[j] = q[1 + j - 1]
      BY <1>0, <1>1, <2>1, <3>1, SubSeqProperties
    <3>3. Len(r) = Len(q) - 1 /\ Len(r) \in Nat
      <4>1. Len(q) >= 1
        BY <1>0, <2>1
      <4>2. PICK m, z : m = Len(q) /\ z = Len(r)
        OBVIOUS
      <4>3. m \in Nat /\ m >= 1 /\ z = IF 1 <= m - 1 THEN m - 1 - 1 + 1 ELSE 0
        BY <1>0, <3>2, <4>1, <4>2
      <4>4. z = m - 1
        BY <4>3
      <4> QED BY <4>2, <4>3, <4>4
    <3>4. \A j \in 1 .. Len(r) : j \in 1 .. Len(q) - 1 - 1 + 1 /\ 1 + j - 1 = j
      BY <1>0, <3>3
    <3> QED BY <1>0, <1>1, <2>1, <3>2, <3>3, <3>4
  <2>2. CASE ~(Len(q) >= limit)
    BY <1>0, <1>1, <2>2
  <2> QED BY <2>1, <2>2
<1>3. PICK a : a = <<e>> \o r
  OBVIOUS
<1>4. /\ a \in Seq(E) /\ Len(a) = Len(r) + 1
      /\ \A j \in 1 .. Len(a) : a[j] = IF j = 1 THEN e ELSE q[j - 1]
  <2>1. <<e>> \in Seq(E) /\ Len(<<e>>) = 1 /\ <<e>>[1] = e
    OBVIOUS
  <2>2. /\ a \in Seq(E) /\ Len(a) = 1 + Len(r)
        /\ \A j \in 1 .. 1 + Len(r) : a[j] = IF j <= 1 THEN <<e>>[j] ELSE r[j - 1]
    BY <1>2, <1>3, <2>1, ConcatProperties
  <2> QED BY <1>2, <2>1, <2>2
<1>5. Len(a) <= limit
  BY <1>0, <1>1, <1>2, <1>4
<1>6. ASSUME NEW j \in 1 .. Len(a), NEW k \in 1 .. Len(a), key[a[j]] = key[a[k]]
      PROVE  j = k
  <2>1. \A x \in 1 .. Len(a) : x # 1 => x - 1 \in 1 .. Len(q)
    BY <1>0, <1>1, <1>2, <1>4
  <2>2. ASSUME NEW x \in 1 .. Len(a), x # 1  PROVE key[a[x]] # key[e]
    BY <1>4, <2>1, <2>2 DEF Unknown
  <2>3. CASE j = 1 \/ k = 1
    BY <1>4, <1>6, <2>2, <2>3
  <2>4. CASE j # 1 /\ k # 1
    <3>1. j - 1 \in 1 .. Len(q) /\ k - 1 \in 1 .. Len(q)
      BY <2>1, <2>4
    <3>2. a[j] = q[j - 1] /\ a[k] = q[k - 1]
      BY <1>4, <2>4
    <3>3. j - 1 = k - 1
      BY <1>6, <3>1, <3>2 DEF KeptOnce
    <3> QED BY <3>3
  <2> QED BY <2>3, <2>4
<1> QED BY <1>1, <1>3, <1>4, <1>5, <1>6 DEF KeptOnce

(* An entry that changes keeps its key. *)
LEMMA ChangedAtPlace ==
  ASSUME NEW E, NEW key, NEW limit, NEW q, KeptOnce(E, key, limit, q), NEW i \in 1 .. Len(q),
         NEW e \in E, key[e] = key[q[i]]
  PROVE  KeptOnce(E, key, limit, [q EXCEPT ![i] = e])
<1>0. q \in Seq(E) /\ Len(q) \in Nat
  BY DEF KeptOnce
<1>1. PICK a : a = [q EXCEPT ![i] = e]
  OBVIOUS
<1>2. a \in Seq(E) /\ Len(a) = Len(q) /\ \A j \in 1 .. Len(q) : a[j] = IF j = i THEN e ELSE q[j]
  BY <1>0, <1>1, ExceptSeq
<1> QED BY <1>1, <1>2 DEF KeptOnce

-----------------------------------------------------------------------------

(* The first of the places a search finds. *)
LEMMA FirstIsThere ==
  ASSUME NEW T \in SUBSET Nat, T # {}
  PROVE  (CHOOSE x \in T : \A y \in T : x =< y) \in T
BY FirstOfNumbers

-----------------------------------------------------------------------------
(* POWER7: the trackers of the streamer and of the stride prefetcher.      *)
ConfigsAssumed ==
  /\ Blocks \in Nat \ {0} /\ StreamTrackers \in Nat \ {0} /\ StrideTrackers \in Nat \ {0}
  /\ Line \subseteq Nat /\ MaxStep \in Nat

Stream == [key : Int, last : Int, dir : Int]
Stride == [key : Pc, last : Int, stride : Int]
StreamKey == [t \in Stream |-> t.key]
StrideKey == [t \in Stride |-> t.key]
Streams(q) == KeptOnce(Stream, StreamKey, StreamTrackers, q)
Strides(q) == KeptOnce(Stride, StrideKey, StrideTrackers, q)

LEMMA PlaceIs ==
  ASSUME NEW E, NEW q \in Seq(E), NEW k
  PROVE  \/ Power7!Place(q, k) = 0 /\ \A j \in 1 .. Len(q) : q[j].key # k
         \/ Power7!Place(q, k) \in 1 .. Len(q) /\ q[Power7!Place(q, k)].key = k
<1>1. PICK T : T = {j \in 1 .. Len(q) : q[j].key = k}
  OBVIOUS
<1>2. Power7!Place(q, k) = IF T # {} THEN (CHOOSE x \in T : \A y \in T : x =< y) ELSE 0
  BY <1>1 DEF Power7!Place, Power7!SelectInSeq, Power7!Min
<1>3. T \in SUBSET Nat
  BY <1>1
<1>4. CASE T # {}
  <2>1. (CHOOSE x \in T : \A y \in T : x =< y) \in T
    BY <1>3, <1>4, FirstIsThere
  <2>2. Power7!Place(q, k) \in T
    BY <1>2, <1>4, <2>1
  <2> QED BY <1>1, <2>2
<1>5. CASE T = {}
  <2>1. Power7!Place(q, k) = 0
    BY <1>2, <1>5
  <2>2. \A j \in 1 .. Len(q) : q[j].key # k
    BY <1>1, <1>5
  <2> QED BY <2>1, <2>2
<1> QED BY <1>4, <1>5

LEMMA OnceByKey ==
  ASSUME NEW E, NEW key, NEW limit, NEW q, KeptOnce(E, key, limit, q), \A t \in E : key[t] = t.key
  PROVE  Power7!TrackedOnce(q, limit)
<1>1. q \in Seq(E) /\ DOMAIN q = 1 .. Len(q)
  BY DEF KeptOnce
<1>2. \A i \in 1 .. Len(q) : key[q[i]] = q[i].key
  BY <1>1
<1> QED BY <1>1, <1>2 DEF KeptOnce, Power7!TrackedOnce

LEMMA StreamsKept ==
  ASSUME ConfigsAssumed, NEW q, Streams(q), NEW line \in Line, NEW degree
  PROVE  Streams(Power7!Streamed(q, line, degree).trackers)
<1>1. PICK page, offset, i : /\ page = Power7!PageOf(line) /\ offset = Power7!OffsetOf(line)
                             /\ i = Power7!Place(q, page)
  OBVIOUS
<1>2. page \in Int /\ offset \in Int /\ q \in Seq(Stream)
  BY <1>1 DEF Power7!PageOf, Power7!OffsetOf, ConfigsAssumed, Streams, KeptOnce
<1>3. \/ i = 0 /\ \A j \in 1 .. Len(q) : q[j].key # page
      \/ i \in 1 .. Len(q) /\ q[i].key = page
  BY <1>1, <1>2, PlaceIs
<1>4. CASE i = 0
  <2>1. PICK e : e = [key |-> page, last |-> offset, dir |-> 0]
    OBVIOUS
  <2>2. e \in Stream /\ StreamKey[e] = page
    BY <1>2, <2>1 DEF Stream, StreamKey
  <2>3. Unknown(StreamKey, q, StreamKey[e])
    BY <1>2, <1>3, <1>4, <2>2 DEF Unknown, StreamKey
  <2>4. Power7!Streamed(q, line, degree).trackers
          = Append(IF Len(q) >= StreamTrackers THEN Tail(q) ELSE q, e)
    BY <1>1, <1>4, <2>1 DEF Power7!Streamed, Power7!StreamTracker
  <2> QED BY <2>2, <2>3, <2>4, EnteredAtBack DEF Streams, ConfigsAssumed
<1>5. CASE i # 0 /\ q[i].last = offset
  BY <1>1, <1>5 DEF Power7!Streamed
<1>6. CASE i # 0 /\ q[i].last # offset
  <2>1. PICK e : e = [key |-> page, last |-> offset, dir |-> IF offset > q[i].last THEN 1 ELSE -1]
    OBVIOUS
  <2>0. q[i] \in Stream /\ q[i].key = page /\ q[i].last \in Int
    <3>1. q[i] \in Stream /\ q[i].key = page
      BY <1>2, <1>3, <1>6
    <3> QED BY <3>1 DEF Stream
  <2>2. e \in Stream /\ StreamKey[e] = page /\ StreamKey[q[i]] = page
    BY <1>2, <2>0, <2>1 DEF Stream, StreamKey
  <2>3. Power7!Streamed(q, line, degree).trackers = Append(Power7!RemoveAt(q, i), e)
    BY <1>1, <1>6, <2>1 DEF Power7!Streamed
  <2>4. Power7!RemoveAt(q, i) = Without(q, i)
    BY DEF Power7!RemoveAt, Without
  <2> QED BY <1>3, <1>6, <2>2, <2>3, <2>4, MovedToBack DEF Streams
<1> QED BY <1>4, <1>5, <1>6

LEMMA StridesKept ==
  ASSUME ConfigsAssumed, NEW q, Strides(q), NEW pc \in Pc, NEW line \in Line, NEW degree
  PROVE  Strides(Power7!Strided(q, pc, line, degree).trackers)
<1>1. PICK i : i = Power7!Place(q, pc)
  OBVIOUS
<1>2. line \in Int /\ q \in Seq(Stride)
  BY DEF ConfigsAssumed, Strides, KeptOnce
<1>3. \/ i = 0 /\ \A j \in 1 .. Len(q) : q[j].key # pc
      \/ i \in 1 .. Len(q) /\ q[i].key = pc
  BY <1>1, <1>2, PlaceIs
<1>4. CASE i = 0
  <2>1. PICK e : e = [key |-> pc, last |-> line, stride |-> 0]
    OBVIOUS
  <2>2. e \in Stride /\ StrideKey[e] = pc
    BY <1>2, <2>1 DEF Stride, StrideKey
  <2>3. Unknown(StrideKey, q, StrideKey[e])
    BY <1>2, <1>3, <1>4, <2>2 DEF Unknown, StrideKey
  <2>4. Power7!Strided(q, pc, line, degree).trackers
          = <<e>> \o (IF Len(q) >= StrideTrackers THEN SubSeq(q, 1, Len(q) - 1) ELSE q)
    BY <1>1, <1>4, <2>1 DEF Power7!Strided, Power7!StrideTracker, Power7!Front
  <2> QED BY <2>2, <2>3, <2>4, EnteredAtFront DEF Strides, ConfigsAssumed
<1>5. CASE i # 0 /\ line - q[i].last = 0
  BY <1>1, <1>5 DEF Power7!Strided
<1>6. CASE i # 0 /\ line - q[i].last # 0
  <2>1. PICK e : e = [key |-> pc, last |-> line, stride |-> line - q[i].last]
    OBVIOUS
  <2>0. q[i] \in Stride /\ q[i].key = pc /\ q[i].last \in Int
    <3>1. q[i] \in Stride /\ q[i].key = pc
      BY <1>2, <1>3, <1>6
    <3> QED BY <3>1 DEF Stride
  <2>2. e \in Stride /\ StrideKey[e] = pc /\ StrideKey[q[i]] = pc
    BY <1>2, <2>0, <2>1 DEF Stride, StrideKey
  <2>3. Power7!Strided(q, pc, line, degree).trackers = <<e>> \o Power7!RemoveAt(q, i)
    BY <1>1, <1>6, <2>1 DEF Power7!Strided
  <2>4. Power7!RemoveAt(q, i) = Without(q, i)
    BY DEF Power7!RemoveAt, Without
  <2> QED BY <1>3, <1>6, <2>2, <2>3, <2>4, MovedToFront DEF Strides
<1> QED BY <1>4, <1>5, <1>6

-----------------------------------------------------------------------------
(* A core's record: what it measured in this exploration, and what it      *)
(* chose by the last one.                                                  *)
Configs == 1 .. 14
Fields(p) ==
  p = [mode |-> p.mode, config |-> p.config, accesses |-> p.accesses, stamp |-> p.stamp,
       cycles |-> p.cycles, streams |-> p.streams, strides |-> p.strides,
       issued |-> p.issued, won |-> p.won]
Timed(p, clock) ==
  /\ p.mode \in {"Exploit", "Explore"} /\ p.config \in Configs /\ p.accesses \in Nat
  /\ p.stamp \in Nat /\ p.stamp <= clock
  /\ p.cycles \in [Configs -> Nat] /\ p.won \in [Configs -> Nat]
Measured(p) == p.mode = "Explore" => \A d \in Configs : p.cycles[d] # 0 <=> d < p.config
Fastest(won, config) == \A d \in Configs : 0 < won[config] /\ won[config] <= won[d]
Chosen(p) == p.mode = "Exploit" => p.won = Power7!Cleared \/ Fastest(p.won, p.config)
Tuning(p, clock) == Fields(p) /\ Timed(p, clock) /\ Measured(p) /\ Chosen(p)

LEMMA ConfigsAre == DOMAIN Power7!Config = Configs /\ Power7!Default = 1 /\ Power7!Deepest = 14
BY DEF Power7!Config, Configs, Power7!Default, Power7!Deepest

LEMMA ClearedIs == Power7!Cleared \in [Configs -> Nat] /\ \A d \in Configs : Power7!Cleared[d] = 0
BY ConfigsAre DEF Power7!Cleared

(* The winner is a configuration and no other took fewer cycles. *)
LEMMA WinnerIsFastest ==
  ASSUME NEW m \in [Configs -> Nat]
  PROVE  /\ Power7!get_winner_config(m) \in Configs
         /\ \A d \in Configs : m[Power7!get_winner_config(m)] <= m[d]
<1>1. PICK T : T = {c \in Configs : \A d \in Configs : m[c] <= m[d]}
  OBVIOUS
<1>2. Power7!get_winner_config(m) = CHOOSE x \in T : \A y \in T : x >= y
  BY <1>1, ConfigsAre DEF Power7!get_winner_config, Power7!Max
<1>3. T # {}
  <2>1. PICK R : R = {m[c] : c \in Configs}
    OBVIOUS
  <2>2. R \in SUBSET Nat /\ m[1] \in R
    BY <2>1 DEF Configs
  <2>3. PICK n \in R : \A x \in R : n <= x
    BY <2>2, FirstOfNumbers
  <2> QED BY <1>1, <2>1, <2>3
<1>4. \E x \in T : \A y \in T : x >= y
  <2>1. PICK U : U = {14 - c : c \in T}
    OBVIOUS
  <2>2. U \in SUBSET Nat /\ U # {}
    BY <1>1, <1>3, <2>1 DEF Configs
  <2>3. PICK n \in U : \A x \in U : n <= x
    BY <2>2, FirstOfNumbers
  <2>4. PICK x \in T : n = 14 - x
    BY <2>1, <2>3
  <2>5. ASSUME NEW y \in T  PROVE x >= y
    <3>1. 14 - x <= 14 - y
      BY <2>1, <2>3, <2>4
    <3> QED BY <1>1, <2>4, <3>1 DEF Configs
  <2> QED BY <2>5
<1> QED BY <1>1, <1>2, <1>4

(* One demand. *)
LEMMA TunedTunes ==
  ASSUME NEW clock \in Nat, NEW p, Tuning(p, clock), NEW later \in Nat, clock < later
  PROVE  LET q == Power7!Tuned([p EXCEPT !.accesses = @ + 1], later) IN
         /\ Tuning(q, later) /\ q.streams = p.streams /\ q.strides = p.strides
         /\ q.accesses # 0 => q.config = p.config
<1>1. PICK a : a = [p EXCEPT !.accesses = p.accesses + 1]
  OBVIOUS
<1>2. /\ Fields(a) /\ a.mode = p.mode /\ a.config = p.config /\ a.stamp = p.stamp /\ a.cycles = p.cycles
      /\ a.won = p.won /\ a.streams = p.streams /\ a.strides = p.strides /\ a.accesses \in Nat
  BY <1>1 DEF Tuning, Fields, Timed
<1>3. PICK q, m : q = Power7!Tuned(a, later) /\ m = [a.cycles EXCEPT ![a.config] = later - a.stamp]
  OBVIOUS
<1>4. /\ a.mode \in {"Exploit", "Explore"} /\ a.config \in Configs /\ a.stamp \in Nat
      /\ a.stamp < later /\ a.cycles \in [Configs -> Nat] /\ a.won \in [Configs -> Nat]
  BY <1>2 DEF Tuning, Timed
<1>5. m \in [Configs -> Nat] /\ \A d \in Configs : m[d] = IF d = a.config THEN later - a.stamp ELSE a.cycles[d]
  BY <1>3, <1>4
<1>6. Measured(a) /\ Chosen(a)
  BY <1>2 DEF Tuning, Measured, Chosen
<1>7. CASE q = a
  <2>1. Timed(q, later)
    BY <1>2, <1>4, <1>7 DEF Timed
  <2> QED BY <1>1, <1>2, <1>3, <1>6, <1>7, <2>1 DEF Tuning
<1>8. CASE /\ a.mode = "Exploit"
           /\ q = [Power7!Started(a, 1, "Explore", later) EXCEPT !.cycles = Power7!Cleared]
  <2>1. /\ Fields(q) /\ q.mode = "Explore" /\ q.config = 1 /\ q.accesses = 0 /\ q.stamp = later
        /\ q.cycles = Power7!Cleared /\ q.won = a.won /\ q.streams = a.streams /\ q.strides = a.strides
    BY <1>2, <1>8 DEF Power7!Started, Fields
  <2>2. Timed(q, later) /\ Chosen(q)
    BY <1>4, <2>1, ClearedIs DEF Timed, Chosen, Configs
  <2>3. Measured(q)
    BY <2>1, ClearedIs DEF Measured, Configs
  <2> QED BY <1>2, <1>3, <1>1, <2>1, <2>2, <2>3 DEF Tuning
<1>9. CASE /\ a.mode = "Explore" /\ a.config = 14
           /\ q = [Power7!Started(a, Power7!get_winner_config(m), "Exploit", later)
                     EXCEPT !.cycles = Power7!Cleared, !.won = m]
  <2>1. /\ Fields(q) /\ q.mode = "Exploit" /\ q.config = Power7!get_winner_config(m) /\ q.accesses = 0
        /\ q.stamp = later /\ q.cycles = Power7!Cleared /\ q.won = m
        /\ q.streams = a.streams /\ q.strides = a.strides
    BY <1>2, <1>9 DEF Power7!Started, Fields
  <2>2. Timed(q, later)
    BY <1>5, <2>1, ClearedIs, WinnerIsFastest DEF Timed
  <2>3. \A d \in Configs : m[d] > 0
    BY <1>4, <1>5, <1>6, <1>9 DEF Measured, Configs
  <2>4. Chosen(q) /\ Measured(q)
    BY <1>5, <2>1, <2>3, WinnerIsFastest DEF Chosen, Fastest, Measured
  <2> QED BY <1>1, <1>2, <1>3, <2>1, <2>2, <2>4 DEF Tuning
<1>10. CASE /\ a.mode = "Explore" /\ a.config # 14
            /\ q = [Power7!Started(a, a.config + 1, "Explore", later) EXCEPT !.cycles = m]
  <2>1. /\ Fields(q) /\ q.mode = "Explore" /\ q.config = a.config + 1 /\ q.accesses = 0 /\ q.stamp = later
        /\ q.cycles = m /\ q.won = a.won /\ q.streams = a.streams /\ q.strides = a.strides
    BY <1>2, <1>10 DEF Power7!Started, Fields
  <2>2. Timed(q, later) /\ Chosen(q)
    BY <1>4, <1>5, <1>10, <2>1 DEF Timed, Chosen, Configs
  <2>3. ASSUME NEW d \in Configs  PROVE m[d] # 0 <=> d < a.config + 1
    BY <1>4, <1>5, <1>6, <1>10 DEF Measured, Configs
  <2>4. Measured(q)
    BY <2>1, <2>3 DEF Measured
  <2> QED BY <1>1, <1>2, <1>3, <2>1, <2>2, <2>4 DEF Tuning
<1>11. \/ q = a
       \/ /\ a.mode = "Exploit"
          /\ q = [Power7!Started(a, 1, "Explore", later) EXCEPT !.cycles = Power7!Cleared]
       \/ /\ a.mode = "Explore" /\ a.config = 14
          /\ q = [Power7!Started(a, Power7!get_winner_config(m), "Exploit", later)
                    EXCEPT !.cycles = Power7!Cleared, !.won = m]
       \/ /\ a.mode = "Explore" /\ a.config # 14
          /\ q = [Power7!Started(a, a.config + 1, "Explore", later) EXCEPT !.cycles = m]
  BY <1>3, <1>4, ConfigsAre DEF Power7!Tuned
<1> QED BY <1>7, <1>8, <1>9, <1>10, <1>11

TuningInvariant ==
  /\ s = [core |-> s.core, knobs |-> s.knobs, clock |-> s.clock]
  /\ s.core = [c \in Core |-> s.core[c]] /\ s.clock \in Nat
  /\ \A c \in Core : Tuning(s.core[c], s.clock) /\ Streams(s.core[c].streams) /\ Strides(s.core[c].strides)

LEMMA TuningStarts ==
  ASSUME ConfigsAssumed, Power7!Init
  PROVE  TuningInvariant /\ s.knobs = Power7!Params(1) /\ \A c \in Core : s.core[c].config = 1
<1>1. PICK p : p = [mode |-> "Exploit", config |-> Power7!Default, accesses |-> 0, stamp |-> 0,
                    cycles |-> Power7!Cleared, streams |-> <<>>, strides |-> <<>>, issued |-> <<>>,
                    won |-> Power7!Cleared]
  OBVIOUS
<1>2. /\ s = [core |-> s.core, knobs |-> s.knobs, clock |-> s.clock] /\ s.clock = 0
      /\ s.core = [c \in Core |-> p] /\ s.knobs = Power7!Params(1)
  BY <1>1, ConfigsAre DEF Power7!Init
<1>3. Timed(p, 0) /\ p.config = 1
  BY <1>1, ConfigsAre, ClearedIs DEF Timed, Configs
<1>4. Tuning(p, 0)
  BY <1>1, <1>3 DEF Tuning, Fields, Measured, Chosen
<1>5. Streams(p.streams) /\ Strides(p.strides)
  BY <1>1, EmptySeq DEF Streams, Strides, KeptOnce, ConfigsAssumed
<1> QED BY <1>2, <1>3, <1>4, <1>5 DEF TuningInvariant

(* A demand changes one core's record, and the knobs as it sets them. *)
DemandIs(c, clock, knobs, new) ==
  /\ clock \in Nat /\ s.clock < clock
  /\ s' = [s EXCEPT !.clock = clock, !.knobs = knobs, !.core[c] = new]
  /\ Tuning(new, clock) /\ Streams(new.streams) /\ Strides(new.strides)
  /\ knobs = Power7!Params(new.config) \/ (knobs = s.knobs /\ new.config = s.core[c].config)

LEMMA DemandTunes ==
  ASSUME ConfigsAssumed, TuningInvariant, Power7!Next
  PROVE  \E c, clock, knobs, new : c \in Core /\ DemandIs(c, clock, knobs, new)
<1>1. PICK c \in Core, pc \in Pc, line \in Line, cycles \in 1 .. MaxStep :
             Power7!invoke_prefetcher(c, pc, line, cycles)
  BY DEF Power7!Next
<1>2. PICK clock, p : clock = s.clock + cycles /\ p = Power7!Tuned([s.core[c] EXCEPT !.accesses = @ + 1], clock)
  OBVIOUS
<1>3. PICK knobs, streamed, strided :
        /\ knobs = (IF p.accesses = 0 THEN Power7!Params(p.config) ELSE s.knobs)
        /\ streamed = Power7!Streamed(p.streams, line, knobs[1])
        /\ strided = Power7!Strided(p.strides, pc, line, knobs[2])
  OBVIOUS
<1>4. PICK new : new = [p EXCEPT !.streams = streamed.trackers, !.strides = strided.trackers,
                                 !.issued = streamed.issued \o strided.issued]
  BY SMTT(60)
<1>5. s' = [s EXCEPT !.clock = clock, !.knobs = knobs, !.core[c] = new]
  BY <1>1, <1>2, <1>3, <1>4 DEF Power7!invoke_prefetcher
<1>6. clock \in Nat /\ s.clock < clock /\ s.clock \in Nat
  BY <1>2 DEF TuningInvariant, ConfigsAssumed
<1>7. Tuning(p, clock) /\ p.streams = s.core[c].streams /\ p.strides = s.core[c].strides
  BY <1>2, <1>6, TunedTunes DEF TuningInvariant
<1>8. Streams(streamed.trackers) /\ Strides(strided.trackers)
  BY <1>3, <1>7, StreamsKept, StridesKept DEF TuningInvariant
<1>9. /\ Fields(new) /\ new.mode = p.mode /\ new.config = p.config /\ new.accesses = p.accesses
      /\ new.stamp = p.stamp /\ new.cycles = p.cycles /\ new.won = p.won
      /\ new.streams = streamed.trackers /\ new.strides = strided.trackers
  BY <1>4, <1>7 DEF Tuning, Fields
<1>10. Tuning(new, clock)
  BY <1>7, <1>9 DEF Tuning, Timed, Measured, Chosen
<1>11. p.accesses # 0 => p.config = s.core[c].config
  BY <1>2, <1>6, TunedTunes DEF TuningInvariant
<1>12. knobs = Power7!Params(new.config) \/ (knobs = s.knobs /\ new.config = s.core[c].config)
  BY <1>3, <1>9, <1>11
<1>13. DemandIs(c, clock, knobs, new)
  BY <1>5, <1>6, <1>8, <1>9, <1>10, <1>12 DEF DemandIs
<1> QED BY <1>13

LEMMA TuningStep ==
  ASSUME TuningInvariant, [Power7!Next]_s, ConfigsAssumed
  PROVE  TuningInvariant'
<1>1. CASE UNCHANGED s
  BY SMTT(60), <1>1 DEF TuningInvariant, Tuning, Timed, Measured, Chosen, Fields, Streams, Strides, KeptOnce, Fastest
<1>2. CASE Power7!Next
  <2>1. PICK c, clock, knobs, new : c \in Core /\ DemandIs(c, clock, knobs, new)
    BY <1>2, DemandTunes
  <2>2. /\ s' = [core |-> [s.core EXCEPT ![c] = new], knobs |-> knobs, clock |-> clock]
        /\ clock \in Nat /\ s.clock < clock
    BY <2>1 DEF DemandIs, TuningInvariant
  <2>3. \A d \in Core : s'.core[d] = IF d = c THEN new ELSE s.core[d]
    BY <2>2 DEF TuningInvariant
  <2>4. ASSUME NEW d \in Core
        PROVE  Tuning(s'.core[d], clock) /\ Streams(s'.core[d].streams) /\ Strides(s'.core[d].strides)
    <3>1. CASE d = c
      BY <2>1, <2>3, <3>1 DEF DemandIs
    <3>2. CASE d # c
      <4>1. PICK p : p = s.core[d]
        OBVIOUS
      <4>2. Tuning(p, s.clock) /\ Streams(p.streams) /\ Strides(p.strides) /\ s.clock \in Nat
        BY <4>1 DEF TuningInvariant
      <4>3. Tuning(p, clock)
        BY <2>2, <4>2 DEF Tuning, Timed
      <4> QED BY <2>3, <3>2, <4>1, <4>2, <4>3
    <3> QED BY <3>1, <3>2
  <2>5. s'.core = [d \in Core |-> s'.core[d]]
    BY <2>2 DEF TuningInvariant
  <2> QED BY <2>2, <2>4, <2>5 DEF TuningInvariant
<1> QED BY <1>1, <1>2

(* What POWER7 exploits took the fewest cycles of all configurations, each *)
(* of which was measured; it tracks a page and a pc once, in the limits.   *)
THEOREM FastestAlwaysExploited ==
  ConfigsAssumed => (Power7!Spec => []Power7!FastestExploited)
<1> SUFFICES ASSUME ConfigsAssumed  PROVE Power7!Spec => []Power7!FastestExploited
  OBVIOUS
<1>1. TuningInvariant => Power7!FastestExploited
  <2> SUFFICES ASSUME TuningInvariant, NEW c \in Core
               PROVE  LET p == s.core[c]
                      IN /\ p.mode = "Explore" => \A d \in DOMAIN Power7!Config : (p.cycles[d] # 0) <=> (d < p.config)
                         /\ p.mode = "Exploit" /\ p.won # Power7!Cleared =>
                              \A d \in DOMAIN Power7!Config : 0 < p.won[p.config] /\ p.won[p.config] <= p.won[d]
                         /\ Power7!TrackedOnce(p.streams, StreamTrackers)
                         /\ Power7!TrackedOnce(p.strides, StrideTrackers)
    BY DEF Power7!FastestExploited
  <2>1. PICK p : p = s.core[c]
    OBVIOUS
  <2>2. Tuning(p, s.clock) /\ Streams(p.streams) /\ Strides(p.strides)
    BY <2>1 DEF TuningInvariant
  <2>3. Measured(p) /\ Chosen(p) /\ p.config \in Configs
    BY <2>2 DEF Tuning, Timed
  <2>4. Power7!TrackedOnce(p.streams, StreamTrackers)
    <3>1. \A t \in Stream : StreamKey[t] = t.key
      BY DEF StreamKey
    <3> QED BY <2>2, <3>1, OnceByKey DEF Streams
  <2>5. Power7!TrackedOnce(p.strides, StrideTrackers)
    <3>1. \A t \in Stride : StrideKey[t] = t.key
      BY DEF StrideKey
    <3> QED BY <2>2, <3>1, OnceByKey DEF Strides
  <2> QED BY <2>1, <2>3, <2>4, <2>5, ConfigsAre DEF Measured, Chosen, Fastest
<1>2. Power7!Init => TuningInvariant
  BY TuningStarts
<1>3. TuningInvariant /\ [Power7!Next]_s => TuningInvariant'
  BY TuningStep
<1> QED BY <1>1, <1>2, <1>3, PTL DEF Power7!Spec

(* With one core the knobs are always those of the configuration it        *)
(* measures or exploits; with two a core runs with what the other set.     *)
THEOREM OneCoreSetsTheDegrees ==
  ASSUME NEW core, Core = {core}, ConfigsAssumed
  PROVE  Power7!Spec => [](s.knobs = Power7!Params(s.core[core].config))
<1> DEFINE Inv == TuningInvariant /\ s.knobs = Power7!Params(s.core[core].config)
<1>1. Power7!Init => Inv
  BY TuningStarts
<1>2. Inv /\ [Power7!Next]_s => Inv'
  <2> SUFFICES ASSUME Inv, [Power7!Next]_s  PROVE Inv'
    OBVIOUS
  <2>1. TuningInvariant'
    BY TuningStep
  <2>2. CASE UNCHANGED s
    BY <2>1, <2>2
  <2>3. CASE Power7!Next
    <3>1. PICK c, clock, knobs, new : c \in Core /\ DemandIs(c, clock, knobs, new)
      BY <2>3, DemandTunes
    <3>2. c = core /\ s'.knobs = knobs /\ s'.core[core] = new
      BY <3>1 DEF DemandIs, TuningInvariant
    <3>3. s'.knobs = Power7!Params(s'.core[core].config)
      BY <3>1, <3>2 DEF DemandIs
    <3> QED BY <2>1, <3>3
  <2> QED BY <2>2, <2>3
<1> QED BY <1>1, <1>2, PTL DEF Power7!Spec

-----------------------------------------------------------------------------
(* SMS: an entry that changes keeps its key; one is taken out.             *)
LEMMA ChangedThroughout ==
  ASSUME NEW E, NEW key, NEW limit, NEW q, KeptOnce(E, key, limit, q), NEW r \in [1 .. Len(q) -> E],
         \A i \in 1 .. Len(q) : key[r[i]] = key[q[i]]
  PROVE  KeptOnce(E, key, limit, r) /\ Len(r) = Len(q)
<1>1. Len(q) \in Nat
  BY DEF KeptOnce
<1>2. r \in Seq(E) /\ Len(r) = Len(q)
  BY <1>1
<1> QED BY <1>2 DEF KeptOnce

LEMMA TakenOut ==
  ASSUME NEW E, NEW key, NEW limit \in Int, NEW q, KeptOnce(E, key, limit, q), NEW i \in 1 .. Len(q)
  PROVE  KeptOnce(E, key, limit, Without(q, i))
<1>1. q \in Seq(E) /\ Len(q) \in Nat
  BY DEF KeptOnce
<1>2. PICK r : r = Without(q, i)
  OBVIOUS
<1>3. r \in Seq(E) /\ Len(r) = Len(q) - 1 /\ \A j \in 1 .. Len(q) - 1 : r[j] = q[IF j < i THEN j ELSE j + 1]
  BY <1>1, <1>2, WithoutIs
<1>4. ASSUME NEW j \in 1 .. Len(r), NEW k \in 1 .. Len(r), key[r[j]] = key[r[k]]  PROVE j = k
  <2>1. PICK x, y : x = (IF j < i THEN j ELSE j + 1) /\ y = (IF k < i THEN k ELSE k + 1)
    OBVIOUS
  <2>2. x \in 1 .. Len(q) /\ y \in 1 .. Len(q) /\ (x = y => j = k)
    BY <1>1, <1>3, <2>1
  <2>3. key[q[x]] = key[q[y]]
    <3>1. j \in 1 .. Len(q) - 1 /\ k \in 1 .. Len(q) - 1
      BY <1>3
    <3> QED BY <1>3, <1>4, <2>1, <3>1
  <2> QED BY <2>2, <2>3 DEF KeptOnce
<1>5. Len(r) <= limit
  BY <1>1, <1>3 DEF KeptOnce
<1> QED BY <1>2, <1>3, <1>4, <1>5 DEF KeptOnce

(* The last of the oldest entries is one of them. *)
LEMMA LastOfGreatest ==
  ASSUME NEW n \in Nat \ {0}, NEW a \in [1 .. n -> Int]
  PROVE  \E i \in 1 .. n : \A j \in 1 .. n : a[j] < a[i] \/ (a[j] = a[i] /\ j <= i)
<1>1. PICK P : P = {m \in 1 .. n : \E i \in 1 .. m : \A j \in 1 .. m : a[j] < a[i] \/ (a[j] = a[i] /\ j <= i)}
  OBVIOUS
<1>2. ASSUME (1 .. n) \ P # {}  PROVE FALSE
  <2>1. (1 .. n) \ P \in SUBSET Nat
    OBVIOUS
  <2>2. PICK m \in (1 .. n) \ P : \A x \in (1 .. n) \ P : m <= x
    BY <1>2, <2>1, FirstOfNumbers
  <2>3. m \in Int /\ 1 <= m /\ m <= n /\ m \notin P
    BY <2>2
  <2>4. m # 1
    BY <1>1, <2>3
  <2>5. m - 1 \in 1 .. n /\ ~(m <= m - 1)
    BY <2>3, <2>4
  <2>6. m - 1 \in P
    BY <2>2, <2>5
  <2>7. PICK i \in 1 .. m - 1 : \A j \in 1 .. m - 1 : a[j] < a[i] \/ (a[j] = a[i] /\ j <= i)
    BY <1>1, <2>6
  <2>8. a[m] \in Int /\ a[i] \in Int /\ i \in Int /\ i < m /\ i \in 1 .. m
    BY <2>3, <2>7
  <2>9. ASSUME NEW j \in 1 .. m  PROVE j = m \/ (j \in 1 .. m - 1 /\ j < m /\ a[j] \in Int)
    BY <2>3
  <2>10. CASE a[m] >= a[i]
    <3>1. ASSUME NEW j \in 1 .. m  PROVE a[j] < a[m] \/ (a[j] = a[m] /\ j <= m)
      <4>1. CASE j = m
        BY <2>8, <4>1
      <4>2. CASE j # m
        <5>1. j \in 1 .. m - 1 /\ j < m /\ a[j] \in Int
          BY <2>9, <4>2
        <5>2. a[j] <= a[i]
          BY SMTT(60), <2>7, <2>8, <5>1
        <5> QED BY <2>3, <2>8, <2>10, <5>1, <5>2
      <4> QED BY <4>1, <4>2
    <3> QED BY SMTT(60), <1>1, <2>3, <3>1
  <2>11. CASE a[m] < a[i]
    <3>1. ASSUME NEW j \in 1 .. m  PROVE a[j] < a[i] \/ (a[j] = a[i] /\ j <= i)
      BY <2>7, <2>9, <2>11
    <3> QED BY <1>1, <2>3, <2>8, <3>1
  <2> QED BY <2>8, <2>10, <2>11
<1>3. n \in P
  BY <1>2
<1> QED BY <1>1, <1>3

LEMMA OldestIsThere ==
  ASSUME NEW E, \A e \in E : e.age \in Int, NEW q \in Seq(E), Len(q) > 0
  PROVE  Sms!search_victim(q) \in 1 .. Len(q)
<1>1. DOMAIN q = 1 .. Len(q) /\ Len(q) \in Nat \ {0} /\ \A i \in 1 .. Len(q) : q[i] \in E
  OBVIOUS
<1>2. PICK a : a = [i \in 1 .. Len(q) |-> q[i].age]
  OBVIOUS
<1>3. a \in [1 .. Len(q) -> Int]
  BY <1>1, <1>2
<1>4. \E i \in 1 .. Len(q) : \A j \in 1 .. Len(q) : a[j] < a[i] \/ (a[j] = a[i] /\ j <= i)
  BY <1>1, <1>3, LastOfGreatest
<1>5. \E i \in 1 .. Len(q) : \A j \in 1 .. Len(q) :
        q[j].age < q[i].age \/ (q[j].age = q[i].age /\ j <= i)
  BY <1>2, <1>4
<1> QED BY <1>1, <1>5 DEF Sms!search_victim

Ageing(E) == \A e \in E : e.age \in Int /\ \A n \in Int : [e EXCEPT !.age = n] \in E
OlderBy(E, q, r) ==
  /\ r \in [1 .. Len(q) -> E]
  /\ \A j \in 1 .. Len(q) : \E n \in Int : r[j] = [q[j] EXCEPT !.age = n]

LEMMA AgesChange ==
  ASSUME NEW E, Ageing(E), NEW q \in Seq(E), NEW i
  PROVE  OlderBy(E, q, Sms!update_age(q, i))
<1>1. DOMAIN q = 1 .. Len(q) /\ \A j \in 1 .. Len(q) : q[j] \in E
  OBVIOUS
<1>2. PICK r : r = Sms!update_age(q, i)
  OBVIOUS
<1>3. r = [j \in 1 .. Len(q) |-> [q[j] EXCEPT !.age = IF j = i THEN 0 ELSE @ + 1]]
  BY <1>1, <1>2 DEF Sms!update_age
<1>4. ASSUME NEW j \in 1 .. Len(q)  PROVE r[j] \in E /\ \E n \in Int : r[j] = [q[j] EXCEPT !.age = n]
  <2>1. PICK n : n = IF j = i THEN 0 ELSE q[j].age + 1
    OBVIOUS
  <2>2. n \in Int /\ r[j] = [q[j] EXCEPT !.age = n]
    <3>1. q[j].age \in Int
      BY <1>1 DEF Ageing
    <3>2. r[j] = [q[j] EXCEPT !.age = IF j = i THEN 0 ELSE q[j].age + 1]
      BY <1>3
    <3> QED BY <2>1, <3>1, <3>2
  <2> QED BY <1>1, <2>2 DEF Ageing
<1>5. OlderBy(E, q, r)
  BY <1>3, <1>4 DEF OlderBy
<1> QED BY <1>2, <1>5

-----------------------------------------------------------------------------
SmsAssumed ==
  /\ Pc \subseteq Nat /\ Blocks \in Nat \ {0} /\ FtSize \in Nat \ {0} /\ AtSize \in Nat \ {0}
  /\ PhtSets \in Nat \ {0} /\ PhtAssoc \in Nat \ {0} /\ Degree \in Nat /\ BufferSize \in Nat

SmsBlock == 0 .. Blocks - 1
Opened == [region : Region, pc : Pc, trigger : SmsBlock]
Generation == {e \in [region : Region, pc : Pc, trigger : SmsBlock, pattern : SUBSET SmsBlock, age : Int] :
                 e.trigger \in e.pattern}
Pattern(x) == {e \in [signature : Nat, pattern : SUBSET SmsBlock, age : Int] :
                 e.signature % PhtSets = x /\ e.signature % Blocks \in e.pattern}
OpenedRegion == [e \in Opened |-> e.region]
GenerationRegion == [e \in Generation |-> e.region]
Signature(x) == [e \in Pattern(x) |-> e.signature]
Opening(q) == KeptOnce(Opened, OpenedRegion, FtSize, q)
Accumulating(q) == KeptOnce(Generation, GenerationRegion, AtSize, q)
PatternsOf(x, q) == KeptOnce(Pattern(x), Signature(x), PhtAssoc, q)

LEMMA SmsSearches ==
  ASSUME NEW E, NEW q \in Seq(E), NEW k
  PROVE  /\ \/ Sms!search_table(q, k) = 0 /\ \A j \in 1 .. Len(q) : q[j].region # k
            \/ Sms!search_table(q, k) \in 1 .. Len(q) /\ q[Sms!search_table(q, k)].region = k
         /\ \/ Sms!search_pht(q, k) = 0 /\ \A j \in 1 .. Len(q) : q[j].signature # k
            \/ Sms!search_pht(q, k) \in 1 .. Len(q) /\ q[Sms!search_pht(q, k)].signature = k
<1>1. PICK T, U : T = {j \in 1 .. Len(q) : q[j].region = k} /\ U = {j \in 1 .. Len(q) : q[j].signature = k}
  OBVIOUS
<1>2. /\ Sms!search_table(q, k) = IF T # {} THEN (CHOOSE x \in T : \A y \in T : x =< y) ELSE 0
      /\ Sms!search_pht(q, k) = IF U # {} THEN (CHOOSE x \in U : \A y \in U : x =< y) ELSE 0
  BY <1>1 DEF Sms!search_table, Sms!search_pht, Sms!SelectInSeq, Sms!Min
<1>3. T \in SUBSET Nat /\ U \in SUBSET Nat
  BY <1>1
<1>4. \/ Sms!search_table(q, k) = 0 /\ \A j \in 1 .. Len(q) : q[j].region # k
      \/ Sms!search_table(q, k) \in 1 .. Len(q) /\ q[Sms!search_table(q, k)].region = k
  <2>1. CASE T # {}
    <3>1. (CHOOSE x \in T : \A y \in T : x =< y) \in T
      BY <1>3, <2>1, FirstIsThere
    <3>2. Sms!search_table(q, k) \in T
      BY <1>2, <2>1, <3>1
    <3> QED BY <1>1, <3>2
  <2>2. CASE T = {}
    <3>1. Sms!search_table(q, k) = 0
      BY <1>2, <2>2
    <3>2. \A j \in 1 .. Len(q) : q[j].region # k
      BY <1>1, <2>2
    <3> QED BY <3>1, <3>2
  <2> QED BY <2>1, <2>2
<1>5. \/ Sms!search_pht(q, k) = 0 /\ \A j \in 1 .. Len(q) : q[j].signature # k
      \/ Sms!search_pht(q, k) \in 1 .. Len(q) /\ q[Sms!search_pht(q, k)].signature = k
  <2>1. CASE U # {}
    <3>1. (CHOOSE x \in U : \A y \in U : x =< y) \in U
      BY <1>3, <2>1, FirstIsThere
    <3>2. Sms!search_pht(q, k) \in U
      BY <1>2, <2>1, <3>1
    <3> QED BY <1>1, <3>2
  <2>2. CASE U = {}
    <3>1. Sms!search_pht(q, k) = 0
      BY <1>2, <2>2
    <3>2. \A j \in 1 .. Len(q) : q[j].signature # k
      BY <1>1, <2>2
    <3> QED BY <3>1, <3>2
  <2> QED BY <2>1, <2>2
<1> QED BY <1>4, <1>5

LEMMA PatternsAge ==
  ASSUME NEW x
  PROVE  Ageing(Pattern(x)) /\ \A e \in Pattern(x), n \in Int :
           [e EXCEPT !.age = n].signature = e.signature
BY DEF Ageing, Pattern

LEMMA GenerationsAge ==
  /\ Ageing(Generation)
  /\ \A e \in Generation, n \in Int :
       LET a == [e EXCEPT !.age = n]
       IN a.region = e.region /\ a.pattern = e.pattern
BY DEF Ageing, Generation

(* What is left when a table gives up a place. *)
LEMMA RoomMade ==
  ASSUME NEW E, NEW key, NEW limit \in Nat \ {0}, NEW q, KeptOnce(E, key, limit, q), NEW v \in 1 .. Len(q),
         Len(q) >= limit
  PROVE  KeptOnce(E, key, limit, Without(q, v)) /\ Len(Without(q, v)) < limit
<1>1. q \in Seq(E) /\ Len(q) \in Nat /\ Len(q) <= limit
  BY DEF KeptOnce
<1>2. Len(Without(q, v)) = Len(q) - 1
  BY <1>1, WithoutIs
<1> QED BY <1>1, <1>2, TakenOut

LEMMA PatternsAged ==
  ASSUME NEW x, NEW q, PatternsOf(x, q), NEW i
  PROVE  PatternsOf(x, Sms!update_age(q, i)) /\ Len(Sms!update_age(q, i)) = Len(q)
<1>1. q \in Seq(Pattern(x)) /\ \A j \in 1 .. Len(q) : q[j] \in Pattern(x)
  BY DEF PatternsOf, KeptOnce
<1>2. PICK r : r = Sms!update_age(q, i)
  OBVIOUS
<1>3. /\ r \in [1 .. Len(q) -> Pattern(x)]
      /\ \A j \in 1 .. Len(q) : \E n \in Int : r[j] = [q[j] EXCEPT !.age = n]
  <2>1. Ageing(Pattern(x))
    BY PatternsAge
  <2>2. \A p \in Seq(Pattern(x)) :
          OlderBy(Pattern(x), p, Sms!update_age(p, i))
    BY <2>1, AgesChange
  <2>3. OlderBy(Pattern(x), q, r)
    BY <1>1, <1>2, <2>2
  <2> QED BY <2>3 DEF OlderBy
<1>4. ASSUME NEW j \in 1 .. Len(q)  PROVE Signature(x)[r[j]] = Signature(x)[q[j]]
  <2>1. r[j] \in Pattern(x) /\ q[j] \in Pattern(x)
    BY <1>1, <1>3
  <2>2. r[j].signature = q[j].signature
    <3>1. PICK n \in Int : r[j] = [q[j] EXCEPT !.age = n]
      BY <1>3
    <3>2. [q[j] EXCEPT !.age = n].signature = q[j].signature
      BY <2>1, PatternsAge
    <3> QED BY <3>1, <3>2
  <2> QED BY <2>1, <2>2 DEF Signature
<1> QED BY <1>2, <1>3, <1>4, ChangedThroughout DEF PatternsOf

LEMMA OffsetOfSignature ==
  ASSUME NEW b \in Nat \ {0}, NEW p \in Nat, NEW t \in 0 .. b - 1
  PROVE  p * b + t \in Nat /\ (p * b + t) % b = t
OBVIOUS

LEMMA PatternInserted ==
  ASSUME SmsAssumed, NEW e \in Generation, NEW x, x = Sms!SetOf(Sms!create_signature(e.pc, e.trigger)),
         NEW q, PatternsOf(x, q)
  PROVE  PatternsOf(x, Sms!insert_pht_set(q, e))
<1>1. PICK sig, i : sig = Sms!create_signature(e.pc, e.trigger) /\ i = Sms!search_pht(q, sig)
  OBVIOUS
<1>2. sig \in Nat /\ sig % PhtSets = x /\ sig % Blocks = e.trigger
  <2>1. e.pc \in Nat /\ e.trigger \in 0 .. Blocks - 1 /\ Blocks \in Nat \ {0}
    BY DEF Generation, SmsAssumed, SmsBlock
  <2>2. sig = e.pc * Blocks + e.trigger
    BY <1>1 DEF Sms!create_signature
  <2>3. sig \in Nat /\ sig % Blocks = e.trigger
    BY <2>1, <2>2, OffsetOfSignature
  <2>4. x = sig % PhtSets
    BY <1>1 DEF Sms!SetOf
  <2> QED BY <2>3, <2>4
<1>3. q \in Seq(Pattern(x)) /\ \A j \in 1 .. Len(q) : q[j] \in Pattern(x)
  BY DEF PatternsOf, KeptOnce
<1>4. \/ i = 0 /\ \A j \in 1 .. Len(q) : q[j].signature # sig
      \/ i \in 1 .. Len(q) /\ q[i].signature = sig
  BY <1>1, <1>3, SmsSearches
<1>5. e.pattern \in SUBSET SmsBlock /\ e.trigger \in e.pattern
  BY DEF Generation
<1>6. CASE i # 0
  <2>1. PICK f : f = [q[i] EXCEPT !.pattern = e.pattern]
    OBVIOUS
  <2>2. f \in Pattern(x) /\ Signature(x)[f] = Signature(x)[q[i]]
    BY <1>2, <1>3, <1>4, <1>5, <1>6, <2>1 DEF Pattern, Signature
  <2>3. PatternsOf(x, [q EXCEPT ![i] = f])
    BY <1>4, <1>6, <2>2, ChangedAtPlace DEF PatternsOf
  <2>4. Sms!insert_pht_set(q, e) = Sms!update_age([q EXCEPT ![i] = f], i)
    BY <1>1, <1>6, <2>1 DEF Sms!insert_pht_set
  <2> QED BY <2>3, <2>4, PatternsAged
<1>7. CASE i = 0
  <2>1. PICK k, v : /\ v = Sms!search_victim(q)
                    /\ k = (IF Len(q) >= PhtAssoc THEN Without(q, v) ELSE q)
    OBVIOUS
  <2>2. PhtAssoc \in Nat \ {0} /\ Len(q) \in Nat
    BY <1>3 DEF SmsAssumed
  <2>3. ASSUME Len(q) >= PhtAssoc  PROVE v \in 1 .. Len(q)
    <3>1. \A p \in Pattern(x) : p.age \in Int
      BY DEF Pattern
    <3> QED BY <1>3, <2>1, <2>2, <2>3, <3>1, OldestIsThere
  <2>4. PatternsOf(x, k) /\ Len(k) < PhtAssoc
    <3>1. CASE Len(q) >= PhtAssoc
      BY <2>1, <2>2, <2>3, <3>1, RoomMade DEF PatternsOf
    <3>2. CASE ~(Len(q) >= PhtAssoc)
      BY <2>1, <2>2, <3>2
    <3> QED BY <3>1, <3>2
  <2>5. Unknown(Signature(x), k, sig)
    <3>1. \A j \in 1 .. Len(k) : \E m \in 1 .. Len(q) : k[j] = q[m]
      <4>1. CASE Len(q) >= PhtAssoc
        <5>1. Len(k) = Len(q) - 1 /\ \A j \in 1 .. Len(q) - 1 : k[j] = q[IF j < v THEN j ELSE j + 1]
          BY <1>3, <2>1, <2>3, <4>1, WithoutIs
        <5>2. \A j \in 1 .. Len(q) - 1 : (IF j < v THEN j ELSE j + 1) \in 1 .. Len(q)
          BY <2>2, <2>3, <4>1
        <5> QED BY <5>1, <5>2
      <4>2. CASE ~(Len(q) >= PhtAssoc)
        BY <2>1, <4>2
      <4> QED BY <4>1, <4>2
    <3>2. \A m \in 1 .. Len(q) : Signature(x)[q[m]] # sig
      BY <1>3, <1>4, <1>7 DEF Signature
    <3> QED BY <3>1, <3>2 DEF Unknown
  <2>6. PICK r : r = [j \in DOMAIN k |-> [k[j] EXCEPT !.age = 0]]
    OBVIOUS
  <2>7. k \in Seq(Pattern(x)) /\ DOMAIN k = 1 .. Len(k) /\ \A j \in 1 .. Len(k) : k[j] \in Pattern(x)
    BY <2>4 DEF PatternsOf, KeptOnce
  <2>8. r \in [1 .. Len(k) -> Pattern(x)] /\ \A j \in 1 .. Len(k) : Signature(x)[r[j]] = Signature(x)[k[j]]
    <3>1. \A j \in 1 .. Len(k) : r[j] = [k[j] EXCEPT !.age = 0]
      BY <2>6, <2>7
    <3>2. \A j \in 1 .. Len(k) : r[j] \in Pattern(x) /\ r[j].signature = k[j].signature
      <4>1. \A p \in Pattern(x) : LET a == [p EXCEPT !.age = 0] IN a \in Pattern(x) /\ a.signature = p.signature
        BY DEF Pattern
      <4> QED BY <2>7, <3>1, <4>1
    <3> QED BY <2>6, <2>7, <3>2 DEF Signature
  <2>9. PatternsOf(x, r) /\ Len(r) = Len(k)
    BY <2>4, <2>8, ChangedThroughout DEF PatternsOf
  <2>10. PICK f : f = [signature |-> sig, pattern |-> e.pattern, age |-> 0]
    OBVIOUS
  <2>11. f \in Pattern(x) /\ Signature(x)[f] = sig
    BY <1>2, <1>5, <2>10 DEF Pattern, Signature
  <2>12. Unknown(Signature(x), r, Signature(x)[f])
    BY <2>5, <2>8, <2>9, <2>11 DEF Unknown
  <2>13. PatternsOf(x, Append(IF Len(r) >= PhtAssoc THEN Tail(r) ELSE r, f))
    BY <2>2, <2>9, <2>11, <2>12, EnteredAtBack DEF PatternsOf
  <2>14. ~(Len(r) >= PhtAssoc)
    BY <2>2, <2>4, <2>9, <2>7
  <2>15. Sms!RemoveAt(q, v) = Without(q, v)
    BY DEF Sms!RemoveAt, Without
  <2>16. Sms!insert_pht_set(q, e) = Append(r, f)
    BY <1>1, <1>7, <2>1, <2>6, <2>10, <2>15 DEF Sms!insert_pht_set
  <2> QED BY <2>13, <2>14, <2>16
<1> QED BY <1>6, <1>7

-----------------------------------------------------------------------------
(* A region has one generation at a time: what was touched since it was    *)
(* opened is the block that opened it, or the pattern it accumulated.      *)
OneGeneration(ft, at, touched) ==
  /\ touched \in [Region -> SUBSET SmsBlock]
  /\ \A i \in 1 .. Len(ft), j \in 1 .. Len(at) : ft[i].region # at[j].region
  /\ \A i \in 1 .. Len(ft) : touched[ft[i].region] = {ft[i].trigger}
  /\ \A i \in 1 .. Len(at) : touched[at[i].region] = at[i].pattern
Generations(ft, at, touched) == Opening(ft) /\ Accumulating(at) /\ OneGeneration(ft, at, touched)
Idle(q, region) == \A i \in 1 .. Len(q) : q[i].region # region

LEMMA FilterEntryLeaves ==
  ASSUME NEW ft, NEW at, NEW touched, Generations(ft, at, touched), NEW i \in 1 .. Len(ft), FtSize \in Int
  PROVE  /\ Generations(Without(ft, i), at, touched) /\ Idle(Without(ft, i), ft[i].region)
         /\ \A region : Idle(ft, region) => Idle(Without(ft, i), region)
         /\ Len(Without(ft, i)) = Len(ft) - 1
<1>1. ft \in Seq(Opened) /\ Len(ft) \in Nat /\ \A j \in 1 .. Len(ft) : ft[j] \in Opened
  BY DEF Generations, Opening, KeptOnce
<1>2. PICK r : r = Without(ft, i)
  OBVIOUS
<1>3. Len(r) = Len(ft) - 1 /\ \A j \in 1 .. Len(ft) - 1 : r[j] = ft[IF j < i THEN j ELSE j + 1]
  BY <1>1, <1>2, WithoutIs
<1>4. ASSUME NEW j \in 1 .. Len(r)  PROVE \E m \in 1 .. Len(ft) : m # i /\ r[j] = ft[m]
  <2>1. PICK m : m = IF j < i THEN j ELSE j + 1
    OBVIOUS
  <2>2. m \in 1 .. Len(ft) /\ m # i /\ r[j] = ft[m]
    BY <1>1, <1>3, <2>1
  <2> QED BY <2>2
<1>5. \A m \in 1 .. Len(ft) : m # i => ft[m].region # ft[i].region
  BY <1>1 DEF Generations, Opening, KeptOnce, OpenedRegion
<1>6. Opening(r)
  BY <1>2, TakenOut DEF Generations, Opening
<1>7. OneGeneration(r, at, touched)
  <2>1. OneGeneration(ft, at, touched)
    BY DEF Generations
  <2>2. ASSUME NEW j \in 1 .. Len(r)
        PROVE  touched[r[j].region] = {r[j].trigger} /\ \A k \in 1 .. Len(at) : r[j].region # at[k].region
    <3>1. PICK m \in 1 .. Len(ft) : r[j] = ft[m]
      BY <1>4
    <3> QED BY <2>1, <3>1 DEF OneGeneration
  <2> QED BY <2>1, <2>2 DEF OneGeneration
<1>8. Idle(r, ft[i].region) /\ \A region : Idle(ft, region) => Idle(r, region)
  BY <1>4, <1>5 DEF Idle
<1> QED BY <1>2, <1>3, <1>6, <1>7, <1>8 DEF Generations

LEMMA GenerationLeaves ==
  ASSUME NEW ft, NEW at, NEW touched, Generations(ft, at, touched), NEW i \in 1 .. Len(at), AtSize \in Int
  PROVE  /\ Generations(ft, Without(at, i), touched)
         /\ \A region : Idle(at, region) => Idle(Without(at, i), region)
         /\ Len(Without(at, i)) = Len(at) - 1
<1>1. at \in Seq(Generation) /\ Len(at) \in Nat
  BY DEF Generations, Accumulating, KeptOnce
<1>2. PICK r : r = Without(at, i)
  OBVIOUS
<1>3. Len(r) = Len(at) - 1 /\ \A j \in 1 .. Len(at) - 1 : r[j] = at[IF j < i THEN j ELSE j + 1]
  BY <1>1, <1>2, WithoutIs
<1>4. ASSUME NEW j \in 1 .. Len(r)  PROVE \E m \in 1 .. Len(at) : r[j] = at[m]
  <2>1. PICK m : m = IF j < i THEN j ELSE j + 1
    OBVIOUS
  <2>2. m \in 1 .. Len(at) /\ r[j] = at[m]
    BY SMTT(60), <1>1, <1>3, <2>1
  <2> QED BY <2>2
<1>5. Accumulating(r)
  BY <1>2, TakenOut DEF Generations, Accumulating
<1>6. OneGeneration(ft, r, touched)
  BY SMTT(60), <1>4 DEF Generations, OneGeneration
<1>7. \A region : Idle(at, region) => Idle(r, region)
  BY <1>4 DEF Idle
<1> QED BY <1>2, <1>3, <1>5, <1>6, <1>7 DEF Generations

LEMMA GenerationsAged ==
  ASSUME NEW ft, NEW at, NEW touched, Generations(ft, at, touched), NEW i
  PROVE  /\ Generations(ft, Sms!update_age(at, i), touched)
         /\ Len(Sms!update_age(at, i)) = Len(at)
         /\ \A region : Idle(at, region) => Idle(Sms!update_age(at, i), region)
<1>1. at \in Seq(Generation) /\ \A j \in 1 .. Len(at) : at[j] \in Generation
  BY DEF Generations, Accumulating, KeptOnce
<1>2. PICK r : r = Sms!update_age(at, i)
  OBVIOUS
<1>3. /\ r \in [1 .. Len(at) -> Generation]
      /\ \A j \in 1 .. Len(at) : \E n \in Int : r[j] = [at[j] EXCEPT !.age = n]
  <2>1. Ageing(Generation)
    BY GenerationsAge
  <2>2. \A q \in Seq(Generation) :
          OlderBy(Generation, q, Sms!update_age(q, i))
    BY <2>1, AgesChange
  <2>3. OlderBy(Generation, at, r)
    BY <1>1, <1>2, <2>2
  <2> QED BY <2>3 DEF OlderBy
<1>4. ASSUME NEW j \in 1 .. Len(at)
      PROVE  r[j] \in Generation /\ at[j] \in Generation /\ r[j].region = at[j].region /\ r[j].pattern = at[j].pattern
  <2>1. PICK n \in Int : r[j] = [at[j] EXCEPT !.age = n]
    BY <1>3
  <2>2. at[j] \in Generation
    BY <1>1
  <2> QED BY <1>3, <2>1, <2>2, GenerationsAge
<1>5. \A j \in 1 .. Len(at) : GenerationRegion[r[j]] = GenerationRegion[at[j]]
  BY <1>4 DEF GenerationRegion
<1>6. Accumulating(r) /\ Len(r) = Len(at)
  BY <1>3, <1>5, ChangedThroughout DEF Generations, Accumulating
<1>7. OneGeneration(ft, r, touched) /\ \A region : Idle(at, region) => Idle(r, region)
  BY SMTT(60), <1>4, <1>6 DEF Generations, OneGeneration, Idle
<1> QED BY <1>2, <1>6, <1>7 DEF Generations

(* An idle region is opened, and opened and touched again. *)
LEMMA FilterEntryComes ==
  ASSUME FtSize \in Nat \ {0}, NEW ft, NEW at, NEW touched, Generations(ft, at, touched), Len(ft) < FtSize,
         NEW e \in Opened, Idle(ft, e.region), Idle(at, e.region)
  PROVE  Generations(Append(ft, e), at, [touched EXCEPT ![e.region] = {e.trigger}])
<1>1. ft \in Seq(Opened) /\ Len(ft) \in Nat /\ \A j \in 1 .. Len(ft) : ft[j] \in Opened
  BY DEF Generations, Opening, KeptOnce
<1>2. at \in Seq(Generation) /\ \A j \in 1 .. Len(at) : at[j] \in Generation
  BY DEF Generations, Accumulating, KeptOnce
<1>3. PICK r, to : r = Append(ft, e) /\ to = [touched EXCEPT ![e.region] = {e.trigger}]
  OBVIOUS
<1>4. Len(r) = Len(ft) + 1 /\ \A j \in 1 .. Len(ft) + 1 : r[j] = IF j = Len(ft) + 1 THEN e ELSE ft[j]
  BY <1>1, <1>3, AppendProperties
<1>5. Opening(r)
  <2>1. Unknown(OpenedRegion, ft, OpenedRegion[e])
    BY <1>1 DEF Unknown, OpenedRegion, Idle
  <2>2. Opening(Append(IF Len(ft) >= FtSize THEN Tail(ft) ELSE ft, e))
    BY <2>1, EnteredAtBack DEF Generations, Opening
  <2> QED BY <1>1, <1>3, <2>2
<1>6. e.region \in Region /\ e.trigger \in SmsBlock
  BY DEF Opened
<1>7. /\ touched \in [Region -> SUBSET SmsBlock] /\ to \in [Region -> SUBSET SmsBlock]
      /\ \A region \in Region : to[region] = IF region = e.region THEN {e.trigger} ELSE touched[region]
  BY <1>3, <1>6 DEF Generations, OneGeneration
<1>8. \A i \in 1 .. Len(r), j \in 1 .. Len(at) : r[i].region # at[j].region
  BY SMTT(60), <1>1, <1>4 DEF Generations, OneGeneration, Idle
<1>9. ASSUME NEW i \in 1 .. Len(r)  PROVE to[r[i].region] = {r[i].trigger}
  <2>1. CASE i = Len(ft) + 1
    BY <1>4, <1>6, <1>7, <2>1
  <2>2. CASE i # Len(ft) + 1
    <3>1. i \in 1 .. Len(ft) /\ r[i] = ft[i]
      BY <1>1, <1>4, <2>2
    <3>2. ft[i].region # e.region /\ ft[i].region \in Region /\ touched[ft[i].region] = {ft[i].trigger}
      BY <1>1, <3>1 DEF Idle, Opened, Generations, OneGeneration
    <3> QED BY <1>7, <3>1, <3>2
  <2> QED BY <2>1, <2>2
<1>10. ASSUME NEW i \in 1 .. Len(at)  PROVE to[at[i].region] = at[i].pattern
  <2>1. at[i].region # e.region /\ at[i].region \in Region /\ touched[at[i].region] = at[i].pattern
    BY <1>2 DEF Idle, Generation, Generations, OneGeneration
  <2> QED BY <1>7, <2>1
<1>11. OneGeneration(r, at, to)
  BY <1>7, <1>8, <1>9, <1>10 DEF OneGeneration
<1> QED BY <1>3, <1>5, <1>11 DEF Generations

LEMMA GenerationComes ==
  ASSUME AtSize \in Nat \ {0}, NEW ft, NEW at, NEW touched, Generations(ft, at, touched), Len(at) < AtSize,
         NEW e \in Generation, Idle(ft, e.region), Idle(at, e.region)
  PROVE  Generations(ft, Append(at, e), [touched EXCEPT ![e.region] = e.pattern])
<1>1. at \in Seq(Generation) /\ Len(at) \in Nat /\ \A j \in 1 .. Len(at) : at[j] \in Generation
  BY DEF Generations, Accumulating, KeptOnce
<1>2. ft \in Seq(Opened) /\ \A j \in 1 .. Len(ft) : ft[j] \in Opened
  BY DEF Generations, Opening, KeptOnce
<1>3. PICK r, to : r = Append(at, e) /\ to = [touched EXCEPT ![e.region] = e.pattern]
  OBVIOUS
<1>4. Len(r) = Len(at) + 1 /\ \A j \in 1 .. Len(at) + 1 : r[j] = IF j = Len(at) + 1 THEN e ELSE at[j]
  BY <1>1, <1>3, AppendProperties
<1>5. Accumulating(r)
  <2>1. Unknown(GenerationRegion, at, GenerationRegion[e])
    BY <1>1 DEF Unknown, GenerationRegion, Idle
  <2>2. Accumulating(Append(IF Len(at) >= AtSize THEN Tail(at) ELSE at, e))
    BY <2>1, EnteredAtBack DEF Generations, Accumulating
  <2> QED BY <1>1, <1>3, <2>2
<1>6. e.region \in Region /\ e.pattern \in SUBSET SmsBlock
  BY DEF Generation
<1>7. /\ touched \in [Region -> SUBSET SmsBlock] /\ to \in [Region -> SUBSET SmsBlock]
      /\ \A region \in Region : to[region] = IF region = e.region THEN e.pattern ELSE touched[region]
  BY <1>3, <1>6 DEF Generations, OneGeneration
<1>8. \A i \in 1 .. Len(ft), j \in 1 .. Len(r) : ft[i].region # r[j].region
  BY <1>1, <1>4 DEF Generations, OneGeneration, Idle
<1>9. ASSUME NEW i \in 1 .. Len(r)  PROVE to[r[i].region] = r[i].pattern
  <2>1. CASE i = Len(at) + 1
    BY <1>4, <1>6, <1>7, <2>1
  <2>2. CASE i # Len(at) + 1
    <3>1. i \in 1 .. Len(at) /\ r[i] = at[i]
      BY <1>1, <1>4, <2>2
    <3>2. at[i].region # e.region /\ at[i].region \in Region /\ touched[at[i].region] = at[i].pattern
      BY <1>1, <3>1 DEF Idle, Generation, Generations, OneGeneration
    <3> QED BY <1>7, <3>1, <3>2
  <2> QED BY <2>1, <2>2
<1>10. ASSUME NEW i \in 1 .. Len(ft)  PROVE to[ft[i].region] = {ft[i].trigger}
  <2>1. ft[i].region # e.region /\ ft[i].region \in Region /\ touched[ft[i].region] = {ft[i].trigger}
    BY <1>2 DEF Idle, Opened, Generations, OneGeneration
  <2> QED BY <1>7, <2>1
<1>11. OneGeneration(ft, r, to)
  BY <1>7, <1>8, <1>9, <1>10 DEF OneGeneration
<1> QED BY <1>3, <1>5, <1>11 DEF Generations

(* A region that accumulates is touched. *)
LEMMA GenerationGrows ==
  ASSUME NEW ft, NEW at, NEW touched, Generations(ft, at, touched), NEW a \in 1 .. Len(at),
         NEW offset \in SmsBlock
  PROVE  LET e == [at[a] EXCEPT !.pattern = at[a].pattern \cup {offset}]
         IN Generations(ft, [at EXCEPT ![a] = e],
                        [touched EXCEPT ![at[a].region] = touched[at[a].region] \cup {offset}])
<1>1. at \in Seq(Generation) /\ Len(at) \in Nat /\ \A j \in 1 .. Len(at) : at[j] \in Generation
  BY DEF Generations, Accumulating, KeptOnce
<1>2. ft \in Seq(Opened) /\ \A j \in 1 .. Len(ft) : ft[j] \in Opened
  BY DEF Generations, Opening, KeptOnce
<1>3. PICK e, region : e = [at[a] EXCEPT !.pattern = at[a].pattern \cup {offset}] /\ region = at[a].region
  OBVIOUS
<1>4. e \in Generation /\ e.region = region /\ e.pattern = at[a].pattern \cup {offset} /\ region \in Region
  BY <1>1, <1>3 DEF Generation
<1>5. PICK r, to : r = [at EXCEPT ![a] = e] /\ to = [touched EXCEPT ![region] = touched[region] \cup {offset}]
  OBVIOUS
<1>6. Accumulating(r)
  <2>1. GenerationRegion[e] = GenerationRegion[at[a]]
    BY <1>1, <1>3, <1>4 DEF GenerationRegion
  <2> QED BY <1>4, <1>5, <2>1, ChangedAtPlace DEF Generations, Accumulating
<1>7. Len(r) = Len(at) /\ \A j \in 1 .. Len(at) : r[j] = IF j = a THEN e ELSE at[j]
  BY <1>1, <1>4, <1>5, ExceptSeq
<1>8. /\ touched \in [Region -> SUBSET SmsBlock] /\ to \in [Region -> SUBSET SmsBlock]
      /\ \A x \in Region : to[x] = IF x = region THEN touched[region] \cup {offset} ELSE touched[x]
  BY <1>4, <1>5 DEF Generations, OneGeneration
<1>9. ASSUME NEW j \in 1 .. Len(at), j # a  PROVE at[j].region # region
  <2>1. at[j] \in Generation /\ at[a] \in Generation
    BY <1>1
  <2>2. GenerationRegion[at[j]] = at[j].region /\ GenerationRegion[at[a]] = at[a].region
    BY <2>1 DEF GenerationRegion
  <2>3. GenerationRegion[at[j]] # GenerationRegion[at[a]]
    BY <1>9 DEF Generations, Accumulating, KeptOnce
  <2> QED BY <1>3, <2>2, <2>3
<1>10. ASSUME NEW j \in 1 .. Len(r)  PROVE to[r[j].region] = r[j].pattern
  <2>1. CASE j = a
    <3>1. r[j] = e
      BY <1>7, <2>1
    <3>2. touched[region] = at[a].pattern
      BY <1>3 DEF Generations, OneGeneration
    <3>3. to[region] = touched[region] \cup {offset}
      BY <1>4, <1>8
    <3> QED BY <1>4, <3>1, <3>2, <3>3
  <2>2. CASE j # a
    <3>1. r[j] = at[j] /\ at[j].region # region /\ at[j].region \in Region /\ touched[at[j].region] = at[j].pattern
      BY <1>1, <1>7, <1>9, <2>2 DEF Generation, Generations, OneGeneration
    <3> QED BY <1>8, <3>1
  <2> QED BY <2>1, <2>2
<1>11. ASSUME NEW i \in 1 .. Len(ft), NEW j \in 1 .. Len(r)  PROVE ft[i].region # r[j].region
  <2>1. j \in 1 .. Len(at) /\ r[j].region = at[j].region
    BY <1>3, <1>4, <1>7
  <2> QED BY <2>1 DEF Generations, OneGeneration
<1>12. ASSUME NEW i \in 1 .. Len(ft)  PROVE to[ft[i].region] = {ft[i].trigger}
  <2>1. ft[i].region # region /\ ft[i].region \in Region /\ touched[ft[i].region] = {ft[i].trigger}
    BY <1>2, <1>3 DEF Opened, Generations, OneGeneration
  <2> QED BY <1>8, <2>1
<1>13. OneGeneration(ft, r, to)
  BY <1>8, <1>10, <1>11, <1>12 DEF OneGeneration
<1> QED BY <1>3, <1>5, <1>6, <1>13 DEF Generations

-----------------------------------------------------------------------------
(* The accumulation table ages its regions in the order of their last use. *)
InUseOrder(at, used, now) ==
  /\ used \in [Region -> Nat]
  /\ \A i \in 1 .. Len(at) : at[i].age \in Nat /\ used[at[i].region] < now
  /\ \A i, j \in 1 .. Len(at) : at[i].age > at[j].age <=> used[at[i].region] < used[at[j].region]

LEMMA StillInUseOrder ==
  ASSUME NEW at \in Seq(Generation), NEW used, NEW now \in Nat, InUseOrder(at, used, now)
  PROVE  InUseOrder(at, used, now + 1)
<1>1. ASSUME NEW i \in 1 .. Len(at)  PROVE used[at[i].region] < now + 1
  <2>1. at[i] \in Generation
    OBVIOUS
  <2>2. at[i].region \in Region
    BY <2>1 DEF Generation
  <2>3. used[at[i].region] \in Nat /\ used[at[i].region] < now
    BY <2>2 DEF InUseOrder
  <2> QED BY <2>3
<1> QED BY <1>1 DEF InUseOrder

OneStepOlder(q, i, r) ==
  \A j \in 1 .. Len(q) :
    r[j].age = (IF j = i THEN 0 ELSE q[j].age + 1) /\ r[j].region = q[j].region

LEMMA AgesAfter ==
  ASSUME NEW q \in Seq(Generation), NEW i
  PROVE  OneStepOlder(q, i, Sms!update_age(q, i))
<1> SUFFICES ASSUME NEW j \in 1 .. Len(q)
             PROVE  /\ Sms!update_age(q, i)[j].age = (IF j = i THEN 0 ELSE q[j].age + 1)
                    /\ Sms!update_age(q, i)[j].region = q[j].region
  BY DEF OneStepOlder
<1>1. DOMAIN q = 1 .. Len(q) /\ q[j] \in Generation
  OBVIOUS
<1>2. PICK n : n = IF j = i THEN 0 ELSE q[j].age + 1
  OBVIOUS
<1>3. Sms!update_age(q, i)[j] = [q[j] EXCEPT !.age = n]
  BY <1>1, <1>2 DEF Sms!update_age
<1>4. [q[j] EXCEPT !.age = n].age = n /\ [q[j] EXCEPT !.age = n].region = q[j].region
  BY <1>1 DEF Generation
<1> QED BY <1>2, <1>3, <1>4

LEMMA LengthAfter ==
  ASSUME NEW q \in Seq(Generation), NEW i
  PROVE  Sms!update_age(q, i) \in Seq(Generation) /\ Len(Sms!update_age(q, i)) = Len(q)
<1>1. Ageing(Generation)
  BY GenerationsAge
<1>2. \A p \in Seq(Generation) : OlderBy(Generation, p, Sms!update_age(p, i))
  BY <1>1, AgesChange
<1>3. OlderBy(Generation, q, Sms!update_age(q, i)) /\ Len(q) \in Nat
  BY <1>2
<1>4. PICK r : r = Sms!update_age(q, i)
  OBVIOUS
<1>5. r \in [1 .. Len(q) -> Generation]
  BY <1>3, <1>4 DEF OlderBy
<1>6. r \in Seq(Generation) /\ Len(r) = Len(q)
  BY <1>3, <1>5
<1> QED BY <1>4, <1>6

(* The one of several numbered uses that happens now becomes the last.      *)
LEMMA LastUse ==
  ASSUME NEW n \in Nat, NEW age \in [1 .. n -> Nat], NEW use \in [1 .. n -> Nat], NEW now \in Nat,
         \A j \in 1 .. n : use[j] < now,
         \A i, j \in 1 .. n : age[i] > age[j] <=> use[i] < use[j],
         NEW a, NEW i \in 1 .. n, NEW j \in 1 .. n
  PROVE  (IF i = a THEN 0 ELSE age[i] + 1) > (IF j = a THEN 0 ELSE age[j] + 1)
           <=> (IF i = a THEN now ELSE use[i]) < (IF j = a THEN now ELSE use[j])
<1>1. /\ age[i] \in Nat /\ age[j] \in Nat /\ use[i] \in Nat /\ use[j] \in Nat
      /\ use[i] < now /\ use[j] < now /\ (age[i] > age[j] <=> use[i] < use[j])
  OBVIOUS
<1>2. CASE i = a /\ j = a
  BY <1>1, <1>2
<1>3. CASE i = a /\ j # a
  BY <1>1, <1>3
<1>4. CASE i # a /\ j = a
  BY <1>1, <1>4
<1>5. CASE i # a /\ j # a
  BY SMTT(60), <1>1, <1>5
<1> QED BY <1>2, <1>3, <1>4, <1>5

LEMMA UsedAgain ==
  ASSUME NEW at, Accumulating(at), NEW used, NEW now \in Nat, InUseOrder(at, used, now),
         NEW a \in 1 .. Len(at), NEW e \in Generation, e.region = at[a].region
  PROVE  InUseOrder(Sms!update_age([at EXCEPT ![a] = e], a), [used EXCEPT ![at[a].region] = now], now + 1)
<1>1. at \in Seq(Generation) /\ Len(at) \in Nat /\ \A j \in 1 .. Len(at) : at[j] \in Generation
  BY DEF Accumulating, KeptOnce
<1>2. PICK n, q, r, us : /\ n = Len(at) /\ q = [at EXCEPT ![a] = e] /\ r = Sms!update_age(q, a)
                         /\ us = [used EXCEPT ![at[a].region] = now]
  OBVIOUS
<1>3. q \in Seq(Generation) /\ Len(q) = n /\ \A j \in 1 .. n : q[j] = IF j = a THEN e ELSE at[j]
  BY <1>1, <1>2, ExceptSeq
<1>4. Len(r) = n
  BY <1>2, <1>3, LengthAfter
<1>5. \A j \in 1 .. n : at[j].region \in Region
  BY <1>1, <1>2 DEF Generation
<1>6. ASSUME NEW j \in 1 .. n, j # a  PROVE at[j].region # at[a].region
  <2>1. at[j] \in Generation /\ at[a] \in Generation
    BY <1>1, <1>2
  <2>2. GenerationRegion[at[j]] = at[j].region /\ GenerationRegion[at[a]] = at[a].region
    BY <2>1 DEF GenerationRegion
  <2>3. GenerationRegion[at[j]] # GenerationRegion[at[a]]
    BY <1>2, <1>6 DEF Accumulating, KeptOnce
  <2> QED BY <2>2, <2>3
<1>7. PICK age, use : age = [j \in 1 .. n |-> at[j].age] /\ use = [j \in 1 .. n |-> used[at[j].region]]
  OBVIOUS
<1>8. /\ age \in [1 .. n -> Nat] /\ use \in [1 .. n -> Nat] /\ n \in Nat
      /\ \A j \in 1 .. n : use[j] < now
      /\ \A i, j \in 1 .. n : age[i] > age[j] <=> use[i] < use[j]
  BY <1>1, <1>2, <1>5, <1>7 DEF InUseOrder
<1>9. us \in [Region -> Nat] /\ used \in [Region -> Nat]
  BY <1>2 DEF InUseOrder
<1>10. ASSUME NEW j \in 1 .. n
       PROVE  /\ r[j].age = (IF j = a THEN 0 ELSE age[j] + 1)
              /\ us[r[j].region] = (IF j = a THEN now ELSE use[j])
  <2>1. r[j].age = (IF j = a THEN 0 ELSE q[j].age + 1) /\ r[j].region = q[j].region
    <3>1. OneStepOlder(q, a, Sms!update_age(q, a))
      BY <1>3, AgesAfter
    <3> QED BY <1>2, <1>3, <3>1 DEF OneStepOlder
  <2>2. CASE j = a
    <3>1. r[j].region = at[a].region /\ at[a].region \in Region
      BY <1>2, <1>3, <1>5, <2>1, <2>2
    <3>2. us[at[a].region] = now
      BY <1>2, <1>9, <3>1
    <3> QED BY <2>1, <2>2, <3>1, <3>2
  <2>3. CASE j # a
    <3>1. q[j] = at[j] /\ at[j].region # at[a].region /\ at[j].region \in Region
      BY <1>3, <1>5, <1>6, <2>3
    <3>2. us[at[j].region] = used[at[j].region]
      BY <1>2, <1>9, <3>1
    <3> QED BY <1>7, <2>1, <2>3, <3>1, <3>2
  <2> QED BY <2>2, <2>3
<1>11. ASSUME NEW j \in 1 .. n  PROVE r[j].age \in Nat /\ us[r[j].region] < now + 1
  <2>1. age[j] \in Nat /\ use[j] \in Nat /\ use[j] < now
    BY <1>8
  <2> QED BY SMTT(60), <1>10, <2>1
<1>12. ASSUME NEW i \in 1 .. n, NEW j \in 1 .. n
       PROVE  r[i].age > r[j].age <=> us[r[i].region] < us[r[j].region]
  BY SMTT(60), <1>8, <1>10, LastUse
<1>13. InUseOrder(r, us, now + 1)
  BY <1>4, <1>9, <1>11, <1>12 DEF InUseOrder
<1> QED BY <1>2, <1>13

LEMMA FirstUsed ==
  ASSUME NEW at, Accumulating(at), NEW used, NEW now \in Nat, InUseOrder(at, used, now),
         NEW e \in Generation, e.age = 0, Idle(at, e.region)
  PROVE  InUseOrder(Append(Sms!update_age(at, 0), e), [used EXCEPT ![e.region] = now], now + 1)
<1>1. at \in Seq(Generation) /\ Len(at) \in Nat /\ \A j \in 1 .. Len(at) : at[j] \in Generation
  BY DEF Accumulating, KeptOnce
<1>2. PICK n, q, r, us : /\ n = Len(at) /\ q = Sms!update_age(at, 0) /\ r = Append(q, e)
                         /\ us = [used EXCEPT ![e.region] = now]
  OBVIOUS
<1>3. q \in Seq(Generation) /\ Len(q) = n /\ n \in Nat
  BY <1>1, <1>2, LengthAfter
<1>4. Len(r) = n + 1 /\ \A j \in 1 .. n + 1 : r[j] = IF j = n + 1 THEN e ELSE q[j]
  BY <1>2, <1>3, AppendProperties
<1>5. \A j \in 1 .. n : at[j].region \in Region /\ at[j].region # e.region
  BY <1>1, <1>2 DEF Generation, Idle
<1>6. e.region \in Region
  BY DEF Generation
<1>7. PICK age, use : /\ age = [j \in 1 .. n + 1 |-> IF j = n + 1 THEN 0 ELSE at[j].age]
                      /\ use = [j \in 1 .. n + 1 |-> IF j = n + 1 THEN 0 ELSE used[at[j].region]]
  OBVIOUS
<1>8. us \in [Region -> Nat] /\ used \in [Region -> Nat] /\ us[e.region] = now
  BY <1>2, <1>6 DEF InUseOrder
<1>9. ASSUME NEW j \in 1 .. n
      PROVE  /\ r[j].age = at[j].age + 1 /\ us[r[j].region] = used[at[j].region]
             /\ at[j].age \in Nat /\ used[at[j].region] \in Nat /\ used[at[j].region] < now
  <2>1. j # 0 /\ j # n + 1 /\ j \in 1 .. n + 1
    BY <1>3
  <2>2. r[j] = q[j]
    BY <1>4, <2>1
  <2>3. q[j].age = at[j].age + 1 /\ q[j].region = at[j].region
    <3>1. OneStepOlder(at, 0, Sms!update_age(at, 0))
      BY <1>1, AgesAfter
    <3> QED BY <1>2, <2>1, <3>1 DEF OneStepOlder
  <2>4. us[at[j].region] = used[at[j].region]
    BY <1>2, <1>5, <1>8
  <2>5. at[j].age \in Nat /\ used[at[j].region] < now
    BY <1>2 DEF InUseOrder
  <2> QED BY <1>5, <1>8, <2>2, <2>3, <2>4, <2>5
<1>10. r[n + 1].age = 0 /\ us[r[n + 1].region] = now
  <2>1. n + 1 \in 1 .. n + 1
    BY <1>3
  <2>2. r[n + 1] = e
    BY <1>4, <2>1
  <2> QED BY <1>8, <2>2
<1>11. ASSUME NEW j \in 1 .. n + 1  PROVE r[j].age \in Nat /\ us[r[j].region] < now + 1
  <2>1. CASE j = n + 1
    BY <1>10, <2>1
  <2>2. CASE j # n + 1
    <3>1. j \in 1 .. n
      BY <1>3, <2>2
    <3> QED BY <1>9, <3>1
  <2> QED BY <2>1, <2>2
<1>12. ASSUME NEW i \in 1 .. n + 1, NEW j \in 1 .. n + 1
       PROVE  r[i].age > r[j].age <=> us[r[i].region] < us[r[j].region]
  <2>1. (i \in 1 .. n \/ i = n + 1) /\ (j \in 1 .. n \/ j = n + 1)
    BY <1>3
  <2>2. CASE i \in 1 .. n /\ j \in 1 .. n
    <3>1. at[i].age > at[j].age <=> used[at[i].region] < used[at[j].region]
      BY <1>2, <2>2 DEF InUseOrder
    <3> QED BY <1>9, <2>2, <3>1
  <2>3. CASE i = n + 1 /\ j \in 1 .. n
    BY <1>9, <1>10, <2>3
  <2>4. CASE i \in 1 .. n /\ j = n + 1
    BY <1>9, <1>10, <2>4
  <2>5. CASE i = n + 1 /\ j = n + 1
    BY <1>10, <2>5
  <2> QED BY <2>1, <2>2, <2>3, <2>4, <2>5
<1>13. InUseOrder(r, us, now + 1)
  BY <1>4, <1>8, <1>11, <1>12 DEF InUseOrder
<1> QED BY <1>2, <1>13

LEMMA LeavesInUseOrder ==
  ASSUME NEW at, Accumulating(at), NEW used, NEW now \in Nat, InUseOrder(at, used, now),
         NEW v \in 1 .. Len(at)
  PROVE  InUseOrder(Without(at, v), [used EXCEPT ![at[v].region] = 0], now)
<1>1. at \in Seq(Generation) /\ Len(at) \in Nat /\ \A j \in 1 .. Len(at) : at[j] \in Generation
  BY DEF Accumulating, KeptOnce
<1>2. PICK r, us : r = Without(at, v) /\ us = [used EXCEPT ![at[v].region] = 0]
  OBVIOUS
<1>3. Len(r) = Len(at) - 1 /\ \A j \in 1 .. Len(at) - 1 : r[j] = at[IF j < v THEN j ELSE j + 1]
  BY <1>1, <1>2, WithoutIs
<1>4. us \in [Region -> Nat] /\ used \in [Region -> Nat]
  BY <1>2 DEF InUseOrder
<1>5. ASSUME NEW j \in 1 .. Len(r)
      PROVE  \E m \in 1 .. Len(at) : r[j] = at[m] /\ us[r[j].region] = used[at[m].region]
  <2>1. PICK m : m = IF j < v THEN j ELSE j + 1
    OBVIOUS
  <2>2. m \in 1 .. Len(at) /\ m # v /\ r[j] = at[m]
    BY <1>1, <1>3, <2>1
  <2>3. at[m] \in Generation /\ at[v] \in Generation
    BY <1>1, <2>2
  <2>4. GenerationRegion[at[m]] = at[m].region /\ GenerationRegion[at[v]] = at[v].region
    BY <2>3 DEF GenerationRegion
  <2>5. GenerationRegion[at[m]] # GenerationRegion[at[v]]
    BY <2>2 DEF Accumulating, KeptOnce
  <2>6. at[m].region \in Region
    BY <2>3 DEF Generation
  <2>7. us[at[m].region] = used[at[m].region]
    BY <1>2, <1>4, <2>4, <2>5, <2>6
  <2> QED BY <2>2, <2>7
<1>6. ASSUME NEW j \in 1 .. Len(r)  PROVE r[j].age \in Nat /\ us[r[j].region] < now
  <2>1. PICK m \in 1 .. Len(at) : r[j] = at[m] /\ us[r[j].region] = used[at[m].region]
    BY <1>5
  <2> QED BY <2>1 DEF InUseOrder
<1>7. ASSUME NEW i \in 1 .. Len(r), NEW j \in 1 .. Len(r)
      PROVE  r[i].age > r[j].age <=> us[r[i].region] < us[r[j].region]
  <2>1. PICK m \in 1 .. Len(at) : r[i] = at[m] /\ us[r[i].region] = used[at[m].region]
    BY <1>5
  <2>2. PICK k \in 1 .. Len(at) : r[j] = at[k] /\ us[r[j].region] = used[at[k].region]
    BY <1>5
  <2>3. at[m].age > at[k].age <=> used[at[m].region] < used[at[k].region]
    BY DEF InUseOrder
  <2> QED BY <2>1, <2>2, <2>3
<1>8. InUseOrder(r, us, now)
  BY <1>4, <1>6, <1>7 DEF InUseOrder
<1> QED BY <1>2, <1>8

-----------------------------------------------------------------------------
(* The buffer takes what it has room for.                                  *)
Buffered(buffer) == (\E E : buffer \in Seq(E)) /\ Len(buffer) <= BufferSize

Lesser(z, x, y) == z \in Int /\ z <= x /\ z <= y /\ (z = x \/ z = y)

LEMMA LesserOfTwo ==
  ASSUME NEW x \in Int, NEW y \in Int
  PROVE  Lesser(Sms!Min({x, y}), x, y)
<1>1. \E z \in {x, y} : \A w \in {x, y} : z =< w
  OBVIOUS
<1>2. Sms!Min({x, y}) \in {x, y} /\ \A w \in {x, y} : Sms!Min({x, y}) =< w
  BY <1>1 DEF Sms!Min
<1> QED BY <1>2 DEF Lesser

LEMMA PrefetchesLeave ==
  ASSUME SmsAssumed, NEW buffer, Buffered(buffer)
  PROVE  Buffered(Sms!issue_prefetch(buffer))
<1>1. PICK E : buffer \in Seq(E)
  BY DEF Buffered
<1>2. PICK n, m : n = Len(buffer) /\ m = Sms!Min({n, Degree})
  OBVIOUS
<1>3. n \in Nat /\ n <= BufferSize /\ Degree \in Nat /\ BufferSize \in Nat
  BY <1>1, <1>2 DEF Buffered, SmsAssumed
<1>4. m \in Nat /\ m <= n
  <2>1. n \in Int /\ Degree \in Int
    BY <1>3
  <2>2. Lesser(Sms!Min({n, Degree}), n, Degree)
    BY <2>1, LesserOfTwo
  <2> QED BY <1>2, <1>3, <2>2 DEF Lesser
<1>5. \A i \in m + 1 .. n : buffer[i] \in E
  <2>1. \A i \in m + 1 .. n : i \in 1 .. n
    BY <1>3, <1>4
  <2>2. \A i \in 1 .. n : buffer[i] \in E
    BY <1>1, <1>2
  <2> QED BY <2>1, <2>2
<1>6. m + 1 \in Int /\ n \in Int
  BY <1>3, <1>4
<1>7. PICK r : r = SubSeq(buffer, m + 1, n)
  OBVIOUS
<1>8. r \in Seq(E) /\ Len(r) = IF m + 1 <= n THEN n - (m + 1) + 1 ELSE 0
  BY <1>5, <1>6, <1>7, SubSeqProperties
<1>9. Len(r) <= BufferSize
  <2>1. n - (m + 1) + 1 <= BufferSize
    BY <1>3, <1>4
  <2> QED BY <1>3, <1>8, <2>1
<1>10. Sms!issue_prefetch(buffer) = r
  BY <1>2, <1>7 DEF Sms!issue_prefetch
<1> QED BY <1>8, <1>9, <1>10 DEF Buffered

LEMMA PrefetchesWait ==
  ASSUME SmsAssumed, NEW buffer, Buffered(buffer), NEW addrs, NEW n \in Nat, DOMAIN addrs = 1 .. n,
         Len(addrs) = n
  PROVE  Buffered(Sms!buffer_prefetch(buffer, addrs))
<1>1. PICK F : buffer \in Seq(F)
  BY DEF Buffered
<1>2. PICK E : E = F \cup {addrs[i] : i \in 1 .. n}
  OBVIOUS
<1>3. PICK l, m : l = Len(buffer) /\ m = Sms!Min({n, BufferSize - l})
  OBVIOUS
<1>4. l \in Nat /\ l <= BufferSize /\ BufferSize \in Nat
  BY <1>1, <1>3 DEF Buffered, SmsAssumed
<1>5. m \in Nat /\ m <= n /\ m <= BufferSize - l
  <2>1. BufferSize - l \in Int /\ BufferSize - l >= 0 /\ n \in Int
    BY <1>4
  <2>2. Lesser(Sms!Min({n, BufferSize - l}), n, BufferSize - l)
    BY <2>1, LesserOfTwo
  <2> QED BY <1>3, <2>1, <2>2 DEF Lesser
<1>6. \A i \in 1 .. m : addrs[i] \in E
  <2>1. \A i \in 1 .. m : i \in 1 .. n
    BY <1>5
  <2> QED BY <1>2, <2>1
<1>7. PICK r : r = SubSeq(addrs, 1, m)
  OBVIOUS
<1>8. r \in Seq(E) /\ Len(r) = IF 1 <= m THEN m - 1 + 1 ELSE 0
  BY <1>5, <1>6, <1>7, SubSeqProperties
<1>9. Len(r) = m
  BY <1>5, <1>8
<1>10. buffer \in Seq(E)
  <2>1. \A i \in 1 .. l : buffer[i] \in E
    BY <1>1, <1>2, <1>3
  <2>2. buffer \in [1 .. l -> E] /\ l \in Nat
    BY <1>1, <1>3, <2>1
  <2> QED BY <2>2
<1>11. buffer \o r \in Seq(E) /\ Len(buffer \o r) = Len(buffer) + Len(r)
  <2>1. \A b, c \in Seq(E) : b \o c \in Seq(E) /\ Len(b \o c) = Len(b) + Len(c)
    BY ConcatProperties
  <2> QED BY <1>8, <1>10, <2>1
<1>12. Len(buffer \o r) <= BufferSize
  BY <1>3, <1>4, <1>5, <1>9, <1>11
<1>13. Sms!buffer_prefetch(buffer, addrs) = buffer \o r
  BY <1>3, <1>7 DEF Sms!buffer_prefetch
<1> QED BY <1>11, <1>12, <1>13 DEF Buffered

-----------------------------------------------------------------------------
SmsFields(t) ==
  t = [ft |-> t.ft, at |-> t.at, pht |-> t.pht, buffer |-> t.buffer, touched |-> t.touched,
       used |-> t.used, accesses |-> t.accesses]
PhtKept(pht) ==
  /\ pht = [x \in 0 .. PhtSets - 1 |-> pht[x]]
  /\ \A x \in 0 .. PhtSets - 1 : PatternsOf(x, pht[x])
Tables(t) == SmsFields(t) /\ Generations(t.ft, t.at, t.touched) /\ PhtKept(t.pht)
SmsHeld(t, now) == Tables(t) /\ InUseOrder(t.at, t.used, now) /\ Buffered(t.buffer)
SmsTracking(t) == t.accesses \in Nat /\ SmsHeld(t, t.accesses)
Advanced(t, u) == u.accesses = t.accesses /\ SmsHeld(u, t.accesses + 1)

(* A table of patterns one set of which changes. *)
LEMMA PhtSetChanged ==
  ASSUME NEW pht, PhtKept(pht), NEW x \in 0 .. PhtSets - 1, NEW q, PatternsOf(x, q)
  PROVE  PhtKept([pht EXCEPT ![x] = q])
BY DEF PhtKept

LEMMA SetIsThere ==
  ASSUME SmsAssumed, NEW pc \in Pc, NEW offset \in SmsBlock
  PROVE  Sms!SetOf(Sms!create_signature(pc, offset)) \in 0 .. PhtSets - 1
<1>1. pc \in Nat /\ offset \in 0 .. Blocks - 1 /\ Blocks \in Nat \ {0} /\ PhtSets \in Nat \ {0}
  BY DEF SmsAssumed, SmsBlock
<1>2. PICK n : n = Sms!create_signature(pc, offset)
  OBVIOUS
<1>3. n \in Nat
  BY <1>1, <1>2, OffsetOfSignature DEF Sms!create_signature
<1>4. n % PhtSets \in 0 .. PhtSets - 1
  BY <1>1, <1>3
<1> QED BY <1>2, <1>4 DEF Sms!SetOf

LEMMA PhtInserted ==
  ASSUME SmsAssumed, NEW pht, PhtKept(pht), NEW e \in Generation
  PROVE  PhtKept(Sms!insert_pht_table(pht, e))
<1>1. PICK x : x = Sms!SetOf(Sms!create_signature(e.pc, e.trigger))
  OBVIOUS
<1>2. x \in 0 .. PhtSets - 1
  <2>1. e.pc \in Pc /\ e.trigger \in SmsBlock
    BY DEF Generation
  <2> QED BY <1>1, <2>1, SetIsThere
<1>3. PatternsOf(x, Sms!insert_pht_set(pht[x], e))
  <2>1. PatternsOf(x, pht[x])
    BY <1>2 DEF PhtKept
  <2> QED BY <1>1, <2>1, PatternInserted
<1>4. Sms!insert_pht_table(pht, e) = [pht EXCEPT ![x] = Sms!insert_pht_set(pht[x], e)]
  BY <1>1 DEF Sms!insert_pht_table
<1>5. \A q : PatternsOf(x, q) => PhtKept([pht EXCEPT ![x] = q])
  BY <1>2, PhtSetChanged
<1> QED BY <1>3, <1>4, <1>5

(* The generation a full accumulation table gives up leaves its pattern. *)
LEMMA GenerationEvicted ==
  ASSUME SmsAssumed, NEW t, SmsFields(t), Accumulating(t.at), PhtKept(t.pht), Len(t.at) >= AtSize,
         NEW now \in Nat, InUseOrder(t.at, t.used, now)
  PROVE  LET u == Sms!evict_acc_table(t) IN
         /\ SmsFields(u) /\ u.ft = t.ft /\ u.touched = t.touched /\ PhtKept(u.pht)
         /\ u.buffer = t.buffer /\ u.accesses = t.accesses /\ InUseOrder(u.at, u.used, now)
         /\ \E v \in 1 .. Len(t.at) : u.at = Without(t.at, v)
<1>1. PICK v : v = Sms!search_victim(t.at)
  OBVIOUS
<1>2. t.at \in Seq(Generation) /\ Len(t.at) \in Nat /\ Len(t.at) > 0
  BY DEF Accumulating, KeptOnce, SmsAssumed
<1>3. v \in 1 .. Len(t.at)
  <2>1. \A e \in Generation : e.age \in Int
    BY DEF Generation
  <2> QED BY <1>1, <1>2, <2>1, OldestIsThere
<1>4. t.at[v] \in Generation
  BY <1>2, <1>3
<1>5. PICK used : used = [t.used EXCEPT ![t.at[v].region] = 0]
  OBVIOUS
<1>6. Sms!evict_acc_table(t) = [t EXCEPT !.pht = Sms!insert_pht_table(t.pht, t.at[v]),
                                         !.at = Sms!RemoveAt(t.at, v), !.used = used]
  <2>1. Sms!evict_acc_table(t)
          = [t EXCEPT !.pht = Sms!insert_pht_table(t.pht, t.at[v]), !.at = Sms!RemoveAt(t.at, v),
                      !.used[t.at[v].region] = 0]
    BY <1>1 DEF Sms!evict_acc_table
  <2> QED BY <1>5, <2>1 DEF SmsFields
<1>7. PICK p : p = Sms!insert_pht_table(t.pht, t.at[v])
  OBVIOUS
<1>8. PhtKept(p)
  BY <1>4, <1>7, PhtInserted
<1>9. Sms!RemoveAt(t.at, v) = Without(t.at, v)
  BY DEF Sms!RemoveAt, Without
<1>10. PICK k : k = Without(t.at, v)
  OBVIOUS
<1>11. PICK u : u = [t EXCEPT !.pht = p, !.at = k, !.used = used]
  OBVIOUS
<1>12. /\ SmsFields(u) /\ u.ft = t.ft /\ u.touched = t.touched /\ u.pht = p /\ u.at = k
       /\ u.buffer = t.buffer /\ u.accesses = t.accesses /\ u.used = used
  BY <1>11 DEF SmsFields
<1>13. Sms!evict_acc_table(t) = u
  BY <1>6, <1>7, <1>9, <1>10, <1>11
<1>14. InUseOrder(k, used, now)
  BY <1>3, <1>5, <1>10, LeavesInUseOrder
<1> QED BY <1>3, <1>8, <1>10, <1>12, <1>13, <1>14

(* A second access moves the generation to the accumulation table. *)
LEMMA GenerationMoves ==
  ASSUME SmsAssumed, NEW t, SmsTracking(t), NEW f \in 1 .. Len(t.ft), NEW offset \in SmsBlock,
         Idle(t.at, t.ft[f].region), NEW again,
         again = [t EXCEPT !.touched[t.ft[f].region] = @ \cup {offset}]
  PROVE  Advanced(t, Sms!evict_filter_table(Sms!insert_acc_table(again, t.ft[f], offset), f))
<1>0. /\ t.accesses \in Nat /\ Tables(t) /\ SmsFields(t) /\ InUseOrder(t.at, t.used, t.accesses)
      /\ Buffered(t.buffer)
  BY DEF SmsTracking, SmsHeld, Tables
<1>1. PICK e, region : e = t.ft[f] /\ region = e.region
  OBVIOUS
<1>2. PICK to : to = [t.touched EXCEPT ![region] = t.touched[region] \cup {offset}]
  OBVIOUS
<1>3. /\ SmsFields(again) /\ again.ft = t.ft /\ again.at = t.at /\ again.pht = t.pht
      /\ again.touched = to /\ again.used = t.used /\ again.buffer = t.buffer
      /\ again.accesses = t.accesses
  <2>1. again = [t EXCEPT !.touched = to]
    BY <1>0, <1>1, <1>2 DEF SmsFields
  <2> QED BY <1>0, <2>1 DEF SmsFields
<1>4. e \in Opened /\ t.touched[region] = {e.trigger} /\ Accumulating(t.at) /\ Len(t.at) \in Nat /\ Len(t.at) <= AtSize
  <2>1. \A j \in 1 .. Len(t.ft) : t.ft[j] \in Opened
    BY <1>0 DEF Tables, Generations, Opening, KeptOnce
  <2>2. t.touched[region] = {e.trigger}
    BY <1>0, <1>1 DEF Tables, Generations, OneGeneration
  <2> QED BY <1>0, <1>1, <2>1, <2>2 DEF Tables, Generations, Accumulating, KeptOnce
<1>5. PICK u : u = (IF Len(t.at) >= AtSize THEN Sms!evict_acc_table(again) ELSE again)
  OBVIOUS
<1>6. /\ SmsFields(u) /\ u.ft = t.ft /\ u.touched = to /\ PhtKept(u.pht)
      /\ u.buffer = t.buffer /\ u.accesses = t.accesses /\ InUseOrder(u.at, u.used, t.accesses)
      /\ \/ \E v \in 1 .. Len(t.at) : u.at = Without(t.at, v)
         \/ u.at = t.at /\ ~(Len(t.at) >= AtSize)
  <2>1. CASE Len(t.at) >= AtSize
    <3>1. /\ Len(again.at) >= AtSize /\ Accumulating(again.at) /\ PhtKept(again.pht)
          /\ InUseOrder(again.at, again.used, t.accesses) /\ SmsFields(again)
      BY SMTT(60), <1>0, <1>3, <1>4, <2>1 DEF Tables
    <3>2. /\ SmsFields(u) /\ u.ft = again.ft /\ u.touched = again.touched /\ PhtKept(u.pht)
          /\ u.buffer = again.buffer /\ u.accesses = again.accesses /\ InUseOrder(u.at, u.used, t.accesses)
          /\ \E v \in 1 .. Len(again.at) : u.at = Without(again.at, v)
      BY <1>0, <1>5, <2>1, <3>1, GenerationEvicted
    <3> QED BY <1>3, <3>2
  <2>2. CASE ~(Len(t.at) >= AtSize)
    BY <1>0, <1>3, <1>5, <2>2 DEF Tables
  <2> QED BY <2>1, <2>2
<1>7. PICK ft, new, aged : /\ ft = Without(t.ft, f) /\ aged = Sms!update_age(u.at, 0)
                           /\ new = [region |-> e.region, pc |-> e.pc, trigger |-> e.trigger,
                                     pattern |-> {e.trigger, offset}, age |-> 0]
  OBVIOUS
<1>8. Generations(ft, t.at, t.touched) /\ Idle(ft, region)
  <2>1. FtSize \in Int
    BY DEF SmsAssumed
  <2> QED BY <1>0, <1>1, <1>7, <2>1, FilterEntryLeaves DEF Tables
<1>9. Generations(ft, u.at, t.touched) /\ Idle(u.at, region) /\ Len(u.at) < AtSize
  <2>1. AtSize \in Int /\ Idle(t.at, region)
    BY <1>1 DEF SmsAssumed
  <2>2. CASE u.at = t.at /\ ~(Len(t.at) >= AtSize)
    BY <1>4, <1>8, <2>1, <2>2
  <2>3. ASSUME NEW v \in 1 .. Len(t.at), u.at = Without(t.at, v)
        PROVE  Generations(ft, u.at, t.touched) /\ Idle(u.at, region) /\ Len(u.at) < AtSize
    <3>1. /\ Generations(ft, Without(t.at, v), t.touched) /\ Len(Without(t.at, v)) = Len(t.at) - 1
          /\ \A x : Idle(t.at, x) => Idle(Without(t.at, v), x)
      BY <1>8, <2>1, GenerationLeaves
    <3> QED BY <1>4, <2>1, <2>3, <3>1
  <2> QED BY <1>6, <2>2, <2>3
<1>10. Generations(ft, aged, t.touched) /\ Idle(aged, region) /\ Len(aged) < AtSize
  BY <1>7, <1>9, GenerationsAged
<1>11. new \in Generation /\ new.region = region /\ new.pattern = {e.trigger, offset}
  BY <1>1, <1>4, <1>7 DEF Opened, Generation
<1>12. Generations(ft, Append(aged, new), [t.touched EXCEPT ![region] = {e.trigger, offset}])
  <2>1. AtSize \in Nat \ {0}
    BY DEF SmsAssumed
  <2>2. Generations(ft, Append(aged, new), [t.touched EXCEPT ![new.region] = new.pattern])
    BY <1>8, <1>10, <1>11, <2>1, GenerationComes
  <2> QED BY <1>11, <2>2
<1>13. to = [t.touched EXCEPT ![region] = {e.trigger, offset}]
  <2>1. {e.trigger} \cup {offset} = {e.trigger, offset}
    BY SMTT(60)
  <2> QED BY <1>2, <1>4, <2>1
<1>14. PICK w, k, used : /\ k = Append(aged, new) /\ used = [u.used EXCEPT ![region] = t.accesses]
                         /\ w = [u EXCEPT !.at = k, !.used = used]
  OBVIOUS
<1>15. /\ SmsFields(w) /\ w.ft = t.ft /\ w.at = k /\ w.touched = to /\ w.pht = u.pht
       /\ w.used = used /\ w.buffer = t.buffer /\ w.accesses = t.accesses
  BY <1>6, <1>14 DEF SmsFields
<1>16. Sms!insert_acc_table(again, t.ft[f], offset) = w
  <2>1. u = (IF Len(again.at) >= AtSize THEN Sms!evict_acc_table(again) ELSE again)
    BY SMTT(60), <1>3, <1>5
  <2>2. Sms!insert_acc_table(again, t.ft[f], offset) = [u EXCEPT !.at = k, !.used[region] = t.accesses]
    BY <1>1, <1>3, <1>7, <1>14, <2>1 DEF Sms!insert_acc_table
  <2> QED BY <1>6, <1>14, <2>2 DEF SmsFields
<1>17. PICK z : z = [w EXCEPT !.ft = ft]
  OBVIOUS
<1>18. /\ SmsFields(z) /\ z.ft = ft /\ z.at = k /\ z.touched = to /\ z.pht = u.pht
       /\ z.used = used /\ z.buffer = t.buffer /\ z.accesses = t.accesses
  BY <1>15, <1>17 DEF SmsFields
<1>19. Sms!evict_filter_table(w, f) = z
  <2>1. Sms!RemoveAt(w.ft, f) = ft
    BY <1>7, <1>15 DEF Sms!RemoveAt, Without
  <2> QED BY <1>17, <2>1 DEF Sms!evict_filter_table
<1>20. Tables(z)
  BY SMTT(60), <1>6, <1>12, <1>13, <1>14, <1>18 DEF Tables
<1>21. InUseOrder(k, used, t.accesses + 1)
  <2>1. new.age = 0 /\ Idle(u.at, new.region) /\ Accumulating(u.at)
    BY <1>7, <1>9, <1>11 DEF Generations
  <2>2. InUseOrder(Append(Sms!update_age(u.at, 0), new), [u.used EXCEPT ![new.region] = t.accesses],
                   t.accesses + 1)
    BY <1>0, <1>6, <1>11, <2>1, FirstUsed
  <2> QED BY <1>7, <1>11, <1>14, <2>2
<1>22. Advanced(t, z)
  BY <1>0, <1>18, <1>20, <1>21 DEF Advanced, SmsHeld
<1> QED BY <1>16, <1>19, <1>22

(* The first access opens a generation, and ages the patterns it finds. *)
LEMMA GenerationOpens ==
  ASSUME SmsAssumed, NEW t, SmsTracking(t), NEW pc \in Pc, NEW region \in Region, NEW offset \in SmsBlock,
         Idle(t.ft, region), Idle(t.at, region), NEW opened,
         opened = [t EXCEPT !.touched[region] = {offset}]
  PROVE  Advanced(t, Sms!generate_prefetch(Sms!insert_filter_table(opened, pc, region, offset),
                                           pc, region, offset))
<1>0. /\ t.accesses \in Nat /\ Tables(t) /\ SmsFields(t) /\ InUseOrder(t.at, t.used, t.accesses)
      /\ Buffered(t.buffer)
  BY SMTT(60) DEF SmsTracking, SmsHeld, Tables
<1>1. PICK e, to : /\ e = [region |-> region, pc |-> pc, trigger |-> offset]
                   /\ to = [t.touched EXCEPT ![region] = {offset}]
  OBVIOUS
<1>2. e \in Opened /\ e.region = region /\ e.trigger = offset
  BY <1>1 DEF Opened
<1>3. /\ SmsFields(opened) /\ opened.ft = t.ft /\ opened.at = t.at /\ opened.pht = t.pht
      /\ opened.touched = to /\ opened.used = t.used /\ opened.buffer = t.buffer
      /\ opened.accesses = t.accesses
  <2>1. opened = [t EXCEPT !.touched = to]
    BY <1>0, <1>1 DEF SmsFields
  <2> QED BY <1>0, <2>1 DEF SmsFields
<1>4. PICK k : k = (IF Len(t.ft) >= FtSize THEN Without(t.ft, 1) ELSE t.ft)
  OBVIOUS
<1>5. Generations(k, t.at, t.touched) /\ Idle(k, region) /\ Len(k) < FtSize
  <2>1. FtSize \in Nat \ {0} /\ Len(t.ft) \in Nat /\ Len(t.ft) <= FtSize
    BY <1>0 DEF SmsAssumed, Tables, Generations, Opening, KeptOnce
  <2>2. CASE Len(t.ft) >= FtSize
    <3>1. 1 \in 1 .. Len(t.ft)
      BY <2>1, <2>2
    <3>2. /\ Generations(Without(t.ft, 1), t.at, t.touched)
          /\ \A x : Idle(t.ft, x) => Idle(Without(t.ft, 1), x)
          /\ Len(Without(t.ft, 1)) = Len(t.ft) - 1
      BY <1>0, <2>1, <3>1, FilterEntryLeaves DEF Tables
    <3> QED BY <1>4, <2>1, <2>2, <3>2
  <2>3. CASE ~(Len(t.ft) >= FtSize)
    BY <1>0, <1>4, <2>1, <2>3 DEF Tables
  <2> QED BY <2>2, <2>3
<1>6. Generations(Append(k, e), t.at, to)
  <2>1. FtSize \in Nat \ {0}
    BY DEF SmsAssumed
  <2>2. Generations(Append(k, e), t.at, [t.touched EXCEPT ![e.region] = {e.trigger}])
    BY <1>2, <1>5, <2>1, FilterEntryComes
  <2> QED BY <1>1, <1>2, <2>2
<1>7. PICK w, q : q = Append(k, e) /\ w = [opened EXCEPT !.ft = q]
  OBVIOUS
<1>8. /\ SmsFields(w) /\ w.ft = q /\ w.at = t.at /\ w.touched = to /\ w.pht = t.pht
      /\ w.used = t.used /\ w.buffer = t.buffer /\ w.accesses = t.accesses
  BY <1>3, <1>7 DEF SmsFields
<1>9. Tables(w)
  BY <1>0, <1>6, <1>7, <1>8 DEF Tables
<1>10. Sms!insert_filter_table(opened, pc, region, offset) = w
  <2>1. Sms!RemoveAt(opened.ft, 1) = Without(t.ft, 1)
    BY <1>3 DEF Sms!RemoveAt, Without
  <2>2. CASE Len(t.ft) >= FtSize
    <3>1. Sms!insert_filter_table(opened, pc, region, offset)
            = [[opened EXCEPT !.ft = Sms!RemoveAt(opened.ft, 1)] EXCEPT !.ft = Append(@, e)]
      BY <1>1, <1>3, <2>2 DEF Sms!insert_filter_table, Sms!evict_filter_table
    <3>2. PICK v : v = [opened EXCEPT !.ft = k]
      OBVIOUS
    <3>3. Sms!insert_filter_table(opened, pc, region, offset) = [v EXCEPT !.ft = Append(v.ft, e)]
      BY <1>4, <2>1, <2>2, <3>1, <3>2
    <3>4. v.ft = k /\ [v EXCEPT !.ft = q] = [opened EXCEPT !.ft = q]
      BY <1>3, <3>2 DEF SmsFields
    <3> QED BY <1>7, <3>3, <3>4
  <2>3. CASE ~(Len(t.ft) >= FtSize)
    BY <1>1, <1>3, <1>4, <1>7, <2>3 DEF Sms!insert_filter_table
  <2> QED BY <2>2, <2>3
<1>11. PICK x, i : x = Sms!SetOf(Sms!create_signature(pc, offset)) /\ i = Sms!search_pht(w.pht[x], Sms!create_signature(pc, offset))
  OBVIOUS
<1>12. x \in 0 .. PhtSets - 1
  BY <1>11, SetIsThere
<1>13. PICK p : p = [w.pht EXCEPT ![x] = Sms!update_age(w.pht[x], i)]
  OBVIOUS
<1>14. PhtKept(p)
  <2>1. PatternsOf(x, w.pht[x])
    BY <1>9, <1>12 DEF Tables, PhtKept
  <2>2. PatternsOf(x, Sms!update_age(w.pht[x], i))
    BY <2>1, PatternsAged
  <2>3. PhtKept(w.pht)
    BY <1>9 DEF Tables
  <2> QED BY <1>12, <1>13, <2>2, <2>3, PhtSetChanged
<1>15. PICK wanted, addrs, buffer :
         /\ wanted = w.pht[x][i].pattern \ {offset}
         /\ addrs = [k2 \in 1 .. Sms!Cardinality(wanted) |-> <<region, Sms!InOrder(wanted, k2)>>]
         /\ buffer = Sms!buffer_prefetch(w.buffer, addrs)
  OBVIOUS
<1>16. \/ i = 0 /\ Sms!generate_prefetch(w, pc, region, offset) = w
       \/ /\ i # 0
          /\ Sms!generate_prefetch(w, pc, region, offset) = [w EXCEPT !.buffer = buffer, !.pht = p]
  BY <1>8, <1>11, <1>13, <1>15 DEF Sms!generate_prefetch, SmsFields
<1>17. ASSUME i # 0  PROVE Buffered(buffer)
  <2>1. w.pht[x] \in Seq(Pattern(x))
    BY <1>9, <1>12 DEF Tables, PhtKept, PatternsOf, KeptOnce
  <2>2. i \in 1 .. Len(w.pht[x])
    BY <1>11, <1>17, <2>1, SmsSearches
  <2>3. w.pht[x][i] \in Pattern(x)
    BY <2>1, <2>2
  <2>4. wanted \in SUBSET (0 .. Blocks - 1)
    BY <1>15, <2>3 DEF Pattern, SmsBlock
  <2>5. IsFiniteSet(0 .. Blocks - 1)
    <3>1. 0 \in Int /\ Blocks - 1 \in Int
      BY DEF SmsAssumed
    <3> QED BY <3>1, FS_Interval
  <2>6. IsFiniteSet(wanted)
    BY <2>4, <2>5, FS_Subset
  <2>7. PICK n : n = Cardinality(wanted)
    OBVIOUS
  <2>8. n \in Nat /\ Sms!Cardinality(wanted) = n
    BY <2>6, <2>7, FS_CardinalityType DEF Sms!Cardinality, Cardinality
  <2>9. DOMAIN addrs = 1 .. n /\ Len(addrs) = n
    BY <1>15, <2>8
  <2> QED BY <1>0, <1>8, <1>15, <2>8, <2>9, PrefetchesWait
<1>18. InUseOrder(t.at, t.used, t.accesses + 1)
  <2>1. t.at \in Seq(Generation)
    BY <1>0 DEF Tables, Generations, Accumulating, KeptOnce
  <2> QED BY <1>0, <2>1, StillInUseOrder
<1>19. CASE i = 0
  <2>1. Advanced(t, w)
    BY <1>0, <1>8, <1>9, <1>18 DEF Advanced, SmsHeld
  <2> QED BY <1>10, <1>16, <1>19, <2>1
<1>20. CASE i # 0
  <2>1. PICK z : z = [w EXCEPT !.buffer = buffer, !.pht = p]
    OBVIOUS
  <2>2. /\ SmsFields(z) /\ z.ft = w.ft /\ z.at = w.at /\ z.touched = w.touched /\ z.pht = p
        /\ z.used = w.used /\ z.buffer = buffer /\ z.accesses = w.accesses
    BY <1>8, <2>1 DEF SmsFields
  <2>3. Tables(z)
    BY <1>9, <1>14, <2>2 DEF Tables
  <2>4. Advanced(t, z)
    BY <1>8, <1>17, <1>18, <1>20, <2>2, <2>3 DEF Advanced, SmsHeld
  <2> QED BY <1>10, <1>16, <1>20, <2>1, <2>4
<1> QED BY SMTT(60), <1>19, <1>20

LEMMA RegionAccessed ==
  ASSUME SmsAssumed, NEW t, SmsTracking(t), NEW pc \in Pc, NEW region \in Region, NEW offset \in SmsBlock
  PROVE  Advanced(t, Sms!Accessed(t, pc, region, offset))
<1>0. /\ t.accesses \in Nat /\ Tables(t) /\ SmsFields(t) /\ InUseOrder(t.at, t.used, t.accesses)
      /\ Buffered(t.buffer) /\ Accumulating(t.at)
  BY DEF SmsTracking, SmsHeld, Tables, Generations
<1>1. PICK a, f : a = Sms!search_table(t.at, region) /\ f = Sms!search_table(t.ft, region)
  OBVIOUS
<1>2. t.at \in Seq(Generation) /\ t.ft \in Seq(Opened)
  BY <1>0 DEF Tables, Generations, Opening, Accumulating, KeptOnce
<1>3. (a = 0 /\ Idle(t.at, region)) \/ (a \in 1 .. Len(t.at) /\ t.at[a].region = region)
  BY <1>1, <1>2, SmsSearches DEF Idle
<1>4. (f = 0 /\ Idle(t.ft, region)) \/ (f \in 1 .. Len(t.ft) /\ t.ft[f].region = region)
  BY <1>1, <1>2, SmsSearches DEF Idle
<1>5. CASE a # 0
  <2>1. PICK e, q, to, used :
          /\ e = [t.at[a] EXCEPT !.pattern = t.at[a].pattern \cup {offset}]
          /\ q = [t.at EXCEPT ![a] = e]
          /\ to = [t.touched EXCEPT ![region] = t.touched[region] \cup {offset}]
          /\ used = [t.used EXCEPT ![region] = t.accesses]
    OBVIOUS
  <2>2. Generations(t.ft, q, to)
    BY <1>0, <1>3, <1>5, <2>1, GenerationGrows DEF Tables
  <2>3. PICK aged : aged = Sms!update_age(q, a)
    OBVIOUS
  <2>4. Generations(t.ft, aged, to)
    BY <2>2, <2>3, GenerationsAged
  <2>5. PICK z : z = [t EXCEPT !.at = aged, !.touched = to, !.used = used]
    OBVIOUS
  <2>6. /\ SmsFields(z) /\ z.ft = t.ft /\ z.at = aged /\ z.touched = to /\ z.pht = t.pht
        /\ z.used = used /\ z.buffer = t.buffer /\ z.accesses = t.accesses
    BY <1>0, <2>5 DEF SmsFields
  <2>7. Sms!Accessed(t, pc, region, offset) = z
    <3>1. Sms!search_table(t.at, region) # 0
      BY <1>1, <1>5
    <3>2. Sms!Accessed(t, pc, region, offset)
            = [t EXCEPT !.at = Sms!update_age([t.at EXCEPT ![Sms!search_table(t.at, region)].pattern = @ \cup {offset}],
                                              Sms!search_table(t.at, region)),
                        !.touched[region] = @ \cup {offset},
                        !.used[region] = t.accesses]
      BY <3>1 DEF Sms!Accessed
    <3>3. Sms!update_age([t.at EXCEPT ![Sms!search_table(t.at, region)].pattern = @ \cup {offset}],
                         Sms!search_table(t.at, region)) = aged
      BY <1>1, <2>1, <2>3
    <3> QED BY <1>0, <2>1, <2>5, <3>2, <3>3 DEF SmsFields
  <2>8. InUseOrder(aged, used, t.accesses + 1)
    <3>1. a \in 1 .. Len(t.at) /\ t.at[a].region = region
      BY <1>3, <1>5
    <3>2. t.at[a] \in Generation
      BY <1>2, <3>1
    <3>3. e \in Generation /\ e.region = t.at[a].region
      BY <2>1, <3>2 DEF Generation
    <3>4. InUseOrder(Sms!update_age([t.at EXCEPT ![a] = e], a),
                     [t.used EXCEPT ![t.at[a].region] = t.accesses], t.accesses + 1)
      BY <1>0, <3>1, <3>3, UsedAgain
    <3> QED BY <2>1, <2>3, <3>1, <3>4
  <2>9. Tables(z)
    BY <1>0, <2>4, <2>6 DEF Tables
  <2>10. Advanced(t, z)
    BY <1>0, <2>6, <2>8, <2>9 DEF Advanced, SmsHeld
  <2> QED BY <2>7, <2>10
<1>6. CASE a = 0 /\ f # 0
  <2>1. PICK again : again = [t EXCEPT !.touched[region] = @ \cup {offset}]
    OBVIOUS
  <2>2. Sms!Accessed(t, pc, region, offset)
          = Sms!evict_filter_table(Sms!insert_acc_table(again, t.ft[f], offset), f)
    BY <1>1, <1>6, <2>1 DEF Sms!Accessed
  <2>3. f \in 1 .. Len(t.ft) /\ t.ft[f].region = region /\ Idle(t.at, t.ft[f].region)
    BY <1>3, <1>4, <1>6
  <2> QED BY <2>1, <2>2, <2>3, GenerationMoves
<1>7. CASE a = 0 /\ f = 0
  <2>1. PICK opened : opened = [t EXCEPT !.touched[region] = {offset}]
    OBVIOUS
  <2>2. Sms!Accessed(t, pc, region, offset)
          = Sms!generate_prefetch(Sms!insert_filter_table(opened, pc, region, offset), pc, region, offset)
    BY <1>1, <1>7, <2>1 DEF Sms!Accessed
  <2>3. Idle(t.ft, region) /\ Idle(t.at, region)
    BY <1>3, <1>4, <1>7
  <2> QED BY <2>1, <2>2, <2>3, GenerationOpens
<1> QED BY <1>5, <1>6, <1>7

LEMMA SmsStarts ==
  ASSUME SmsAssumed, Sms!Init
  PROVE  SmsTracking(s)
<1>1. /\ SmsFields(s) /\ s.ft = <<>> /\ s.at = <<>> /\ s.pht = [x \in 0 .. PhtSets - 1 |-> <<>>]
      /\ s.touched = [r \in Region |-> {}] /\ s.used = [r \in Region |-> 0]
      /\ s.buffer = <<>> /\ s.accesses = 0
  BY DEF Sms!Init, SmsFields
<1>2. Opening(<<>>) /\ Accumulating(<<>>) /\ \A x : PatternsOf(x, <<>>)
  BY DEF Opening, Accumulating, PatternsOf, KeptOnce, SmsAssumed
<1>3. PhtKept(s.pht)
  BY <1>1, <1>2 DEF PhtKept
<1>4. OneGeneration(<<>>, <<>>, s.touched)
  BY <1>1 DEF OneGeneration
<1>5. Tables(s)
  BY <1>1, <1>2, <1>3, <1>4 DEF Tables, Generations
<1>6. InUseOrder(<<>>, s.used, 0)
  BY <1>1 DEF InUseOrder
<1>7. Buffered(<<>>)
  <2>1. <<>> \in Seq({}) /\ Len(<<>>) = 0
    OBVIOUS
  <2> QED BY <2>1 DEF Buffered, SmsAssumed
<1> QED BY <1>1, <1>5, <1>6, <1>7 DEF SmsTracking, SmsHeld

LEMMA SmsStep ==
  ASSUME SmsAssumed, SmsTracking(s), [Sms!Next]_s
  PROVE  SmsTracking(s')
<1>1. CASE UNCHANGED s
  BY <1>1
<1>2. CASE Sms!Next
  <2>1. PICK pc \in Pc, region \in Region, offset \in 0 .. Blocks - 1 :
          LET t == Sms!Accessed(s, pc, region, offset)
          IN s' = [t EXCEPT !.buffer = Sms!issue_prefetch(t.buffer), !.accesses = t.accesses + 1]
    BY <1>2 DEF Sms!Next, Sms!invoke_prefetcher
  <2>2. PICK t : t = Sms!Accessed(s, pc, region, offset)
    OBVIOUS
  <2>3. Advanced(s, t)
    BY <2>2, RegionAccessed DEF SmsBlock
  <2>4. PICK buffer, n : buffer = Sms!issue_prefetch(t.buffer) /\ n = t.accesses + 1
    OBVIOUS
  <2>5. s' = [t EXCEPT !.buffer = buffer, !.accesses = n]
    BY <2>1, <2>2, <2>4
  <2>6. Tables(t) /\ SmsFields(t) /\ InUseOrder(t.at, t.used, n) /\ Buffered(t.buffer) /\ n \in Nat
    BY <2>3, <2>4 DEF Advanced, SmsHeld, Tables, SmsTracking
  <2>7. /\ SmsFields(s') /\ s'.ft = t.ft /\ s'.at = t.at /\ s'.touched = t.touched /\ s'.pht = t.pht
        /\ s'.used = t.used /\ s'.buffer = buffer /\ s'.accesses = n
    BY <2>5, <2>6 DEF SmsFields
  <2>8. Tables(s')
    BY <2>6, <2>7 DEF Tables
  <2>9. Buffered(buffer)
    BY <2>4, <2>6, PrefetchesLeave
  <2> QED BY <2>6, <2>7, <2>8, <2>9 DEF SmsTracking, SmsHeld
<1> QED BY <1>1, <1>2

(* SMS has a region in one place of one table, within the limits, and its   *)
(* pattern is exactly the blocks touched since its generation was opened;  *)
(* the ages of the accumulation table are in the order of the last use, so *)
(* the generation given up is the one that has been idle longest.          *)
THEOREM GenerationsAlwaysTracked ==
  SmsAssumed => (Sms!Spec => []Sms!GenerationsTracked)
<1> SUFFICES ASSUME SmsAssumed  PROVE Sms!Spec => []Sms!GenerationsTracked
  OBVIOUS
<1>1. SmsTracking(s) => Sms!GenerationsTracked
  <2> SUFFICES ASSUME SmsTracking(s)  PROVE Sms!GenerationsTracked
    OBVIOUS
  <2>0. /\ Tables(s) /\ Generations(s.ft, s.at, s.touched) /\ PhtKept(s.pht)
        /\ InUseOrder(s.at, s.used, s.accesses) /\ Len(s.buffer) <= BufferSize
    BY DEF SmsTracking, SmsHeld, Tables, Buffered
  <2>1. /\ s.ft \in Seq(Opened) /\ Len(s.ft) <= FtSize /\ s.at \in Seq(Generation) /\ Len(s.at) <= AtSize
        /\ DOMAIN s.ft = 1 .. Len(s.ft) /\ DOMAIN s.at = 1 .. Len(s.at)
        /\ Len(s.ft) \in Nat /\ Len(s.at) \in Nat
    BY <2>0 DEF Generations, Opening, Accumulating, KeptOnce
  <2>2. PICK x, y, r : /\ x = [i \in DOMAIN s.ft |-> s.ft[i].region]
                       /\ y = [i \in DOMAIN s.at |-> s.at[i].region] /\ r = x \o y
    OBVIOUS
  <2>3. /\ x \in Seq(Region) /\ Len(x) = Len(s.ft) /\ y \in Seq(Region) /\ Len(y) = Len(s.at)
        /\ \A i \in 1 .. Len(s.ft) : x[i] = s.ft[i].region
        /\ \A i \in 1 .. Len(s.at) : y[i] = s.at[i].region
    <3>1. \A i \in 1 .. Len(s.ft) : s.ft[i] \in Opened
      BY <2>1
    <3>2. \A i \in 1 .. Len(s.at) : s.at[i] \in Generation
      BY <2>1
    <3>3. \A i \in 1 .. Len(s.ft) : s.ft[i].region \in Region
      BY <3>1 DEF Opened
    <3>4. \A i \in 1 .. Len(s.at) : s.at[i].region \in Region
      BY SMTT(60), <3>2 DEF Generation
    <3> QED BY <2>1, <2>2, <3>3, <3>4
  <2>4. /\ r \in Seq(Region) /\ Len(r) = Len(s.ft) + Len(s.at)
        /\ \A i \in 1 .. Len(s.ft) + Len(s.at) : r[i] = IF i <= Len(s.ft) THEN x[i] ELSE y[i - Len(s.ft)]
    <3>1. /\ x \o y \in Seq(Region) /\ Len(x \o y) = Len(x) + Len(y)
          /\ \A i \in 1 .. Len(x) + Len(y) : (x \o y)[i] = IF i <= Len(x) THEN x[i] ELSE y[i - Len(x)]
      <4>1. x \in Seq(Region) /\ y \in Seq(Region)
        BY <2>3
      <4>2. \A b, c \in Seq(Region) :
              /\ b \o c \in Seq(Region) /\ Len(b \o c) = Len(b) + Len(c)
              /\ \A i \in 1 .. Len(b) + Len(c) : (b \o c)[i] = IF i <= Len(b) THEN b[i] ELSE c[i - Len(b)]
        BY ConcatProperties
      <4> QED BY <4>1, <4>2
    <3> QED BY <2>2, <2>3, <3>1
  <2>5. /\ \A i, j \in 1 .. Len(s.ft) : s.ft[i].region = s.ft[j].region => i = j
        /\ \A i, j \in 1 .. Len(s.at) : s.at[i].region = s.at[j].region => i = j
        /\ \A i \in 1 .. Len(s.ft), j \in 1 .. Len(s.at) : s.ft[i].region # s.at[j].region
    <3>1. \A i \in 1 .. Len(s.ft) : s.ft[i] \in Opened
      BY <2>1
    <3>2. \A i \in 1 .. Len(s.at) : s.at[i] \in Generation
      BY <2>1
    <3> QED BY <2>0, <3>1, <3>2
        DEF Generations, Opening, Accumulating, KeptOnce, OpenedRegion, GenerationRegion, OneGeneration
  <2>6. ASSUME NEW i \in DOMAIN r, NEW j \in DOMAIN r, r[i] = r[j]  PROVE i = j
    <3>1. PICK m, n : m = Len(s.ft) /\ n = Len(s.at)
      OBVIOUS
    <3>2. m \in Nat /\ n \in Nat /\ i \in 1 .. m + n /\ j \in 1 .. m + n
      <4>1. DOMAIN r = 1 .. Len(r) /\ Len(r) = m + n
        BY <2>4, <3>1
      <4> QED BY <2>1, <3>1, <4>1
    <3>3. ASSUME NEW k \in 1 .. m + n
          PROVE  \/ k \in 1 .. m /\ r[k] = s.ft[k].region
                 \/ k - m \in 1 .. n /\ r[k] = s.at[k - m].region
      <4>1. r[k] = IF k <= m THEN x[k] ELSE y[k - m]
        BY <2>4, <3>1
      <4>2. CASE k <= m
        <5>1. k \in 1 .. m
          BY <3>2, <4>2
        <5> QED BY <2>3, <3>1, <4>1, <4>2, <5>1
      <4>3. CASE ~(k <= m)
        <5>1. k - m \in 1 .. n
          BY <3>2, <4>3
        <5> QED BY <2>3, <3>1, <4>1, <4>3, <5>1
      <4> QED BY <4>2, <4>3
    <3>4. i - m = j - m => i = j
      BY <3>2
    <3>5. \/ i \in 1 .. m /\ r[i] = s.ft[i].region
          \/ i - m \in 1 .. n /\ r[i] = s.at[i - m].region
      BY <3>2, <3>3
    <3>6. \/ j \in 1 .. m /\ r[j] = s.ft[j].region
          \/ j - m \in 1 .. n /\ r[j] = s.at[j - m].region
      BY <3>2, <3>3
    <3> QED BY <2>5, <2>6, <3>1, <3>4, <3>5, <3>6
  <2>7. /\ \A i \in DOMAIN s.ft : s.touched[s.ft[i].region] = {s.ft[i].trigger}
        /\ \A i \in DOMAIN s.at : s.touched[s.at[i].region] = s.at[i].pattern
    BY <2>0, <2>1 DEF Generations, OneGeneration
  <2>8. \A i, j \in DOMAIN s.at :
          s.at[i].age > s.at[j].age <=> s.used[s.at[i].region] < s.used[s.at[j].region]
    BY <2>0, <2>1 DEF InUseOrder
  <2> QED BY <2>0, <2>1, <2>2, <2>6, <2>7, <2>8 DEF Sms!GenerationsTracked
<1>2. Sms!Init => SmsTracking(s)
  BY SmsStarts
<1>3. SmsTracking(s) /\ [Sms!Next]_s => SmsTracking(s)'
  BY SmsStep
<1> QED BY <1>1, <1>2, <1>3, PTL DEF Sms!Spec

(* A pattern is in the set of its signature, once, and has the block that   *)
(* opened its generation.                                                  *)
THEOREM PatternsAlwaysKeptOnce ==
  SmsAssumed => (Sms!Spec => []Sms!PatternsKeptOnce)
<1> SUFFICES ASSUME SmsAssumed  PROVE Sms!Spec => []Sms!PatternsKeptOnce
  OBVIOUS
<1>1. SmsTracking(s) => Sms!PatternsKeptOnce
  <2> SUFFICES ASSUME SmsTracking(s), NEW x \in DOMAIN s.pht
               PROVE  /\ Len(s.pht[x]) <= PhtAssoc
                      /\ \A i, j \in DOMAIN s.pht[x] :
                           s.pht[x][i].signature = s.pht[x][j].signature => i = j
                      /\ \A i \in DOMAIN s.pht[x] :
                           /\ Sms!SetOf(s.pht[x][i].signature) = x
                           /\ s.pht[x][i].signature % Blocks \in s.pht[x][i].pattern
    BY DEF Sms!PatternsKeptOnce
  <2>1. PICK q : q = s.pht[x]
    OBVIOUS
  <2>2. PatternsOf(x, q)
    BY <2>1 DEF SmsTracking, SmsHeld, Tables, PhtKept
  <2>3. DOMAIN q = 1 .. Len(q) /\ \A i \in 1 .. Len(q) : q[i] \in Pattern(x)
    BY <2>2 DEF PatternsOf, KeptOnce
  <2>4. \A i, j \in 1 .. Len(q) : q[i].signature = q[j].signature => i = j
    BY <2>2, <2>3 DEF PatternsOf, KeptOnce, Signature
  <2>5. \A i \in 1 .. Len(q) : q[i].signature % PhtSets = x /\ q[i].signature % Blocks \in q[i].pattern
    BY <2>3 DEF Pattern
  <2> QED BY <2>1, <2>2, <2>3, <2>4, <2>5 DEF PatternsOf, KeptOnce, Sms!SetOf
<1>2. Sms!Init => SmsTracking(s)
  BY SmsStarts
<1>3. SmsTracking(s) /\ [Sms!Next]_s => SmsTracking(s)'
  BY SmsStep
<1> QED BY <1>1, <1>2, <1>3, PTL DEF Sms!Spec
================================================================================
