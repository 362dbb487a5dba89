-------------------------- MODULE DramChannelProofs --------------------------
(***************************************************************************)
(* The channel of DramChannel is correct for every queue size, geometry    *)
(* and timing.  Each step of operate() is a function on the channel, so    *)
(* each has a lemma: it keeps the banks, the counters and the cached       *)
(* indices consistent with the queues.                                     *)
(***************************************************************************)
EXTENDS DramChannel, FiniteSetTheorems, WellFoundedInduction, TLAPS

-----------------------------------------------------------------------------
(* Oldest is well defined: a non-empty set of entries has exactly one      *)
(* oldest entry.                                                           *)
LEMMA Least ==
  ASSUME NEW S \in SUBSET Nat, S # {}
  PROVE  \E m \in S : \A j \in S : m <= j
<1> DEFINE I == {0 .. j : j \in S}
           R == StrictSubsetOrdering(Nat)
<1>1. I \subseteq FiniteSubsetsOf(Nat) /\ I # {}
  <2>1. \A j \in Nat : IsFiniteSet(0 .. j) /\ 0 .. j \in SUBSET Nat
    BY FS_Interval
  <2>2. \A y \in I : y \in SUBSET Nat /\ IsFiniteSet(y)
    BY <2>1
  <2> QED BY <2>2, Zenon DEF FiniteSubsetsOf
<1>2. PICK x \in I : \A y \in I : ~ (<<y, x>> \in R)
  <2>1. IsWellFoundedOn(R, FiniteSubsetsOf(Nat))
    BY FS_StrictSubsetOrderingWellFounded
  <2> HIDE DEF I, R
  <2> QED BY <1>1, <2>1, WFMin
<1>3. PICK m \in S : x = 0 .. m
  OBVIOUS
<1>4. ASSUME NEW j \in S, j < m  PROVE FALSE
  <2>1. 0 .. j \subseteq 0 .. m /\ 0 .. j # 0 .. m
    <3>1. m \in 0 .. m /\ m \notin 0 .. j
      BY <1>4
    <3> QED BY <1>4, <3>1
  <2>2. <<0 .. j, 0 .. m>> \in R
    BY <2>1 DEF StrictSubsetOrdering
  <2> QED BY <2>2, <1>2, <1>3
<1> QED BY <1>4

Before(q, i, j) == q[i].event < q[j].event \/ (q[i].event = q[j].event /\ i <= j)

LEMMA OldestExists ==
  ASSUME NEW n \in Nat, NEW q \in [1 .. n -> Entry], NEW S \in SUBSET (1 .. n), S # {}
  PROVE  /\ Oldest(q, S) \in S
         /\ \A j \in S : Before(q, Oldest(q, S), j)
<1> DEFINE E == {q[i].event : i \in S}
<1>1. E \in SUBSET Nat /\ E # {}
  <2>1. \A i \in S : q[i].event \in Nat
    BY DEF Entry
  <2> QED BY <2>1, Zenon
<1>2. PICK e \in E : \A f \in E : e <= f
  <2> HIDE DEF E
  <2> QED BY <1>1, Least
<1> DEFINE T == {i \in S : q[i].event = e}
<1>3. T \in SUBSET Nat /\ T # {}
  <2>1. T \subseteq Nat
    <3>1. \A i \in 1 .. n : i \in Nat
      OBVIOUS
    <3> HIDE DEF E
    <3> QED BY <3>1
  <2>2. \E i \in S : q[i].event = e
    BY <1>2, Zenon
  <2> QED BY <2>1, <2>2
<1> HIDE DEF T
<1>4. PICK m \in T : \A j \in T : m <= j
  BY <1>3, Least
<1>5. m \in S /\ \A j \in S : Before(q, m, j)
  <2> SUFFICES ASSUME NEW j \in S  PROVE m \in S /\ Before(q, m, j)
    BY <1>4 DEF T
  <2>1. m \in S /\ q[m].event = e /\ e <= q[j].event /\ q[j].event \in Nat /\ e \in Nat
    BY <1>1, <1>2, <1>4 DEF T, Entry
  <2>2. q[j].event = e => m <= j
    BY <1>4 DEF T
  <2> QED BY <2>1, <2>2 DEF Before
<1> QED BY <1>5 DEF Oldest, Before

LEMMA OldestUnique ==
  ASSUME NEW n \in Nat, NEW q \in [1 .. n -> Entry], NEW S \in SUBSET (1 .. n),
         NEW m \in S, \A j \in S : Before(q, m, j)
  PROVE  Oldest(q, S) = m
<1> DEFINE o == Oldest(q, S)
<1>1. o \in S /\ Before(q, o, m) /\ Before(q, m, o)
  BY OldestExists
<1> HIDE DEF o
<1>2. q[o].event \in Nat /\ q[m].event \in Nat /\ o \in Nat /\ m \in Nat
  BY <1>1 DEF Entry
<1>3. o = m
  BY <1>1, <1>2 DEF Before
<1> QED BY <1>3 DEF o

(* Only the events of the entries searched matter. *)
LEMMA OldestAgrees ==
  ASSUME NEW n \in Nat, NEW q \in [1 .. n -> Entry], NEW r \in [1 .. n -> Entry],
         NEW S \in SUBSET (1 .. n), \A i \in S : q[i].event = r[i].event
  PROVE  Oldest(q, S) = Oldest(r, S)
<1>1. CASE S = {}
  BY <1>1 DEF Oldest
<1>2. CASE S # {}
  <2>1. Oldest(q, S) \in S /\ \A j \in S : Before(q, Oldest(q, S), j)
    BY <1>2, OldestExists
  <2>2. \A j \in S : Before(r, Oldest(q, S), j)
    BY <2>1 DEF Before
  <2> QED BY <2>1, <2>2, OldestUnique
<1> QED BY <1>1, <1>2

-----------------------------------------------------------------------------
USE SizesAssumption, TimesAssumption, GeometryAssumption

(* Consistency of a channel: the inductive invariant.  Matched needs the   *)
(* cached process index to point to a scheduled request, and the counters  *)
(* to stay natural numbers, which is what Fresh and Counted give.          *)
Consistent(s) == Channel(s) /\ Matched(s) /\ OneWay(s) /\ Counted(s) /\ Fresh(s)

LEMMA SlotsOf ==
  ASSUME NEW k \in Kind
  PROVE  /\ Size(k) \in Nat \ {0} /\ Slots(k) = 1 .. Size(k) /\ Slots(k) \subseteq Nat
         /\ IsFiniteSet(Slots(k)) /\ Cardinality(Slots(k)) = Size(k)
         /\ 0 \notin Slots(k)
<1>1. Size(k) \in Nat \ {0} /\ Slots(k) = 1 .. Size(k)
  BY DEF Size, Slots
<1>2. IsFiniteSet(1 .. Size(k)) /\ Cardinality(1 .. Size(k)) = Size(k)
  BY <1>1, FS_Interval
<1> QED BY <1>1, <1>2

LEMMA ScheduledFinite ==
  ASSUME NEW s, NEW k \in Kind
  PROVE  IsFiniteSet(Scheduled(s, k)) /\ Cardinality(Scheduled(s, k)) \in Nat
<1>1. Scheduled(s, k) \in SUBSET Slots(k)
  BY DEF Scheduled
<1> QED BY <1>1, SlotsOf, FS_Subset, FS_CardinalityType

(* What the cached indices point to. *)
LEMMA NextTypes ==
  ASSUME NEW k \in Kind, NEW q \in [Slots(k) -> Entry]
  PROVE  /\ NextSchedule(q) \in Nat
         /\ NextProcess(q) \in Nat
         /\ NextSchedule(q) # 0 => NextSchedule(q) \in Slots(k) /\ q[NextSchedule(q)].addr # NoAddr
                                   /\ ~q[NextSchedule(q)].scheduled
         /\ NextProcess(q) # 0 => NextProcess(q) \in Slots(k) /\ q[NextProcess(q)].scheduled
<1> DEFINE W == {i \in Waiting(q) : ~q[i].scheduled}
           P == {i \in DOMAIN q : q[i].scheduled}
<1>1. W \in SUBSET (1 .. Size(k)) /\ P \in SUBSET (1 .. Size(k)) /\ Size(k) \in Nat /\ q \in [1 .. Size(k) -> Entry]
  BY SlotsOf DEF Waiting
<1>2. (W # {} => Oldest(q, W) \in W) /\ (P # {} => Oldest(q, P) \in P)
  <2> HIDE DEF W, P
  <2> QED BY <1>1, OldestExists
<1>3. (W = {} => NextSchedule(q) = 0) /\ (P = {} => NextProcess(q) = 0)
  BY DEF NextSchedule, NextProcess, Oldest
<1>4. NextSchedule(q) = Oldest(q, W) /\ NextProcess(q) = Oldest(q, P)
  BY DEF NextSchedule, NextProcess
<1> QED BY <1>1, <1>2, <1>3, <1>4, SlotsOf DEF Waiting

-----------------------------------------------------------------------------
(* add_rq and add_wq put a new, unscheduled request in an empty entry. *)
Filled(q, i, a, t) == [q EXCEPT ![i] = [addr |-> a, event |-> t, scheduled |-> FALSE]]

EnqueuedAt(s, e, k, a, t, i) ==
  /\ s.queue[k][i].addr = NoAddr
  /\ ~ Found(s.queue[k], a)
  /\ e = [s EXCEPT !.queue[k] = Filled(s.queue[k], i, a, t),
                   !.next[k].schedule = NextSchedule(Filled(s.queue[k], i, a, t))]

LEMMA EnqueueFields ==
  ASSUME NEW s, Channel(s), NEW k \in Kind, NEW a \in Addr, NEW t \in Nat
  PROVE  \/ /\ Enqueue(s, k, a, t) = s
            /\ Found(s.queue[k], a) \/ \A i \in Slots(k) : s.queue[k][i].addr # NoAddr
         \/ \E i \in Slots(k) : EnqueuedAt(s, Enqueue(s, k, a, t), k, a, t, i)
<1> DEFINE free == {i \in DOMAIN s.queue[k] : s.queue[k][i].addr = NoAddr}
           slot == CHOOSE i \in free : \A j \in free : i <= j
<1>1. DOMAIN s.queue[k] = Slots(k)
  BY DEF Channel
<1>2. free \in SUBSET Nat
  BY <1>1, SlotsOf
<1>3. CASE free # {} /\ ~ Found(s.queue[k], a)
  <2>1. \E m \in free : \A j \in free : m <= j
    <3> HIDE DEF free
    <3> QED BY <1>2, <1>3, Least
  <2>2. slot \in free
    <3> HIDE DEF free
    <3> QED BY <2>1
  <2>3. slot \in Slots(k) /\ s.queue[k][slot].addr = NoAddr
    BY <2>2, <1>1
  <2>4. EnqueuedAt(s, Enqueue(s, k, a, t), k, a, t, slot)
    BY SMTT(60), <2>3, <1>3 DEF Enqueue, EnqueuedAt, Filled
  <2> HIDE DEF slot
  <2> QED BY <2>3, <2>4
<1>4. CASE free = {} \/ Found(s.queue[k], a)
  BY <1>1, <1>4 DEF Enqueue
<1> QED BY <1>3, <1>4

(* A search for a cached index sees only the events and flags searched. *)
LEMMA NextProcessAgrees ==
  ASSUME NEW k \in Kind, NEW q \in [Slots(k) -> Entry], NEW r \in [Slots(k) -> Entry],
         \A i \in Slots(k) : q[i].scheduled = r[i].scheduled,
         \A i \in Slots(k) : q[i].scheduled => q[i].event = r[i].event
  PROVE  NextProcess(q) = NextProcess(r)
<1> DEFINE P == {i \in Slots(k) : q[i].scheduled}
<1>1. P \in SUBSET (1 .. Size(k)) /\ Size(k) \in Nat /\ q \in [1 .. Size(k) -> Entry] /\ r \in [1 .. Size(k) -> Entry]
  BY SlotsOf
<1>2. \A i \in P : q[i].event = r[i].event
  OBVIOUS
<1>3. Oldest(q, P) = Oldest(r, P)
  <2> HIDE DEF P
  <2>1. \A n \in Nat : \A f, g \in [1 .. n -> Entry] : \A S \in SUBSET (1 .. n) :
          (\A i \in S : f[i].event = g[i].event) => Oldest(f, S) = Oldest(g, S)
    BY OldestAgrees
  <2>2. \A S \in SUBSET (1 .. Size(k)) :
          (\A i \in S : q[i].event = r[i].event) => Oldest(q, S) = Oldest(r, S)
    BY ZenonT(60), <1>1, <2>1
  <2>3. (\A i \in P : q[i].event = r[i].event) => Oldest(q, P) = Oldest(r, P)
    BY <1>1, <2>2
  <2> QED BY <1>2, <2>3
<1>4. P = {i \in DOMAIN q : q[i].scheduled} /\ P = {i \in DOMAIN r : r[i].scheduled}
  OBVIOUS
<1> QED BY <1>3, <1>4 DEF NextProcess

(* Matched only reads the flags, the addresses of scheduled requests and   *)
(* the banks.                                                              *)
LEMMA SameMatched ==
  ASSUME NEW s, NEW e, Matched(s), e.bank = s.bank,
         \A k \in Kind : Scheduled(e, k) = Scheduled(s, k),
         \A k \in Kind : \A i \in Scheduled(s, k) : e.queue[k][i].addr = s.queue[k][i].addr
  PROVE  Matched(e)
<1>1. \A k \in Kind : \A i \in Scheduled(s, k) : BankOf(e, k, i) = BankOf(s, k, i)
  BY DEF BankOf
<1> QED BY <1>1 DEF Matched

LEMMA EnqueueKeeps ==
  ASSUME NEW s, Consistent(s), NEW k \in Kind, NEW a \in Addr, NEW t \in Nat
  PROVE  Consistent(Enqueue(s, k, a, t))
<1> DEFINE e == Enqueue(s, k, a, t)
<1> SUFFICES ASSUME e # s  PROVE Consistent(e)
  OBVIOUS
<1> HIDE DEF e
<1> USE DEF Consistent
<1> DEFINE q == s.queue[k]
<1>1. PICK slot \in Slots(k) : EnqueuedAt(s, e, k, a, t, slot)
  BY EnqueueFields DEF e
<1> DEFINE q2 == Filled(q, slot, a, t)
<1>2. q \in [Slots(k) -> Entry] /\ q2 \in [Slots(k) -> Entry]
  BY DEF Channel, Entry, Filled
<1>3. /\ DOMAIN e.queue = Kind /\ e.queue[k] = q2
      /\ \A j \in Kind \ {k} : e.queue[j] = s.queue[j]
      /\ e.bank = s.bank /\ e.mode = s.mode /\ e.dbus = s.dbus /\ e.count = s.count /\ e.burst = s.burst
      /\ \A j \in Kind \ {k} : e.next[j] = s.next[j]
      /\ e.next[k].schedule = NextSchedule(q2) /\ e.next[k].process = s.next[k].process
      /\ e.next \in [Kind -> [schedule : Nat, process : Nat]]
      /\ e = [queue |-> e.queue, bank |-> e.bank, mode |-> e.mode, dbus |-> e.dbus,
              count |-> e.count, next |-> e.next, burst |-> e.burst]
  <2>1. s.next \in [Kind -> [schedule : Nat, process : Nat]]
    BY DEF Channel
  <2>2. NextSchedule(q2) \in Nat
    BY <1>2, NextTypes
  <2> HIDE DEF q2
  <2>3. e = [s EXCEPT !.queue[k] = q2, !.next[k].schedule = NextSchedule(q2)]
    BY <1>1 DEF EnqueuedAt, q2
  <2>4. s = [queue |-> s.queue, bank |-> s.bank, mode |-> s.mode, dbus |-> s.dbus,
             count |-> s.count, next |-> s.next, burst |-> s.burst]
    BY DEF Channel
  <2>5. e.next = [s.next EXCEPT ![k] = [s.next[k] EXCEPT !.schedule = NextSchedule(q2)]]
    BY <2>3, <2>4
  <2>6. e.queue = [s.queue EXCEPT ![k] = q2] /\ DOMAIN s.queue = Kind
    BY <2>3, <2>4 DEF Channel
  <2>7. /\ e.bank = s.bank /\ e.mode = s.mode /\ e.dbus = s.dbus /\ e.count = s.count /\ e.burst = s.burst
        /\ e = [queue |-> e.queue, bank |-> e.bank, mode |-> e.mode, dbus |-> e.dbus,
                count |-> e.count, next |-> e.next, burst |-> e.burst]
    BY <2>3, <2>4
  <2>8. /\ \A j \in Kind \ {k} : e.next[j] = s.next[j]
        /\ e.next[k].schedule = NextSchedule(q2) /\ e.next[k].process = s.next[k].process
        /\ e.next \in [Kind -> [schedule : Nat, process : Nat]]
    BY <2>1, <2>2, <2>5
  <2> QED BY <2>6, <2>7, <2>8
<1>4. ~ q[slot].scheduled
  BY <1>1 DEF Matched, EnqueuedAt, Scheduled
<1>5. \A i \in Slots(k) : /\ q2[i].scheduled = q[i].scheduled
                          /\ i # slot => q2[i] = q[i]
  BY <1>2, <1>4 DEF Entry, Filled
<1> HIDE DEF q2
<1>6. Channel(e)
  <2>1. \A j \in Kind : e.queue[j] \in [Slots(j) -> Entry]
    BY <1>2, <1>3 DEF Channel
  <2> QED BY <2>1, <1>3 DEF Channel
<1>7. \A j \in Kind : Scheduled(e, j) = Scheduled(s, j)
  BY <1>3, <1>5 DEF Scheduled
<1>8. Matched(e) /\ OneWay(e) /\ Counted(e)
  <2>1. \A j \in Kind : \A i \in Scheduled(s, j) : e.queue[j][i].addr = s.queue[j][i].addr
    BY <1>3, <1>4, <1>5 DEF Scheduled
  <2>2. Matched(e)
    BY <2>1, <1>3, <1>7, SameMatched
  <2> QED BY <2>2, <1>3, <1>7 DEF OneWay, Counted
<1>9. Fresh(e)
  <2>1. NextProcess(q2) = NextProcess(q)
    BY SMTT(60), <1>2, <1>4, <1>5, NextProcessAgrees
  <2> QED BY ZenonT(60), <2>1, <1>2, <1>3 DEF Fresh, Channel
<1> QED BY <1>6, <1>8, <1>9


-----------------------------------------------------------------------------
Fields(s) ==
  s = [queue |-> s.queue, bank |-> s.bank, mode |-> s.mode, dbus |-> s.dbus,
       count |-> s.count, next |-> s.next, burst |-> s.burst]

(* What a step does that the memory's user sees: nothing, or one request   *)
(* ends with a transfer on the free bus.                                   *)
SameBus(s, e) == e.mode = s.mode /\ e.dbus = s.dbus /\ e.burst = s.burst

SameAddrs(s, e) == \A k \in Kind : \A i \in Slots(k) : e.queue[k][i].addr = s.queue[k][i].addr

OneGone(s, e) ==
  \E k \in Kind : \E i \in Slots(k) :
    /\ e.queue[k][i].addr = NoAddr
    /\ \A j \in Kind : \A x \in Slots(j) :
         (j # k \/ x # i) => e.queue[j][x].addr = s.queue[j][x].addr

Ended(s, e) ==
  /\ OneGone(s, e)
  /\ s.dbus <= now /\ e.dbus = now + RETURN_TIME /\ e.mode = s.mode
  /\ e.burst = [kind |-> s.mode, end |-> now + RETURN_TIME]

(* schedule takes a waiting request whose bank is idle. *)
Begun(q, i, done) == [q EXCEPT ![i].scheduled = TRUE, ![i].event = done]

ScheduledAt(s, e, k, i, done) ==
  /\ i \in Ready(s, k) /\ done \in Nat
  /\ e = [s EXCEPT
           !.queue[k] = Begun(s.queue[k], i, done),
           !.bank[BankOf(s, k, i)] = [kind |-> k, index |-> i, avail |-> done, open |-> RowOf(s, k, i)],
           !.count[k] = @ + 1,
           !.next[k] = [schedule |-> NextSchedule(Begun(s.queue[k], i, done)),
                        process |-> NextProcess(Begun(s.queue[k], i, done))]]

LEMMA ScheduleFields ==
  ASSUME NEW s, Channel(s), NEW k \in Kind, now \in Nat
  PROVE  \/ Schedule(s, k) = s
         \/ \E i, done : ScheduledAt(s, Schedule(s, k), k, i, done)
<1> DEFINE q == s.queue[k]
           ready == Ready(s, k)
           hits == {i \in ready : s.bank[BankOf(s, k, i)].open = RowOf(s, k, i)}
           i == Oldest(q, IF hits # {} THEN hits ELSE ready)
           done == now + (IF hits # {} THEN tCAS ELSE tRP + tRCD + tCAS)
<1>1. CASE ready = {}
  BY <1>1 DEF Schedule
<1>2. CASE ready # {}
  <2>1. q \in [1 .. Size(k) -> Entry] /\ Size(k) \in Nat
    BY SlotsOf DEF Channel
  <2>2. ready \in SUBSET (1 .. Size(k)) /\ hits \subseteq ready
    BY <2>1 DEF Ready, Waiting
  <2>3. i \in ready
    <3>1. ASSUME NEW S \in SUBSET (1 .. Size(k)), S # {}  PROVE Oldest(q, S) \in S
      BY <2>1, <3>1, OldestExists
    <3> HIDE DEF q, ready, hits
    <3> QED BY <1>2, <2>2, <3>1
  <2>4. done \in Nat
    BY SMTT(60)
  <2>5. ScheduledAt(s, Schedule(s, k), k, i, done)
    BY <1>2, <2>3, <2>4 DEF Schedule, ScheduledAt, Begun
  <2> HIDE DEF i, done
  <2> QED BY <2>5
<1> QED BY <1>1, <1>2

(* What is scheduled is a waiting request, and its bank works for it. *)
LEMMA ScheduledBank ==
  ASSUME NEW s, Channel(s), Matched(s), NEW k \in Kind, NEW x \in Scheduled(s, k)
  PROVE  /\ x \in Slots(k) /\ s.queue[k][x].addr \in Addr
         /\ BankOf(s, k, x) \in Bank
         /\ s.bank[BankOf(s, k, x)].kind = k /\ s.bank[BankOf(s, k, x)].index = x
<1>1. s.queue[k][x].addr # NoAddr /\ s.bank[BankOf(s, k, x)].kind = k /\ s.bank[BankOf(s, k, x)].index = x
  BY DEF Matched
<1>2. x \in Slots(k)
  BY DEF Scheduled
<1>3. s.queue[k][x] \in Entry
  BY <1>2 DEF Channel
<1>4. s.queue[k][x].addr \in Addr
  BY <1>1, <1>3 DEF Entry
<1>5. BankOf(s, k, x) \in Bank
  BY <1>4 DEF BankOf
<1> QED BY <1>1, <1>2, <1>4, <1>5

LEMMA ScheduleKeeps ==
  ASSUME NEW s, Consistent(s), now \in Nat
  PROVE  /\ Consistent(Schedule(s, s.mode))
         /\ SameBus(s, Schedule(s, s.mode)) /\ SameAddrs(s, Schedule(s, s.mode))
<1> DEFINE k == s.mode
           e == Schedule(s, k)
<1> SUFFICES ASSUME e # s  PROVE Consistent(e) /\ SameBus(s, e) /\ SameAddrs(s, e)
  BY DEF SameBus, SameAddrs
<1>0. k \in Kind /\ Fields(s) /\ DOMAIN s.queue = Kind /\ s.bank \in [Bank -> BankState]
      /\ s.count \in [Kind -> Nat] /\ s.next \in [Kind -> [schedule : Nat, process : Nat]]
  BY DEF Consistent, Channel, Fields
<1>1. PICK i, done : ScheduledAt(s, e, k, i, done)
  BY <1>0, ScheduleFields DEF Consistent
<1> HIDE DEF e, k
<1> DEFINE q == s.queue[k]
           q2 == Begun(q, i, done)
           b == BankOf(s, k, i)
<1>2. /\ i \in Slots(k) /\ q[i].addr # NoAddr /\ ~ q[i].scheduled /\ done \in Nat
      /\ s.bank[b].kind = "none"
      /\ q \in [Slots(k) -> Entry]
  BY <1>0, <1>1 DEF ScheduledAt, Ready, Waiting, Consistent, Channel
<1>3. b \in Bank /\ RowOf(s, k, i) \in {row_of[a] : a \in Addr}
  <2>1. q[i].addr \in Addr
    BY <1>2 DEF Entry
  <2> QED BY <2>1 DEF BankOf, RowOf
<1>4. /\ q2 \in [Slots(k) -> Entry]
      /\ \A j \in Slots(k) : /\ q2[j].addr = q[j].addr
                             /\ q2[j].scheduled = (q[j].scheduled \/ j = i)
  BY <1>2 DEF Begun, Entry
<1> DEFINE nb == [kind |-> k, index |-> i, avail |-> done, open |-> RowOf(s, k, i)]
           nn == [schedule |-> NextSchedule(q2), process |-> NextProcess(q2)]
<1>5. nb \in BankState /\ nn \in [schedule : Nat, process : Nat]
  <2>1. i \in Nat
    BY <1>0, <1>2, SlotsOf
  <2> QED BY <2>1, <1>0, <1>2, <1>3, <1>4, NextTypes DEF BankState
<1>6. /\ e.queue = [s.queue EXCEPT ![k] = q2]
      /\ e.bank = [s.bank EXCEPT ![b] = nb]
      /\ e.count = [s.count EXCEPT ![k] = @ + 1]
      /\ e.next = [s.next EXCEPT ![k] = nn]
      /\ e.mode = s.mode /\ e.dbus = s.dbus /\ e.burst = s.burst /\ Fields(e)
  <2> HIDE DEF q2, b, nb, nn
  <2>1. e = [s EXCEPT !.queue[k] = q2, !.bank[b] = nb, !.count[k] = @ + 1, !.next[k] = nn]
    BY <1>1 DEF ScheduledAt, q2, b, nb, nn
  <2> QED BY <2>1, <1>0 DEF Fields
<1> HIDE DEF q2, b
<1>7. Channel(e)
  <2>1. \A j \in Kind : e.queue[j] \in [Slots(j) -> Entry]
    BY <1>0, <1>4, <1>6 DEF Consistent, Channel
  <2>2. e.bank \in [Bank -> BankState] /\ e.next \in [Kind -> [schedule : Nat, process : Nat]]
        /\ e.count \in [Kind -> Nat] /\ DOMAIN e.queue = Kind
    BY <1>0, <1>3, <1>5, <1>6
  <2> QED BY <2>1, <2>2, <1>6 DEF Consistent, Channel, Fields
<1>8. Scheduled(e, k) = Scheduled(s, k) \cup {i} /\ i \notin Scheduled(s, k)
      /\ \A j \in Kind \ {k} : Scheduled(e, j) = Scheduled(s, j)
  <2>1. e.queue[k] = q2 /\ \A j \in Kind \ {k} : e.queue[j] = s.queue[j]
    BY <1>0, <1>6
  <2>2. \A j \in Kind \ {k} : Scheduled(e, j) = Scheduled(s, j)
    BY <2>1 DEF Scheduled
  <2>3. \A x \in Slots(k) : e.queue[k][x].scheduled <=> s.queue[k][x].scheduled \/ x = i
    BY <2>1, <1>4
  <2>4. Scheduled(e, k) = Scheduled(s, k) \cup {i}
    BY <2>3, <1>2 DEF Scheduled
  <2> QED BY <2>2, <2>4, <1>2 DEF Scheduled
<1>9. \A j \in Kind : \A x \in Slots(j) : BankOf(e, j, x) = BankOf(s, j, x) /\ e.queue[j][x].addr = s.queue[j][x].addr
  BY <1>0, <1>4, <1>6 DEF BankOf
<1>10. Matched(e)
  <2>1. ASSUME NEW j \in Kind, NEW x \in Scheduled(e, j)
        PROVE  /\ e.queue[j][x].addr # NoAddr
               /\ e.bank[BankOf(e, j, x)].kind = j
               /\ e.bank[BankOf(e, j, x)].index = x
    <3>1. CASE j = k /\ x = i
      BY <3>1, <1>0, <1>2, <1>3, <1>6, <1>9 DEF b
    <3>2. CASE x \in Scheduled(s, j)
      <4>1. BankOf(s, j, x) # b
        BY <3>2, <1>2 DEF Consistent, Matched, Kind
      <4>2. BankOf(s, j, x) \in Bank /\ x \in Slots(j)
        BY <3>2, ScheduledBank DEF Consistent
      <4>3. e.bank[BankOf(s, j, x)] = s.bank[BankOf(s, j, x)]
        BY <4>1, <4>2, <1>0, <1>6
      <4> QED BY <3>2, <4>2, <4>3, <1>9 DEF Consistent, Matched
    <3> QED BY <2>1, <3>1, <3>2, <1>8
  <2>2. ASSUME NEW j \in Kind, NEW c \in Bank, e.bank[c].kind = j
        PROVE  e.bank[c].index \in Scheduled(e, j) /\ BankOf(e, j, e.bank[c].index) = c
    <3>1. CASE c = b
      BY <3>1, <2>2, <1>0, <1>2, <1>3, <1>6, <1>8, <1>9 DEF b
    <3>2. CASE c # b
      <4>1. e.bank[c] = s.bank[c]
        BY <3>2, <1>0, <1>6
      <4> QED BY <4>1, <2>2, <1>8, <1>9 DEF Consistent, Matched, Scheduled
    <3> QED BY <3>1, <3>2
  <2> QED BY <2>1, <2>2 DEF Matched
<1>11. OneWay(e)
  BY <1>6, <1>8 DEF Consistent, OneWay, k
<1>12. Counted(e)
  <2>1. Cardinality(Scheduled(e, k)) = Cardinality(Scheduled(s, k)) + 1
    BY <1>0, <1>8, ScheduledFinite, FS_AddElement
  <2>2. e.count[k] = s.count[k] + 1 /\ \A j \in Kind \ {k} : e.count[j] = s.count[j]
    BY <1>0, <1>6
  <2>3. \A j \in Kind : s.count[j] = Cardinality(Scheduled(s, j))
    BY DEF Consistent, Counted
  <2>4. \A j \in Kind : e.count[j] = Cardinality(Scheduled(e, j))
    BY <1>0, <1>8, <2>1, <2>2, <2>3
  <2> QED BY <2>4 DEF Counted
<1>13. Fresh(e)
  BY <1>0, <1>6 DEF Consistent, Fresh
<1>14. SameBus(s, e) /\ SameAddrs(s, e)
  BY <1>6, <1>9 DEF SameBus, SameAddrs
<1> QED BY <1>7, <1>10, <1>11, <1>12, <1>13, <1>14 DEF Consistent


-----------------------------------------------------------------------------
LEMMA NextScheduleAgrees ==
  ASSUME NEW k \in Kind, NEW q \in [Slots(k) -> Entry], NEW r \in [Slots(k) -> Entry],
         \A i \in Slots(k) : (q[i].addr # NoAddr /\ ~q[i].scheduled) <=> (r[i].addr # NoAddr /\ ~r[i].scheduled),
         \A i \in Slots(k) : q[i].addr # NoAddr /\ ~q[i].scheduled => q[i].event = r[i].event
  PROVE  NextSchedule(q) = NextSchedule(r)
<1> DEFINE W == {i \in Slots(k) : q[i].addr # NoAddr /\ ~q[i].scheduled}
<1>1. W \in SUBSET (1 .. Size(k)) /\ Size(k) \in Nat /\ q \in [1 .. Size(k) -> Entry] /\ r \in [1 .. Size(k) -> Entry]
  BY SlotsOf
<1>2. \A i \in W : q[i].event = r[i].event
  OBVIOUS
<1>3. Oldest(q, W) = Oldest(r, W)
  <2> HIDE DEF W
  <2>1. \A n \in Nat : \A f, g \in [1 .. n -> Entry] : \A S \in SUBSET (1 .. n) :
          (\A i \in S : f[i].event = g[i].event) => Oldest(f, S) = Oldest(g, S)
    BY OldestAgrees
  <2>2. \A S \in SUBSET (1 .. Size(k)) :
          (\A i \in S : q[i].event = r[i].event) => Oldest(q, S) = Oldest(r, S)
    BY ZenonT(60), <1>1, <2>1
  <2>3. (\A i \in W : q[i].event = r[i].event) => Oldest(q, W) = Oldest(r, W)
    BY <1>1, <2>2
  <2> QED BY <1>2, <2>3
<1>4. W = {i \in Waiting(q) : ~q[i].scheduled} /\ W = {i \in Waiting(r) : ~r[i].scheduled}
  BY DEF Waiting
<1> QED BY <1>3, <1>4 DEF NextSchedule

(* process ends the request its cached index points to, or lets it wait    *)
(* for the bus.                                                            *)
LEMMA ProcessKeeps ==
  ASSUME NEW s, Consistent(s), now \in Nat, s.next[s.mode].process # 0
  PROVE  LET e == Process(s, s.mode)
         IN  Consistent(e) /\ ((SameBus(s, e) /\ SameAddrs(s, e)) \/ Ended(s, e))
<1> DEFINE k == s.mode
           e == Process(s, k)
           q == s.queue[k]
           i == s.next[k].process
           b == BankOf(s, k, i)
           q2 == [q EXCEPT ![i] = EmptyEntry]
<1>1. k \in Kind /\ Fields(s) /\ DOMAIN s.queue = Kind /\ s.bank \in [Bank -> BankState]
      /\ s.count \in [Kind -> Nat] /\ s.next \in [Kind -> [schedule : Nat, process : Nat]]
      /\ s.dbus \in Nat /\ q \in [Slots(k) -> Entry]
  BY DEF Consistent, Channel, Fields
<1>2. i \in Scheduled(s, k) /\ i \in Slots(k) /\ q[i].scheduled
  <2>1. i = NextProcess(q)
    BY <1>1 DEF Consistent, Fresh
  <2>2. i \in Slots(k) /\ q[i].scheduled
    BY SMTT(60), <1>1, <2>1, NextTypes
  <2> QED BY <2>2 DEF Scheduled
<1>3. b \in Bank /\ s.bank[b].kind = k /\ s.bank[b].index = i /\ q[i].addr # NoAddr
  <2>1. q[i].addr # NoAddr /\ s.bank[b].kind = k /\ s.bank[b].index = i
    <3> HIDE DEF i, k
    <3> QED BY <1>1, <1>2 DEF Consistent, Matched
  <2>2. q[i].addr \in Addr
    <3> HIDE DEF i, k
    <3> QED BY SMTT(60), <1>1, <1>2, <2>1 DEF Entry
  <2> QED BY <2>1, <2>2 DEF BankOf
<1>4. CASE s.bank[b].avail > now
  BY ZenonT(60), <1>4 DEF Process, SameBus, SameAddrs
<1>5. CASE ~(s.bank[b].avail > now) /\ s.dbus > now
  <2> HIDE DEF k, i, b
  <2>1. e = [s EXCEPT !.bank[b].avail = s.dbus]
    BY <1>5 DEF Process, k, i, b
  <2> HIDE DEF e
  <2>2. /\ e.queue = s.queue /\ e.count = s.count /\ e.next = s.next
        /\ e.mode = s.mode /\ e.dbus = s.dbus /\ e.burst = s.burst /\ Fields(e)
        /\ e.bank = [s.bank EXCEPT ![b].avail = s.dbus]
    BY <1>1, <2>1 DEF Fields
  <2>3. e.bank \in [Bank -> BankState]
        /\ \A c \in Bank : e.bank[c].kind = s.bank[c].kind /\ e.bank[c].index = s.bank[c].index
    <3>1. s.bank[b] \in BankState /\ s.dbus \in Nat
      BY <1>1, <1>3
    <3>2. e.bank = [s.bank EXCEPT ![b] = [s.bank[b] EXCEPT !.avail = s.dbus]]
      BY <2>2
    <3>3. /\ [s.bank[b] EXCEPT !.avail = s.dbus] \in BankState
          /\ [s.bank[b] EXCEPT !.avail = s.dbus].kind = s.bank[b].kind
          /\ [s.bank[b] EXCEPT !.avail = s.dbus].index = s.bank[b].index
      BY <3>1 DEF BankState
    <3> DEFINE nb == [s.bank[b] EXCEPT !.avail = s.dbus]
    <3> HIDE DEF nb
    <3> QED BY <1>1, <1>3, <3>2, <3>3 DEF nb
  <2>4. Channel(e)
    BY <2>2, <2>3 DEF Consistent, Channel, Fields
  <2>5. \A j \in Kind : Scheduled(e, j) = Scheduled(s, j)
    BY <2>2 DEF Scheduled
  <2>6. \A j \in Kind : \A x : BankOf(e, j, x) = BankOf(s, j, x)
    BY <2>2 DEF BankOf
  <2>7. ASSUME NEW j \in Kind, NEW x \in Scheduled(s, j)  PROVE BankOf(s, j, x) \in Bank
    BY <2>7, ScheduledBank DEF Consistent
  <2>8. Matched(e)
    BY <2>2, <2>3, <2>5, <2>6, <2>7 DEF Consistent, Matched
  <2>9. OneWay(e) /\ Counted(e) /\ Fresh(e)
    BY <2>2, <2>5 DEF Consistent, OneWay, Counted, Fresh
  <2>10. SameBus(s, e) /\ SameAddrs(s, e)
    BY <2>2 DEF SameBus, SameAddrs
  <2> QED BY <2>4, <2>8, <2>9, <2>10 DEF Consistent, e, k
<1>6. CASE ~(s.bank[b].avail > now) /\ ~(s.dbus > now)
  <2> HIDE DEF k, i, b, q2
  <2>1. e = [s EXCEPT
               !.queue[k] = q2,
               !.bank[b].kind = "none", !.bank[b].index = 0,
               !.dbus = now + RETURN_TIME,
               !.count[k] = @ - 1,
               !.next[k].process = NextProcess(q2),
               !.burst = [kind |-> k, end |-> now + RETURN_TIME]]
    BY <1>6 DEF Process, k, i, b, q2
  <2> HIDE DEF e
  <2>2. e.queue = [s.queue EXCEPT ![k] = q2] /\ e.count = [s.count EXCEPT ![k] = @ - 1]
        /\ e.mode = s.mode /\ e.dbus = now + RETURN_TIME /\ Fields(e)
        /\ e.burst = [kind |-> k, end |-> now + RETURN_TIME]
    BY <1>1, <2>1 DEF Fields
  <2>3. e.bank = [s.bank EXCEPT ![b].kind = "none", ![b].index = 0]
    BY <1>1, <2>1 DEF Fields
  <2>4. e.next = [s.next EXCEPT ![k].process = NextProcess(q2)]
    BY <1>1, <2>1 DEF Fields
  <2>5. q2 \in [Slots(k) -> Entry] /\ q2[i] = EmptyEntry /\ \A x \in Slots(k) \ {i} : q2[x] = q[x]
    BY <1>1, <1>2 DEF q2, EmptyEntry, Entry
  <2>6. e.queue[k] = q2 /\ DOMAIN e.queue = Kind /\ \A j \in Kind \ {k} : e.queue[j] = s.queue[j]
    BY <1>1, <2>2
  <2>7. /\ e.bank \in [Bank -> BankState] /\ e.bank[b].kind = "none"
        /\ \A c \in Bank \ {b} : e.bank[c] = s.bank[c]
    <3> DEFINE nb == [s.bank[b] EXCEPT !.kind = "none", !.index = 0]
    <3>1. s.bank[b] \in BankState
      BY <1>1, <1>3
    <3>2. e.bank = [s.bank EXCEPT ![b] = nb]
      BY <2>3
    <3>3. nb \in BankState /\ nb.kind = "none"
      BY <3>1 DEF BankState
    <3> HIDE DEF nb
    <3> QED BY <1>1, <1>3, <3>2, <3>3
  <2>8. /\ e.next \in [Kind -> [schedule : Nat, process : Nat]]
        /\ e.next[k].process = NextProcess(q2) /\ e.next[k].schedule = s.next[k].schedule
        /\ \A j \in Kind \ {k} : e.next[j] = s.next[j]
    <3>1. NextProcess(q2) \in Nat
      BY <1>1, <2>5, NextTypes
    <3> QED BY <1>1, <2>4, <3>1
  <2>9. Scheduled(e, k) = Scheduled(s, k) \ {i} /\ \A j \in Kind \ {k} : Scheduled(e, j) = Scheduled(s, j)
    BY <2>5, <2>6 DEF Scheduled, EmptyEntry
  <2>10. Cardinality(Scheduled(e, k)) = Cardinality(Scheduled(s, k)) - 1 /\ Cardinality(Scheduled(e, k)) \in Nat
    <3>1. IsFiniteSet(Scheduled(s, k)) /\ Cardinality(Scheduled(e, k)) \in Nat
      BY <1>1, ScheduledFinite
    <3>2. Cardinality(Scheduled(s, k) \ {i}) = Cardinality(Scheduled(s, k)) - 1
      BY <3>1, <1>2, FS_RemoveElement
    <3> QED BY <2>9, <3>1, <3>2
  <2>11. Counted(e) /\ e.count \in [Kind -> Nat]
    <3>1. e.count[k] = s.count[k] - 1 /\ \A j \in Kind \ {k} : e.count[j] = s.count[j]
      BY <1>1, <2>2
    <3>2. \A j \in Kind : s.count[j] = Cardinality(Scheduled(s, j))
      BY DEF Consistent, Counted
    <3>3. \A j \in Kind : e.count[j] = Cardinality(Scheduled(e, j))
      BY <1>1, <2>9, <2>10, <3>1, <3>2
    <3> QED BY <1>1, <2>2, <2>10, <3>1, <3>3 DEF Counted
  <2>12. Channel(e)
    <3>1. \A j \in Kind : e.queue[j] \in [Slots(j) -> Entry]
      BY <1>1, <2>5, <2>6 DEF Consistent, Channel
    <3>2. e.burst \in [kind : Kind \cup {"none"}, end : Nat] /\ e.dbus \in Nat
      BY <1>1, <2>2
    <3> QED BY <3>1, <3>2, <1>1, <2>2, <2>6, <2>7, <2>8, <2>11 DEF Channel, Fields, k
  <2>13. Matched(e)
    <3>1. ASSUME NEW j \in Kind, NEW x \in Scheduled(e, j)
          PROVE  /\ e.queue[j][x] = s.queue[j][x] /\ x \in Scheduled(s, j)
                 /\ BankOf(e, j, x) = BankOf(s, j, x) /\ BankOf(s, j, x) \in Bank \ {b}
      <4>1. x \in Scheduled(s, j) /\ x \in Slots(j) /\ (j = k => x # i)
        BY <3>1, <2>9 DEF Scheduled
      <4>2. e.queue[j][x] = s.queue[j][x]
        BY <4>1, <2>5, <2>6
      <4>3. BankOf(s, j, x) \in Bank
        BY <4>1, ScheduledBank DEF Consistent
      <4>4. BankOf(s, j, x) # b
        BY <4>1, <1>1, <1>3 DEF Consistent, Matched
      <4> QED BY <4>1, <4>2, <4>3, <4>4 DEF BankOf
    <3>2. ASSUME NEW j \in Kind, NEW c \in Bank, e.bank[c].kind = j
          PROVE  e.bank[c].index \in Scheduled(e, j) /\ BankOf(e, j, e.bank[c].index) = c
      <4>1. c # b
        BY <3>2, <2>7 DEF Kind
      <4>2. e.bank[c] = s.bank[c] /\ s.bank[c].index \in Scheduled(s, j) /\ BankOf(s, j, s.bank[c].index) = c
        BY <4>1, <3>2, <2>7 DEF Consistent, Matched
      <4>3. s.bank[c].index \in Scheduled(e, j)
        BY <4>1, <4>2, <2>9 DEF b
      <4> QED BY <4>2, <4>3, <3>1
    <3>3. ASSUME NEW j \in Kind, NEW x \in Scheduled(e, j)
          PROVE  /\ e.queue[j][x].addr # NoAddr
                 /\ e.bank[BankOf(e, j, x)].kind = j /\ e.bank[BankOf(e, j, x)].index = x
      <4>1. s.queue[j][x].addr # NoAddr
            /\ s.bank[BankOf(s, j, x)].kind = j /\ s.bank[BankOf(s, j, x)].index = x
        BY <3>1, <3>3 DEF Consistent, Matched
      <4>2. e.bank[BankOf(s, j, x)] = s.bank[BankOf(s, j, x)]
        BY <3>1, <3>3, <2>7
      <4> QED BY <3>1, <3>3, <4>1, <4>2
    <3> QED BY <3>2, <3>3 DEF Matched
  <2>14. OneWay(e)
    BY <2>2, <2>9 DEF Consistent, OneWay, k
  <2>15. Fresh(e)
    <3>0. /\ \A x \in Slots(k) : (q2[x].addr # NoAddr /\ ~q2[x].scheduled) <=> (q[x].addr # NoAddr /\ ~q[x].scheduled)
          /\ \A x \in Slots(k) : q2[x].addr # NoAddr /\ ~q2[x].scheduled => q2[x].event = q[x].event
      <4>1. q2[i].addr = NoAddr /\ q[i].scheduled
        BY <1>2, <2>5 DEF EmptyEntry
      <4> QED BY <4>1, <2>5
    <3>1. NextSchedule(q2) = NextSchedule(q)
      <4> HIDE DEF q
      <4> QED BY SMTT(60), <3>0, <1>1, <2>5, NextScheduleAgrees
    <3>2. e.next[k].schedule = NextSchedule(e.queue[k]) /\ e.next[k].process = NextProcess(e.queue[k])
      BY <3>1, <1>1, <2>6, <2>8 DEF Consistent, Fresh
    <3>3. ASSUME NEW j \in Kind \ {k}
          PROVE  e.next[j].schedule = NextSchedule(e.queue[j]) /\ e.next[j].process = NextProcess(e.queue[j])
      <4>1. e.next[j] = s.next[j] /\ e.queue[j] = s.queue[j]
        BY <2>6, <2>8
      <4> QED BY <4>1 DEF Consistent, Fresh
    <3> QED BY <3>2, <3>3 DEF Fresh
  <2>16. Ended(s, e)
    <3>1. /\ e.queue[k][i].addr = NoAddr
          /\ \A j \in Kind : \A x \in Slots(j) : (j # k \/ x # i) => e.queue[j][x].addr = s.queue[j][x].addr
      BY <1>1, <2>5, <2>6 DEF EmptyEntry
    <3>2. s.dbus <= now
      BY <1>1, <1>6
    <3>3. e.burst = [kind |-> s.mode, end |-> now + RETURN_TIME]
      BY <2>2 DEF k
    <3> QED BY <3>1, <3>2, <3>3, <1>1, <1>2, <2>2 DEF Ended, OneGone
  <2> QED BY SMTT(60), <2>11, <2>12, <2>13, <2>14, <2>15, <2>16 DEF Consistent, e, k
<1> QED BY <1>4, <1>5, <1>6


-----------------------------------------------------------------------------
(* At a mode switch all that was scheduled is taken back, so every bank is *)
(* idle.  The counters come to zero because requests and banks match one   *)
(* to one.                                                                 *)
Taken(s, k) == {BankOf(s, k, i) : i \in Scheduled(s, k)}

LEMMA TakenBanks ==
  ASSUME NEW s, Channel(s), Matched(s), OneWay(s), NEW k \in Kind, k = s.mode
  PROVE  /\ IsFiniteSet(Taken(s, k)) /\ Cardinality(Taken(s, k)) = Cardinality(Scheduled(s, k))
         /\ \A b \in Taken(s, k) : /\ b \in Bank /\ s.bank[b].kind = k
                                   /\ RowOf(s, k, s.bank[b].index) \in {row_of[a] : a \in Addr}
         /\ \A b \in Bank \ Taken(s, k) : s.bank[b].kind = "none"
<1> DEFINE S == Scheduled(s, k)
           T == Taken(s, k)
           f == [i \in S |-> BankOf(s, k, i)]
<1>1. \A i \in S : /\ BankOf(s, k, i) \in Bank /\ s.bank[BankOf(s, k, i)].kind = k
                   /\ s.bank[BankOf(s, k, i)].index = i /\ s.queue[k][i].addr \in Addr
  <2> SUFFICES ASSUME NEW i \in S
               PROVE  /\ BankOf(s, k, i) \in Bank /\ s.bank[BankOf(s, k, i)].kind = k
                      /\ s.bank[BankOf(s, k, i)].index = i /\ s.queue[k][i].addr \in Addr
    OBVIOUS
  <2> QED BY ScheduledBank
<1>2. f \in Bijection(S, T)
  <2>1. f \in [S -> T]
    BY DEF Taken
  <2>2. \A i, j \in S : f[i] = f[j] => i = j
    BY <1>1
  <2>3. \A b \in T : \E i \in S : f[i] = b
    BY DEF Taken
  <2> HIDE DEF f, S, T
  <2> QED BY <2>1, <2>2, <2>3 DEF Bijection, Injection, Surjection, IsInjective
<1>3. IsFiniteSet(T) /\ Cardinality(T) = Cardinality(S)
  <2>1. IsFiniteSet(S) /\ ExistsBijection(S, T)
    BY SMTT(60), <1>2, ScheduledFinite DEF ExistsBijection
  <2> HIDE DEF S, T
  <2> QED BY <2>1, FS_Bijection
<1>4. ASSUME NEW b \in T
      PROVE  b \in Bank /\ s.bank[b].kind = k /\ RowOf(s, k, s.bank[b].index) \in {row_of[a] : a \in Addr}
  <2>1. PICK i \in S : b = BankOf(s, k, i)
    BY DEF Taken
  <2> QED BY <2>1, <1>1 DEF RowOf
<1>5. ASSUME NEW b \in Bank \ T  PROVE s.bank[b].kind = "none"
  <2>1. ASSUME NEW h \in Kind, s.bank[b].kind = h  PROVE FALSE
    <3>1. s.bank[b].index \in Scheduled(s, h) /\ BankOf(s, h, s.bank[b].index) = b
      BY <2>1 DEF Matched
    <3>2. h = k
      BY <3>1 DEF OneWay
    <3> QED BY <3>1, <3>2 DEF Taken
  <2>2. s.bank[b].kind \in Kind \cup {"none"}
    BY DEF Channel, BankState
  <2> QED BY <2>1, <2>2
<1> QED BY <1>3, <1>4, <1>5

LEMMA ResetKeeps ==
  ASSUME NEW s, Consistent(s), now \in Nat
  PROVE  LET e == Reset(s, s.mode)
         IN  /\ Consistent(e) /\ \A k \in Kind : Scheduled(e, k) = {}
             /\ SameBus(s, e) /\ SameAddrs(s, e)
<1> DEFINE k == s.mode
           e == Reset(s, k)
           q == s.queue[k]
           S == Scheduled(s, k)
           T == Taken(s, k)
           q2 == [i \in Slots(k) |->
                   IF i \in S THEN [q[i] EXCEPT !.scheduled = FALSE, !.event = now] ELSE q[i]]
           j == IF k = "read" THEN "write" ELSE "read"
<1>1. k \in Kind /\ Fields(s) /\ DOMAIN s.queue = Kind /\ s.bank \in [Bank -> BankState]
      /\ s.count \in [Kind -> Nat] /\ s.next \in [Kind -> [schedule : Nat, process : Nat]]
      /\ s.dbus \in Nat /\ q \in [Slots(k) -> Entry] /\ Kind = {k, j} /\ j # k
  BY DEF Consistent, Channel, Fields, Kind
<1>2. /\ IsFiniteSet(T) /\ Cardinality(T) = Cardinality(S)
      /\ \A b \in T : /\ b \in Bank /\ s.bank[b].kind = k
                      /\ RowOf(s, k, s.bank[b].index) \in {row_of[a] : a \in Addr}
      /\ \A b \in Bank \ T : s.bank[b].kind = "none"
  BY <1>1, TakenBanks DEF Consistent
<1> DEFINE nb == [b \in Bank |->
                   IF b \notin T THEN s.bank[b]
                   ELSE [kind |-> "none", index |-> 0, avail |-> now,
                         open |-> IF s.bank[b].avail - tCAS <= now THEN RowOf(s, k, s.bank[b].index) ELSE NoRow]]
           nn == [h \in Kind |-> [schedule |-> NextSchedule(IF h = k THEN q2 ELSE s.queue[j]),
                                  process |-> NextProcess(IF h = k THEN q2 ELSE s.queue[j])]]
<1>3. e = [s EXCEPT !.queue[k] = q2, !.bank = nb, !.count = Released(s, T), !.next = nn]
  BY DEF Reset, Taken
<1> HIDE DEF e
<1>4. e.queue = [s.queue EXCEPT ![k] = q2] /\ e.bank = nb /\ e.count = Released(s, T) /\ e.next = nn
      /\ e.mode = s.mode /\ e.dbus = s.dbus /\ e.burst = s.burst /\ Fields(e)
  <2> HIDE DEF k, q2, nb, nn, T
  <2> QED BY <1>1, <1>3 DEF Fields
<1>5. e.queue[k] = q2 /\ e.queue[j] = s.queue[j] /\ DOMAIN e.queue = Kind
  <2> HIDE DEF k, q2, j
  <2> QED BY <1>1, <1>4
<1>6. q2 \in [Slots(k) -> Entry] /\ \A i \in Slots(k) : ~q2[i].scheduled /\ q2[i].addr = q[i].addr
  <2> SUFFICES ASSUME NEW i \in Slots(k)
               PROVE  q2[i] \in Entry /\ ~q2[i].scheduled /\ q2[i].addr = q[i].addr
    BY Zenon
  <2>1. q[i] \in Entry /\ (i \in S <=> q[i].scheduled)
    BY <1>1 DEF Scheduled
  <2> QED BY <2>1 DEF Entry
<1> HIDE DEF q2
<1>7. \A h \in Kind : Scheduled(e, h) = {}
  <2>1. Scheduled(e, k) = {}
    BY <1>5, <1>6 DEF Scheduled
  <2>2. Scheduled(e, j) = Scheduled(s, j) /\ Scheduled(s, j) = {}
    BY <1>1, <1>5 DEF Scheduled, Consistent, OneWay
  <2> QED BY <1>1, <2>1, <2>2
<1>8. e.bank \in [Bank -> BankState] /\ \A b \in Bank : e.bank[b].kind = "none"
  <2> SUFFICES ASSUME NEW b \in Bank  PROVE nb[b] \in BankState /\ nb[b].kind = "none"
    BY ZenonT(60), <1>4
  <2>1. s.bank[b] \in BankState
    BY <1>1
  <2>2. CASE b \in T
    BY <2>2, <1>2 DEF BankState
  <2>3. CASE b \notin T
    BY <2>1, <2>3, <1>2
  <2> QED BY <2>2, <2>3
<1> HIDE DEF nb
<1>9. e.count = [h \in Kind |-> 0]
  <2>1. {b \in T : s.bank[b].kind = k} = T /\ {b \in T : s.bank[b].kind = j} = {}
    <3> HIDE DEF T
    <3> QED BY <1>1, <1>2
  <2>2. s.count[k] = Cardinality(S) /\ s.count[j] = 0 /\ s.count[k] \in Nat
    BY <1>1, FS_EmptySet DEF Consistent, Counted, OneWay
  <2>3. Released(s, T)[k] = 0 /\ Released(s, T)[j] = 0
    <3>1. Cardinality({}) = 0
      BY FS_EmptySet
    <3> HIDE DEF T, S, k, j
    <3>2. /\ Released(s, T)[k] = s.count[k] - Cardinality({b \in T : s.bank[b].kind = k})
          /\ Released(s, T)[j] = s.count[j] - Cardinality({b \in T : s.bank[b].kind = j})
      BY <1>1 DEF Released
    <3>3. Released(s, T)[k] = s.count[k] - Cardinality(T) /\ Released(s, T)[j] = s.count[j] - Cardinality({})
      BY <2>1, <3>2, Zenon
    <3> QED BY <1>2, <2>2, <3>1, <3>3
  <2>4. Released(s, T) = [h \in Kind |-> Released(s, T)[h]]
    BY DEF Released
  <2> HIDE DEF T, k, j
  <2> QED BY <1>1, <1>4, <2>3, <2>4
<1>10. e.next \in [Kind -> [schedule : Nat, process : Nat]] /\ Fresh(e)
  <2>1. \A h \in Kind : e.queue[h] = (IF h = k THEN q2 ELSE s.queue[j]) /\ e.queue[h] \in [Slots(h) -> Entry]
    BY <1>1, <1>5, <1>6 DEF Consistent, Channel
  <2>2. \A h \in Kind : NextSchedule(e.queue[h]) \in Nat /\ NextProcess(e.queue[h]) \in Nat
    BY <2>1, NextTypes
  <2>3. \A h \in Kind : e.next[h] = [schedule |-> NextSchedule(e.queue[h]), process |-> NextProcess(e.queue[h])]
    BY <1>4, <2>1
  <2>4. e.next = [h \in Kind |-> e.next[h]]
    BY <1>4
  <2> HIDE DEF nn
  <2>5. ASSUME NEW h \in Kind
        PROVE  /\ e.next[h] \in [schedule : Nat, process : Nat]
               /\ e.next[h].schedule = NextSchedule(e.queue[h])
               /\ e.next[h].process = NextProcess(e.queue[h])
    <3> DEFINE x == NextSchedule(e.queue[h])
               y == NextProcess(e.queue[h])
    <3>1. x \in Nat /\ y \in Nat /\ e.next[h] = [schedule |-> x, process |-> y]
      BY <2>2, <2>3
    <3> HIDE DEF x, y
    <3>2. e.next[h] \in [schedule : Nat, process : Nat] /\ e.next[h].schedule = x /\ e.next[h].process = y
      BY <3>1
    <3> QED BY <3>2 DEF x, y
  <2>6. e.next \in [Kind -> [schedule : Nat, process : Nat]]
    BY <2>4, <2>5
  <2>7. Fresh(e)
    BY <2>5 DEF Fresh
  <2> QED BY <2>6, <2>7
<1>11. Channel(e)
  <2>1. \A h \in Kind : e.queue[h] \in [Slots(h) -> Entry]
    BY <1>1, <1>5, <1>6 DEF Consistent, Channel
  <2>2. e.count \in [Kind -> Nat]
    BY <1>9
  <2> QED BY <2>1, <2>2, <1>4, <1>5, <1>8, <1>10 DEF Consistent, Channel, Fields
<1>12. Matched(e) /\ OneWay(e) /\ Counted(e)
  <2>1. Matched(e) /\ OneWay(e)
    BY <1>7, <1>8 DEF Matched, OneWay, Kind
  <2>2. Counted(e)
    BY <1>7, <1>9, FS_EmptySet DEF Counted
  <2> QED BY <2>1, <2>2
<1>13. SameAddrs(s, e)
  BY <1>1, <1>5, <1>6 DEF SameAddrs
<1>14. SameBus(s, e)
  BY <1>4 DEF SameBus
<1> QED BY <1>7, <1>10, <1>11, <1>12, <1>13, <1>14 DEF Consistent, e, k


-----------------------------------------------------------------------------
(* One cycle.  The bus is reserved from the end of the last transfer, and  *)
(* for the turn-around time if the mode is no longer that of the transfer. *)
Turn(s, k) == IF s.burst.kind = k THEN 0 ELSE TURN_AROUND_TIME
Spaced(s) == s.burst.kind # "none" => s.dbus >= s.burst.end + Turn(s, s.mode)
Turned(s, e) == s.burst.kind # "none" => e.burst.end - RETURN_TIME >= s.burst.end + Turn(s, e.burst.kind)

LEMMA SwitchKeeps ==
  ASSUME NEW s, Consistent(s), now \in Nat
  PROVE  LET e == Switch(s)
         IN  /\ Consistent(e) /\ SameAddrs(s, e) /\ e.burst = s.burst
             /\ Spaced(s) => Spaced(e)
<1> SUFFICES ASSUME NextMode(s) # s.mode
             PROVE  LET e == Switch(s)
                    IN  /\ Consistent(e) /\ SameAddrs(s, e) /\ e.burst = s.burst
                        /\ Spaced(s) => Spaced(e)
  BY DEF Switch, SameAddrs
<1> DEFINE r == Reset(s, s.mode)
           e == Switch(s)
<1>1. Consistent(r) /\ (\A k \in Kind : Scheduled(r, k) = {}) /\ SameBus(s, r) /\ SameAddrs(s, r)
  BY ResetKeeps
<1>2. e = [r EXCEPT !.mode = NextMode(s), !.dbus = @ + TURN_AROUND_TIME]
  BY DEF Switch
<1>3. NextMode(s) \in Kind
  BY DEF NextMode, Kind
<1> HIDE DEF r, e
<1> DEFINE m == NextMode(s)
<1> HIDE DEF m
<1>4. Fields(r) /\ r.dbus \in Nat
  BY <1>1 DEF Consistent, Channel, Fields
<1>5. /\ e.queue = r.queue /\ e.bank = r.bank /\ e.count = r.count /\ e.next = r.next
      /\ e.burst = r.burst /\ e.mode \in Kind /\ e.dbus \in Nat /\ Fields(e)
      /\ e.dbus = r.dbus + TURN_AROUND_TIME
  <2>1. e = [r EXCEPT !.mode = m, !.dbus = r.dbus + TURN_AROUND_TIME] /\ m \in Kind
    BY <1>2, <1>3 DEF m
  <2>2. r.dbus + TURN_AROUND_TIME \in Nat
    BY <1>4
  <2> QED BY <2>1, <2>2, <1>4 DEF Fields
<1>6. Channel(e)
  BY <1>1, <1>5 DEF Consistent, Channel, Fields
<1>7. \A k \in Kind : Scheduled(e, k) = Scheduled(r, k)
  BY <1>5 DEF Scheduled
<1>8. Matched(e)
  BY <1>1, <1>5, <1>7, SameMatched DEF Consistent
<1>9. OneWay(e) /\ Counted(e) /\ Fresh(e)
  BY <1>1, <1>5, <1>7 DEF Consistent, OneWay, Counted, Fresh
<1>10. SameAddrs(s, e) /\ e.burst = s.burst
  BY <1>1, <1>5 DEF SameAddrs, SameBus
<1>11. ASSUME Spaced(s)  PROVE Spaced(e)
  <2>1. e.burst = s.burst /\ e.dbus = s.dbus + TURN_AROUND_TIME /\ s.dbus \in Nat /\ s.burst.end \in Nat
    BY <1>1, <1>5 DEF SameBus, Consistent, Channel
  <2>2. s.burst.kind # "none" => s.dbus >= s.burst.end
    BY <1>11, <2>1 DEF Spaced, Turn
  <2> QED BY <2>1, <2>2 DEF Spaced, Turn
<1> QED BY <1>6, <1>8, <1>9, <1>10, <1>11 DEF Consistent, e

LEMMA OperatedKeeps ==
  ASSUME NEW s, Consistent(s), now \in Nat
  PROVE  LET e == Operated(s)
         IN  /\ Consistent(e)
             /\ Spaced(s) => Spaced(e)
             /\ \/ SameAddrs(s, e) /\ e.burst = s.burst
                \/ OneGone(s, e) /\ (Spaced(s) => Turned(s, e))
<1> DEFINE s1 == Switch(s)
           s2 == MaybeSchedule(s1, s1.mode)
           e == MaybeProcess(s2, s2.mode)
<1>1. Consistent(s1) /\ SameAddrs(s, s1) /\ s1.burst = s.burst /\ (Spaced(s) => Spaced(s1))
  BY SwitchKeeps
<1>2. Consistent(s2) /\ SameBus(s1, s2) /\ SameAddrs(s1, s2)
  <2>1. Schedule(s1, s1.mode) = s2 \/ s2 = s1
    BY DEF MaybeSchedule
  <2> HIDE DEF s1, s2
  <2> QED BY SMTT(60), <1>1, <2>1, ScheduleKeeps DEF SameBus, SameAddrs
<1>3. Consistent(e) /\ ((SameBus(s2, e) /\ SameAddrs(s2, e)) \/ Ended(s2, e))
  <2>1. e = s2 \/ (e = Process(s2, s2.mode) /\ s2.next[s2.mode].process # 0)
    BY DEF MaybeProcess
  <2> HIDE DEF s2, e
  <2> QED BY SMTT(60), <1>2, <2>1, ProcessKeeps DEF SameBus, SameAddrs
<1>4. e = Operated(s)
  BY DEF Operated
<1> HIDE DEF s1, s2, e
<1>5. SameAddrs(s, s2) /\ s2.burst = s.burst /\ (Spaced(s) => Spaced(s2))
  BY <1>1, <1>2 DEF SameAddrs, SameBus, Spaced, Turn
<1>6. CASE SameBus(s2, e) /\ SameAddrs(s2, e)
  <2>1. SameAddrs(s, e) /\ e.burst = s.burst
    BY <1>5, <1>6 DEF SameAddrs, SameBus
  <2>2. Spaced(s) => Spaced(e)
    BY <1>5, <1>6 DEF SameBus, Spaced, Turn
  <2> QED BY <1>3, <1>4, <2>1, <2>2
<1>7. CASE Ended(s2, e)
  <2>1. OneGone(s, e)
    BY <1>5, <1>7 DEF Ended, OneGone, SameAddrs
  <2>2. e.burst.kind = s2.mode /\ e.burst.end = now + RETURN_TIME /\ e.dbus = now + RETURN_TIME
        /\ s2.dbus <= now /\ e.mode = s2.mode
    BY <1>7 DEF Ended
  <2>3. s2.dbus \in Nat /\ s2.burst.end \in Nat
    BY <1>2 DEF Consistent, Channel
  <2>4. Spaced(e)
    BY <2>2 DEF Spaced, Turn
  <2>5. Spaced(s) => Turned(s, e)
    BY <1>5, <2>2, <2>3 DEF Spaced, Turned, Turn
  <2> QED BY <1>3, <1>4, <2>1, <2>4, <2>5
<1> QED BY <1>3, <1>6, <1>7

-----------------------------------------------------------------------------
(* The inductive invariant, step by step. *)
IInv ==
  /\ Consistent(ch) /\ Spaced(ch)
  /\ now \in Nat
  /\ budget \in [reads : 0 .. MaxReads, writes : 0 .. MaxWrites, idle : 0 .. MaxIdle]

LEMMA InitIInv == Init => IInv
<1> SUFFICES ASSUME Init  PROVE IInv
  OBVIOUS
<1> USE BoundsAssumption
<1>1. ch = Start /\ now = 0 /\ budget = [reads |-> MaxReads, writes |-> MaxWrites, idle |-> MaxIdle]
  BY DEF Init
<1> DEFINE s == Start
<1>2. /\ s.queue = [k \in Kind |-> [i \in Slots(k) |-> EmptyEntry]] /\ s.bank = [b \in Bank |-> IdleBank]
      /\ s.mode = "read" /\ s.dbus = 0 /\ s.count = [k \in Kind |-> 0]
      /\ s.next = [k \in Kind |-> [schedule |-> 0, process |-> 0]]
      /\ s.burst = [kind |-> "none", end |-> 0] /\ Fields(s)
  BY DEF Start, Fields
<1> HIDE DEF s
<1>3. EmptyEntry \in Entry /\ ~EmptyEntry.scheduled /\ EmptyEntry.addr = NoAddr
  BY DEF EmptyEntry, Entry
<1>4. Channel(s)
  <2>1. IdleBank \in BankState
    BY DEF IdleBank, BankState
  <2> QED BY <2>1, <1>2, <1>3 DEF Channel, Fields, Kind
<1>5. \A k \in Kind : Scheduled(s, k) = {}
  BY <1>2, <1>3 DEF Scheduled
<1>6. Matched(s) /\ OneWay(s) /\ Counted(s)
  <2>1. Matched(s) /\ OneWay(s)
    BY <1>2, <1>5 DEF Matched, OneWay, IdleBank, Kind
  <2>2. Counted(s)
    BY <1>2, <1>5, FS_EmptySet DEF Counted
  <2> QED BY <2>1, <2>2
<1>7. Fresh(s)
  <2> SUFFICES ASSUME NEW k \in Kind  PROVE NextSchedule(s.queue[k]) = 0 /\ NextProcess(s.queue[k]) = 0
    BY <1>2 DEF Fresh
  <2>1. /\ DOMAIN s.queue[k] = Slots(k)
        /\ \A i \in Slots(k) : s.queue[k][i].addr = NoAddr /\ ~s.queue[k][i].scheduled
    BY <1>2, <1>3
  <2>2. {i \in Waiting(s.queue[k]) : ~s.queue[k][i].scheduled} = {} /\ {i \in DOMAIN s.queue[k] : s.queue[k][i].scheduled} = {}
    BY <2>1 DEF Waiting
  <2> QED BY <2>2 DEF NextSchedule, NextProcess, Oldest
<1>8. Spaced(s)
  BY <1>2 DEF Spaced
<1> QED BY <1>1, <1>4, <1>6, <1>7, <1>8 DEF IInv, Consistent, s

(* add_rq and add_wq do not touch the bus. *)
LEMMA EnqueueBus ==
  ASSUME NEW s, Channel(s), NEW k \in Kind, NEW a \in Addr, NEW t \in Nat
  PROVE  SameBus(s, Enqueue(s, k, a, t))
<1> DEFINE e == Enqueue(s, k, a, t)
<1>1. e = s \/ \E i \in Slots(k) : EnqueuedAt(s, e, k, a, t, i)
  BY EnqueueFields
<1> HIDE DEF e
<1>2. ASSUME NEW i \in Slots(k), EnqueuedAt(s, e, k, a, t, i)  PROVE SameBus(s, e)
  <2> DEFINE q2 == Filled(s.queue[k], i, a, t)
             x == NextSchedule(q2)
  <2>1. e = [s EXCEPT !.queue[k] = q2, !.next[k].schedule = x]
    BY <1>2 DEF EnqueuedAt
  <2>2. Fields(s)
    BY DEF Channel, Fields
  <2> HIDE DEF q2, x
  <2> QED BY <2>1, <2>2 DEF Fields, SameBus
<1> QED BY <1>1, <1>2 DEF SameBus, e

LEMMA NextIInv == IInv /\ [Next]_vars => IInv'
<1> SUFFICES ASSUME IInv, [Next]_vars  PROVE IInv'
  OBVIOUS
<1> USE DEF IInv
<1>1. ASSUME NEW a \in Addr, add_rq(a)  PROVE IInv'
  <2>1. PICK t \in 0 .. now : ch' = IF Found(ch.queue["write"], a) THEN ch ELSE Enqueue(ch, "read", a, t)
    BY <1>1 DEF add_rq
  <2>2. Consistent(ch') /\ SameBus(ch, ch')
    <3>1. Consistent(Enqueue(ch, "read", a, t)) /\ SameBus(ch, Enqueue(ch, "read", a, t))
      BY EnqueueKeeps, EnqueueBus DEF Kind, Consistent
    <3> QED BY <2>1, <3>1 DEF SameBus
  <2>3. Spaced(ch')
    BY <2>2 DEF Spaced, SameBus, Turn
  <2>4. budget' \in [reads : 0 .. MaxReads, writes : 0 .. MaxWrites, idle : 0 .. MaxIdle] /\ now' = now
    BY <1>1, BoundsAssumption DEF add_rq
  <2> QED BY <2>2, <2>3, <2>4
<1>2. ASSUME NEW a \in Addr, add_wq(a)  PROVE IInv'
  <2>1. ch' = Enqueue(ch, "write", a, now)
    BY <1>2 DEF add_wq
  <2>2. Consistent(ch') /\ SameBus(ch, ch')
    BY <2>1, EnqueueKeeps, EnqueueBus DEF Kind, Consistent
  <2>3. Spaced(ch')
    BY <2>2 DEF Spaced, SameBus, Turn
  <2>4. budget' \in [reads : 0 .. MaxReads, writes : 0 .. MaxWrites, idle : 0 .. MaxIdle] /\ now' = now
    BY <1>2, BoundsAssumption DEF add_wq
  <2> QED BY <2>2, <2>3, <2>4
<1>3. CASE operate
  <2>1. ch' = Operated(ch) /\ now' = now + 1
    BY <1>3 DEF operate, Tick
  <2>2. Consistent(ch') /\ Spaced(ch')
    BY <2>1, OperatedKeeps
  <2>3. budget' \in [reads : 0 .. MaxReads, writes : 0 .. MaxWrites, idle : 0 .. MaxIdle]
    BY <1>3, BoundsAssumption DEF operate, Tick
  <2> QED BY <2>1, <2>2, <2>3
<1>4. CASE UNCHANGED vars
  BY <1>4 DEF vars
<1> QED BY <1>1, <1>2, <1>3, <1>4 DEF Next

LEMMA Invariant == Spec => []IInv
BY InitIInv, NextIInv, PTL DEF Spec

-----------------------------------------------------------------------------
(* Types; the counters of scheduled requests stay natural numbers. *)
THEOREM ChannelTypes == Spec => []TypeOK
<1>1. IInv => TypeOK
  BY DEF IInv, Consistent, TypeOK
<1> QED BY <1>1, Invariant, PTL

(* The request process() is about to finish is the one its bank works on,  *)
(* and a bank works only for a scheduled request.                          *)
THEOREM BanksAreMatched == Spec => []BanksMatchRequests
<1>1. IInv => BanksMatchRequests
  BY DEF IInv, Consistent, BanksMatchRequests
<1> QED BY <1>1, Invariant, PTL

(* Reads and writes never share the banks, and the counters are exact. *)
THEOREM CountersAreExact == Spec => []ScheduledCounted
<1>1. IInv => ScheduledCounted
  BY DEF IInv, Consistent, ScheduledCounted
<1> QED BY <1>1, Invariant, PTL

(* The cached indices never go stale. *)
THEOREM IndicesAreFresh == Spec => []NextIsFresh
<1>1. IInv => NextIsFresh
  BY DEF IInv, Consistent, NextIsFresh
<1> QED BY <1>1, Invariant, PTL

(* The data bus turns around in time, for all timings. *)
THEOREM BusTurns == Spec => BusTurnsAround
<1>1. IInv /\ [Next]_vars =>
        [ch'.burst # ch.burst /\ ch.burst.kind # "none" =>
           ch'.burst.end - RETURN_TIME >=
             ch.burst.end + (IF ch'.burst.kind = ch.burst.kind THEN 0 ELSE TURN_AROUND_TIME)]_vars
  <2> SUFFICES ASSUME IInv, Next, ch'.burst # ch.burst, ch.burst.kind # "none"
               PROVE  ch'.burst.end - RETURN_TIME >=
                        ch.burst.end + (IF ch'.burst.kind = ch.burst.kind THEN 0 ELSE TURN_AROUND_TIME)
    OBVIOUS
  <2>1. ASSUME NEW a \in Addr, add_rq(a) \/ add_wq(a)  PROVE ch'.burst = ch.burst
    <3>1. \A k \in Kind : \A t \in Nat : Enqueue(ch, k, a, t).burst = ch.burst
      BY EnqueueBus DEF SameBus, IInv, Consistent
    <3> QED BY <2>1, <3>1 DEF add_rq, add_wq, IInv, Kind
  <2>2. CASE operate
    <3>1. Turned(ch, ch')
      BY <2>2, OperatedKeeps DEF operate, IInv
    <3> QED BY <3>1 DEF Turned, Turn
  <2> QED BY <2>1, <2>2 DEF Next
<1> QED BY <1>1, Invariant, PTL DEF Spec, BusTurnsAround


-----------------------------------------------------------------------------
(* What the LLC sees of a queue is the set of addresses in it. *)
LEMMA RoomInQueue ==
  ASSUME NEW k \in Kind, NEW q \in [Slots(k) -> Entry], Cardinality(Waiting(q)) # Size(k)
  PROVE  Cardinality(Addrs(q)) < Size(k) /\ \E i \in Slots(k) : q[i].addr = NoAddr
<1> DEFINE W == Waiting(q)
           A == Addrs(q)
           f == [i \in W |-> q[i].addr]
<1>1. W \subseteq Slots(k) /\ IsFiniteSet(W) /\ Cardinality(W) \in Nat /\ Cardinality(W) <= Size(k)
  <2>1. W \in SUBSET Slots(k)
    BY DEF Waiting
  <2> HIDE DEF W
  <2>2. IsFiniteSet(W) /\ Cardinality(W) <= Cardinality(Slots(k))
    BY <2>1, SlotsOf, FS_Subset
  <2> QED BY <2>1, <2>2, SlotsOf, FS_CardinalityType
<1>2. f \in Surjection(W, A)
  BY DEF Addrs, Surjection
<1>3. Cardinality(A) <= Cardinality(W) /\ Cardinality(A) \in Nat
  <2> HIDE DEF f, W, A
  <2>1. IsFiniteSet(A) /\ Cardinality(A) <= Cardinality(W)
    BY <1>1, <1>2, FS_Surjection
  <2> QED BY <2>1, FS_CardinalityType
<1>4. Cardinality(A) < Size(k)
  BY <1>1, <1>3, SlotsOf
<1>5. W # Slots(k)
  BY SlotsOf
<1> QED BY <1>4, <1>5 DEF Waiting

LEMMA EnqueueAddrs ==
  ASSUME NEW s, Channel(s), NEW k \in Kind, NEW a \in Addr, NEW t \in Nat,
         Cardinality(Waiting(s.queue[k])) # Size(k)
  PROVE  LET e == Enqueue(s, k, a, t)
         IN  /\ \A j \in Kind \ {k} : e.queue[j] = s.queue[j]
             /\ \/ e = s /\ Found(s.queue[k], a)
                \/ \E i \in Slots(k) :
                     /\ s.queue[k][i].addr = NoAddr /\ ~Found(s.queue[k], a)
                     /\ e.queue[k] = Filled(s.queue[k], i, a, t)
<1> DEFINE e == Enqueue(s, k, a, t)
           q == s.queue[k]
<1>1. q \in [Slots(k) -> Entry] /\ DOMAIN s.queue = Kind /\ Fields(s)
  BY DEF Channel, Fields
<1>2. \E i \in Slots(k) : q[i].addr = NoAddr
  <2> HIDE DEF q
  <2> QED BY <1>1, RoomInQueue DEF q
<1>3. \/ e = s /\ Found(q, a)
      \/ \E i \in Slots(k) : EnqueuedAt(s, e, k, a, t, i)
  <2> HIDE DEF e
  <2> QED BY <1>2, EnqueueFields DEF e
<1> HIDE DEF e
<1>4. ASSUME NEW i \in Slots(k), EnqueuedAt(s, e, k, a, t, i)
      PROVE  /\ \A j \in Kind \ {k} : e.queue[j] = s.queue[j]
             /\ q[i].addr = NoAddr /\ ~Found(q, a)
             /\ e.queue[k] = Filled(q, i, a, t)
  <2> DEFINE q2 == Filled(q, i, a, t)
             x == NextSchedule(q2)
  <2>1. e = [s EXCEPT !.queue[k] = q2, !.next[k].schedule = x] /\ q[i].addr = NoAddr /\ ~Found(q, a)
    BY <1>4 DEF EnqueuedAt
  <2> HIDE DEF q2, x
  <2>2. e.queue = [s.queue EXCEPT ![k] = q2]
    BY <2>1, <1>1 DEF Fields
  <2> QED BY <2>1, <2>2, <1>1 DEF q2
<1> QED BY <1>3, <1>4 DEF e

(* A full search: Found is membership in Addrs. *)
LEMMA FoundIsMember ==
  ASSUME NEW k \in Kind, NEW q \in [Slots(k) -> Entry], NEW a \in Addr
  PROVE  Found(q, a) <=> a \in Addrs(q)
BY DEF Found, Addrs, Waiting

LEMMA FilledAddrs ==
  ASSUME NEW k \in Kind, NEW q \in [Slots(k) -> Entry], NEW a \in Addr, NEW t,
         NEW i \in Slots(k), q[i].addr = NoAddr
  PROVE  Addrs(Filled(q, i, a, t)) = Addrs(q) \cup {a}
<1> DEFINE r == Filled(q, i, a, t)
<1>1. DOMAIN r = Slots(k) /\ r[i].addr = a /\ \A x \in Slots(k) \ {i} : r[x].addr = q[x].addr
  BY DEF Filled
<1> HIDE DEF r
<1>2. \A c : c \in Addrs(r) <=> \E x \in Slots(k) : r[x].addr = c /\ c # NoAddr
  BY <1>1 DEF Addrs, Waiting
<1>3. \A c : c \in Addrs(q) <=> \E x \in Slots(k) : q[x].addr = c /\ c # NoAddr
  BY DEF Addrs, Waiting
<1>4. Addrs(r) = Addrs(q) \cup {a}
  BY <1>1, <1>2, <1>3
<1> QED BY <1>4 DEF r


LEMMA OneGoneAddrs ==
  ASSUME NEW s, NEW e, Channel(s), Channel(e), OneGone(s, e)
  PROVE  \E k \in Kind :
           /\ \A j \in Kind \ {k} : Addrs(e.queue[j]) = Addrs(s.queue[j])
           /\ \/ Addrs(e.queue[k]) = Addrs(s.queue[k])
              \/ \E a \in Addr : a \in Addrs(s.queue[k]) /\ Addrs(e.queue[k]) = Addrs(s.queue[k]) \ {a}
<1>0. PICK k \in Kind : \E i \in Slots(k) :
        /\ e.queue[k][i].addr = NoAddr
        /\ \A j \in Kind : \A x \in Slots(j) :
             (j # k \/ x # i) => e.queue[j][x].addr = s.queue[j][x].addr
  BY DEF OneGone
<1>1. PICK i \in Slots(k) :
        /\ e.queue[k][i].addr = NoAddr
        /\ \A j \in Kind : \A x \in Slots(j) :
             (j # k \/ x # i) => e.queue[j][x].addr = s.queue[j][x].addr
  BY <1>0
<1>2. \A j \in Kind : s.queue[j] \in [Slots(j) -> Entry] /\ e.queue[j] \in [Slots(j) -> Entry]
  BY DEF Channel
<1>3. \A j \in Kind : \A c : c \in Addrs(e.queue[j]) <=> \E x \in Slots(j) : e.queue[j][x].addr = c /\ c # NoAddr
  BY <1>2 DEF Addrs, Waiting
<1>4. \A j \in Kind : \A c : c \in Addrs(s.queue[j]) <=> \E x \in Slots(j) : s.queue[j][x].addr = c /\ c # NoAddr
  BY <1>2 DEF Addrs, Waiting
<1>5. ASSUME NEW j \in Kind \ {k}  PROVE Addrs(e.queue[j]) = Addrs(s.queue[j])
  <2>1. \A c : c \in Addrs(e.queue[j]) <=> c \in Addrs(s.queue[j])
    BY SMTT(60), <1>1, <1>3, <1>4
  <2> QED BY <2>1
<1> DEFINE a == s.queue[k][i].addr
<1>6. CASE a = NoAddr \/ \E x \in Slots(k) \ {i} : s.queue[k][x].addr = a
  <2>0. ASSUME NEW c  PROVE c \in Addrs(e.queue[k]) <=> c \in Addrs(s.queue[k])
    <3>1. CASE c = a /\ a # NoAddr
      <4>1. PICK x \in Slots(k) \ {i} : s.queue[k][x].addr = a
        BY <1>6, <3>1
      <4>2. e.queue[k][x].addr = a
        BY <1>1, <4>1
      <4> QED BY <1>3, <1>4, <3>1, <4>1, <4>2
    <3>2. CASE c # a
      BY <1>1, <1>3, <1>4, <3>2
    <3>3. CASE c = NoAddr
      BY <1>3, <1>4, <3>3
    <3> QED BY <3>1, <3>2, <3>3
  <2>1. \A c : c \in Addrs(e.queue[k]) <=> c \in Addrs(s.queue[k])
    BY <2>0
  <2>2. Addrs(e.queue[k]) = Addrs(s.queue[k])
    BY <2>1
  <2> QED BY <1>5, <2>2
<1>7. CASE ~(a = NoAddr \/ \E x \in Slots(k) \ {i} : s.queue[k][x].addr = a)
  <2>1. a # NoAddr
    BY <1>7
  <2>2. s.queue[k][i] \in Entry
    BY <1>2
  <2>3. a \in Addr
    BY <2>1, <2>2 DEF Entry
  <2>4. a \in Addrs(s.queue[k])
    BY <1>4, <2>1
  <2>5. \A c : c \in Addrs(e.queue[k]) <=> c \in Addrs(s.queue[k]) /\ c # a
    BY SMTT(60), <1>1, <1>3, <1>4, <1>7
  <2>6. Addrs(e.queue[k]) = Addrs(s.queue[k]) \ {a}
    BY <2>5
  <2> QED BY <1>5, <2>3, <2>4, <2>6
<1> QED BY <1>6, <1>7

LEMMA SameAddrsAddrs ==
  ASSUME NEW s, NEW e, Channel(s), Channel(e), SameAddrs(s, e), NEW j \in Kind
  PROVE  Addrs(e.queue[j]) = Addrs(s.queue[j])
<1>1. s.queue[j] \in [Slots(j) -> Entry] /\ e.queue[j] \in [Slots(j) -> Entry]
  BY DEF Channel
<1>2. \A c : c \in Addrs(e.queue[j]) <=> \E x \in Slots(j) : e.queue[j][x].addr = c /\ c # NoAddr
  BY <1>1 DEF Addrs, Waiting
<1>3. \A c : c \in Addrs(s.queue[j]) <=> \E x \in Slots(j) : s.queue[j][x].addr = c /\ c # NoAddr
  BY <1>1 DEF Addrs, Waiting
<1>4. \A c : c \in Addrs(e.queue[j]) <=> c \in Addrs(s.queue[j])
  BY <1>2, <1>3 DEF SameAddrs
<1> QED BY <1>4

-----------------------------------------------------------------------------
(* The channel implements the memory the LLC relies on: a read is answered *)
(* by the write queue or stays pending until it ends, and every cycle ends *)
(* at most one request.                                                    *)
THEOREM ChannelImplementsMemory == Spec => ImplementsMemory
<1> DEFINE R == Addrs(ch.queue["read"])
           W == Addrs(ch.queue["write"])
<1>0. \A S : Memory!Cardinality(S) = Cardinality(S)
  BY DEF Memory!Cardinality, Cardinality
<1>1. Init => Memory!Init
  <2> SUFFICES ASSUME Init  PROVE R = {} /\ W = {}
    BY DEF Memory!Init
  <2>1. \A k \in Kind : ch.queue[k] = [i \in Slots(k) |-> EmptyEntry]
    BY DEF Init, Start
  <2>2. \A k \in Kind : Addrs(ch.queue[k]) = {}
    <3> SUFFICES ASSUME NEW k \in Kind  PROVE Addrs(ch.queue[k]) = {}
      OBVIOUS
    <3>1. DOMAIN ch.queue[k] = Slots(k) /\ \A i \in Slots(k) : ch.queue[k][i] = EmptyEntry
      BY <2>1
    <3>2. EmptyEntry.addr = NoAddr
      BY DEF EmptyEntry
    <3>3. Waiting(ch.queue[k]) = {}
      BY <3>1, <3>2 DEF Waiting
    <3> QED BY <3>3 DEF Addrs
  <2> QED BY <2>2 DEF Kind
<1>2. IInv /\ [Next]_vars => [Memory!Next]_(Memory!vars)
  <2> SUFFICES ASSUME IInv, [Next]_vars  PROVE Memory!Next \/ (R' = R /\ W' = W)
    BY DEF Memory!vars
  <2>1. Channel(ch) /\ now \in Nat
    BY DEF IInv, Consistent
  <2>2. \A k \in Kind : ch.queue[k] \in [Slots(k) -> Entry]
    BY <2>1 DEF Channel
  <2>3. ASSUME NEW a \in Addr, add_rq(a)  PROVE Memory!Read(a)
    <3>1. PICK t \in Nat : ch' = IF Found(ch.queue["write"], a) THEN ch ELSE Enqueue(ch, "read", a, t)
      BY <2>1, <2>3 DEF add_rq
    <3>2. Cardinality(Waiting(ch.queue["read"])) # Size("read") /\ Size("read") = RQ_SIZE
      BY <2>3 DEF add_rq, Size
    <3>3. Cardinality(R) < RQ_SIZE
      BY <2>2, <3>2, RoomInQueue DEF Kind
    <3>4. Found(ch.queue["write"], a) <=> a \in W
      BY <2>2, FoundIsMember DEF Kind
    <3>5. CASE Found(ch.queue["write"], a)
      BY <1>0, <3>1, <3>3, <3>4, <3>5 DEF Memory!Read
    <3>6. CASE ~Found(ch.queue["write"], a)
      <4>1. ch' = Enqueue(ch, "read", a, t)
        BY <3>1, <3>6
      <4>2. ch'.queue["write"] = ch.queue["write"]
        BY <4>1, <3>2, <2>1, EnqueueAddrs DEF Kind
      <4>3. \/ ch' = ch /\ Found(ch.queue["read"], a)
            \/ \E i \in Slots("read") : ch.queue["read"][i].addr = NoAddr
                 /\ ch'.queue["read"] = Filled(ch.queue["read"], i, a, t)
        BY <4>1, <3>2, <2>1, EnqueueAddrs DEF Kind
      <4>4. R' = R \cup {a}
        <5>1. CASE ch' = ch /\ Found(ch.queue["read"], a)
          BY <5>1, <2>2, FoundIsMember DEF Kind
        <5>2. CASE \E i \in Slots("read") : ch.queue["read"][i].addr = NoAddr
                     /\ ch'.queue["read"] = Filled(ch.queue["read"], i, a, t)
          BY <5>2, <2>2, FilledAddrs DEF Kind
        <5> QED BY <4>3, <5>1, <5>2
      <4>5. W' = W
        BY <4>2
      <4> QED BY <1>0, <4>4, <4>5, <3>3, <3>4, <3>6 DEF Memory!Read
    <3> QED BY <3>5, <3>6
  <2>4. ASSUME NEW a \in Addr, add_wq(a)  PROVE Memory!Write(a)
    <3>1. ch' = Enqueue(ch, "write", a, now) /\ Cardinality(Waiting(ch.queue["write"])) # Size("write")
          /\ Size("write") = WQ_SIZE
      BY <2>4 DEF add_wq, Size
    <3>2. Cardinality(W) < WQ_SIZE
      BY <2>2, <3>1, RoomInQueue DEF Kind
    <3>3. ch'.queue["read"] = ch.queue["read"]
      BY <3>1, <2>1, EnqueueAddrs DEF Kind
    <3>4. \/ ch' = ch /\ Found(ch.queue["write"], a)
          \/ \E i \in Slots("write") : ch.queue["write"][i].addr = NoAddr
               /\ ch'.queue["write"] = Filled(ch.queue["write"], i, a, now)
      BY <3>1, <2>1, EnqueueAddrs DEF Kind
    <3>5. W' = W \cup {a}
      <4>1. CASE ch' = ch /\ Found(ch.queue["write"], a)
        BY <4>1, <2>2, FoundIsMember DEF Kind
      <4>2. CASE \E i \in Slots("write") : ch.queue["write"][i].addr = NoAddr
                   /\ ch'.queue["write"] = Filled(ch.queue["write"], i, a, now)
        BY <4>2, <2>2, FilledAddrs DEF Kind
      <4> QED BY <3>4, <4>1, <4>2
    <3>6. R' = R
      BY <3>3
    <3> QED BY <1>0, <3>2, <3>5, <3>6 DEF Memory!Write
  <2>5. CASE operate
    <3>1. Consistent(ch') /\ (SameAddrs(ch, ch') \/ OneGone(ch, ch'))
      BY <2>5, OperatedKeeps DEF operate, IInv
    <3>2. Channel(ch')
      BY <3>1 DEF Consistent
    <3>3. CASE SameAddrs(ch, ch')
      <4>1. \A k \in Kind : Addrs(ch'.queue[k]) = Addrs(ch.queue[k])
        BY <3>2, <3>3, <2>1, SameAddrsAddrs
      <4> QED BY <4>1 DEF Kind
    <3>4. CASE OneGone(ch, ch')
      <4>1. PICK k \in Kind :
              /\ \A j \in Kind \ {k} : Addrs(ch'.queue[j]) = Addrs(ch.queue[j])
              /\ \/ Addrs(ch'.queue[k]) = Addrs(ch.queue[k])
                 \/ \E a \in Addr : a \in Addrs(ch.queue[k]) /\ Addrs(ch'.queue[k]) = Addrs(ch.queue[k]) \ {a}
        BY <3>2, <3>4, <2>1, OneGoneAddrs
      <4>2. CASE k = "read"
        BY <4>1, <4>2 DEF Kind, Memory!Next, Memory!Answer
      <4>3. CASE k = "write"
        BY <4>1, <4>3 DEF Kind, Memory!Next, Memory!Retire
      <4> QED BY <4>2, <4>3 DEF Kind
    <3> QED BY <3>1, <3>3, <3>4
  <2>6. CASE UNCHANGED vars
    BY <2>6 DEF vars
  <2> QED BY <2>3, <2>4, <2>5, <2>6 DEF Next, Memory!Next
<1> QED BY <1>1, <1>2, Invariant, PTL DEF Spec, ImplementsMemory, Memory!Spec


-----------------------------------------------------------------------------
Unique(s) ==
  \A k \in Kind : \A i, j \in Slots(k) :
    s.queue[k][i].addr = s.queue[k][j].addr /\ s.queue[k][i].addr # NoAddr => i = j

LEMMA FilledUnique ==
  ASSUME NEW k \in Kind, NEW q \in [Slots(k) -> Entry], NEW a \in Addr, NEW t, NEW f \in Slots(k),
         ~Found(q, a), \A i, j \in Slots(k) : q[i].addr = q[j].addr /\ q[i].addr # NoAddr => i = j,
         NEW i \in Slots(k), NEW j \in Slots(k),
         Filled(q, f, a, t)[i].addr = Filled(q, f, a, t)[j].addr, Filled(q, f, a, t)[i].addr # NoAddr
  PROVE  i = j
<1>1. \A x \in Slots(k) : Filled(q, f, a, t)[x].addr = IF x = f THEN a ELSE q[x].addr
  BY DEF Filled
<1>2. \A x \in Slots(k) : q[x].addr # a
  BY DEF Found
<1> QED BY <1>1, <1>2

LEMMA EnqueueUnique ==
  ASSUME NEW s, Channel(s), Unique(s), NEW k \in Kind, NEW a \in Addr, NEW t \in Nat,
         Cardinality(Waiting(s.queue[k])) # Size(k)
  PROVE  Unique(Enqueue(s, k, a, t))
<1> DEFINE e == Enqueue(s, k, a, t)
<1>1. /\ \A j \in Kind \ {k} : e.queue[j] = s.queue[j]
      /\ \/ e = s
         \/ \E f \in Slots(k) : ~Found(s.queue[k], a) /\ e.queue[k] = Filled(s.queue[k], f, a, t)
  BY EnqueueAddrs
<1> HIDE DEF e
<1>2. CASE e = s
  BY <1>2 DEF e
<1>3. ASSUME NEW f \in Slots(k), ~Found(s.queue[k], a), e.queue[k] = Filled(s.queue[k], f, a, t)
      PROVE  Unique(e)
  <2>1. s.queue[k] \in [Slots(k) -> Entry]
    BY DEF Channel
  <2>2. ASSUME NEW i \in Slots(k), NEW j \in Slots(k),
               e.queue[k][i].addr = e.queue[k][j].addr, e.queue[k][i].addr # NoAddr
        PROVE  i = j
    BY <1>3, <2>1, <2>2, FilledUnique DEF Unique
  <2> QED BY <1>1, <2>2 DEF Unique
<1> QED BY <1>1, <1>2, <1>3 DEF e

(* No address waits twice in a queue. *)
THEOREM QueuesHaveNoDuplicates == Spec => []NoDuplicates
<1>1. Init => Unique(ch)
  <2> SUFFICES ASSUME Init  PROVE Unique(ch)
    OBVIOUS
  <2>1. \A k \in Kind : ch.queue[k] = [i \in Slots(k) |-> EmptyEntry]
    BY DEF Init, Start
  <2>2. EmptyEntry.addr = NoAddr
    BY DEF EmptyEntry
  <2>3. ASSUME NEW k \in Kind, NEW i \in Slots(k)  PROVE ch.queue[k][i].addr = NoAddr
    <3>1. ch.queue[k][i] = EmptyEntry
      BY <2>1
    <3> QED BY <2>2, <3>1
  <2> QED BY <2>3 DEF Unique
<1>2. IInv /\ Unique(ch) /\ [Next]_vars => Unique(ch)'
  <2> SUFFICES ASSUME IInv, Unique(ch), [Next]_vars  PROVE Unique(ch')
    OBVIOUS
  <2>1. Channel(ch) /\ now \in Nat
    BY DEF IInv, Consistent
  <2>2. ASSUME NEW a \in Addr, add_rq(a)  PROVE Unique(ch')
    <3>1. PICK t \in Nat : ch' = IF Found(ch.queue["write"], a) THEN ch ELSE Enqueue(ch, "read", a, t)
      BY <2>1, <2>2 DEF add_rq
    <3>2. Cardinality(Waiting(ch.queue["read"])) # Size("read")
      BY <2>2 DEF add_rq, Size
    <3>3. Unique(Enqueue(ch, "read", a, t))
      BY <2>1, <3>2, EnqueueUnique DEF Kind
    <3> QED BY <3>1, <3>3
  <2>3. ASSUME NEW a \in Addr, add_wq(a)  PROVE Unique(ch')
    BY <2>1, <2>3, EnqueueUnique DEF Kind, add_wq, Size
  <2>4. CASE operate
    <3>1. SameAddrs(ch, ch') \/ OneGone(ch, ch')
      BY <2>4, OperatedKeeps DEF operate, IInv
    <3> QED BY <3>1 DEF SameAddrs, OneGone, Unique
  <2>5. CASE UNCHANGED vars
    BY <2>5 DEF vars
  <2> QED BY <2>2, <2>3, <2>4, <2>5 DEF Next
<1>3. IInv /\ Unique(ch) => NoDuplicates
  <2> SUFFICES ASSUME IInv, Unique(ch)  PROVE NoDuplicates
    OBVIOUS
  <2>1. ASSUME NEW k \in Kind  PROVE DOMAIN ch.queue[k] = Slots(k)
    BY DEF IInv, Consistent, Channel
  <2>2. ASSUME NEW k \in Kind, NEW i \in Waiting(ch.queue[k])
        PROVE  i \in Slots(k) /\ ch.queue[k][i].addr # NoAddr
    BY <2>1 DEF Waiting
  <2> QED BY <2>2 DEF Unique, NoDuplicates
<1> QED BY <1>1, <1>2, <1>3, Invariant, PTL DEF Spec

-----------------------------------------------------------------------------
(* The time that the bus is reserved. *)

(* The occupancies that the modes depend on. *)
Occupancy(s, k) == Cardinality(Waiting(s.queue[k]))

(* How far ahead the bus may be reserved: what four switches would reserve *)
(* less one penalty for each switch that may still come before the next    *)
(* transfer.                                                               *)
Ahead(s) ==
  IF s.mode = "read"
  THEN IF Occupancy(s, "write") >= HIGH_WM \/ Occupancy(s, "read") > 0
       THEN RETURN_TIME + 3 * TURN_AROUND_TIME ELSE RETURN_TIME + TURN_AROUND_TIME
  ELSE IF Occupancy(s, "write") = 0 THEN RETURN_TIME
       ELSE IF Occupancy(s, "write") < LOW_WM THEN RETURN_TIME + 2 * TURN_AROUND_TIME
       ELSE RETURN_TIME + 4 * TURN_AROUND_TIME
Reserved(s, t) == s.dbus - t <= Ahead(s)

(* The marks of a write queue that has more than one entry. *)
LEMMA Marks ==
  ASSUME WQ_SIZE > 1
  PROVE  /\ HIGH_WM \in Nat /\ LOW_WM \in Nat /\ 0 < LOW_WM /\ LOW_WM <= HIGH_WM
         /\ RETURN_TIME \in Nat /\ TURN_AROUND_TIME \in Nat
<1>1. WQ_SIZE \in Nat
  BY SizesAssumption
<1>2. 0 < (WQ_SIZE * 3) \div 4 /\ (WQ_SIZE * 3) \div 4 <= (WQ_SIZE * 7) \div 8 /\ (WQ_SIZE * 3) \div 4 \in Nat
      /\ (WQ_SIZE * 7) \div 8 \in Nat
  BY <1>1
<1> QED BY <1>2, TimesAssumption DEF HIGH_WM, LOW_WM

LEMMA OccupancyType ==
  ASSUME NEW s, Channel(s), NEW k \in Kind
  PROVE  /\ Waiting(s.queue[k]) = {i \in Slots(k) : s.queue[k][i].addr # NoAddr}
         /\ IsFiniteSet(Waiting(s.queue[k])) /\ Occupancy(s, k) \in Nat
<1>1. Waiting(s.queue[k]) = {i \in Slots(k) : s.queue[k][i].addr # NoAddr}
  BY DEF Waiting, Channel
<1>2. Waiting(s.queue[k]) \in SUBSET Slots(k)
  BY <1>1
<1>3. IsFiniteSet(Waiting(s.queue[k]))
  BY <1>2, SlotsOf, FS_Subset
<1> QED BY <1>1, <1>3, FS_CardinalityType DEF Occupancy

(* While the occupancies do not fall, the limit does not. *)
LEMMA AheadGrows ==
  ASSUME WQ_SIZE > 1, NEW s, NEW e, Channel(s), Channel(e), e.mode = s.mode,
         \A k \in Kind : Occupancy(s, k) <= Occupancy(e, k)
  PROVE  Ahead(s) <= Ahead(e)
<1>1. PICK r, w, r2, w2 : r = Occupancy(s, "read") /\ w = Occupancy(s, "write")
                          /\ r2 = Occupancy(e, "read") /\ w2 = Occupancy(e, "write")
  OBVIOUS
<1>2. r \in Nat /\ w \in Nat /\ r2 \in Nat /\ w2 \in Nat /\ r <= r2 /\ w <= w2
  BY <1>1, OccupancyType DEF Kind
<1>3. PICK H, L, R, T : H = HIGH_WM /\ L = LOW_WM /\ R = RETURN_TIME /\ T = TURN_AROUND_TIME
  OBVIOUS
<1>4. H \in Nat /\ L \in Nat /\ 0 < L /\ L <= H /\ R \in Nat /\ T \in Nat
  BY <1>3, Marks
<1>5. CASE s.mode = "read"
  BY <1>1, <1>2, <1>3, <1>4, <1>5 DEF Ahead
<1>6. CASE s.mode # "read"
  BY <1>1, <1>2, <1>3, <1>4, <1>6 DEF Ahead
<1> QED BY <1>5, <1>6

LEMMA SameAddrsOccupancy ==
  ASSUME NEW s, NEW e, Channel(s), Channel(e), SameAddrs(s, e), NEW k \in Kind
  PROVE  Occupancy(e, k) = Occupancy(s, k)
<1>1. PICK A, B : A = Waiting(s.queue[k]) /\ B = Waiting(e.queue[k])
  OBVIOUS
<1>2. A = {i \in Slots(k) : s.queue[k][i].addr # NoAddr} /\ B = {i \in Slots(k) : e.queue[k][i].addr # NoAddr}
  BY <1>1, OccupancyType
<1>3. A = B
  BY <1>2 DEF SameAddrs
<1> QED BY <1>1, <1>3 DEF Occupancy

(* A switch uses up one of the penalties that may still come. *)
LEMMA SwitchReserves ==
  ASSUME WQ_SIZE > 1, NEW s, Consistent(s), now \in Nat, Reserved(s, now)
  PROVE  Reserved(Switch(s), now)
<1>1. CASE NextMode(s) = s.mode
  BY <1>1 DEF Switch
<1>2. CASE NextMode(s) # s.mode
  <2>1. PICK e, x : e = Reset(s, s.mode) /\ x = Switch(s)
    OBVIOUS
  <2>2. Consistent(e) /\ SameBus(s, e) /\ SameAddrs(s, e)
    BY <2>1, ResetKeeps
  <2>3. Consistent(x) /\ SameAddrs(s, x)
    BY <2>1, SwitchKeeps
  <2>4. x = [e EXCEPT !.mode = NextMode(s), !.dbus = @ + TURN_AROUND_TIME] /\ Fields(e)
    BY <1>2, <2>1, <2>2 DEF Switch, Consistent, Channel, Fields
  <2>5. x.mode = NextMode(s) /\ x.dbus = s.dbus + TURN_AROUND_TIME /\ s.dbus \in Nat /\ s.mode \in Kind
    BY <2>2, <2>4 DEF Fields, SameBus, Consistent, Channel
  <2>6. PICK r, w : r = Occupancy(s, "read") /\ w = Occupancy(s, "write")
    OBVIOUS
  <2>7. r \in Nat /\ w \in Nat /\ Occupancy(x, "read") = r /\ Occupancy(x, "write") = w
    BY <2>3, <2>6, OccupancyType, SameAddrsOccupancy DEF Consistent, Kind
  <2>8. PICK H, L, R, T : H = HIGH_WM /\ L = LOW_WM /\ R = RETURN_TIME /\ T = TURN_AROUND_TIME
    OBVIOUS
  <2>9. H \in Nat /\ L \in Nat /\ 0 < L /\ L <= H /\ R \in Nat /\ T \in Nat
    BY <2>8, Marks
  <2>10. CASE s.mode = "read"
    <3>1. NextMode(s) = "write" /\ (w >= H \/ (r = 0 /\ w > 0))
      BY <1>2, <2>6, <2>8, <2>10 DEF NextMode, Occupancy
    <3>2. Ahead(s) + T <= Ahead(x)
      BY <2>5, <2>6, <2>7, <2>8, <2>9, <2>10, <3>1 DEF Ahead
    <3>3. Ahead(s) \in Nat /\ Ahead(x) \in Nat
      BY <2>8, <2>9 DEF Ahead
    <3> QED BY <2>1, <2>5, <2>8, <2>9, <3>2, <3>3 DEF Reserved
  <2>11. CASE s.mode = "write"
    <3>1. NextMode(s) = "read" /\ (w = 0 \/ (r > 0 /\ w < L))
      BY <1>2, <2>6, <2>8, <2>11 DEF NextMode, Occupancy
    <3>2. Ahead(s) + T <= Ahead(x)
      BY <2>5, <2>6, <2>7, <2>8, <2>9, <2>11, <3>1 DEF Ahead
    <3>3. Ahead(s) \in Nat /\ Ahead(x) \in Nat
      BY <2>8, <2>9 DEF Ahead
    <3> QED BY <2>1, <2>5, <2>8, <2>9, <3>2, <3>3 DEF Reserved
  <2> QED BY <2>5, <2>10, <2>11 DEF Kind
<1> QED BY <1>1, <1>2

(* A cycle: a transfer reserves the bus for one block from now on, and     *)
(* without one the time goes on.                                           *)
LEMMA OperatedReserves ==
  ASSUME WQ_SIZE > 1, NEW s, Consistent(s), now \in Nat, Reserved(s, now)
  PROVE  Reserved(Operated(s), now + 1)
<1>1. PICK s1, s2, e : s1 = Switch(s) /\ s2 = MaybeSchedule(s1, s1.mode) /\ e = MaybeProcess(s2, s2.mode)
  OBVIOUS
<1>2. e = Operated(s)
  BY <1>1 DEF Operated
<1>3. Consistent(s1) /\ Reserved(s1, now)
  BY <1>1, SwitchKeeps, SwitchReserves
<1>4. Consistent(s2) /\ SameBus(s1, s2) /\ SameAddrs(s1, s2)
  <2>1. s2 = Schedule(s1, s1.mode) \/ s2 = s1
    BY <1>1 DEF MaybeSchedule
  <2>2. SameBus(s1, s1) /\ SameAddrs(s1, s1)
    BY DEF SameBus, SameAddrs
  <2>3. /\ Consistent(Schedule(s1, s1.mode))
        /\ SameBus(s1, Schedule(s1, s1.mode)) /\ SameAddrs(s1, Schedule(s1, s1.mode))
    BY SMTT(60), <1>3, ScheduleKeeps
  <2> QED BY SMTT(60), <1>3, <2>1, <2>2, <2>3
<1>5. Consistent(e) /\ ((SameBus(s2, e) /\ SameAddrs(s2, e)) \/ Ended(s2, e))
  BY <1>1, <1>4, ProcessKeeps DEF MaybeProcess, SameBus, SameAddrs
<1>6. RETURN_TIME \in Nat /\ TURN_AROUND_TIME \in Nat /\ Ahead(e) \in Nat /\ RETURN_TIME <= Ahead(e)
  BY Marks DEF Ahead
<1>7. CASE Ended(s2, e)
  <2>1. e.dbus = now + RETURN_TIME
    BY <1>7 DEF Ended
  <2> QED BY <1>2, <1>6, <2>1 DEF Reserved
<1>8. CASE SameBus(s2, e) /\ SameAddrs(s2, e)
  <2>1. SameBus(s1, e) /\ SameAddrs(s1, e)
    BY <1>4, <1>8 DEF SameBus, SameAddrs
  <2>2. \A k \in Kind : Occupancy(s1, k) <= Occupancy(e, k)
    BY <1>3, <1>5, <2>1, SameAddrsOccupancy, OccupancyType DEF Consistent
  <2>3. Ahead(s1) <= Ahead(e)
    BY <1>3, <1>5, <2>1, <2>2, AheadGrows DEF Consistent, SameBus
  <2>4. Ahead(s1) \in Nat /\ s1.dbus \in Nat /\ e.dbus = s1.dbus
    BY <1>3, <2>1, Marks DEF Ahead, SameBus, Consistent, Channel
  <2> QED BY <1>2, <1>3, <1>6, <2>3, <2>4 DEF Reserved
<1> QED BY <1>5, <1>7, <1>8

(* A request that comes in only lowers the number of switches to come. *)
LEMMA EnqueueReserves ==
  ASSUME WQ_SIZE > 1, NEW s, Consistent(s), now \in Nat, Reserved(s, now),
         NEW k \in Kind, NEW a \in Addr, NEW t \in Nat
  PROVE  Reserved(Enqueue(s, k, a, t), now)
<1>1. PICK e : e = Enqueue(s, k, a, t)
  OBVIOUS
<1>2. Consistent(e) /\ SameBus(s, e) /\ Channel(s) /\ Channel(e)
  BY <1>1, EnqueueKeeps, EnqueueBus DEF Consistent
<1>3. e = s \/ \E i \in Slots(k) : EnqueuedAt(s, e, k, a, t, i)
  BY <1>1, <1>2, EnqueueFields
<1>4. ASSUME NEW i \in Slots(k), EnqueuedAt(s, e, k, a, t, i), NEW j \in Kind
      PROVE  Waiting(s.queue[j]) \subseteq Waiting(e.queue[j])
  <2>1. PICK q, x : q = Filled(s.queue[k], i, a, t) /\ x = NextSchedule(q)
    OBVIOUS
  <2>2. e = [s EXCEPT !.queue[k] = q, !.next[k].schedule = x] /\ Fields(s) /\ DOMAIN s.queue = Kind
    BY <1>2, <1>4, <2>1 DEF EnqueuedAt, Channel, Fields
  <2>3. e.queue = [s.queue EXCEPT ![k] = q]
    BY <2>2 DEF Fields
  <2>4. \A y \in Slots(k) : s.queue[k][y].addr # NoAddr => q[y].addr # NoAddr
    BY <1>2, <2>1, GeometryAssumption DEF Filled, Channel
  <2>5. \A y \in Slots(j) : s.queue[j][y].addr # NoAddr => e.queue[j][y].addr # NoAddr
    BY <2>2, <2>3, <2>4
  <2> QED BY <1>2, <2>5, OccupancyType
<1>5. \A j \in Kind : Occupancy(s, j) <= Occupancy(e, j)
  <2>1. ASSUME NEW j \in Kind  PROVE Occupancy(s, j) <= Occupancy(e, j)
    <3>1. Waiting(s.queue[j]) \in SUBSET Waiting(e.queue[j])
      BY <1>3, <1>4
    <3>2. IsFiniteSet(Waiting(e.queue[j]))
      BY <1>2, OccupancyType
    <3> QED BY <3>1, <3>2, FS_Subset DEF Occupancy
  <2> QED BY <2>1
<1>6. Ahead(s) <= Ahead(e)
  BY <1>2, <1>5, AheadGrows DEF SameBus
<1>7. Ahead(s) \in Nat /\ Ahead(e) \in Nat /\ s.dbus \in Nat /\ e.dbus = s.dbus
  BY <1>2, Marks DEF Ahead, SameBus, Channel
<1> QED BY <1>1, <1>6, <1>7 DEF Reserved

(* However the mode thrashes, the bus is never reserved for longer than a  *)
(* transfer and four turn-arounds.  With one entry both marks of the write *)
(* queue are zero and the mode would change in every cycle.                *)
THEOREM BusDelayIsBounded == WQ_SIZE > 1 => (Spec => []BusDelayBounded)
<1> SUFFICES ASSUME WQ_SIZE > 1  PROVE Spec => []BusDelayBounded
  OBVIOUS
<1>1. Init => Reserved(ch, now)
  <2> SUFFICES ASSUME Init  PROVE Reserved(ch, now)
    OBVIOUS
  <2>1. ch.dbus = 0 /\ now = 0
    BY DEF Init, Start
  <2>2. Ahead(ch) \in Nat
    BY Marks DEF Ahead
  <2> QED BY <2>1, <2>2 DEF Reserved
<1>2. IInv /\ Reserved(ch, now) /\ [Next]_vars => Reserved(ch, now)'
  <2> SUFFICES ASSUME IInv, Reserved(ch, now), [Next]_vars  PROVE Reserved(ch', now')
    BY DEF Reserved, Ahead, Occupancy, Waiting
  <2>1. ASSUME NEW a \in Addr, add_rq(a)  PROVE Reserved(ch', now')
    <3>1. PICK t \in Nat : ch' = IF Found(ch.queue["write"], a) THEN ch ELSE Enqueue(ch, "read", a, t)
      BY <2>1 DEF add_rq, IInv
    <3>2. Reserved(Enqueue(ch, "read", a, t), now) /\ now' = now
      BY <2>1, EnqueueReserves DEF add_rq, IInv, Kind
    <3> QED BY <3>1, <3>2
  <2>2. ASSUME NEW a \in Addr, add_wq(a)  PROVE Reserved(ch', now')
    BY <2>2, EnqueueReserves DEF add_wq, IInv, Kind
  <2>3. CASE operate
    BY <2>3, OperatedReserves DEF operate, Tick, IInv
  <2>4. CASE UNCHANGED vars
    BY <2>4 DEF vars
  <2> QED BY SMTT(60), <2>1, <2>2, <2>3, <2>4 DEF Next
<1>3. IInv /\ Reserved(ch, now) => BusDelayBounded
  <2> SUFFICES ASSUME IInv, Reserved(ch, now)  PROVE BusDelayBounded
    OBVIOUS
  <2>1. ch.dbus \in Nat /\ now \in Nat
    BY DEF IInv, Consistent, Channel
  <2>2. Ahead(ch) \in Nat /\ Ahead(ch) <= RETURN_TIME + 4 * TURN_AROUND_TIME
    BY Marks DEF Ahead
  <2> QED BY <2>1, <2>2, Marks DEF Reserved, BusDelayBounded
<1> QED BY <1>1, <1>2, <1>3, Invariant, PTL DEF Spec

-----------------------------------------------------------------------------
(* NVM_MEMORY_CONTROLLER (NvmController) keeps in one record what the      *)
(* channel has in three variables.  Its state is always such a record, so  *)
(* nothing is lost by naming the three fields.                             *)
Nvm == INSTANCE NvmController WITH s <- [ch |-> ch, now |-> now, budget |-> budget]

(* The searches of the copy are those of the channel. *)
LEMMA SameSearches ==
  /\ Nvm!Channel!Kind = Kind
  /\ \A k : Nvm!Channel!Size(k) = Size(k) /\ Nvm!Channel!Slots(k) = Slots(k)
  /\ \A q : Nvm!Channel!Waiting(q) = Waiting(q)
  /\ \A q, a : Nvm!Channel!Found(q, a) <=> Found(q, a)
  /\ \A q, S : Nvm!Channel!Oldest(q, S) = Oldest(q, S)
<1>1. Nvm!Channel!Kind = Kind
  BY DEF Nvm!Channel!Kind, Kind
<1>2. \A k : Nvm!Channel!Size(k) = Size(k) /\ Nvm!Channel!Slots(k) = Slots(k)
  BY DEF Nvm!Channel!Size, Size, Nvm!Channel!Slots, Slots
<1>3. \A q : Nvm!Channel!Waiting(q) = Waiting(q)
  BY DEF Nvm!Channel!Waiting, Waiting
<1>4. \A q, a : Nvm!Channel!Found(q, a) <=> Found(q, a)
  BY DEF Nvm!Channel!Found, Found
<1>5. \A q, S : Nvm!Channel!Oldest(q, S) = Oldest(q, S)
  BY DEF Nvm!Channel!Oldest, Oldest
<1> QED BY <1>1, <1>2, <1>3, <1>4, <1>5

(* So are its choices. *)
LEMMA SameChoices ==
  /\ \A q : Nvm!Channel!NextSchedule(q) = NextSchedule(q) /\ Nvm!Channel!NextProcess(q) = NextProcess(q)
  /\ \A t, k : Nvm!Channel!Scheduled(t, k) = Scheduled(t, k)
  /\ \A t, k, i : Nvm!Channel!BankOf(t, k, i) = BankOf(t, k, i) /\ Nvm!Channel!RowOf(t, k, i) = RowOf(t, k, i)
  /\ \A t, k : Nvm!Channel!Ready(t, k) = Ready(t, k)
<1>1. \A q : Nvm!Channel!NextSchedule(q) = NextSchedule(q) /\ Nvm!Channel!NextProcess(q) = NextProcess(q)
  BY SameSearches DEF Nvm!Channel!NextSchedule, NextSchedule, Nvm!Channel!NextProcess, NextProcess
<1>2. \A t, k : Nvm!Channel!Scheduled(t, k) = Scheduled(t, k)
  BY SameSearches DEF Nvm!Channel!Scheduled, Scheduled
<1>3. \A t, k, i : Nvm!Channel!BankOf(t, k, i) = BankOf(t, k, i) /\ Nvm!Channel!RowOf(t, k, i) = RowOf(t, k, i)
  BY DEF Nvm!Channel!BankOf, BankOf, Nvm!Channel!RowOf, RowOf
<1>4. \A t, k : Nvm!Channel!Ready(t, k) = Ready(t, k)
  BY <1>3, SameSearches DEF Nvm!Channel!Ready, Ready
<1> QED BY <1>1, <1>2, <1>3, <1>4

(* So are its steps. *)
LEMMA SameReset ==
  ASSUME NEW t, NEW k
  PROVE  Nvm!Channel!Reset(t, k) = Reset(t, k)
<1>1. PICK taken, B, j : /\ taken = Scheduled(t, k) /\ B = {BankOf(t, k, i) : i \in taken}
                         /\ j = IF k = "read" THEN "write" ELSE "read"
  OBVIOUS
<1>2. {Nvm!Channel!BankOf(t, k, i) : i \in Nvm!Channel!Scheduled(t, k)} = B
  BY <1>1, SameChoices
<1>3. PICK q2 : q2 = [i \in Slots(k) |->
                        IF i \in taken THEN [t.queue[k][i] EXCEPT !.scheduled = FALSE, !.event = now]
                        ELSE t.queue[k][i]]
  OBVIOUS
<1>4. [i \in Nvm!Channel!Slots(k) |->
         IF i \in Nvm!Channel!Scheduled(t, k)
         THEN [t.queue[k][i] EXCEPT !.scheduled = FALSE, !.event = [ch |-> ch, now |-> now, budget |-> budget].now]
         ELSE t.queue[k][i]] = q2
  BY <1>1, <1>3, SameSearches, SameChoices
<1>5. PICK banks : banks = [b \in Bank |->
         IF b \notin B THEN t.bank[b]
         ELSE [kind |-> "none", index |-> 0, avail |-> now,
               open |-> IF t.bank[b].avail - tCAS <= now THEN RowOf(t, k, t.bank[b].index) ELSE NoRow]]
  OBVIOUS
<1>6. [b \in Bank |->
         IF b \notin B THEN t.bank[b]
         ELSE [kind |-> "none", index |-> 0, avail |-> [ch |-> ch, now |-> now, budget |-> budget].now,
               open |-> IF t.bank[b].avail - tCAS <= [ch |-> ch, now |-> now, budget |-> budget].now
                        THEN Nvm!Channel!RowOf(t, k, t.bank[b].index) ELSE NoRow]] = banks
  BY <1>5, SameChoices
<1>7. Nvm!Channel!Released(t, B) = Released(t, B)
  <2>1. \A S : Nvm!Channel!Cardinality(S) = Cardinality(S)
    BY DEF Nvm!Channel!Cardinality, Cardinality
  <2> QED BY <2>1, SameSearches DEF Nvm!Channel!Released, Released
<1>8. PICK n : n = [h \in Kind |-> [schedule |-> NextSchedule(IF h = k THEN q2 ELSE t.queue[j]),
                                    process |-> NextProcess(IF h = k THEN q2 ELSE t.queue[j])]]
  OBVIOUS
<1>9. [h \in Nvm!Channel!Kind |->
         [schedule |-> Nvm!Channel!NextSchedule(IF h = k THEN q2 ELSE t.queue[j]),
          process |-> Nvm!Channel!NextProcess(IF h = k THEN q2 ELSE t.queue[j])]] = n
  BY <1>8, SameSearches, SameChoices
<1>10. Reset(t, k) = [t EXCEPT !.queue[k] = q2, !.bank = banks, !.count = Released(t, B), !.next = n]
  BY <1>1, <1>3, <1>5, <1>8 DEF Reset
<1>11. Nvm!Channel!Reset(t, k) = [t EXCEPT !.queue[k] = q2, !.bank = banks, !.count = Released(t, B), !.next = n]
  BY <1>1, <1>2, <1>4, <1>6, <1>7, <1>9 DEF Nvm!Channel!Reset
<1> QED BY <1>10, <1>11

Begins(t, k, i, done, b, o, n) ==
  [t EXCEPT !.queue[k] = Begun(t.queue[k], i, done),
            !.bank[b] = [kind |-> k, index |-> i, avail |-> done, open |-> o],
            !.count[k] = @ + 1, !.next[k] = n]
LEMMA SameSchedule ==
  ASSUME NEW t, NEW k
  PROVE  Nvm!Channel!Schedule(t, k) = Schedule(t, k)
<1> DEFINE hits == {i \in Ready(t, k) : t.bank[BankOf(t, k, i)].open = RowOf(t, k, i)}
           hits2 == {i \in Nvm!Channel!Ready(t, k) :
                       t.bank[Nvm!Channel!BankOf(t, k, i)].open = Nvm!Channel!RowOf(t, k, i)}
           i == Oldest(t.queue[k], IF hits # {} THEN hits ELSE Ready(t, k))
           i2 == Nvm!Channel!Oldest(t.queue[k], IF hits2 # {} THEN hits2 ELSE Nvm!Channel!Ready(t, k))
           done == now + (IF hits # {} THEN tCAS ELSE tRP + tRCD + tCAS)
           done2 == [ch |-> ch, now |-> now, budget |-> budget].now
                      + (IF hits2 # {} THEN tCAS ELSE tRP + tRCD + tCAS)
           n == [schedule |-> NextSchedule(Begun(t.queue[k], i, done)),
                 process |-> NextProcess(Begun(t.queue[k], i, done))]
           n2 == [schedule |-> Nvm!Channel!NextSchedule(Begun(t.queue[k], i2, done2)),
                  process |-> Nvm!Channel!NextProcess(Begun(t.queue[k], i2, done2))]
<1>1. Schedule(t, k) = IF Ready(t, k) = {} THEN t
                       ELSE Begins(t, k, i, done, BankOf(t, k, i), RowOf(t, k, i), n)
  BY DEF Schedule, Begins, Begun
<1>2. Nvm!Channel!Schedule(t, k) =
        IF Nvm!Channel!Ready(t, k) = {} THEN t
        ELSE Begins(t, k, i2, done2, Nvm!Channel!BankOf(t, k, i2), Nvm!Channel!RowOf(t, k, i2), n2)
  BY DEF Nvm!Channel!Schedule, Begins, Begun
<1>3. hits2 = hits
  BY SameChoices
<1>4. i2 = i /\ done2 = done
  <2> HIDE DEF hits, hits2
  <2> QED BY <1>3, SameSearches, SameChoices
<1> HIDE DEF i, i2, done, done2, hits, hits2
<1>5. n2 = n
  BY <1>4, SameChoices
<1> HIDE DEF n, n2
<1> QED BY <1>1, <1>2, <1>4, <1>5, SameChoices

Ends(t, k, i, b, q, e, p) ==
  [t EXCEPT !.queue[k] = q, !.bank[b].kind = "none", !.bank[b].index = 0, !.dbus = e,
            !.count[k] = @ - 1, !.next[k].process = p, !.burst = [kind |-> k, end |-> e]]
LEMMA SameProcess ==
  ASSUME NEW t, NEW k
  PROVE  Nvm!Channel!Process(t, k) = Process(t, k)
<1> DEFINE i == t.next[k].process
           b == BankOf(t, k, i)
           b2 == Nvm!Channel!BankOf(t, k, i)
           q == [t.queue[k] EXCEPT ![i] = EmptyEntry]
           q2 == [t.queue[k] EXCEPT ![i] = Nvm!Channel!EmptyEntry]
           clock == [ch |-> ch, now |-> now, budget |-> budget].now
<1>1. Process(t, k) =
        IF t.bank[b].avail > now THEN t
        ELSE IF t.dbus > now THEN [t EXCEPT !.bank[b].avail = t.dbus]
        ELSE Ends(t, k, i, b, q, now + RETURN_TIME, NextProcess(q))
  BY DEF Process, Ends
<1>2. Nvm!Channel!Process(t, k) =
        IF t.bank[b2].avail > clock THEN t
        ELSE IF t.dbus > clock THEN [t EXCEPT !.bank[b2].avail = t.dbus]
        ELSE Ends(t, k, i, b2, q2, clock + RETURN_TIME, Nvm!Channel!NextProcess(q2))
  BY DEF Nvm!Channel!Process, Ends
<1>3. b2 = b /\ clock = now
  BY SameChoices
<1>4. q2 = q
  BY DEF Nvm!Channel!EmptyEntry, EmptyEntry
<1>5. Nvm!Channel!NextProcess(q2) = NextProcess(q)
  BY <1>4, SameChoices
<1> HIDE DEF i, b, b2, q, q2, clock
<1> QED BY <1>1, <1>2, <1>3, <1>4, <1>5

LEMMA SameMode ==
  ASSUME NEW t
  PROVE  Nvm!Channel!NextMode(t) = NextMode(t)
<1>1. \A S : Nvm!Channel!Cardinality(S) = Cardinality(S)
  BY DEF Nvm!Channel!Cardinality, Cardinality
<1> QED BY <1>1, SameSearches DEF Nvm!Channel!NextMode, NextMode, Nvm!Channel!HIGH_WM, HIGH_WM, Nvm!Channel!LOW_WM, LOW_WM

LEMMA SameStart == Nvm!Channel!Start = Start
<1>1. Nvm!Channel!EmptyEntry = EmptyEntry /\ Nvm!Channel!IdleBank = IdleBank
  BY DEF Nvm!Channel!EmptyEntry, EmptyEntry, Nvm!Channel!IdleBank, IdleBank
<1>2. [k \in Nvm!Channel!Kind |-> [i \in Nvm!Channel!Slots(k) |-> Nvm!Channel!EmptyEntry]]
        = [k \in Kind |-> [i \in Slots(k) |-> EmptyEntry]]
  BY <1>1, SameSearches
<1> QED BY <1>1, <1>2, SameSearches DEF Nvm!Channel!Start, Start

(* One cycle.  process takes the mode that Switch has set, which schedule *)
(* does not change.                                                        *)
LEMMA SameOperated ==
  ASSUME NEW t, Consistent(t), now \in Nat
  PROVE  Nvm!operated(t) = Operated(t)
<1>1. [ch |-> ch, now |-> now, budget |-> budget].now = now
  OBVIOUS
<1>2. Nvm!Switched(t) = Switch(t)
  BY SameMode, SameReset DEF Nvm!Switched, Switch, Nvm!reset_remain_requests
<1>3. ASSUME NEW c
      PROVE  (IF Nvm!Due(c, c.mode, c.next[c.mode].schedule) THEN Nvm!schedule(c, c.mode) ELSE c) = MaybeSchedule(c, c.mode)
  BY <1>1, SameSchedule DEF Nvm!Due, Nvm!schedule, MaybeSchedule
<1>4. ASSUME NEW c, NEW k
      PROVE  (IF Nvm!Due(c, k, c.next[k].process) THEN Nvm!process(c, k) ELSE c) = MaybeProcess(c, k)
  BY <1>1, SameProcess DEF Nvm!Due, Nvm!process, MaybeProcess
<1>5. PICK c, d : c = Switch(t) /\ d = MaybeSchedule(c, c.mode)
  OBVIOUS
<1>6. Nvm!operated(t) = IF Nvm!Due(d, c.mode, d.next[c.mode].process) THEN Nvm!process(d, c.mode) ELSE d
  BY <1>2, <1>3, <1>5 DEF Nvm!operated
<1>7. d.mode = c.mode
  <2>1. Consistent(c)
    BY SMTT(60), <1>5, SwitchKeeps
  <2>2. d = Schedule(c, c.mode) \/ d = c
    BY <1>5 DEF MaybeSchedule
  <2> QED BY <2>1, <2>2, ScheduleKeeps DEF SameBus
<1> QED BY <1>4, <1>5, <1>6, <1>7 DEF Operated

(* A request enters alike: there is room when add_rq or add_wq is called, *)
(* and the entry that the copy fills is the first empty one too.           *)
LEMMA SameEnqueue ==
  ASSUME NEW t, Channel(t), NEW k \in Kind, NEW a,
         Cardinality(Waiting(t.queue[k])) # Size(k)
  PROVE  Nvm!Added(t, k, a) = Enqueue(t, k, a, now)
<1> DEFINE q == t.queue[k]
           free == {i \in DOMAIN q : q[i].addr = NoAddr}
           slot == CHOOSE i \in free : \A j \in free : i <= j
           q2 == [q EXCEPT ![slot] = [addr |-> a, event |-> now, scheduled |-> FALSE]]
           r2 == [q EXCEPT ![slot] = [addr |-> a, event |-> [ch |-> ch, now |-> now, budget |-> budget].now,
                                      scheduled |-> FALSE]]
<1>1. free # {}
  <2>1. q \in [Slots(k) -> Entry] /\ Cardinality(Waiting(q)) # Size(k)
    BY DEF Channel
  <2>2. \E i \in Slots(k) : q[i].addr = NoAddr
    BY <2>1, RoomInQueue
  <2> QED BY <2>1, <2>2
<1>2. Enqueue(t, k, a, now) = IF Found(q, a) \/ free = {} THEN t
                              ELSE [t EXCEPT !.queue[k] = q2, !.next[k].schedule = NextSchedule(q2)]
  BY DEF Enqueue
<1>3. Nvm!Added(t, k, a) = IF Nvm!Channel!Found(q, a) THEN t
                           ELSE [t EXCEPT !.queue[k] = r2, !.next[k].schedule = Nvm!Channel!NextSchedule(r2)]
  BY DEF Nvm!Added, Nvm!check_nvm_queue, Nvm!update_schedule_cycle
<1>4. r2 = q2
  OBVIOUS
<1>5. Nvm!Channel!NextSchedule(r2) = NextSchedule(q2)
  BY <1>4, SameChoices
<1>6. Nvm!Channel!Found(q, a) <=> Found(q, a)
  BY SameSearches
<1> HIDE DEF q, free, slot, q2, r2
<1> QED BY <1>1, <1>2, <1>3, <1>4, <1>5, <1>6

-----------------------------------------------------------------------------
(* The NVM controller's steps are steps of the channel. *)
LEMMA SameOccupancy ==
  \A t, k : Nvm!get_occupancy(t, k) = Cardinality(Waiting(t.queue[k])) /\ Nvm!get_size(k) = Size(k)
<1>1. \A S : Nvm!Cardinality(S) = Cardinality(S)
  BY DEF Nvm!Cardinality, Cardinality
<1> QED BY <1>1, SameSearches DEF Nvm!get_occupancy, Nvm!get_size

LEMMA SamePending == IInv => (Nvm!Pending <=> Pending)
<1> SUFFICES ASSUME IInv  PROVE Nvm!Pending <=> Pending
  OBVIOUS
<1>1. [ch |-> ch, now |-> now, budget |-> budget].ch = ch
  OBVIOUS
<1>2. ASSUME NEW k \in Kind
      PROVE  Cardinality(Waiting(ch.queue[k])) # 0 <=> Waiting(ch.queue[k]) # {}
  <2>1. ch.queue[k] \in [Slots(k) -> Entry]
    BY DEF IInv, Consistent, Channel
  <2>2. Waiting(ch.queue[k]) \in SUBSET Slots(k)
    BY <2>1 DEF Waiting
  <2>3. IsFiniteSet(Waiting(ch.queue[k]))
    BY <2>2, SlotsOf, FS_Subset
  <2> QED BY <2>3, FS_EmptySet
<1> QED BY <1>1, <1>2, SameOccupancy, SameSearches DEF Nvm!Pending, Pending

LEMMA NvmStep ==
  IInv /\ [Nvm!Next]_[ch |-> ch, now |-> now, budget |-> budget] => [Next]_vars
<1> SUFFICES ASSUME IInv, [Nvm!Next]_[ch |-> ch, now |-> now, budget |-> budget]
             PROVE  [Next]_vars
  OBVIOUS
<1> DEFINE s == [ch |-> ch, now |-> now, budget |-> budget]
<1>1. Channel(ch) /\ Consistent(ch) /\ now \in Nat
  BY DEF IInv, Consistent
<1>2. s.ch = ch /\ s.now = now /\ s.budget = budget /\ s'.ch = ch' /\ s'.now = now' /\ s'.budget = budget'
  OBVIOUS
<1>3. ASSUME NEW a \in Addr, Nvm!add_rq(a)  PROVE add_rq(a)
  <2>1. budget.reads > 0 /\ Cardinality(Waiting(ch.queue["read"])) # Size("read")
    BY <1>2, <1>3, SameOccupancy DEF Nvm!add_rq
  <2>2. PICK e : e = IF Nvm!check_nvm_queue(ch.queue["write"], a) THEN ch ELSE Nvm!Added(ch, "read", a)
    OBVIOUS
  <2>3. s' = [s EXCEPT !.budget.reads = @ - 1, !.ch = e]
    BY <2>2, <1>3 DEF Nvm!add_rq
  <2>4. ch' = e /\ now' = now /\ budget' = [budget EXCEPT !.reads = @ - 1]
    BY <2>3
  <2>5. e = IF Found(ch.queue["write"], a) THEN ch ELSE Enqueue(ch, "read", a, now)
    BY <1>1, <2>1, <2>2, SameEnqueue, SameSearches DEF Nvm!check_nvm_queue, Kind
  <2>6. now \in {u \in 0 .. now : now - u <= MaxLate}
    BY <1>1, BoundsAssumption
  <2> QED BY <2>1, <2>4, <2>5, <2>6 DEF add_rq, Size
<1>4. ASSUME NEW a \in Addr, Nvm!add_wq(a)  PROVE add_wq(a)
  <2>1. budget.writes > 0 /\ Cardinality(Waiting(ch.queue["write"])) # Size("write")
    BY <1>2, <1>4, SameOccupancy DEF Nvm!add_wq
  <2>2. PICK e : e = Nvm!Added(ch, "write", a)
    OBVIOUS
  <2>3. s' = [s EXCEPT !.budget.writes = @ - 1, !.ch = e]
    BY <2>2, <1>4 DEF Nvm!add_wq
  <2>4. ch' = e /\ now' = now /\ budget' = [budget EXCEPT !.writes = @ - 1]
    BY <2>3
  <2>5. e = Enqueue(ch, "write", a, now)
    BY <1>1, <2>1, <2>2, SameEnqueue DEF Kind
  <2> QED BY <2>1, <2>4, <2>5 DEF add_wq, Size
<1>5. ASSUME Nvm!operate  PROVE operate
  <2>1. (Pending \/ budget.idle > 0) /\ now < Horizon
    BY <1>2, <1>5, SamePending DEF Nvm!operate
  <2>2. PICK e : e = Nvm!operated(ch)
    OBVIOUS
  <2>3. s' = [ch |-> e, now |-> now + 1,
              budget |-> IF Pending THEN budget ELSE [budget EXCEPT !.idle = @ - 1]]
    BY <1>2, <1>5, <2>2, SamePending DEF Nvm!operate
  <2>4. ch' = e /\ now' = now + 1 /\ budget' = IF Pending THEN budget ELSE [budget EXCEPT !.idle = @ - 1]
    BY <2>3
  <2>5. e = Operated(ch)
    BY <1>1, <2>2, SameOperated
  <2> QED BY <2>1, <2>4, <2>5 DEF operate, Tick
<1>6. ASSUME s' = s  PROVE UNCHANGED vars
  BY <1>2, <1>6 DEF vars
<1> QED BY <1>3, <1>4, <1>5, <1>6 DEF Next, Nvm!Next

(* The NVM controller is a channel of DramChannel with other constants:    *)
(* whatever the times of the NVM, each of its behaviours is one of Spec,   *)
(* so all that is proved above of the channel holds of it.                 *)
THEOREM NvmIsADramChannel == Nvm!Spec => Spec
<1>1. Nvm!Init => Init
  <2> SUFFICES ASSUME Nvm!Init  PROVE Init
    OBVIOUS
  <2>1. PICK start : start = Nvm!Channel!Start
    OBVIOUS
  <2>2. [ch |-> ch, now |-> now, budget |-> budget]
          = [ch |-> start, now |-> 0,
             budget |-> [reads |-> MaxReads, writes |-> MaxWrites, idle |-> MaxIdle]]
    BY <2>1 DEF Nvm!Init
  <2>3. ch = start /\ now = 0 /\ budget = [reads |-> MaxReads, writes |-> MaxWrites, idle |-> MaxIdle]
    BY <2>2
  <2> QED BY <2>1, <2>3, SameStart DEF Init
<1> QED BY <1>1, NvmStep, InitIInv, NextIInv, PTL DEF Nvm!Spec, Spec

(* Its banks, counters and cached indices agree with its queues in every   *)
(* state, and no address waits twice (the asserts of process and of        *)
(* reset_remain_requests in src/nvm_controller.cc).                        *)
THEOREM NvmBanksAndQueuesAgree == Nvm!Spec => []Nvm!BanksAndQueuesAgree
<1>1. TypeOK /\ BanksMatchRequests /\ ScheduledCounted /\ NextIsFresh /\ NoDuplicates => Nvm!BanksAndQueuesAgree
  <2> SUFFICES ASSUME TypeOK, BanksMatchRequests, ScheduledCounted, NextIsFresh, NoDuplicates
               PROVE  Nvm!BanksAndQueuesAgree
    OBVIOUS
  <2>1. [ch |-> ch, now |-> now, budget |-> budget].ch = ch
    OBVIOUS
  <2>2. Nvm!Channel!BanksMatchRequests
    BY <2>1, SameSearches, SameChoices
    DEF BanksMatchRequests, Matched, Nvm!Channel!BanksMatchRequests, Nvm!Channel!Matched
  <2>3. Nvm!Channel!ScheduledCounted
    <3>1. \A S : Nvm!Channel!Cardinality(S) = Cardinality(S)
      BY DEF Nvm!Channel!Cardinality, Cardinality
    <3> QED BY <2>1, <3>1, SameSearches, SameChoices
        DEF ScheduledCounted, OneWay, Counted, Nvm!Channel!ScheduledCounted, Nvm!Channel!OneWay, Nvm!Channel!Counted
  <2>4. Nvm!Channel!NoDuplicates
    BY <2>1, SameSearches DEF NoDuplicates, Nvm!Channel!NoDuplicates
  <2>5. \A k \in Kind : ch.next[k] = [schedule |-> NextSchedule(ch.queue[k]), process |-> NextProcess(ch.queue[k])]
    <3>1. ch.next \in [Kind -> [schedule : Nat, process : Nat]]
      BY DEF TypeOK, Channel
    <3> QED BY <3>1 DEF NextIsFresh, Fresh
  <2> QED BY <2>1, <2>2, <2>3, <2>4, <2>5, SameSearches, SameChoices
      DEF Nvm!BanksAndQueuesAgree, Nvm!update_schedule_cycle, Nvm!update_process_cycle
<1> QED BY <1>1, NvmIsADramChannel, ChannelTypes, BanksAreMatched, CountersAreExact, IndicesAreFresh, QueuesHaveNoDuplicates, PTL

-----------------------------------------------------------------------------
(* HYBRID_MEMORY_CONTROLLER repeats the NVM controller under its own names. *)
Hybrid == INSTANCE HybridController WITH s <- [ch |-> ch, now |-> now, budget |-> budget]

LEMMA HybridSearches ==
  /\ Hybrid!Nvm!Channel!Kind = Nvm!Channel!Kind /\ Hybrid!Nvm!Channel!Start = Nvm!Channel!Start
  /\ \A q : /\ Hybrid!Nvm!Channel!NextSchedule(q) = Nvm!Channel!NextSchedule(q)
            /\ Hybrid!Nvm!Channel!NextProcess(q) = Nvm!Channel!NextProcess(q)
  /\ \A q, a : Hybrid!Nvm!Channel!Found(q, a) <=> Nvm!Channel!Found(q, a)
BY ZenonT(60) DEF
    Hybrid!Nvm!Channel!Kind, Nvm!Channel!Kind, Hybrid!Nvm!Channel!Size,
    Nvm!Channel!Size, Hybrid!Nvm!Channel!Slots, Nvm!Channel!Slots,
    Hybrid!Nvm!Channel!Start, Nvm!Channel!Start, Hybrid!Nvm!Channel!EmptyEntry,
    Nvm!Channel!EmptyEntry, Hybrid!Nvm!Channel!IdleBank, Nvm!Channel!IdleBank,
    Hybrid!Nvm!Channel!Waiting, Nvm!Channel!Waiting, Hybrid!Nvm!Channel!Oldest,
    Nvm!Channel!Oldest, Hybrid!Nvm!Channel!NextSchedule, Nvm!Channel!NextSchedule,
    Hybrid!Nvm!Channel!NextProcess, Nvm!Channel!NextProcess,
    Hybrid!Nvm!Channel!Found, Nvm!Channel!Found

LEMMA HybridSchedule ==
  ASSUME NEW t, NEW k  PROVE Hybrid!Nvm!Channel!Schedule(t, k) = Nvm!Channel!Schedule(t, k)
BY Zenon DEF
    Hybrid!Nvm!Channel!Schedule, Nvm!Channel!Schedule, Hybrid!Nvm!Channel!Ready,
    Nvm!Channel!Ready, Hybrid!Nvm!Channel!BankOf, Nvm!Channel!BankOf,
    Hybrid!Nvm!Channel!RowOf, Nvm!Channel!RowOf, Hybrid!Nvm!Channel!Oldest,
    Nvm!Channel!Oldest, Hybrid!Nvm!Channel!NextSchedule, Nvm!Channel!NextSchedule,
    Hybrid!Nvm!Channel!NextProcess, Nvm!Channel!NextProcess,
    Hybrid!Nvm!Channel!Slots, Nvm!Channel!Slots, Hybrid!Nvm!Channel!Size,
    Nvm!Channel!Size, Hybrid!Nvm!Channel!Waiting, Nvm!Channel!Waiting

LEMMA HybridProcess ==
  ASSUME NEW t, NEW k  PROVE Hybrid!Nvm!Channel!Process(t, k) = Nvm!Channel!Process(t, k)
BY Zenon DEF
    Hybrid!Nvm!Channel!Process, Nvm!Channel!Process, Hybrid!Nvm!Channel!BankOf,
    Nvm!Channel!BankOf, Hybrid!Nvm!Channel!EmptyEntry, Nvm!Channel!EmptyEntry,
    Hybrid!Nvm!Channel!NextProcess, Nvm!Channel!NextProcess,
    Hybrid!Nvm!Channel!Oldest, Nvm!Channel!Oldest, Hybrid!Nvm!Channel!Waiting,
    Nvm!Channel!Waiting

LEMMA HybridReset ==
  ASSUME NEW t, NEW k  PROVE Hybrid!Nvm!Channel!Reset(t, k) = Nvm!Channel!Reset(t, k)
BY Zenon DEF
    Hybrid!Nvm!Channel!Reset, Nvm!Channel!Reset, Hybrid!Nvm!Channel!Scheduled,
    Nvm!Channel!Scheduled, Hybrid!Nvm!Channel!BankOf, Nvm!Channel!BankOf,
    Hybrid!Nvm!Channel!RowOf, Nvm!Channel!RowOf, Hybrid!Nvm!Channel!Released,
    Nvm!Channel!Released, Hybrid!Nvm!Channel!Cardinality, Nvm!Channel!Cardinality,
    Hybrid!Nvm!Channel!Kind, Nvm!Channel!Kind, Hybrid!Nvm!Channel!Oldest,
    Nvm!Channel!Oldest, Hybrid!Nvm!Channel!NextSchedule, Nvm!Channel!NextSchedule,
    Hybrid!Nvm!Channel!NextProcess, Nvm!Channel!NextProcess,
    Hybrid!Nvm!Channel!Slots, Nvm!Channel!Slots, Hybrid!Nvm!Channel!Size,
    Nvm!Channel!Size, Hybrid!Nvm!Channel!Waiting, Nvm!Channel!Waiting

LEMMA HybridMode ==
  ASSUME NEW t  PROVE Hybrid!Nvm!Channel!NextMode(t) = Nvm!Channel!NextMode(t)
BY Zenon DEF
    Hybrid!Nvm!Channel!NextMode, Nvm!Channel!NextMode, Hybrid!Nvm!Channel!HIGH_WM,
    Nvm!Channel!HIGH_WM, Hybrid!Nvm!Channel!LOW_WM, Nvm!Channel!LOW_WM,
    Hybrid!Nvm!Channel!Waiting, Nvm!Channel!Waiting, Hybrid!Nvm!Channel!Cardinality,
    Nvm!Channel!Cardinality

LEMMA HybridAdded ==
  ASSUME NEW t, NEW k, NEW a  PROVE Hybrid!Nvm!Added(t, k, a) = Nvm!Added(t, k, a)
BY Zenon DEF
    Hybrid!Nvm!Added, Nvm!Added, Hybrid!Nvm!check_nvm_queue, Nvm!check_nvm_queue,
    Hybrid!Nvm!update_schedule_cycle, Nvm!update_schedule_cycle,
    Hybrid!Nvm!Channel!Found, Nvm!Channel!Found, Hybrid!Nvm!Channel!NextSchedule,
    Nvm!Channel!NextSchedule, Hybrid!Nvm!Channel!Oldest, Nvm!Channel!Oldest,
    Hybrid!Nvm!Channel!Waiting, Nvm!Channel!Waiting

LEMMA HybridOccupancy ==
  \A t, k : /\ Hybrid!Nvm!get_occupancy(t, k) = Nvm!get_occupancy(t, k)
           /\ Hybrid!Nvm!get_size(k) = Nvm!get_size(k)
BY Zenon DEF
    Hybrid!Nvm!get_occupancy, Nvm!get_occupancy, Hybrid!Nvm!get_size, Nvm!get_size,
    Hybrid!Nvm!Cardinality, Nvm!Cardinality, Hybrid!Nvm!Channel!Waiting,
    Nvm!Channel!Waiting, Hybrid!Nvm!Channel!Size, Nvm!Channel!Size

LEMMA HybridOperated ==
  ASSUME NEW t  PROVE Hybrid!Nvm!operated(t) = Nvm!operated(t)
<1>1. Hybrid!Nvm!Switched(t) = Nvm!Switched(t)
  BY HybridMode, HybridReset DEF Hybrid!Nvm!Switched, Nvm!Switched, Hybrid!Nvm!reset_remain_requests,
    Nvm!reset_remain_requests
<1>2. \A c, k, i : Hybrid!Nvm!Due(c, k, i) <=> Nvm!Due(c, k, i)
  BY DEF Hybrid!Nvm!Due, Nvm!Due
<1>3. \A c, k : /\ Hybrid!Nvm!schedule(c, k) = Nvm!schedule(c, k)
                /\ Hybrid!Nvm!process(c, k) = Nvm!process(c, k)
  BY HybridSchedule, HybridProcess DEF Hybrid!Nvm!schedule, Nvm!schedule, Hybrid!Nvm!process, Nvm!process
<1> QED BY <1>1, <1>2, <1>3 DEF Hybrid!Nvm!operated, Nvm!operated

LEMMA HybridStep == Hybrid!Next => Nvm!Next
<1>1. Hybrid!Nvm!Pending <=> Nvm!Pending
  BY HybridSearches, HybridOccupancy DEF Hybrid!Nvm!Pending, Nvm!Pending
<1>2. ASSUME Hybrid!Nvm!operate  PROVE Nvm!operate
  BY <1>1, <1>2, HybridOperated DEF Hybrid!Nvm!operate, Nvm!operate
<1>3. \A q, a : Hybrid!Nvm!check_nvm_queue(q, a) <=> Nvm!check_nvm_queue(q, a)
  BY HybridSearches DEF Hybrid!Nvm!check_nvm_queue, Nvm!check_nvm_queue
<1>4. ASSUME NEW a \in Addr, Hybrid!Nvm!add_rq(a)  PROVE Nvm!add_rq(a)
  BY <1>3, <1>4, HybridOccupancy, HybridAdded DEF Hybrid!Nvm!add_rq, Nvm!add_rq
<1>5. ASSUME NEW a \in Addr, Hybrid!Nvm!add_wq(a)  PROVE Nvm!add_wq(a)
  BY <1>5, HybridOccupancy, HybridAdded DEF Hybrid!Nvm!add_wq, Nvm!add_wq
<1> QED BY <1>2, <1>4, <1>5
         DEF Hybrid!Next, Hybrid!operate, Hybrid!add_rq, Hybrid!add_wq, Nvm!Next

(* The hybrid memory controller behaves as the NVM controller does, and so *)
(* its banks, counters and cached indices agree with its queues in every   *)
(* state (the asserts in src/hybrid_memory_controller.cc).                 *)
THEOREM HybridBanksAndQueuesAgree == Hybrid!Spec => []Hybrid!BanksAndQueuesAgree
<1>1. Hybrid!Init => Nvm!Init
  BY HybridSearches DEF Hybrid!Init, Hybrid!Nvm!Init, Nvm!Init
<1>2. Hybrid!Spec => Nvm!Spec
  BY <1>1, HybridStep, PTL DEF Hybrid!Spec, Nvm!Spec
<1>3. Nvm!BanksAndQueuesAgree => Hybrid!BanksAndQueuesAgree
  BY Zenon DEF
    Hybrid!BanksAndQueuesAgree, Hybrid!Nvm!BanksAndQueuesAgree, Nvm!BanksAndQueuesAgree,
    Hybrid!Nvm!update_schedule_cycle, Nvm!update_schedule_cycle,
    Hybrid!Nvm!update_process_cycle, Nvm!update_process_cycle,
    Hybrid!Nvm!Channel!BanksMatchRequests, Nvm!Channel!BanksMatchRequests,
    Hybrid!Nvm!Channel!Matched, Nvm!Channel!Matched,
    Hybrid!Nvm!Channel!ScheduledCounted, Nvm!Channel!ScheduledCounted,
    Hybrid!Nvm!Channel!OneWay, Nvm!Channel!OneWay, Hybrid!Nvm!Channel!Counted,
    Nvm!Channel!Counted, Hybrid!Nvm!Channel!NoDuplicates, Nvm!Channel!NoDuplicates,
    Hybrid!Nvm!Channel!Kind, Nvm!Channel!Kind, Hybrid!Nvm!Channel!Scheduled,
    Nvm!Channel!Scheduled, Hybrid!Nvm!Channel!BankOf, Nvm!Channel!BankOf,
    Hybrid!Nvm!Channel!RowOf, Nvm!Channel!RowOf, Hybrid!Nvm!Channel!Waiting,
    Nvm!Channel!Waiting, Hybrid!Nvm!Channel!Oldest, Nvm!Channel!Oldest,
    Hybrid!Nvm!Channel!NextSchedule, Nvm!Channel!NextSchedule,
    Hybrid!Nvm!Channel!NextProcess, Nvm!Channel!NextProcess,
    Hybrid!Nvm!Channel!Slots, Nvm!Channel!Slots, Hybrid!Nvm!Channel!Size,
    Nvm!Channel!Size, Hybrid!Nvm!Channel!Cardinality, Nvm!Channel!Cardinality
<1> QED BY <1>2, <1>3, NvmBanksAndQueuesAgree, PTL
=============================================================================
