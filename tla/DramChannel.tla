---------------------------- MODULE DramChannel ----------------------------
(***************************************************************************)
(* One channel of MEMORY_CONTROLLER (src/dram_controller.cc): a read and a *)
(* write queue in front of banks that share a data bus.  In every cycle    *)
(* operate() may switch between reading and writing, which takes back what *)
(* the banks had begun, then schedules one request on an idle bank and     *)
(* lets one scheduled request transfer its block.                          *)
(*                                                                         *)
(* The channel is one record, so that the steps of operate() compose as    *)
(* functions on it.  Ranks are folded into banks; the statistics, the      *)
(* packet payload and the warm-up phase (the memory answers at once) are   *)
(* left out.  Time is the core cycle; it stops when nothing is pending and *)
(* the idle cycles of the run are used up, or at the Horizon, by which the *)
(* runs have served all there is.                                          *)
(***************************************************************************)
EXTENDS Integers, FiniteSets

CONSTANTS
  Addr, NoAddr,          \* block addresses; address 0 is an empty entry
  Bank, bank_of, row_of, \* dram_get_bank, dram_get_row
  NoRow,                 \* UINT32_MAX: no row is open
  RQ_SIZE, WQ_SIZE,
  tRP, tRCD, tCAS,       \* precharge, activate, column access
  RETURN_TIME,           \* DRAM_DBUS_RETURN_TIME
  TURN_AROUND_TIME,      \* DRAM_DBUS_TURN_AROUND_TIME
  MaxReads, MaxWrites, MaxIdle,  \* bounds on what the LLC asks for and on idle time
  MaxLate,               \* bound on how long a read has waited in the LLC
  Horizon                \* bound on time

VARIABLES
  ch,      \* the channel
  now,     \* current_core_cycle
  budget   \* reads, writes and idle cycles still to come

vars == <<ch, now, budget>>

ASSUME SizesAssumption == RQ_SIZE \in Nat \ {0} /\ WQ_SIZE \in Nat \ {0}
ASSUME TimesAssumption ==
  /\ tRP \in Nat /\ tRCD \in Nat /\ tCAS \in Nat \ {0}
  /\ RETURN_TIME \in Nat \ {0} /\ TURN_AROUND_TIME \in Nat
ASSUME GeometryAssumption ==
  /\ NoAddr \notin Addr
  /\ bank_of \in [Addr -> Bank]
  /\ IsFiniteSet(Bank)
ASSUME BoundsAssumption == MaxReads \in Nat /\ MaxWrites \in Nat /\ MaxIdle \in Nat /\ MaxLate \in Nat /\ Horizon \in Nat

Kind == {"read", "write"}
Size(k) == IF k = "read" THEN RQ_SIZE ELSE WQ_SIZE
Slots(k) == 1 .. Size(k)

HIGH_WM == (WQ_SIZE * 7) \div 8
LOW_WM == (WQ_SIZE * 3) \div 4

EmptyEntry == [addr |-> NoAddr, event |-> 0, scheduled |-> FALSE]
IdleBank == [kind |-> "none", index |-> 0, avail |-> 0, open |-> NoRow]

(* open_row starts as UINT32_MAX and every cycle count as 0. *)
Start ==
  [queue |-> [k \in Kind |-> [i \in Slots(k) |-> EmptyEntry]],
   bank  |-> [b \in Bank |-> IdleBank],
   mode  |-> "read",                          \* write_mode
   dbus  |-> 0,                               \* dbus_cycle_available
   count |-> [k \in Kind |-> 0],              \* scheduled_reads, scheduled_writes
   next  |-> [k \in Kind |-> [schedule |-> 0, process |-> 0]],  \* next_*_index, 0 for none
   burst |-> [kind |-> "none", end |-> 0]]    \* history: the last transfer on the bus

Init ==
  /\ ch = Start
  /\ now = 0
  /\ budget = [reads |-> MaxReads, writes |-> MaxWrites, idle |-> MaxIdle]

-----------------------------------------------------------------------------
Waiting(q) == {i \in DOMAIN q : q[i].addr # NoAddr}
Addrs(q) == {q[i].addr : i \in Waiting(q)}

(* check_dram_queue: is the address in the queue? *)
FoundPastFirst(q, a) ==   \* mutant: the search begins one entry late
  \E i \in DOMAIN q : i > 1 /\ q[i].addr = a
Found(q, a) == \E i \in DOMAIN q : q[i].addr = a

(* The first entry of S with the smallest event_cycle, 0 if S is empty. *)
Oldest(q, S) ==
  IF S = {} THEN 0
  ELSE CHOOSE i \in S : \A j \in S :
         q[i].event < q[j].event \/ (q[i].event = q[j].event /\ i <= j)

(* update_schedule_cycle, update_process_cycle. *)
NextSchedule(q) == Oldest(q, {i \in Waiting(q) : ~q[i].scheduled})
NextProcess(q) == Oldest(q, {i \in DOMAIN q : q[i].scheduled})

Scheduled(s, k) == {i \in Slots(k) : s.queue[k][i].scheduled}
BankOf(s, k, i) == bank_of[s.queue[k][i].addr]
RowOf(s, k, i) == row_of[s.queue[k][i].addr]

(* add_rq and add_wq: an address already queued is merged; a new one takes *)
(* the first empty entry.                                                  *)
EnqueueStale(s, k, a, t) ==   \* mutant: no update_schedule_cycle
  LET q == s.queue[k]
      free == {i \in DOMAIN q : q[i].addr = NoAddr}
      slot == CHOOSE i \in free : \A j \in free : i <= j
  IN  IF Found(q, a) \/ free = {} THEN s
      ELSE [s EXCEPT !.queue[k][slot] = [addr |-> a, event |-> t, scheduled |-> FALSE]]
Enqueue(s, k, a, t) ==
  LET q == s.queue[k]
      free == {i \in DOMAIN q : q[i].addr = NoAddr}
      slot == CHOOSE i \in free : \A j \in free : i <= j
      q2 == [q EXCEPT ![slot] = [addr |-> a, event |-> t, scheduled |-> FALSE]]
  IN  IF Found(q, a) \/ free = {} THEN s
      ELSE [s EXCEPT !.queue[k] = q2, !.next[k].schedule = NextSchedule(q2)]

-----------------------------------------------------------------------------
(* The steps of operate(). *)

(* The counters after giving back the requests of banks B. *)
ReleasedBoth(s, B) == [h \in Kind |-> s.count[h] - Cardinality(B)]   \* mutant
ReleasedNone(s, B) == s.count   \* mutant
Released(s, B) == [h \in Kind |-> s.count[h] - Cardinality({b \in B : s.bank[b].kind = h})]

(* reset_remain_requests: what kind k had scheduled goes back to waiting   *)
(* and its banks are idle; a row whose activation is over stays open.      *)
Reset(s, k) ==
  LET taken == Scheduled(s, k)
      banks == {BankOf(s, k, i) : i \in taken}
      q2 == [i \in Slots(k) |->
               IF i \in taken THEN [s.queue[k][i] EXCEPT !.scheduled = FALSE, !.event = now]
               ELSE s.queue[k][i]]
      j == IF k = "read" THEN "write" ELSE "read"
  IN  [s EXCEPT
        !.queue[k] = q2,
        !.bank = [b \in Bank |->
          IF b \notin banks THEN @[b]
          ELSE [kind |-> "none", index |-> 0, avail |-> now,
                open |-> IF @[b].avail - tCAS <= now THEN RowOf(s, k, @[b].index) ELSE NoRow]],
        !.count = Released(s, banks),
        !.next = [h \in Kind |-> [schedule |-> NextSchedule(IF h = k THEN q2 ELSE s.queue[j]),
                                  process |-> NextProcess(IF h = k THEN q2 ELSE s.queue[j])]]]

(* The mode that the occupancies call for. *)
NextModeThrash(s) ==   \* mutant: leaves write mode without a read to serve
  LET r == Cardinality(Waiting(s.queue["read"]))
      w == Cardinality(Waiting(s.queue["write"]))
  IN  IF s.mode = "read"
      THEN IF w >= HIGH_WM \/ (r = 0 /\ w > 0) THEN "write" ELSE "read"
      ELSE IF w < LOW_WM THEN "read" ELSE "write"
NextMode(s) ==
  LET r == Cardinality(Waiting(s.queue["read"]))
      w == Cardinality(Waiting(s.queue["write"]))
  IN  IF s.mode = "read"
      THEN IF w >= HIGH_WM \/ (r = 0 /\ w > 0) THEN "write" ELSE "read"
      ELSE IF w = 0 \/ (r > 0 /\ w < LOW_WM) THEN "read" ELSE "write"

SwitchAtOnce(s) ==   \* mutant: no turn-around time
  IF NextMode(s) = s.mode THEN s ELSE [Reset(s, s.mode) EXCEPT !.mode = NextMode(s)]
Switch(s) ==
  IF NextMode(s) = s.mode THEN s
  ELSE [Reset(s, s.mode) EXCEPT !.mode = NextMode(s), !.dbus = @ + TURN_AROUND_TIME]

ReadyOnBusy(s, k) == {i \in Waiting(s.queue[k]) : ~s.queue[k][i].scheduled}   \* mutant
Ready(s, k) ==
  {i \in Waiting(s.queue[k]) : ~s.queue[k][i].scheduled /\ s.bank[BankOf(s, k, i)].kind = "none"}

(* schedule: the oldest request to an idle bank with its row open, else    *)
(* the oldest to an idle bank.                                             *)
Schedule(s, k) ==
  LET q == s.queue[k]
      ready == Ready(s, k)
      hits == {i \in ready : s.bank[BankOf(s, k, i)].open = RowOf(s, k, i)}
      i == Oldest(q, IF hits # {} THEN hits ELSE ready)
      done == now + (IF hits # {} THEN tCAS ELSE tRP + tRCD + tCAS)
      q2 == [q EXCEPT ![i].scheduled = TRUE, ![i].event = done]
  IN  IF ready = {} THEN s
      ELSE [s EXCEPT
             !.queue[k] = q2,
             !.bank[BankOf(s, k, i)] = [kind |-> k, index |-> i, avail |-> done, open |-> RowOf(s, k, i)],
             !.count[k] = @ + 1,
             !.next[k] = [schedule |-> NextSchedule(q2), process |-> NextProcess(q2)]]

(* process: the scheduled request with the earliest event_cycle transfers  *)
(* its block once its bank and the bus are free.                           *)
Process(s, k) ==
  LET i == s.next[k].process
      b == BankOf(s, k, i)
      q2 == [s.queue[k] EXCEPT ![i] = EmptyEntry]
  IN  IF s.bank[b].avail > now THEN s
      ELSE IF s.dbus > now THEN [s EXCEPT !.bank[b].avail = s.dbus]
      ELSE [s EXCEPT
             !.queue[k] = q2,
             !.bank[b].kind = "none", !.bank[b].index = 0,
             !.dbus = now + RETURN_TIME,
             !.count[k] = @ - 1,
             !.next[k].process = NextProcess(q2),
             !.burst = [kind |-> k, end |-> now + RETURN_TIME]]

MaybeSchedule(s, k) ==
  LET i == s.next[k].schedule
  IN  IF i # 0 /\ s.queue[k][i].event <= now THEN Schedule(s, k) ELSE s

MaybeProcess(s, k) ==
  LET i == s.next[k].process
  IN  IF i # 0 /\ s.queue[k][i].event <= now THEN Process(s, k) ELSE s

Operated(s) ==
  LET s1 == Switch(s)
      s2 == MaybeSchedule(s1, s1.mode)
  IN  MaybeProcess(s2, s2.mode)

-----------------------------------------------------------------------------
(* The LLC looks for room before either call (get_occupancy, get_size).    *)
add_rq(a) ==
  /\ budget.reads > 0
  /\ Cardinality(Waiting(ch.queue["read"])) # RQ_SIZE
  /\ \E t \in {u \in 0 .. now : now - u <= MaxLate} :   \* event_cycle, from the LLC
       ch' = IF Found(ch.queue["write"], a) THEN ch ELSE Enqueue(ch, "read", a, t)
  /\ budget' = [budget EXCEPT !.reads = @ - 1]
  /\ UNCHANGED now

add_wq(a) ==
  /\ budget.writes > 0
  /\ Cardinality(Waiting(ch.queue["write"])) # WQ_SIZE
  /\ ch' = Enqueue(ch, "write", a, now)
  /\ budget' = [budget EXCEPT !.writes = @ - 1]
  /\ UNCHANGED now

Pending == \E k \in Kind : Waiting(ch.queue[k]) # {}

Tick == (Pending \/ budget.idle > 0) /\ now < Horizon /\ now' = now + 1

operate ==
  /\ Tick
  /\ ch' = Operated(ch)
  /\ budget' = IF Pending THEN budget ELSE [budget EXCEPT !.idle = @ - 1]

Next ==
  \/ \E a \in Addr : add_rq(a) \/ add_wq(a)
  \/ operate

Spec == Init /\ [][Next]_vars

(* main counts the cycles on and calls operate in each. *)
FairSpec == Spec /\ WF_now(Tick)
-----------------------------------------------------------------------------
(* Properties. *)

Entry == [addr : Addr \cup {NoAddr}, event : Nat, scheduled : BOOLEAN]
BankState == [kind : Kind \cup {"none"}, index : Nat, avail : Nat, open : {row_of[a] : a \in Addr} \cup {NoRow}]

Channel(s) ==
  /\ s = [queue |-> s.queue, bank |-> s.bank, mode |-> s.mode, dbus |-> s.dbus,
          count |-> s.count, next |-> s.next, burst |-> s.burst]
  /\ DOMAIN s.queue = Kind
  /\ \A k \in Kind : s.queue[k] \in [Slots(k) -> Entry]
  /\ s.bank \in [Bank -> BankState]
  /\ s.mode \in Kind
  /\ s.dbus \in Nat
  /\ s.count \in [Kind -> Nat]
  /\ s.next \in [Kind -> [schedule : Nat, process : Nat]]
  /\ s.burst \in [kind : Kind \cup {"none"}, end : Nat]

(* Types: the two counters of scheduled requests never wrap below zero. *)
TypeOK ==
  /\ Channel(ch)
  /\ now \in Nat
  /\ budget \in [reads : 0 .. MaxReads, writes : 0 .. MaxWrites, idle : 0 .. MaxIdle]

(* Every scheduled request owns its bank and every working bank serves the *)
(* scheduled request it points to: what process() asserts of the request   *)
(* it is about to finish (src/dram_controller.cc:312), across the resets   *)
(* at a mode switch.                                                       *)
Matched(s) ==
  \A k \in Kind :
    /\ \A i \in Scheduled(s, k) :
         /\ s.queue[k][i].addr # NoAddr
         /\ s.bank[BankOf(s, k, i)].kind = k
         /\ s.bank[BankOf(s, k, i)].index = i
    /\ \A b \in Bank : s.bank[b].kind = k =>
         s.bank[b].index \in Scheduled(s, k) /\ BankOf(s, k, s.bank[b].index) = b

BanksMatchRequests == Matched(ch)

(* Nothing of the other direction is left scheduled, and the two counters  *)
(* equal the number of scheduled requests: so the asserts after a reset    *)
(* (src/dram_controller.cc:75) hold, and reads and writes never share the  *)
(* banks.                                                                  *)
OneWay(s) == \A k \in Kind \ {s.mode} : Scheduled(s, k) = {}
Counted(s) == \A k \in Kind : s.count[k] = Cardinality(Scheduled(s, k))

ScheduledCounted == OneWay(ch) /\ Counted(ch)

(* The cached next_schedule_index and next_process_index are what a fresh  *)
(* search would give: no path that changes an entry forgets to update them.*)
Fresh(s) ==
  \A k \in Kind :
    /\ s.next[k].schedule = NextSchedule(s.queue[k])
    /\ s.next[k].process = NextProcess(s.queue[k])

NextIsFresh == Fresh(ch)

(* No address waits twice in a queue: one answer per read. *)
NoDuplicates ==
  \A k \in Kind : \A i, j \in Waiting(ch.queue[k]) :
    ch.queue[k][i].addr = ch.queue[k][j].addr => i = j

(* The turn-around penalties of mode switches that transfer nothing do not *)
(* add up: at most four pass between two transfers, after the last write   *)
(* to reading, to writing when one comes, to reading when a read comes,    *)
(* and at the high mark to writing.                                        *)
BusDelayBounded == ch.dbus - now <= RETURN_TIME + 4 * TURN_AROUND_TIME

(* "the data bus must wait this amount of time when switching between      *)
(* reads and writes" (inc/dram_controller.h:15), counted from the end of   *)
(* the last transfer, however many switches and aborted requests lie       *)
(* between, and even if a column access is shorter than the turn-around.   *)
BusTurnsAround ==
  [][ch'.burst # ch.burst /\ ch.burst.kind # "none" =>
       ch'.burst.end - RETURN_TIME >=
         ch.burst.end + (IF ch'.burst.kind = ch.burst.kind THEN 0 ELSE TURN_AROUND_TIME)]_vars

(* The channel is what the LLC takes it for. *)
Memory == INSTANCE MemoryChannel WITH
  reads <- Addrs(ch.queue["read"]), writes <- Addrs(ch.queue["write"]),
  ReadLimit <- RQ_SIZE, WriteLimit <- WQ_SIZE

ImplementsMemory == Memory!Spec

(* Every request is served, whatever switches abort it: no starvation once *)
(* the LLC stops asking, which it does when its own misses wait.           *)
EventuallyServed ==
  \A k \in Kind, a \in Addr : a \in Addrs(ch.queue[k]) ~> a \notin Addrs(ch.queue[k])
=============================================================================
