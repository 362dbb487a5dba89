--------------------------- MODULE NvmController ---------------------------
(***************************************************************************)
(* NVM_MEMORY_CONTROLLER (src/nvm_controller.cc) is a copy of the DRAM     *)
(* controller: the same text, statement by statement, with the array, the  *)
(* queues and the times of the NVM (inc/nvm_controller.h: an access takes  *)
(* twice as long as in DRAM and is longer than the turn-around of the      *)
(* bus).  So the steps on a channel are those of DramChannel, put together *)
(* here in the order of this file; nothing in main.cc builds one yet.      *)
(***************************************************************************)
EXTENDS Integers, FiniteSets

CONSTANTS
  Addr, NoAddr, Bank, bank_of, row_of, NoRow, RQ_SIZE, WQ_SIZE,   \* as in DramChannel
  tRP, tRCD, tCAS, RETURN_TIME, TURN_AROUND_TIME,
  MaxReads, MaxWrites, MaxIdle, MaxLate, Horizon

VARIABLE s   \* the channel, the cycle and the traffic to come

Channel == INSTANCE DramChannel WITH ch <- s.ch, now <- s.now, budget <- s.budget

Init ==
  s = [ch |-> Channel!Start, now |-> 0,
       budget |-> [reads |-> MaxReads, writes |-> MaxWrites, idle |-> MaxIdle]]

check_nvm_queue(q, a) == Channel!Found(q, a)
update_schedule_cycle(q) == Channel!NextSchedule(q)
update_process_cycle(q) == Channel!NextProcess(q)
get_occupancy(c, k) == Cardinality(Channel!Waiting(c.queue[k]))
get_size(k) == Channel!Size(k)

(* A request takes the first empty entry, unless its address is queued.    *)
AddedStale(c, k, a) ==   \* mutant: update_schedule_cycle is not called
  LET free == {i \in DOMAIN c.queue[k] : c.queue[k][i].addr = NoAddr}
      slot == CHOOSE i \in free : \A j \in free : i <= j
  IN  IF check_nvm_queue(c.queue[k], a) THEN c
      ELSE [c EXCEPT !.queue[k][slot] = [addr |-> a, event |-> s.now, scheduled |-> FALSE]]
Added(c, k, a) ==
  LET free == {i \in DOMAIN c.queue[k] : c.queue[k][i].addr = NoAddr}
      slot == CHOOSE i \in free : \A j \in free : i <= j
      q2 == [c.queue[k] EXCEPT ![slot] = [addr |-> a, event |-> s.now, scheduled |-> FALSE]]
  IN  IF check_nvm_queue(c.queue[k], a) THEN c
      ELSE [c EXCEPT !.queue[k] = q2, !.next[k].schedule = update_schedule_cycle(q2)]

reset_remain_requests(c, k) == Channel!Reset(c, k)
schedule(c, k) == Channel!Schedule(c, k)
process(c, k) == Channel!Process(c, k)

(* The mode changes, then one schedule and one process of its direction.   *)
Switched(c) ==
  LET m == Channel!NextMode(c) IN
  IF m = c.mode THEN c
  ELSE [reset_remain_requests(c, c.mode) EXCEPT !.mode = m, !.dbus = @ + TURN_AROUND_TIME]

Due(c, k, i) == i # 0 /\ c.queue[k][i].event <= s.now

operated(c) ==
  LET c1 == Switched(c)  k == c1.mode
      c2 == IF Due(c1, k, c1.next[k].schedule) THEN schedule(c1, k) ELSE c1
  IN  IF Due(c2, k, c2.next[k].process) THEN process(c2, k) ELSE c2

add_rq(a) ==
  /\ s.budget.reads > 0 /\ get_occupancy(s.ch, "read") # get_size("read")
  /\ s' = [s EXCEPT !.budget.reads = @ - 1,
                    !.ch = IF check_nvm_queue(@.queue["write"], a) THEN @ ELSE Added(@, "read", a)]

add_wq(a) ==
  /\ s.budget.writes > 0 /\ get_occupancy(s.ch, "write") # get_size("write")
  /\ s' = [s EXCEPT !.budget.writes = @ - 1, !.ch = Added(@, "write", a)]

Pending == \E k \in Channel!Kind : get_occupancy(s.ch, k) # 0

operate ==
  /\ (Pending \/ s.budget.idle > 0) /\ s.now < Horizon
  /\ s' = [ch |-> operated(s.ch), now |-> s.now + 1,
           budget |-> IF Pending THEN s.budget ELSE [s.budget EXCEPT !.idle = @ - 1]]

Next == operate \/ \E a \in Addr : add_rq(a) \/ add_wq(a)
Spec == Init /\ [][Next]_s

(* With these times too, banks and scheduled requests point to each other, *)
(* the counters are right, no direction keeps what it scheduled when the   *)
(* bus turns, and the cached choices are what a new search would give      *)
(* (the asserts of process and reset_remain_requests).                     *)
BanksAndQueuesAgree ==
  /\ Channel!BanksMatchRequests /\ Channel!ScheduledCounted /\ Channel!NoDuplicates
  /\ \A k \in Channel!Kind :
       s.ch.next[k] = [schedule |-> update_schedule_cycle(s.ch.queue[k]),
                       process |-> update_process_cycle(s.ch.queue[k])]
=============================================================================
