-------------------------- MODULE HybridController -------------------------
(***************************************************************************)
(* HYBRID_MEMORY_CONTROLLER (src/hybrid_memory_controller.cc) is a copy of *)
(* the NVM controller under names of its own (HMM_NVM_...): its header     *)
(* takes in the DRAM and the NVM controller and a predictor, but the class *)
(* uses none of them yet.  Each operation is the one it was copied from.   *)
(***************************************************************************)
EXTENDS Integers, FiniteSets

CONSTANTS
  Addr, NoAddr, Bank, bank_of, row_of, NoRow, RQ_SIZE, WQ_SIZE,   \* as in DramChannel
  tRP, tRCD, tCAS, RETURN_TIME, TURN_AROUND_TIME,
  MaxReads, MaxWrites, MaxIdle, MaxLate, Horizon

VARIABLE s

Nvm == INSTANCE NvmController

Init == Nvm!Init
reset_remain_requests(c, k) == Nvm!reset_remain_requests(c, k)
schedule(c, k) == Nvm!schedule(c, k)
process(c, k) == Nvm!process(c, k)
operate == Nvm!operate
add_rq(a) == Nvm!add_rq(a)
add_wq(a) == Nvm!add_wq(a)
update_schedule_cycle(q) == Nvm!update_schedule_cycle(q)
update_process_cycle(q) == Nvm!update_process_cycle(q)
check_nvm_queue(q, a) == Nvm!check_nvm_queue(q, a)
get_size(k) == Nvm!get_size(k)

Next == operate \/ \E a \in Addr : add_rq(a) \/ add_wq(a)
Spec == Init /\ [][Next]_s

(* What holds of the controller it is copied from.                         *)
BanksAndQueuesAgree == Nvm!BanksAndQueuesAgree
=============================================================================
