-------------------------------- MODULE Rlp --------------------------------
(***************************************************************************)
(* The RLP prefetcher: a regular engine that prefetches offsets and an     *)
(* irregular one that prefetches lines it saw follow a state, taking turns *)
(* at random and sharing one prefetch queue.  Both predict on every access;*)
(* the one whose turn it is tracks its action and issues it.  The engines' *)
(* choices are free among what they know.  The knobs that reward a queue   *)
(* hit or an action out of the page are off, as they are by default.       *)
(* Neither engine is ever taught: rp_track hands what it evicts to ir_train *)
(* (rlp.cc:894), the irregular engine's, and rp_train, the only function   *)
(* that teaches the regular engine, has no caller.  `handed' records the    *)
(* arguments of the last ir_train; no guard reads it.                      *)
(***************************************************************************)
EXTENDS Integers, FiniteSetsExt, SequencesExt

CONSTANTS Pages, Blocks,            \* pages 1..Pages of Blocks lines
          State,                    \* hashed states of the irregular engine
          Actions,                  \* offsets of the regular engine; 0 is none
          QueueSize, StSize, HsqSize, ActionTrackerSize,
          IrSets, IrWay,            \* the irregular engine's table
          IrDegree, Thresholds, Degrees,
          TrackMultiple, RewardAll,
          MaxActions                \* bound on the number of entries

VARIABLE s

History == INSTANCE PageHistory

NoPrefetch == 0
Line(page, block) == page * Blocks + block
InPage(block) == block >= 0 /\ block < Blocks

NewEntry(addr, state, action, ir, id) ==
  [id |-> id, addr |-> addr, state |-> state, action |-> action, ir |-> ir,
   filled |-> FALSE, hit |-> FALSE, reward |-> "unset", times |-> 0,
   seen |-> "unseen"]

Init == s = [st |-> <<>>, queue |-> <<>>, hsq |-> <<>>,
             table |-> [x \in State |-> [w \in 0..(IrSets - 1) |-> <<>>]],
             irEvicted |-> <<>>, rpEvicted |-> <<>>, handed |-> <<>>,
             actions |-> 0, flying |-> {}]

update_local_state(st, page) == History!update_local_state(st, page)

track_in_st(st, page, block, action) == History!track_in_st(st, page, block, action)

rp_get_dyn_pref_degree(st, page, action) ==
  History!get_dyn_pref_degree(st, page, action, Thresholds, Degrees)

Searched(found, all) == IF all \/ found = {} THEN found ELSE {Min(found)}

search_pq(queue, addr, all) ==
  Searched({i \in DOMAIN queue : queue[i].addr = addr}, all)

ir_search_pq(queue, addr) ==
  Searched({i \in DOMAIN queue : queue[i].addr = addr /\ queue[i].ir}, FALSE)

rp_search_pq(queue, addr) ==
  Searched({i \in DOMAIN queue : queue[i].addr = addr /\ ~queue[i].ir}, FALSE)

assign_reward(e, type) == [e EXCEPT !.reward = type, !.times = @ + 1]

reward_demand(queue, addr) ==
  LET found == search_pq(queue, addr, RewardAll)
      due == {i \in found : \A j \in found : j <= i => queue[j].reward = "unset"}
      Type(e) == IF e.filled THEN "correct_timely" ELSE "correct_untimely"
  IN [i \in DOMAIN queue |->
        IF i \in due THEN assign_reward(queue[i], Type(queue[i])) ELSE queue[i]]

reward_evicted(e) ==
  assign_reward(e, IF e.addr = NoPrefetch THEN "none" ELSE "incorrect")

(* updateQ of the irregular engine: a known action becomes the set's        *)
(* youngest, an unknown one is not entered.                                *)
updateQ(set, action) ==
  IF action \in ToSet(set)
  THEN Append(SelectSeq(set, LAMBDA a : a # action), action) ELSE set

(* insertAction: a new action takes the place of the set's oldest. *)
insertAction(set, action) ==
  IF action = NoPrefetch \/ action \in ToSet(set) THEN set
  ELSE Append(IF Len(set) >= IrWay THEN Tail(set) ELSE set, action)

(* ir_train: rewards the entry evicted before this one if nobody did, and   *)
(* hands it to the irregular engine's learn with its successor.  From       *)
(* RpEvict the entries are the regular engine's, and updateQ drops them.   *)
ir_train(t, last, successor) ==
  LET due == IF last.reward = "unset" THEN reward_evicted(last) ELSE last
  IN [t EXCEPT !.handed = <<due, successor>>,
               !.table[last.state][last.action % IrSets] = updateQ(@, last.action)]

(* track_in_hsq: every state of the history learns the line demanded now. *)
track_in_hsq(t, line, state) ==
  LET past == ToSet(t.hsq)
      kept == IF Len(t.hsq) >= HsqSize THEN Tail(t.hsq) ELSE t.hsq
  IN [t EXCEPT !.hsq = Append(kept, state),
               !.table = [x \in State |->
                  IF x \in past
                  THEN [@[x] EXCEPT ![line % IrSets] = insertAction(@, line)]
                  ELSE @[x]]]

Queued(t, e) == [t EXCEPT !.queue = Append(@, e), !.actions = @ + 1]

IrEvict(t) ==
  LET victim == Head(t.queue)
      u == IF t.irEvicted = <<>> THEN t ELSE ir_train(t, Head(t.irEvicted), victim)
  IN IF Len(t.queue) < QueueSize THEN t
     ELSE [u EXCEPT !.irEvicted = <<victim>>, !.queue = Tail(@)]

(* RpEvict without the update of rp_last_evicted_tracker. *)
RpEvictKeepsLast(t) ==
  LET victim == Head(t.queue)
      u == IF t.rpEvicted = <<>> THEN t ELSE ir_train(t, Head(t.rpEvicted), victim)
      last == IF t.rpEvicted = <<>> THEN <<victim>> ELSE t.rpEvicted
  IN IF Len(t.queue) < QueueSize THEN t
     ELSE [u EXCEPT !.rpEvicted = last, !.queue = Tail(@)]

(* The call is ir_train for the regular engine's entries too.              *)
RpEvict(t) ==
  LET victim == Head(t.queue)
      u == IF t.rpEvicted = <<>> THEN t ELSE ir_train(t, Head(t.rpEvicted), victim)
  IN IF Len(t.queue) < QueueSize THEN t
     ELSE [u EXCEPT !.rpEvicted = <<victim>>, !.queue = Tail(@)]

(* What ir_track would be if "no prefetch" were tracked like any action. *)
IrTrackAll(t, addr, line, state, prefetch) ==
  LET u == track_in_hsq(t, line, state)
  IN IF ir_search_pq(t.queue, addr) # {} /\ addr # NoPrefetch /\ ~TrackMultiple THEN t
     ELSE IF ~prefetch THEN u
     ELSE Queued(IrEvict(u), NewEntry(addr, state, addr, TRUE, t.actions))

ir_track(t, addr, line, state, prefetch) ==
  LET u == track_in_hsq(t, line, state)
  IN IF addr = NoPrefetch THEN t
     ELSE IF ir_search_pq(t.queue, addr) # {} /\ ~TrackMultiple THEN t
     ELSE IF ~prefetch THEN u
     ELSE Queued(IrEvict(u), NewEntry(addr, state, addr, TRUE, t.actions))

rp_track(t, addr, state, action, prefetch) ==
  IF rp_search_pq(t.queue, addr) # {} /\ addr # NoPrefetch /\ ~TrackMultiple THEN t
  ELSE IF ~prefetch THEN t
  ELSE Queued(RpEvict(t), NewEntry(addr, state, action, FALSE, t.actions))

ir_gen_multi_degree_pref(action) ==
  {action + d : d \in {d \in 1..(IrDegree - 1) : InPage((action % Blocks) + d)}}

rp_gen_multi_degree_pref(page, block, action, degree) ==
  {Line(page, block + d * action) : d \in {d \in 2..degree : InPage(block + d * action)}}

(* getMaxAction: a line of the state's row with more than the first slot's  *)
(* value, or the 0 it starts from.                                         *)
Chosen(t, state) == {NoPrefetch} \cup UNION {ToSet(t.table[state][w]) : w \in 0..(IrSets - 1)}

ir_predict(t, line, state, action, prefetch) ==
  LET u == ir_track(t, action, line, state, prefetch)
      new == action # NoPrefetch /\ ir_search_pq(t.queue, action) = {}
  IN IF new /\ prefetch
     THEN [u EXCEPT !.flying = @ \cup {action} \cup ir_gen_multi_degree_pref(action)]
     ELSE u

rp_predict(t, page, block, state, action, prefetch) ==
  LET target == block + action
      addr == Line(page, target)
      degree == rp_get_dyn_pref_degree(t.st, page, action)
      u == rp_track(t, addr, state, action, prefetch)
      v == [u EXCEPT !.st = track_in_st(@, page, target, action)]
  IN IF action = 0 THEN rp_track(t, NoPrefetch, state, action, prefetch)
     ELSE IF ~InPage(target) THEN t
     ELSE IF rp_search_pq(t.queue, addr) # {} THEN u
     ELSE IF ~prefetch THEN v
     ELSE [v EXCEPT !.flying = @ \cup {addr}
                     \cup rp_gen_multi_degree_pref(page, block, action, degree)]

Witnessed(queue, addr) ==
  [i \in DOMAIN queue |->
     IF queue[i].addr = addr /\ queue[i].seen = "unseen"
     THEN [queue[i] EXCEPT !.seen = IF queue[i].filled THEN "timely" ELSE "late"]
     ELSE queue[i]]

(* predict: the irregular engine, then the regular one; `turn` is the coin. *)
predict(t, page, block, state, rp, turn) ==
  {rp_predict(ir_predict(t, Line(page, block), state, ir, turn),
              page, block, state, rp, ~turn) : ir \in Chosen(t, state)}

invoke_prefetcher ==
  \E page \in 1..Pages, block \in 0..(Blocks - 1), state \in State,
     rp \in Actions, turn \in BOOLEAN :
    LET line == Line(page, block)
        rewarded == [s EXCEPT !.queue = Witnessed(reward_demand(@, line), line),
                              !.st = update_local_state(@, page)]
    IN /\ s.actions < MaxActions
       /\ s' \in predict(rewarded, page, block, state, rp, turn)

register_fill ==
  \E addr \in s.flying :
    LET found == search_pq(s.queue, addr, RewardAll)
    IN s' = [s EXCEPT !.flying = @ \ {addr},
                      !.queue = [i \in DOMAIN @ |->
                         IF i \in found THEN [@[i] EXCEPT !.filled = TRUE] ELSE @[i]]]

register_prefetch_hit ==
  \E addr \in s.flying :
    LET found == search_pq(s.queue, addr, RewardAll)
    IN s' = [s EXCEPT !.flying = @ \ {addr},
                      !.queue = [i \in DOMAIN @ |->
                         IF i \in found THEN [@[i] EXCEPT !.hit = TRUE] ELSE @[i]]]

Next == invoke_prefetcher \/ register_fill \/ register_prefetch_hit

Spec == Init /\ [][Next]_s

-----------------------------------------------------------------------------
Truthful(e) ==
  CASE e.reward = "correct_timely"   -> e.seen = "timely"
    [] e.reward = "correct_untimely" -> e.seen = "late"
    [] e.reward = "incorrect"        -> e.seen = "unseen" /\ e.addr # NoPrefetch
    [] e.reward = "unset"            -> e.seen = "unseen"
    [] OTHER                         -> e.addr = NoPrefetch

(* Each action of the regular engine is handed over once, in the order the  *)
(* actions were taken, after exactly one reward, the one its line earned -  *)
(* to ir_train (rlp.cc:894), not to rp_train: it is the regular engine's,   *)
(* and the irregular engine keeps nothing of it (IrregularEngineSilent).   *)
HandedOverOnce ==
  LET waiting == s.rpEvicted \o s.queue
  IN /\ Len(s.queue) <= QueueSize
     /\ \A i \in DOMAIN waiting :
          /\ waiting[i].id = s.actions - Len(waiting) + i - 1
          /\ waiting[i].times = IF waiting[i].reward = "unset" THEN 0 ELSE 1
          /\ Truthful(waiting[i])
     /\ s.handed # <<>> =>
          /\ s.handed[1].times = 1 /\ Truthful(s.handed[1])
          /\ s.handed[2].id = s.handed[1].id + 1
          /\ s.handed[2] = s.rpEvicted[1]
          /\ ~s.handed[1].ir /\ ~s.handed[2].ir

(* The irregular engine stays out: it learns lines only after it has        *)
(* prefetched one, and it prefetches only lines it has learned, so its      *)
(* table and its history stay empty (the early return of ir_track).        *)
IrregularEngineSilent ==
  /\ s.hsq = <<>> /\ s.irEvicted = <<>>
  /\ \A x \in State, w \in 0..(IrSets - 1) : s.table[x][w] = <<>>
  /\ \A i \in DOMAIN s.queue : ~s.queue[i].ir

PagesTrackedOnce == History!Tidy(s.st)
=============================================================================
