-------------------------------- MODULE Cbp --------------------------------
(***************************************************************************)
(* The CBP prefetcher: Scooby's tracker with the lines themselves for      *)
(* actions.  A state (a hash of the access's features, free here) knows    *)
(* the lines that were demanded while it was among the last HstSize        *)
(* states, and its best line is prefetched; line 0 is "no prefetch".  A    *)
(* tracked line is rewarded when it is demanded, with its place in the     *)
(* queue, or when it falls out.                                            *)
(***************************************************************************)
EXTENDS Integers, FiniteSetsExt, SequencesExt

CONSTANTS Lines,                    \* lines are numbered 1..Lines
          Blocks,                   \* lines in a page
          State,
          PtSize, StSize, HstSize, ActionTrackerSize, PrefDegree,
          TrackMultiple, RewardAll,
          MaxActions                \* bound on the number of actions taken

VARIABLE s

History == INSTANCE PageHistory

NoPrefetch == 0
PageOf(line) == line \div Blocks

NewEntry(line, state, action, id) ==
  [id |-> id, addr |-> line, state |-> state, action |-> action,
   filled |-> FALSE, hit |-> FALSE, reward |-> "unset", depth |-> 0,
   times |-> 0, seen |-> -1]

Init == s = [st |-> <<>>, queue |-> <<>>, evicted |-> <<>>, taught |-> <<>>,
             hst |-> <<>>, known |-> [x \in State |-> {NoPrefetch}],
             actions |-> 0, flying |-> {}]

update_local_state(st, line) == History!update_local_state(st, PageOf(line))

track_in_st(st, page, line) ==
  History!track_in_st(st, page, line % Blocks, line)

search_pt(queue, addr, all) ==
  LET found == {i \in DOMAIN queue : queue[i].addr = addr}
  IN IF all \/ found = {} THEN found ELSE {Min(found)}

assign_reward(e, type, depth) ==
  [e EXCEPT !.reward = type, !.depth = depth, !.times = @ + 1]

reward_demand(queue, addr) ==
  LET found == search_pt(queue, addr, RewardAll)
      due == {i \in found : \A j \in found : j <= i => queue[j].reward = "unset"}
  IN [i \in DOMAIN queue |->
        IF i \in due THEN assign_reward(queue[i], "queue_hit", i - 1) ELSE queue[i]]

reward_evicted(e) ==
  assign_reward(e, IF e.addr = NoPrefetch THEN "none" ELSE "queue_unhit", 0)

(* train, with the engine's updateQ: the action is known to its state from  *)
(* then on.                                                                *)
train(t, successor) ==
  LET e == Head(t.evicted)
      due == IF e.reward = "unset" THEN reward_evicted(e) ELSE e
  IN IF t.evicted = <<>> THEN t
     ELSE [t EXCEPT !.taught = <<due, successor>>,
                    !.known[e.state] = @ \cup {e.action}]

(* insertAction for every state of the history, then the history moves on. *)
Recalled(t, line, state) ==
  LET past == ToSet(t.hst)
      kept == IF Len(t.hst) >= HstSize THEN Tail(t.hst) ELSE t.hst
  IN [t EXCEPT !.known = [x \in State |-> IF x \in past THEN @[x] \cup {line}
                                                        ELSE @[x]],
               !.hst = Append(kept, state)]

tracked(t, addr) == search_pt(t.queue, addr, FALSE) # {}

track(t, addr, line, state, action) ==
  LET r == Recalled(t, line, state)
      victim == Head(r.queue)
      u == IF Len(r.queue) >= PtSize
           THEN [train(r, victim) EXCEPT !.evicted = <<victim>>, !.queue = Tail(@)]
           ELSE r
  IN IF tracked(t, addr) /\ addr # NoPrefetch /\ ~TrackMultiple THEN t
     ELSE [u EXCEPT !.queue = Append(@, NewEntry(addr, state, action, t.actions)),
                    !.actions = @ + 1]

gen_multi_degree_pref(action) ==
  {action + d : d \in {d \in 1..(PrefDegree - 1) : (action % Blocks) + d < Blocks}}

predict(t, line, state, action) ==
  LET u == track(t, action, line, state, action)
      v == track(u, NoPrefetch, line, state, action)
  IN IF action = NoPrefetch THEN track(t, NoPrefetch, line, state, action)
     ELSE IF tracked(t, action)
     THEN [v EXCEPT !.queue[Len(v.queue)] = assign_reward(@, "queue_hit", 0)]
     ELSE [u EXCEPT !.st = track_in_st(@, PageOf(line), action),
                    !.flying = @ \cup {action} \cup gen_multi_degree_pref(action)]

(* The place in the queue at which a line is first demanded. *)
Witnessed(queue, addr) ==
  [i \in DOMAIN queue |-> IF queue[i].addr = addr /\ queue[i].seen = -1
                          THEN [queue[i] EXCEPT !.seen = i - 1] ELSE queue[i]]

(* invoke_prefetcher; chooseAction returns a line the state knows. *)
invoke_prefetcher ==
  \E line \in 1..Lines, state \in State :
    LET rewarded == [s EXCEPT !.queue = Witnessed(reward_demand(@, line), line),
                              !.st = update_local_state(@, line)]
    IN /\ s.actions < MaxActions
       /\ \E action \in s.known[state] : s' = predict(rewarded, line, state, action)

register_fill ==
  \E addr \in s.flying :
    LET found == search_pt(s.queue, addr, RewardAll)
    IN s' = [s EXCEPT !.flying = @ \ {addr},
                      !.queue = [i \in DOMAIN @ |->
                         IF i \in found THEN [@[i] EXCEPT !.filled = TRUE] ELSE @[i]]]

register_prefetch_hit ==
  \E addr \in s.flying :
    LET found == search_pt(s.queue, addr, RewardAll)
    IN s' = [s EXCEPT !.flying = @ \ {addr},
                      !.queue = [i \in DOMAIN @ |->
                         IF i \in found THEN [@[i] EXCEPT !.hit = TRUE] ELSE @[i]]]

Next == invoke_prefetcher \/ register_fill \/ register_prefetch_hit

Spec == Init /\ [][Next]_s

-----------------------------------------------------------------------------
Truthful(e) ==
  CASE e.reward = "queue_hit"   -> e.addr = NoPrefetch \/ e.seen = e.depth
    [] e.reward = "queue_unhit" -> e.seen = -1 /\ e.addr # NoPrefetch
    [] e.reward = "unset"       -> e.seen = -1
    [] OTHER                    -> e.addr = NoPrefetch

(* Every action is learned from once, in the order the actions were taken,  *)
(* after exactly one reward, the one its line earned, and for a state that  *)
(* knows it (the assertions of reward, assign_reward and train in cbp.cc). *)
LearnsFromEachActionOnce ==
  LET waiting == s.evicted \o s.queue
  IN /\ Len(s.queue) <= PtSize
     /\ \A i \in DOMAIN waiting :
          /\ waiting[i].id = s.actions - Len(waiting) + i - 1
          /\ waiting[i].times = IF waiting[i].reward = "unset" THEN 0 ELSE 1
          /\ waiting[i].action \in s.known[waiting[i].state]
          /\ Truthful(waiting[i])
     /\ s.taught # <<>> =>
          /\ s.taught[1].times = 1 /\ Truthful(s.taught[1])
          /\ s.taught[2].id = s.taught[1].id + 1
          /\ s.taught[2] = s.evicted[1]

PagesTrackedOnce == History!Tidy(s.st)
=============================================================================
