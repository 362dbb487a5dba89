------------------------------- MODULE Scooby -------------------------------
(***************************************************************************)
(* The Scooby (Pythia) prefetcher: every access takes an action (an offset *)
(* to prefetch, or 0 for none), a tracker keeps the actions taken until    *)
(* their lines were demanded or they fall out, and the engine learns from  *)
(* each action once it and its successor have left the tracker (SARSA).    *)
(* The engine's choice is free.  An entry also carries `id`, `times` and   *)
(* `seen`, which record its number, how often it was rewarded and when its *)
(* line was first demanded.                                                *)
(***************************************************************************)
EXTENDS Integers, FiniteSetsExt, SequencesExt

CONSTANTS Page, Blocks,             \* pages, and blocks in a page
          Actions,                  \* offsets; 0 is "no prefetch"
          PtSize, StSize, ActionTrackerSize,
          Thresholds, Degrees,      \* confidence thresholds and degrees
          TrackMultiple, RewardAll, RewardOutOfBounds, RewardTrackerHit,
          MaxActions                \* bound on the number of actions taken

VARIABLE s

History == INSTANCE PageHistory

NoPrefetch == <<>>                  \* the address 0xdeadbeef
InPage(block) == block >= 0 /\ block < Blocks

NewEntry(addr, id) ==
  [id |-> id, addr |-> addr, filled |-> FALSE, hit |-> FALSE,
   reward |-> "unset", times |-> 0, seen |-> "unseen"]

Init == s = [st |-> <<>>, tracker |-> <<>>, evicted |-> <<>>, taught |-> <<>>,
             actions |-> 0, flying |-> {}]

search_pt(tracker, addr, all) ==
  LET found == {i \in DOMAIN tracker : tracker[i].addr = addr}
  IN IF all \/ found = {} THEN found ELSE {Min(found)}

assign_reward(e, type) == [e EXCEPT !.reward = type, !.times = @ + 1]

(* What reward_demand would be with the has_reward test left out. *)
RewardEveryDemand(tracker, addr) ==
  [i \in DOMAIN tracker |->
     IF i \in search_pt(tracker, addr, RewardAll)
     THEN assign_reward(tracker[i], IF tracker[i].filled THEN "correct_timely"
                                                         ELSE "correct_untimely")
     ELSE tracker[i]]

(* A demand rewards the entries of its address, the oldest or all of them,  *)
(* up to the first that has a reward.                                       *)
reward_demand(tracker, addr) ==
  LET found == search_pt(tracker, addr, RewardAll)
      due == {i \in found : \A j \in found : j <= i => tracker[j].reward = "unset"}
      Type(e) == IF e.filled THEN "correct_timely" ELSE "correct_untimely"
  IN [i \in DOMAIN tracker |->
        IF i \in due THEN assign_reward(tracker[i], Type(tracker[i]))
                     ELSE tracker[i]]

reward_evicted(e) ==
  assign_reward(e, IF e.addr = NoPrefetch THEN "none" ELSE "incorrect")

(* train: the action evicted before this one is rewarded if it has no       *)
(* reward yet, learned from and forgotten.                                  *)
train(t, successor) ==
  LET e == Head(t.evicted)
      due == IF e.reward = "unset" THEN reward_evicted(e) ELSE e
  IN IF t.evicted = <<>> THEN t
     ELSE [t EXCEPT !.taught = <<due, successor>>]

tracked(t, addr) == search_pt(t.tracker, addr, FALSE) # {}

track(t, addr) ==
  LET full == Len(t.tracker) >= PtSize
      victim == Head(t.tracker)
      u == IF full THEN [train(t, victim) EXCEPT !.evicted = <<victim>>,
                                                 !.tracker = Tail(@)]
                   ELSE t
  IN IF tracked(t, addr) /\ addr # NoPrefetch /\ ~TrackMultiple THEN t
     ELSE [u EXCEPT !.tracker = Append(@, NewEntry(addr, t.actions)),
                    !.actions = @ + 1]

(* track and the assign_reward on the entry it made. *)
track_rewarded(t, type) ==
  LET u == track(t, NoPrefetch)
  IN [u EXCEPT !.tracker[Len(u.tracker)] = assign_reward(@, type)]

gen_multi_degree_pref(page, block, action, degree) ==
  {<<page, block + d * action>> : d \in {d \in 2..degree : InPage(block + d * action)}}

predict(t, page, block, action) ==
  LET target == block + action
      degree == History!get_dyn_pref_degree(t.st, page, action, Thresholds, Degrees)
      addr == <<page, target>>
      u == track(t, addr)
  IN IF action = 0 THEN track(t, NoPrefetch)
     ELSE IF ~InPage(target)
     THEN IF RewardOutOfBounds THEN track_rewarded(t, "out_of_bounds") ELSE t
     ELSE IF tracked(t, addr)
     THEN IF RewardTrackerHit THEN track_rewarded(u, "tracker_hit") ELSE u
     ELSE [u EXCEPT !.st = History!track_in_st(@, page, target, action),
                    !.flying = @ \cup {addr}
                          \cup gen_multi_degree_pref(page, block, action, degree)]

(* When the line of an entry is first demanded. *)
Witnessed(tracker, addr) ==
  [i \in DOMAIN tracker |->
     IF tracker[i].addr = addr /\ tracker[i].seen = "unseen"
     THEN [tracker[i] EXCEPT !.seen = IF tracker[i].filled THEN "timely" ELSE "late"]
     ELSE tracker[i]]

(* invoke_prefetcher: an access rewards, is recorded and takes an action. *)
invoke_prefetcher ==
  \E page \in Page, block \in 0..(Blocks - 1), action \in Actions :
    LET addr == <<page, block>>
        rewarded == [s EXCEPT !.tracker = Witnessed(reward_demand(@, addr), addr),
                              !.st = History!update_local_state(@, page)]
    IN /\ s.actions < MaxActions
       /\ s' = predict(rewarded, page, block, action)

(* register_fill: a prefetched line arrives in the cache. *)
register_fill ==
  \E addr \in s.flying :
    LET found == search_pt(s.tracker, addr, RewardAll)
    IN s' = [s EXCEPT !.flying = @ \ {addr},
                      !.tracker = [i \in DOMAIN @ |->
                         IF i \in found THEN [@[i] EXCEPT !.filled = TRUE] ELSE @[i]]]

(* register_prefetch_hit: the line to prefetch is in the cache already. *)
register_prefetch_hit ==
  \E addr \in s.flying :
    LET found == search_pt(s.tracker, addr, RewardAll)
    IN s' = [s EXCEPT !.flying = @ \ {addr},
                      !.tracker = [i \in DOMAIN @ |->
                         IF i \in found THEN [@[i] EXCEPT !.hit = TRUE] ELSE @[i]]]

Next == invoke_prefetcher \/ register_fill \/ register_prefetch_hit

Spec == Init /\ [][Next]_s

-----------------------------------------------------------------------------
Truthful(e) ==
  CASE e.reward = "correct_timely"   -> e.seen = "timely"
    [] e.reward = "correct_untimely" -> e.seen = "late"
    [] e.reward = "incorrect"        -> e.seen = "unseen" /\ e.addr # NoPrefetch
    [] e.reward = "unset"            -> e.seen = "unseen"
    [] OTHER                         -> e.addr = NoPrefetch

(* Every action is learned from once, in the order the actions were taken  *)
(* and with the action taken next as its successor, after exactly one       *)
(* reward, which says what happened to its line while it was tracked        *)
(* (the assertions of reward, assign_reward and train in scooby.cc).        *)
LearnsFromEachActionOnce ==
  LET waiting == s.evicted \o s.tracker
  IN /\ Len(s.tracker) <= PtSize
     /\ \A i \in DOMAIN waiting :
          /\ waiting[i].id = s.actions - Len(waiting) + i - 1
          /\ waiting[i].times = IF waiting[i].reward = "unset" THEN 0 ELSE 1
          /\ Truthful(waiting[i])
     /\ s.taught # <<>> =>
          /\ s.taught[1].times = 1 /\ Truthful(s.taught[1])
          /\ s.taught[2].id = s.taught[1].id + 1
          /\ s.taught[2] = s.evicted[1]

PagesTrackedOnce == History!Tidy(s.st)
=============================================================================
