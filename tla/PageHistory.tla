---------------------------- MODULE PageHistory ----------------------------
(***************************************************************************)
(* The signature table of the reinforcement-learning prefetchers (Scooby,  *)
(* CBP and RLP keep a copy each): the pages seen last, oldest first, each  *)
(* with the blocks that were prefetched in it and a short list of the      *)
(* actions that prefetched them, the one used last at the end.  The deltas, *)
(* offsets and program counters of a page are features the learning engine *)
(* reads; the engine's choice is free in these models, so they are left    *)
(* out.                                                                    *)
(***************************************************************************)
EXTENDS Integers, SequencesExt

CONSTANTS StSize,             \* st_size: pages in the table
          ActionTrackerSize   \* action_tracker_size: actions kept per page

Spot(st, page) == SelectInSeq(st, LAMBDA e : e.page = page)

(* update_local_state: a page seen again moves to the back, a new one       *)
(* pushes the page at the front out of a full table.                       *)
update_local_state(st, page) ==
  LET i == Spot(st, page)
      kept == IF Len(st) >= StSize THEN Tail(st) ELSE st
  IN IF i # 0 THEN Append(RemoveAt(st, i), st[i])
     ELSE Append(kept, [page |-> page, pred |-> {}, actions |-> <<>>])

(* insert_action_tracker erases the action from the deque and then pushes   *)
(* back what the iterator points to: the slot, after the shorter side of    *)
(* the deque has closed the gap.  An end of the deque leaves its slot as it *)
(* was, any other slot holds a neighbour.                                   *)
SlotAfterErase(actions, i) ==
  CASE i \in {1, Len(actions)}   -> actions[i]
    [] i - 1 < Len(actions) \div 2 -> actions[i - 1]
    [] OTHER                     -> actions[i + 1]

insert_action_tracker(actions, action) ==
  LET i == SelectInSeq(actions, LAMBDA a : a.action = action)
      surer == [actions EXCEPT ![i].conf = @ + 1]
      kept == IF Len(actions) >= ActionTrackerSize THEN Tail(actions) ELSE actions
  IN IF i # 0 THEN Append(RemoveAt(surer, i), SlotAfterErase(surer, i))
     ELSE Append(kept, [action |-> action, conf |-> 0])

track_prefetch(e, block, action) ==
  IF block \in e.pred THEN e
  ELSE [e EXCEPT !.pred = @ \cup {block},
                 !.actions = insert_action_tracker(@, action)]

track_in_st(st, page, block, action) ==
  LET i == Spot(st, page)
  IN IF i = 0 THEN st ELSE [st EXCEPT ![i] = track_prefetch(@, block, action)]

(* search_action_tracker: the confidence of an action on a page, -1 for an  *)
(* action the page does not track.                                         *)
search_action_tracker(e, action) ==
  LET i == SelectInSeq(e.actions, LAMBDA a : a.action = action)
  IN IF i = 0 THEN -1 ELSE e.actions[i].conf

(* get_dyn_pref_degree: how many blocks an action prefetches, by the        *)
(* confidence the page has in it and the thresholds in ascending order.    *)
get_dyn_pref_degree(st, page, action, thresholds, degrees) ==
  LET i == Spot(st, page)
      conf == search_action_tracker(st[i], action)
      k == SelectInSeq(thresholds, LAMBDA t : conf <= t)
  IN IF i = 0 \/ conf = -1 THEN 1
     ELSE IF k = 0 THEN Last(degrees) ELSE degrees[k]

Tidy(st) ==
  /\ Len(st) <= StSize
  /\ \A i, j \in DOMAIN st : st[i].page = st[j].page => i = j
  /\ \A i \in DOMAIN st :
       /\ Len(st[i].actions) <= ActionTrackerSize
       /\ \A j, k \in DOMAIN st[i].actions :
            st[i].actions[j].action = st[i].actions[k].action => j = k
=============================================================================
