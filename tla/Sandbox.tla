------------------------------ MODULE Sandbox ------------------------------
(***************************************************************************)
(* The sandbox prefetcher (prefetcher/sandbox.cc).  The 4 * Reach offsets   *)
(* other than zero are divided between a list that is evaluated and a      *)
(* queue that waits.  An offset is evaluated for a phase of PhaseLen       *)
(* demands by pseudo-prefetches into a Bloom filter, which may also answer *)
(* yes for a line that was never added; at the end of a round the list is  *)
(* sorted by score, its last NumCycle go to the queue and the first of the *)
(* queue come in.  The offsets that stay keep their scores.  The demands   *)
(* are of one page: a line of another one is a right or a wrong answer of  *)
(* the filter all the same.  `cycled` records the scores that stayed and   *)
(* went at the last end of a round.                                        *)
(***************************************************************************)
EXTENDS Integers, SequencesExt

CONSTANTS Reach,                  \* 8: 1 .. 8 and -8 .. -1 are evaluated first
          Blocks, PhaseLen, NumCycle, PrefDegree,
          StreamOn, StreamLength, \* stream detection
          MaxDemands              \* bound on the length of a run

VARIABLE s

Offset == 0 .. Blocks - 1
Score(d) == [offset |-> d, score |-> 0]
From(a, b) == [i \in 1 .. b - a + 1 |-> a + i - 1]

reset_eval(t, ptr) == [t EXCEPT !.ptr = ptr, !.demands = 0, !.filter = {}]

Init ==
  s = [list |-> [i \in 1 .. 2 * Reach |-> Score((From(1, Reach) \o From(-Reach, -1))[i])],
       queue |-> From(Reach + 1, 2 * Reach) \o From(-2 * Reach, -(Reach + 1)),
       ptr |-> 1, demands |-> 0, filter |-> {}, total |-> 0, issued |-> <<>>,
       cycled |-> [stayed |-> {}, went |-> {}]]

(* What Sorted would be if the list were left in the order of evaluation.  *)
Unsorted(list) == list

(* The list in descending order of score; equal scores stay in place, as   *)
(* they do in std::sort of at most sixteen elements.                       *)
Sorted(list) ==
  LET Before(i, j) == \/ list[i].score > list[j].score
                      \/ list[i].score = list[j].score /\ i < j
      order == SetToSortSeq(DOMAIN list, Before)
  IN [k \in DOMAIN list |-> list[order[k]]]

end_of_round(t) ==
  LET sorted == Sorted(t.list)
      n == Min({NumCycle, Len(sorted)})
      stay == SubSeq(sorted, 1, Len(sorted) - n)
      go == Reverse(SubSeq(sorted, Len(sorted) - n + 1, Len(sorted)))
      queue == t.queue \o [k \in DOMAIN go |-> go[k].offset]
  IN [t EXCEPT !.list = stay \o [k \in 1 .. NumCycle |-> Score(queue[k])],
               !.queue = SubSeq(queue, NumCycle + 1, Len(queue)),
               !.cycled = [stayed |-> {e.score : e \in Range(stay)},
                           went |-> {e.score : e \in Range(go)}]]

(* Step 1: the demand is looked up, and with stream detection the demands  *)
(* that would have led to it.  `false` are the wrong answers of the filter.*)
Hits(t, offset, false) ==
  LET d == t.list[t.ptr].offset
      Known(x) == x \in t.filter \cup false
      before == {k \in 1 .. StreamLength : offset - d * k \in Offset /\ Known(offset - d * k)}
  IN IF ~Known(offset) THEN 0
     ELSE 1 + (IF StreamOn THEN Cardinality(before) ELSE 0)

(* Steps 1 to 3: the score, the pseudo-prefetch, the end of the phase.     *)
Evaluated(t, offset, false) ==
  LET target == offset + t.list[t.ptr].offset
      u == [t EXCEPT !.list[t.ptr].score = @ + Hits(t, offset, false),
                     !.filter = IF target \in Offset THEN @ \cup {target} ELSE @,
                     !.demands = @ + 1]
  IN IF u.demands # PhaseLen THEN u
     ELSE IF t.ptr < Len(t.list) THEN reset_eval(u, t.ptr + 1)
     ELSE reset_eval(end_of_round(u), 1)

(* get_offset_list_sorted: the offsets of one sign, the nearest first.     *)
Side(list, sign) ==
  LET side == {i \in DOMAIN list : list[i].offset * sign > 0}
      order == SetToSortSeq(side, LAMBDA i, j : list[i].offset * sign < list[j].offset * sign)
  IN [k \in DOMAIN order |-> list[order[k]]]

(* generate_prefetch: an offset that scored a whole phase prefetches, with *)
(* stream detection one step further per phase; an offset is the last when *)
(* more than PrefDegree are out.                                           *)
generate_prefetch(side, offset) ==
  LET steps == IF StreamOn THEN StreamLength + 1 ELSE 1
      Far(e) == SelectSeq(From(1, steps), LAMBDA k : /\ offset + e.offset * k \in Offset
                                                     /\ e.score >= k * PhaseLen)
      Of(e) == [i \in DOMAIN Far(e) |-> offset + e.offset * Far(e)[i]]
  IN FoldLeft(LAMBDA out, e : IF Len(out) > PrefDegree THEN out ELSE out \o Of(e),
              <<>>, side)

invoke_prefetcher(offset, false) ==
  LET t == Evaluated(s, offset, false)
  IN /\ s.total < MaxDemands
     /\ s' = [t EXCEPT !.total = @ + 1,
                       !.issued = generate_prefetch(Side(t.list, 1), offset)
                                    \o generate_prefetch(Side(t.list, -1), offset)]

Next == \E offset \in Offset, false \in SUBSET Offset : invoke_prefetcher(offset, false)

Spec == Init /\ [][Next]_s

-----------------------------------------------------------------------------
(* Round after round no offset is lost or doubled between the list and the *)
(* queue, the list keeps its length (which the code asserts), and whatever *)
(* went had no better a score than what stayed.                            *)
OffsetsConserved ==
  LET all == [k \in DOMAIN s.list |-> s.list[k].offset] \o s.queue
  IN /\ IsInjective(all) /\ Range(all) = (-2 * Reach .. 2 * Reach) \ {0}
     /\ Len(s.list) = 2 * Reach /\ s.ptr \in DOMAIN s.list
     /\ \A x \in s.cycled.went, y \in s.cycled.stayed : x <= y
     /\ Len(s.issued) <= 2 * (PrefDegree + 1 + IF StreamOn THEN StreamLength ELSE 0)
=============================================================================
