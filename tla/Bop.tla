-------------------------------- MODULE Bop --------------------------------
(***************************************************************************)
(* The best-offset prefetcher (prefetcher/bop.cc).  Every demand evaluates *)
(* one candidate offset against the lines recently filled by prefetches,   *)
(* and the candidates with the best scores of a phase are used in the next *)
(* one.  A phase ends after MaxRounds demands, or when a number            *)
(* check_end_of_phase takes for the best score, and which is the index of  *)
(* a candidate, reaches MaxScore.  `ended` records the scores the last     *)
(* phase ended with.                                                       *)
(***************************************************************************)
EXTENDS Integers, SequencesExt

CONSTANTS Pages, Blocks,          \* pages are 0 .. Pages - 1
          Candidates,             \* bop_candidates, a sequence of offsets
          MaxRounds, MaxScore, TopN, RrSize,
          BufferOn, BufferSize, PrefDegree

VARIABLE s

Offset == 0 .. Blocks - 1
Slot == DOMAIN Candidates
Zero == [c \in Slot |-> 0]

Init ==
  s = [rr |-> <<>>, scores |-> Zero, buffer |-> <<>>, round |-> 0, ptr |-> 1,
       best |-> <<1>>, ended |-> Zero]

search_rr(rr, line) == Contains(rr, line)

(* The greatest index met whose score is no less than the index before it. *)
check_end_of_phase(scores, round) ==
  \/ round >= MaxRounds
  \/ FoldLeft(LAMBDA m, i : IF scores[i] >= m THEN i - 1 ELSE m,
              0, [i \in Slot |-> i]) >= MaxScore

(* What Top would be if a later candidate needed no better score.          *)
TopLast(scores, bound) ==
  LET below == {i \in Slot : scores[i] < bound}
  IN IF below = {} THEN 1 ELSE Max(below)

(* The last of the candidates whose score is the greatest below `bound`,   *)
(* and the first one when there is none.                                   *)
Top(scores, bound) ==
  LET below == {i \in Slot : scores[i] < bound}
      greatest == {i \in below : \A j \in below : scores[j] <= scores[i]}
  IN IF below = {} THEN 1 ELSE Max(greatest)

Unbounded == MaxRounds + 1

(* The scores of the phase in descending order, equal ones once.           *)
BestOffsets(scores) ==
  LET Bound(n) == FoldLeft(LAMBDA b, i : IF \E j \in Slot : scores[j] < b
                                         THEN scores[Top(scores, b)] ELSE 0,
                           Unbounded, [i \in 1 .. n |-> i])
  IN [n \in 1 .. TopN |-> Candidates[Top(scores, Bound(n - 1))]]

phase_end(t) ==
  [t EXCEPT !.best = BestOffsets(t.scores), !.ended = t.scores,
            !.scores = Zero, !.round = 0, !.ptr = 1]

(* The demand's page, once for each best offset that stays in it.          *)
Predicted(t, page, offset) ==
  LET inside == SelectSeq(t.best, LAMBDA d : offset + d \in Offset)
  IN [k \in DOMAIN inside |-> page * Blocks + offset + inside[k]]

(* buffer_prefetch drops what finds no room; issue_prefetch then lets       *)
(* PrefDegree of them out.                                                 *)
buffer_prefetch(buffer, lines) ==
  buffer \o SubSeq(lines, 1, Min({Len(lines), BufferSize - Len(buffer)}))
issue_prefetch(buffer) == SubSeq(buffer, Min({Len(buffer), PrefDegree}) + 1, Len(buffer))

invoke_prefetcher(page, offset) ==
  LET hit == search_rr(s.rr, page * Blocks + offset - Candidates[s.ptr])
      t == [s EXCEPT !.scores[s.ptr] = IF hit THEN @ + 1 ELSE @,
                     !.ptr = (@ % Len(Candidates)) + 1, !.round = @ + 1]
      u == IF check_end_of_phase(t.scores, t.round) THEN phase_end(t) ELSE t
  IN s' = [u EXCEPT !.buffer =
             IF BufferOn THEN issue_prefetch(buffer_prefetch(@, Predicted(u, page, offset)))
             ELSE @]

insert_rr(rr, line) ==
  IF search_rr(rr, line) THEN rr
  ELSE Append(IF Len(rr) >= RrSize THEN Tail(rr) ELSE rr, line)

(* A prefetched line arrives: the lines the best offsets lead to it from.  *)
register_fill(page, offset) ==
  LET origins == SelectSeq(s.best, LAMBDA d : offset - d \in Offset)
  IN s' = [s EXCEPT !.rr =
             FoldLeft(LAMBDA rr, d : insert_rr(rr, page * Blocks + offset - d), @, origins)]

Next ==
  \E page \in 0 .. Pages - 1, offset \in Offset :
    invoke_prefetcher(page, offset) \/ register_fill(page, offset)

Spec == Init /\ [][Next]_s

-----------------------------------------------------------------------------
(* Whatever ended the phase, the first offset used in the next one has the *)
(* best score of it; the offsets used come in descending order of score;   *)
(* a phase is at most MaxRounds demands long, so no candidate scores more  *)
(* than its turns; and a line is remembered once.                          *)
BestOffsetsUsed ==
  LET Score(d) == Max({s.ended[i] : i \in {j \in Slot : Candidates[j] = d}})
  IN /\ s.ended # Zero => Score(s.best[1]) = Max(Range(s.ended))
     /\ \A n \in 1 .. Len(s.best) - 1 :
          s.ended # Zero => \/ Score(s.best[n]) > Score(s.best[n + 1])
                            \/ s.best[n + 1] = Candidates[1]
     /\ s.round < MaxRounds
     /\ \A i \in Slot : s.scores[i] <= (s.round + Len(Candidates) - i) \div Len(Candidates)
     /\ IsInjective(s.rr) /\ Len(s.rr) <= RrSize
     /\ Len(s.buffer) <= BufferSize
=============================================================================
