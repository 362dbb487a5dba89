------------------------------ MODULE NextLine ------------------------------
(***************************************************************************)
(* The next-line prefetcher (prefetcher/next_line.cc): a delta drawn by    *)
(* weight, and a tracker of the lines it prefetched, which keeps a line    *)
(* from being prefetched again and tells, when the line leaves it, whether *)
(* the prefetch was timely.  `history` records, for each line, its fills   *)
(* and demands since it was prefetched.                                    *)
(***************************************************************************)
EXTENDS Integers, SequencesExt

CONSTANTS Pages, Blocks,          \* pages are 0 .. Pages - 1
          Deltas,                 \* next_line_deltas, those of weight 0 left out
          PtSize, PrefDegree,
          MaxSteps                \* bound on the length of a run

VARIABLE s

Offset == 0 .. Blocks - 1
Line == 0 .. Pages * Blocks - 1
Verdict == {-1, 0, 1}             \* of measure_stats: incorrect, untimely, timely

Init == s = [pt |-> <<>>, left |-> [v \in Verdict |-> 0], tracked |-> 0, steps |-> 0,
             history |-> [l \in Line |-> <<>>]]

search_pt(pt, line) == SelectInSeq(pt, LAMBDA e : e.line = line)

(* record_demand: the verdict on a tracked line is its last demand's.      *)
record_demand(t, line) ==
  LET i == search_pt(t.pt, line)
  IN [t EXCEPT !.pt = IF i = 0 THEN @
                      ELSE [@ EXCEPT ![i].timely = IF t.pt[i].fill THEN 1 ELSE 0],
               !.history[line] = Append(@, "demand")]

(* track: a line in the tracker is not prefetched again; a full tracker    *)
(* gives up its oldest line and counts the verdict on it.                  *)
track(t, line) ==
  LET full == Len(t.pt) >= PtSize
  IN IF search_pt(t.pt, line) # 0 THEN t
     ELSE [t EXCEPT !.pt = Append(IF full THEN Tail(@) ELSE @,
                                  [line |-> line, fill |-> FALSE, timely |-> -1]),
                    !.left = IF full THEN [@ EXCEPT ![t.pt[1].timely] = @ + 1] ELSE @,
                    !.tracked = @ + 1,
                    !.history[line] = <<>>]

invoke_prefetcher(page, offset, delta) ==
  LET ahead == SelectSeq([k \in 1 .. PrefDegree |-> offset + k * delta],
                         LAMBDA x : x \in Offset)
      demanded == record_demand(s, page * Blocks + offset)
  IN s' = [FoldLeft(LAMBDA t, x : track(t, page * Blocks + x), demanded, ahead)
             EXCEPT !.steps = @ + 1]

register_fill(line) ==
  LET i == search_pt(s.pt, line)
  IN s' = [s EXCEPT !.pt = IF i = 0 THEN @ ELSE [@ EXCEPT ![i].fill = TRUE],
                    !.history[line] = Append(@, "fill"), !.steps = @ + 1]

Next ==
  /\ s.steps < MaxSteps
  /\ \/ \E page \in 0 .. Pages - 1, offset \in Offset, delta \in Deltas :
          invoke_prefetcher(page, offset, delta)
     \/ \E line \in Line : register_fill(line)

Spec == Init /\ [][Next]_s

-----------------------------------------------------------------------------
(* A line is tracked once; every line tracked is there or has one verdict;  *)
(* and a line is timely exactly when its last demand came after a fill.    *)
VerdictsAccounted ==
  /\ \A i, j \in DOMAIN s.pt : s.pt[i].line = s.pt[j].line => i = j
  /\ s.tracked = Len(s.pt) + s.left[-1] + s.left[0] + s.left[1]
  /\ \A i \in DOMAIN s.pt :
       LET h == s.history[s.pt[i].line]
           last == SelectLastInSeq(h, LAMBDA x : x = "demand")
       IN s.pt[i].timely = IF last = 0 THEN -1
                           ELSE IF "fill" \in Range(SubSeq(h, 1, last)) THEN 1 ELSE 0
=============================================================================
