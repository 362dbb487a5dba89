-------------------------------- MODULE Ampm --------------------------------
(***************************************************************************)
(* The AMPM prefetcher (prefetcher/ampm.cc): a bitmap of the lines touched *)
(* for each of the pages used last, the least recent first, and deltas     *)
(* whose two previous hops are in it.  Predictions go out at once or       *)
(* through a buffer.  `touched` records the lines of each page since it    *)
(* was last inserted, `order` the pages in the order of their last use.    *)
(***************************************************************************)
EXTENDS Integers, SequencesExt

CONSTANTS Page, Blocks,
          PbSize, MaxDelta, PredDegree,
          BufferOn, BufferSize, PrefDegree,
          MaxDemands              \* bound on the length of a run

VARIABLE s

Offset == 0 .. Blocks - 1

Init == s = [pages |-> <<>>, buffer |-> <<>>, issued |-> <<>>, demands |-> 0,
             touched |-> [p \in Page |-> {}], order |-> <<>>]

search_page(pages, page) == SelectInSeq(pages, LAMBDA e : e.page = page)

(* What tracking would be if a page found were left where it is.           *)
TrackedInPlace(pages, page, offset) ==
  LET i == search_page(pages, page)
      room == IF Len(pages) >= PbSize THEN Tail(pages) ELSE pages
  IN IF i # 0 THEN [pages EXCEPT ![i].bitmap = @ \cup {offset}]
     ELSE Append(room, [page |-> page, bitmap |-> {offset}])

Tracked(pages, page, offset) ==
  LET i == search_page(pages, page)
      room == IF Len(pages) >= PbSize THEN Tail(pages) ELSE pages
  IN IF i # 0
     THEN Append(RemoveAt(pages, i), [pages[i] EXCEPT !.bitmap = @ \cup {offset}])
     ELSE Append(room, [page |-> page, bitmap |-> {offset}])

(* The deltas of one direction, the largest first, whose line is in the    *)
(* page: those the lines one and two hops back were touched for.           *)
Selected(bitmap, offset, sign) ==
  LET deltas == [k \in 1 .. MaxDelta |-> sign * (MaxDelta + 1 - k)]
  IN SelectSeq(deltas, LAMBDA d : {offset - d, offset - 2 * d} \subseteq bitmap
                                  /\ offset + d \in Offset)

(* Positive deltas come first; PredDegree of all are predicted.            *)
Predicted(bitmap, page, offset) ==
  LET deltas == Selected(bitmap, offset, 1) \o Selected(bitmap, offset, -1)
  IN [k \in 1 .. Min({PredDegree, Len(deltas)}) |-> <<page, offset + deltas[k]>>]

(* buffer_prefetch: a line that waits is not put again; the first one that *)
(* finds no room drops the rest.                                           *)
buffer_prefetch(buffer, lines) ==
  LET Put(b, line) == IF b.full \/ Contains(b.q, line) THEN b
                      ELSE IF Len(b.q) >= BufferSize THEN [b EXCEPT !.full = TRUE]
                      ELSE [b EXCEPT !.q = Append(@, line)]
  IN FoldLeft(Put, [q |-> buffer, full |-> FALSE], lines).q

(* issue_prefetch: a demand lets PrefDegree of them out.                   *)
Released(buffer) == Min({Len(buffer), PrefDegree})

invoke_prefetcher(page, offset) ==
  LET pages == Tracked(s.pages, page, offset)
      lines == Predicted(pages[Len(pages)].bitmap, page, offset)
      buffer == buffer_prefetch(s.buffer, lines)
      known == search_page(s.pages, page) # 0
  IN /\ s.demands < MaxDemands
     /\ s' = [s EXCEPT
          !.pages = pages, !.demands = @ + 1,
          !.buffer = IF BufferOn THEN SubSeq(buffer, Released(buffer) + 1, Len(buffer)) ELSE @,
          !.issued = IF BufferOn THEN SubSeq(buffer, 1, Released(buffer)) ELSE lines,
          !.touched[page] = IF known THEN @ \cup {offset} ELSE {offset},
          !.order = Append(SelectSeq(@, LAMBDA p : p # page), page)]

Next == \E page \in Page, offset \in Offset : invoke_prefetcher(page, offset)

Spec == Init /\ [][Next]_s

-----------------------------------------------------------------------------
(* The pages tracked are the ones used last, each once, with exactly the    *)
(* lines touched since it came in; and a buffered line waits once.         *)
PagesTrackedOnce ==
  LET n == Len(s.pages)
      recent == SubSeq(s.order, Len(s.order) - n + 1, Len(s.order))
  IN /\ n = Min({PbSize, Len(s.order)})
     /\ [k \in 1 .. n |-> s.pages[k].page] = recent
     /\ \A k \in 1 .. n : s.pages[k].bitmap = s.touched[s.pages[k].page]
     /\ IsInjective(s.buffer) /\ Len(s.buffer) <= BufferSize
     /\ Len(s.issued) <= Max({PredDegree, PrefDegree})
=============================================================================
