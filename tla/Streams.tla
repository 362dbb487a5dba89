------------------------------ MODULE Streams ------------------------------
(***************************************************************************)
(* The streamer and the stride prefetcher (prefetcher/streamer.cc and      *)
(* stride.cc) as operators from their trackers and a demand to             *)
(* [trackers, issued].  The streamer keeps a tracker for each page, the    *)
(* one used last at the end; the stride prefetcher one for each pc, the    *)
(* one used last in front.                                                 *)
(***************************************************************************)
EXTENDS Integers, SequencesExt

CONSTANTS Blocks,                 \* lines of a page
          StreamTrackers, StrideTrackers

Offset == 0 .. Blocks - 1
PageOf(line) == line \div Blocks
OffsetOf(line) == line % Blocks

(* The offsets start + d, start + 2d, ... up to so many, within the page.  *)
Run(start, d, degree) ==
  SelectSeq([k \in 1 .. degree |-> start + k * d], LAMBDA x : x \in Offset)
Lines(page, offsets) == [k \in DOMAIN offsets |-> page * Blocks + offsets[k]]

Place(trackers, key) == SelectInSeq(trackers, LAMBDA t : t.key = key)

StreamTracker(page, offset) == [key |-> page, last |-> offset, dir |-> 0]

(* Streamer::invoke_prefetcher: the second step in a direction prefetches  *)
(* along it; a repeated line changes nothing, the order of use included.   *)
Streamed(trackers, line, degree) ==
  LET page == PageOf(line)
      offset == OffsetOf(line)
      i == Place(trackers, page)
      dir == IF offset > trackers[i].last THEN 1 ELSE -1
      new == Append(IF Len(trackers) >= StreamTrackers THEN Tail(trackers) ELSE trackers,
                    StreamTracker(page, offset))
      used == Append(RemoveAt(trackers, i), [key |-> page, last |-> offset, dir |-> dir])
  IN IF i = 0 THEN [trackers |-> new, issued |-> <<>>]
     ELSE IF trackers[i].last = offset THEN [trackers |-> trackers, issued |-> <<>>]
     ELSE [trackers |-> used,
           issued |-> IF dir = trackers[i].dir THEN Lines(page, Run(offset, dir, degree))
                      ELSE <<>>]

StrideTracker(pc, line) == [key |-> pc, last |-> line, stride |-> 0]

(* generate_prefetch of the stride prefetcher starts at the line demanded. *)
StrideRun(line, stride, degree) ==
  Lines(PageOf(line), Run(OffsetOf(line) - stride, stride, degree))

(* StridePrefetcher::invoke_prefetcher: a stride seen twice prefetches.    *)
Strided(trackers, pc, line, degree) ==
  LET i == Place(trackers, pc)
      stride == line - trackers[i].last
      kept == IF Len(trackers) >= StrideTrackers THEN Front(trackers) ELSE trackers
      used == <<[key |-> pc, last |-> line, stride |-> stride]>> \o RemoveAt(trackers, i)
  IN IF i = 0
     THEN [trackers |-> <<StrideTracker(pc, line)>> \o kept, issued |-> <<>>]
     ELSE IF stride = 0 THEN [trackers |-> trackers, issued |-> <<>>]
     ELSE [trackers |-> used,
           issued |-> IF stride = trackers[i].stride THEN StrideRun(line, stride, degree)
                      ELSE <<>>]

-----------------------------------------------------------------------------
(* A page or a pc is tracked once and within the limit.                    *)
TrackedOnce(trackers, limit) ==
  /\ \A i, j \in DOMAIN trackers : trackers[i].key = trackers[j].key => i = j
  /\ Len(trackers) <= limit
=============================================================================
