----------------------------- MODULE PageTable -----------------------------
(***************************************************************************)
(* va_to_pa of src/main.cc: the one page table of all cores, its inverse,  *)
(* the FIFO of pages that nothing reads back, and the swap that takes a    *)
(* frame from one virtual page and gives it to another.  The TLBs of a     *)
(* core are one set of translations and its private caches the set of      *)
(* frames they hold lines of; a translation is in flight from the answer   *)
(* of the page table until the TLBs are filled.  Fault counters, stall     *)
(* cycles and the line footprint are left out; recent_page is never filled *)
(* anywhere, so every page is a candidate for the swap.                    *)
(***************************************************************************)
EXTENDS Integers, Sequences, FiniteSets, Functions

CONSTANTS
  Cpu,         \* 0 .. NUM_CPUS - 1
  VPage,       \* unique_vpage
  DRAM_PAGES,  \* at most MaxDraw + 1, or no draw finds a free frame
  MaxDraw,     \* bound on draw_rand
  MaxRun,      \* rand() % 10 in the code: the exponent of a run of adjacent pages
  WORD         \* num_adjacent_page is unsigned: arithmetic modulo WORD

VARIABLE s

(* unique_vpage | high_bit_mask: the cpu is in the top bits, so the map is *)
(* ordered by cpu first.                                                   *)
Virtual == Cpu \X VPage
Below(x, y) == x[1] < y[1] \/ (x[1] = y[1] /\ x[2] < y[2])

Init ==
  s = [table |-> <<>>, inverse |-> <<>>, queue |-> <<>>,
       previous |-> 0, adjacent |-> 0, allocated |-> 0,
       flight |-> {}, tlb |-> [c \in Cpu |-> {}], held |-> [c \in Cpu |-> {}]]

(* The loop over page_table ends at its first page.                        *)
NRU_vpage == CHOOSE x \in DOMAIN s.table : \A y \in DOMAIN s.table : y = x \/ Below(x, y)

(* The key has the cpu in its top bits, the tags of the TLBs have not:     *)
(* only a page of cpu 0 is found, and only in the TLBs of the faulting cpu.*)
TlbAfterSwap(c, x) ==
  [s.tlb EXCEPT ![c] = {e \in @ : ~(x[1] = 0 /\ e.page = x[2])}]

(* std::map::insert of a key that is not there. *)
Mapped(f, x, y) == [z \in DOMAIN f \cup {x} |-> IF z = x THEN y ELSE f[z]]

SwappedNoInverse(c, x) ==   \* mutant: the inverse table keeps the old page
  LET old == NRU_vpage  frame == s.table[old] IN
  [s EXCEPT !.table = Mapped(Restrict(@, DOMAIN @ \ {old}), x, frame),
            !.queue = Append(Tail(@), x),
            !.tlb = TlbAfterSwap(c, old),
            !.held[c] = @ \ {frame}]
Swapped(c, x) ==
  LET old == NRU_vpage  frame == s.table[old] IN
  [s EXCEPT !.table = Mapped(Restrict(@, DOMAIN @ \ {old}), x, frame),
            !.inverse = [@ EXCEPT ![frame] = x],
            !.queue = Append(Tail(@), x),
            !.tlb = TlbAfterSwap(c, old),
            !.held[c] = @ \ {frame}]

(* The next frame of a run, or any drawn one; a candidate that is taken is *)
(* redrawn until a free one comes up, and that ends the run.               *)
Free(f) == f \notin DOMAIN s.inverse
Adjacent == s.adjacent > 0 /\ Free(s.previous + 1)
Frames == IF Adjacent THEN {s.previous + 1} ELSE {f \in 0 .. MaxDraw : Free(f)}
Runs == IF Adjacent THEN {(s.adjacent - 1) % WORD} ELSE {2 ^ k : k \in 0 .. MaxRun}

Allocated(x, f, run) ==
  [s EXCEPT !.table = Mapped(@, x, f), !.inverse = Mapped(@, f, x),
            !.queue = Append(@, x), !.previous = f, !.adjacent = run,
            !.allocated = @ + 1]

(* The STLB puts the frame into its MSHR; the TLBs are filled later.       *)
Answered(t, c, x) == [t EXCEPT !.flight = @ \cup {[cpu |-> c, page |-> x[2], frame |-> t.table[x]]}]

Missing(c, v) ==
  /\ \A e \in s.tlb[c] : e.page # v
  /\ \A a \in s.flight : ~(a.cpu = c /\ a.page = v)

PageHit(c, v) ==
  /\ Missing(c, v)
  /\ <<c, v>> \in DOMAIN s.table
  /\ s' = Answered(s, c, <<c, v>>)

PageSwap(c, v) ==
  /\ Missing(c, v)
  /\ <<c, v>> \notin DOMAIN s.table
  /\ s.allocated >= DRAM_PAGES
  /\ s' = Answered(Swapped(c, <<c, v>>), c, <<c, v>>)

PageAllocate(c, v) ==
  /\ Missing(c, v)
  /\ <<c, v>> \notin DOMAIN s.table
  /\ s.allocated < DRAM_PAGES
  /\ \E f \in Frames, run \in Runs : s' = Answered(Allocated(<<c, v>>, f, run), c, <<c, v>>)

FillTlb(a) ==
  /\ a \in s.flight
  /\ s' = [s EXCEPT !.flight = @ \ {a},
                    !.tlb[a.cpu] = @ \cup {[page |-> a.page, frame |-> a.frame]}]

Displace(c) == \E e \in s.tlb[c] : s' = [s EXCEPT !.tlb[c] = @ \ {e}]

Touch(c) == \E e \in s.tlb[c] : s' = [s EXCEPT !.held[c] = @ \cup {e.frame}]

Next ==
  \/ \E c \in Cpu, v \in VPage : PageHit(c, v) \/ PageSwap(c, v) \/ PageAllocate(c, v)
  \/ \E a \in s.flight : FillTlb(a)
  \/ \E c \in Cpu : Displace(c) \/ Touch(c)

Spec == Init /\ [][Next]_s

(* The two maps of main.cc are each other's inverse, no frame has two      *)
(* pages, the queue has one element for each mapped page, and a run of     *)
(* adjacent pages never exceeds what was drawn: the counter, decremented   *)
(* before the reset that protects it, has not wrapped.                     *)
MapsInverse ==
  /\ DOMAIN s.inverse = Range(s.table)
  /\ \A x \in DOMAIN s.table : s.inverse[s.table[x]] = x
PagesCounted ==
  /\ Cardinality(DOMAIN s.table) = s.allocated /\ Len(s.queue) = s.allocated
  /\ s.allocated <= DRAM_PAGES
TablesAgree == MapsInverse /\ PagesCounted /\ s.adjacent <= 2 ^ MaxRun

(* `invalidate corresponding vpage and ppage from the cache hierarchy`     *)
(* (src/main.cc:462): when a page loses its frame, its core has no         *)
(* translation to it any more, and no core holds a line of the frame.      *)
SwapInvalidates ==
  [][\A x \in DOMAIN s.table :
       x \notin DOMAIN s'.table =>
         /\ \A e \in s'.tlb[x[1]] : e.page # x[2]
         /\ \A c \in Cpu : s.table[x] \notin s'.held[c]]_s
=============================================================================
