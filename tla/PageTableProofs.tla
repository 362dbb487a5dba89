--------------------------- MODULE PageTableProofs ---------------------------
(***************************************************************************)
(* The page table of va_to_pa and its inverse agree, for any number of     *)
(* cores, pages and frames; and with one core a page swap leaves nothing   *)
(* behind.                                                                 *)
(***************************************************************************)
EXTENDS PageTable, FiniteSetTheorems, SequenceTheorems, WellFoundedInduction, TLAPS

(* Cores and pages are numbers, and there is a frame. *)
NumbersAssumed == Cpu \subseteq Nat /\ VPage \subseteq Nat /\ DRAM_PAGES \in Nat \ {0}

(* The inductive invariant: two functions, each the other's inverse, the   *)
(* pages counted, and one element of the queue for each.                   *)
Fields(t) ==
  t = [table |-> t.table, inverse |-> t.inverse, queue |-> t.queue, previous |-> t.previous,
       adjacent |-> t.adjacent, allocated |-> t.allocated, flight |-> t.flight,
       tlb |-> t.tlb, held |-> t.held]
Shaped == Fields(s) /\ DOMAIN s.tlb = Cpu /\ DOMAIN s.held = Cpu /\ DOMAIN s.table \subseteq Virtual
Counted ==
  /\ IsFiniteSet(DOMAIN s.table) /\ Cardinality(DOMAIN s.table) = s.allocated
  /\ s.queue \in Seq(Virtual) /\ Len(s.queue) = s.allocated
  /\ s.allocated \in Nat /\ s.allocated <= DRAM_PAGES
IInv == Shaped /\ MapsInverse /\ Counted

-----------------------------------------------------------------------------
(* A set of numbers that is not empty has a least one. *)
LEMMA LeastNumber ==
  ASSUME NEW T \in SUBSET Nat, T # {}
  PROVE  \E m \in T : \A x \in T : m <= x
<1>1. PICK m \in T : \A x \in T : <<x, m>> \notin OpToRel(<, Nat)
  BY NatLessThanWellFounded, WFMin, Zenon
<1>2. \A x \in T : ~(x < m)
  BY <1>1, Zenon DEF OpToRel
<1> QED BY <1>2

(* The loop over page_table ends at a page of it. *)
LEMMA FirstPage ==
  ASSUME NumbersAssumed, DOMAIN s.table \subseteq Virtual, DOMAIN s.table # {}
  PROVE  NRU_vpage \in DOMAIN s.table
<1>1. PICK D : D = DOMAIN s.table
  OBVIOUS
<1>2. \A x \in D : x[1] \in Nat /\ x[2] \in Nat /\ x = <<x[1], x[2]>>
  <2>1. D \subseteq Cpu \X VPage /\ Cpu \subseteq Nat /\ VPage \subseteq Nat
    BY <1>1 DEF Virtual, NumbersAssumed
  <2>2. ASSUME NEW x \in D  PROVE x[1] \in Cpu /\ x[2] \in VPage /\ x = <<x[1], x[2]>>
    BY <2>1
  <2> QED BY <2>1, <2>2
<1>3. PICK F : F = {x[1] : x \in D}
  OBVIOUS
<1>4. F \in SUBSET Nat /\ F # {}
  BY <1>1, <1>2, <1>3
<1>5. PICK c \in F : \A d \in F : c <= d
  BY <1>4, LeastNumber
<1>6. PICK G : G = {v \in Nat : <<c, v>> \in D}
  OBVIOUS
<1>7. G \in SUBSET Nat /\ G # {}
  BY <1>2, <1>3, <1>5, <1>6
<1>8. PICK v \in G : \A u \in G : v <= u
  BY <1>7, LeastNumber
<1>9. <<c, v>> \in D /\ \A y \in D : y = <<c, v>> \/ Below(<<c, v>>, y)
  <2>1. ASSUME NEW y \in D  PROVE y = <<c, v>> \/ Below(<<c, v>>, y)
    <3>1. c \in Nat /\ v \in Nat /\ y[1] \in Nat /\ y[2] \in Nat /\ y = <<y[1], y[2]>> /\ c <= y[1]
      BY <1>2, <1>3, <1>4, <1>5, <1>6
    <3>2. c = y[1] => v <= y[2]
      BY <1>6, <1>8, <3>1
    <3> QED BY <3>1, <3>2 DEF Below
  <2> QED BY <1>6, <2>1
<1> QED BY <1>1, <1>9 DEF NRU_vpage

-----------------------------------------------------------------------------
(* The steps. *)

(* The maps of two states are the same when a step changes neither. *)
LEMMA SameMaps ==
  ASSUME IInv, s'.table = s.table, s'.inverse = s.inverse, s'.queue = s.queue, s'.allocated = s.allocated
  PROVE  MapsInverse' /\ Counted'
BY DEF IInv, MapsInverse, Counted, Range

(* Two maps, each the other's inverse; what a swap and a new page do to    *)
(* them.                                                                   *)
Inverses(table, inverse) == DOMAIN inverse = Range(table) /\ \A y \in DOMAIN table : inverse[table[y]] = y
Moved(table, inverse, old, x, t2, v2) ==
  /\ t2 = Mapped(Restrict(table, DOMAIN table \ {old}), x, table[old])
  /\ v2 = [inverse EXCEPT ![table[old]] = x]
Placed(table, inverse, f, x, t2, v2) == t2 = Mapped(table, x, f) /\ v2 = Mapped(inverse, f, x)

(* A frame that goes from one page to another. *)
LEMMA SwapKeeps ==
  ASSUME NEW table, NEW inverse, NEW t2, NEW v2, NEW old, NEW x, old \in DOMAIN table, x \notin DOMAIN table,
         Inverses(table, inverse), Moved(table, inverse, old, x, t2, v2)
  PROVE  DOMAIN t2 = (DOMAIN table \ {old}) \cup {x} /\ Inverses(t2, v2)
<1>0. PICK D : D = DOMAIN table
  OBVIOUS
<1>1. /\ DOMAIN t2 = (D \ {old}) \cup {x} /\ t2[x] = table[old]
      /\ \A y \in D \ {old} : t2[y] = table[y]
  BY <1>0 DEF Moved, Mapped, Restrict
<1>2. \A y \in D : table[y] \in DOMAIN inverse
  BY <1>0 DEF Inverses, Range
<1>3. DOMAIN v2 = DOMAIN inverse /\ v2[table[old]] = x
      /\ \A f \in DOMAIN inverse : f # table[old] => v2[f] = inverse[f]
  BY <1>0, <1>2 DEF Moved
<1>4. \A y \in D \ {old} : table[y] # table[old]
  BY <1>0 DEF Inverses
<1>5. Range(t2) = Range(table)
  BY <1>0, <1>1 DEF Range
<1>6. \A y \in DOMAIN t2 : v2[t2[y]] = y
  BY <1>0, <1>1, <1>2, <1>3, <1>4 DEF Inverses
<1> QED BY <1>0, <1>1, <1>3, <1>5, <1>6 DEF Inverses

(* A page that gets a free frame. *)
LEMMA AllocateKeeps ==
  ASSUME NEW table, NEW inverse, NEW t2, NEW v2, NEW f, NEW x, f \notin DOMAIN inverse, x \notin DOMAIN table,
         Inverses(table, inverse), Placed(table, inverse, f, x, t2, v2)
  PROVE  DOMAIN t2 = DOMAIN table \cup {x} /\ Inverses(t2, v2)
<1>1. /\ DOMAIN t2 = DOMAIN table \cup {x} /\ t2[x] = f
      /\ \A y \in DOMAIN table : t2[y] = table[y]
  BY DEF Placed, Mapped
<1>2. \A y \in DOMAIN table : table[y] \in DOMAIN inverse /\ table[y] # f
  BY DEF Inverses, Range
<1>3. DOMAIN v2 = DOMAIN inverse \cup {f} /\ v2[f] = x /\ \A g \in DOMAIN inverse : v2[g] = inverse[g]
  BY DEF Placed, Mapped
<1>4. Range(t2) = Range(table) \cup {f}
  BY <1>1 DEF Range
<1>5. \A y \in DOMAIN t2 : v2[t2[y]] = y
  BY <1>1, <1>2, <1>3 DEF Inverses
<1> QED BY <1>1, <1>3, <1>4, <1>5 DEF Inverses

(* A step leaves the maps as those of t. *)
MapsAs(t) == s'.table = t.table /\ s'.inverse = t.inverse /\ s'.queue = t.queue /\ s'.allocated = t.allocated
RestAs(t) == Fields(s') /\ s'.tlb = t.tlb /\ s'.held = t.held

(* What a swap and a new page make of the state. *)
SwappedIs(t, c, x, old, frame) ==
  /\ Fields(t)
  /\ t.table = Mapped(Restrict(s.table, DOMAIN s.table \ {old}), x, frame)
  /\ t.inverse = [s.inverse EXCEPT ![frame] = x]
  /\ t.queue = Append(Tail(s.queue), x) /\ t.allocated = s.allocated
  /\ t.tlb = TlbAfterSwap(c, old) /\ t.held = [s.held EXCEPT ![c] = @ \ {frame}]
AllocatedIs(t, x, f) ==
  /\ Fields(t)
  /\ t.table = Mapped(s.table, x, f) /\ t.inverse = Mapped(s.inverse, f, x)
  /\ t.queue = Append(s.queue, x) /\ t.allocated = s.allocated + 1
  /\ t.tlb = s.tlb /\ t.held = s.held

(* Those are the two functions of va_to_pa. *)
LEMMA StepFields ==
  ASSUME Fields(s)
  PROVE  /\ \A c \in Cpu : \A x : SwappedIs(Swapped(c, x), c, x, NRU_vpage, s.table[NRU_vpage])
         /\ \A x, f, run : AllocatedIs(Allocated(x, f, run), x, f)
<1>1. ASSUME NEW c \in Cpu, NEW x  PROVE SwappedIs(Swapped(c, x), c, x, NRU_vpage, s.table[NRU_vpage])
  <2>1. PICK old, frame : old = NRU_vpage /\ frame = s.table[old]
    OBVIOUS
  <2>2. PICK t, v, q, b, h :
          /\ t = Mapped(Restrict(s.table, DOMAIN s.table \ {old}), x, frame)
          /\ v = [s.inverse EXCEPT ![frame] = x] /\ q = Append(Tail(s.queue), x)
          /\ b = TlbAfterSwap(c, old) /\ h = [s.held EXCEPT ![c] = @ \ {frame}]
    OBVIOUS
  <2>3. Swapped(c, x) = [s EXCEPT !.table = t, !.inverse = v, !.queue = q, !.tlb = b, !.held = h]
    BY <2>1, <2>2 DEF Swapped, Fields
  <2> QED BY <2>1, <2>2, <2>3 DEF SwappedIs, Fields
<1>2. ASSUME NEW x, NEW f, NEW run  PROVE AllocatedIs(Allocated(x, f, run), x, f)
  <2>1. PICK t, v, q : t = Mapped(s.table, x, f) /\ v = Mapped(s.inverse, f, x) /\ q = Append(s.queue, x)
    OBVIOUS
  <2>2. Allocated(x, f, run) = [s EXCEPT !.table = t, !.inverse = v, !.queue = q, !.previous = f,
                                         !.adjacent = run, !.allocated = s.allocated + 1]
    BY <2>1 DEF Allocated, Fields
  <2> QED BY <2>1, <2>2 DEF AllocatedIs, Fields
<1> QED BY <1>1, <1>2

(* What a step makes of the maps: nothing, a swap, or a new page. *)
LEMMA StepIs ==
  ASSUME IInv, [Next]_s
  PROVE  \/ MapsAs(s) /\ Fields(s') /\ DOMAIN s'.tlb = Cpu /\ DOMAIN s'.held = Cpu
         \/ \E c \in Cpu, v \in VPage :
              /\ <<c, v>> \notin DOMAIN s.table /\ s.allocated >= DRAM_PAGES
              /\ MapsAs(Swapped(c, <<c, v>>)) /\ RestAs(Swapped(c, <<c, v>>))
         \/ \E c \in Cpu, v \in VPage : \E f \in Frames, run \in Runs :
              /\ <<c, v>> \notin DOMAIN s.table /\ s.allocated < DRAM_PAGES /\ Free(f)
              /\ MapsAs(Allocated(<<c, v>>, f, run)) /\ RestAs(Allocated(<<c, v>>, f, run))
<1>0. Fields(s) /\ DOMAIN s.tlb = Cpu /\ DOMAIN s.held = Cpu
  BY DEF IInv, Shaped
<1>1. ASSUME NEW t, NEW c, NEW x, Fields(t), s' = Answered(t, c, x)
      PROVE  MapsAs(t) /\ RestAs(t)
  <2>1. PICK F : F = t.flight \cup {[cpu |-> c, page |-> x[2], frame |-> t.table[x]]}
    OBVIOUS
  <2>2. s' = [t EXCEPT !.flight = F]
    BY <1>1, <2>1 DEF Answered
  <2> QED BY <1>1, <2>2 DEF Fields, MapsAs, RestAs
<1>2. ASSUME NEW c \in Cpu, NEW v \in VPage, PageHit(c, v)
      PROVE  MapsAs(s) /\ Fields(s') /\ DOMAIN s'.tlb = Cpu /\ DOMAIN s'.held = Cpu
  BY <1>0, <1>1, <1>2 DEF PageHit, RestAs
<1>3. ASSUME NEW c \in Cpu, NEW v \in VPage, PageSwap(c, v)
      PROVE  /\ <<c, v>> \notin DOMAIN s.table /\ s.allocated >= DRAM_PAGES
             /\ MapsAs(Swapped(c, <<c, v>>)) /\ RestAs(Swapped(c, <<c, v>>))
  <2>1. Fields(Swapped(c, <<c, v>>))
    BY <1>0, StepFields DEF SwappedIs
  <2> QED BY <1>1, <1>3, <2>1 DEF PageSwap
<1>4. ASSUME NEW c \in Cpu, NEW v \in VPage, PageAllocate(c, v)
      PROVE  \E f \in Frames, run \in Runs :
               /\ <<c, v>> \notin DOMAIN s.table /\ s.allocated < DRAM_PAGES /\ Free(f)
               /\ MapsAs(Allocated(<<c, v>>, f, run)) /\ RestAs(Allocated(<<c, v>>, f, run))
  <2>1. PICK f \in Frames, run \in Runs : s' = Answered(Allocated(<<c, v>>, f, run), c, <<c, v>>)
    BY <1>4 DEF PageAllocate
  <2>2. Fields(Allocated(<<c, v>>, f, run))
    BY <1>0, StepFields DEF AllocatedIs
  <2>3. Free(f)
    BY DEF Frames, Adjacent
  <2> QED BY <1>1, <1>4, <2>1, <2>2, <2>3 DEF PageAllocate
<1>5. ASSUME NEW a \in s.flight, FillTlb(a)
      PROVE  MapsAs(s) /\ Fields(s') /\ DOMAIN s'.tlb = Cpu /\ DOMAIN s'.held = Cpu
  <2>1. PICK F, T : F = s.flight \ {a} /\ T = [s.tlb EXCEPT ![a.cpu] = @ \cup {[page |-> a.page, frame |-> a.frame]}]
    OBVIOUS
  <2>2. s' = [s EXCEPT !.flight = F, !.tlb = T] /\ DOMAIN T = Cpu
    BY <1>0, <1>5, <2>1 DEF FillTlb, Fields
  <2> QED BY <1>0, <2>2 DEF Fields, MapsAs
<1>6. ASSUME NEW c \in Cpu, Displace(c) \/ Touch(c)
      PROVE  MapsAs(s) /\ Fields(s') /\ DOMAIN s'.tlb = Cpu /\ DOMAIN s'.held = Cpu
  BY <1>0, <1>6 DEF Displace, Touch, Fields, MapsAs
<1>7. CASE UNCHANGED s
  BY <1>0, <1>7 DEF MapsAs
<1> QED BY <1>2, <1>3, <1>4, <1>5, <1>6, <1>7 DEF Next

(* Every step keeps the invariant. *)
LEMMA StepKeeps ==
  ASSUME NumbersAssumed, IInv, [Next]_s
  PROVE  IInv'
<1>0. /\ Fields(s) /\ DOMAIN s.tlb = Cpu /\ DOMAIN s.held = Cpu /\ DOMAIN s.table \subseteq Virtual
      /\ MapsInverse /\ Counted
  BY DEF IInv, Shaped
<1>1. CASE MapsAs(s) /\ Fields(s') /\ DOMAIN s'.tlb = Cpu /\ DOMAIN s'.held = Cpu
  <2>1. MapsInverse' /\ Counted'
    BY <1>1, SameMaps DEF MapsAs
  <2> QED BY <1>0, <1>1, <2>1 DEF IInv, Shaped, Fields, MapsAs
<1>2. ASSUME NEW c \in Cpu, NEW v \in VPage, <<c, v>> \notin DOMAIN s.table, s.allocated >= DRAM_PAGES,
             MapsAs(Swapped(c, <<c, v>>)), RestAs(Swapped(c, <<c, v>>))
      PROVE  IInv'
  <2>1. PICK x, old, t : x = <<c, v>> /\ old = NRU_vpage /\ t = Swapped(c, x)
    OBVIOUS
  <2>2. s.allocated \in Nat \ {0} /\ s.queue \in Seq(Virtual) /\ Len(s.queue) = s.allocated
        /\ IsFiniteSet(DOMAIN s.table) /\ Cardinality(DOMAIN s.table) = s.allocated /\ x \in Virtual
    BY <1>0, <1>2, <2>1 DEF Counted, NumbersAssumed, Virtual
  <2>3. DOMAIN s.table # {}
    BY <2>2, FS_EmptySet
  <2>4. old \in DOMAIN s.table
    BY <1>0, <2>1, <2>3, FirstPage
  <2>5. SwappedIs(t, c, x, old, s.table[old])
    BY <1>0, <2>1, StepFields
  <2>6. /\ s'.table = t.table /\ s'.inverse = t.inverse /\ s'.queue = t.queue /\ s'.allocated = t.allocated
        /\ Fields(s') /\ s'.tlb = t.tlb /\ s'.held = t.held
    BY <1>2, <2>1 DEF MapsAs, RestAs
  <2>7. DOMAIN t.table = (DOMAIN s.table \ {old}) \cup {x} /\ Inverses(t.table, t.inverse)
    <3>1. Inverses(s.table, s.inverse)
      BY <1>0 DEF MapsInverse, Inverses
    <3>2. Moved(s.table, s.inverse, old, x, t.table, t.inverse)
      BY <2>5 DEF SwappedIs, Moved
    <3>3. x \notin DOMAIN s.table
      BY <1>2, <2>1
    <3> QED BY <2>4, <3>1, <3>2, <3>3, SwapKeeps
  <2>8. MapsInverse'
    BY <2>6, <2>7 DEF MapsInverse, Inverses, Range
  <2>9. IsFiniteSet(DOMAIN t.table) /\ Cardinality(DOMAIN t.table) = s.allocated
    <3>1. PICK D : D = DOMAIN s.table \ {old}
      OBVIOUS
    <3>2. IsFiniteSet(D) /\ Cardinality(D) = s.allocated - 1
      BY <2>2, <2>4, <3>1, FS_RemoveElement
    <3>3. x \notin D
      BY <1>2, <2>1, <3>1
    <3>4. DOMAIN t.table = D \cup {x}
      BY <2>7, <3>1
    <3>5. IsFiniteSet(D \cup {x}) /\ Cardinality(D \cup {x}) = Cardinality(D) + 1
      BY <3>2, <3>3, FS_AddElement
    <3> QED BY <2>2, <3>2, <3>4, <3>5
  <2>10. t.queue \in Seq(Virtual) /\ Len(t.queue) = s.allocated /\ t.allocated = s.allocated
    <3>1. s.queue # << >>
      BY <2>2
    <3>2. Tail(s.queue) \in Seq(Virtual) /\ Len(Tail(s.queue)) = s.allocated - 1
      BY <2>2, <3>1, HeadTailProperties
    <3> QED BY <2>2, <2>5, <3>2, AppendProperties DEF SwappedIs
  <2>11. Counted'
    BY <1>0, <2>2, <2>6, <2>9, <2>10 DEF Counted
  <2>12. DOMAIN s'.tlb = Cpu /\ DOMAIN s'.held = Cpu
    BY <1>0, <2>5, <2>6 DEF SwappedIs, TlbAfterSwap
  <2>13. DOMAIN s'.table \subseteq Virtual
    BY <1>0, <2>2, <2>6, <2>7
  <2> QED BY <2>6, <2>8, <2>11, <2>12, <2>13 DEF IInv, Shaped, Fields
<1>3. ASSUME NEW c \in Cpu, NEW v \in VPage, NEW f \in Frames, NEW run \in Runs,
             <<c, v>> \notin DOMAIN s.table, s.allocated < DRAM_PAGES, Free(f),
             MapsAs(Allocated(<<c, v>>, f, run)), RestAs(Allocated(<<c, v>>, f, run))
      PROVE  IInv'
  <2>1. PICK x, t : x = <<c, v>> /\ t = Allocated(x, f, run)
    OBVIOUS
  <2>2. s.allocated \in Nat /\ s.queue \in Seq(Virtual) /\ Len(s.queue) = s.allocated
        /\ IsFiniteSet(DOMAIN s.table) /\ Cardinality(DOMAIN s.table) = s.allocated /\ x \in Virtual
    BY <1>0, <2>1 DEF Counted, Virtual
  <2>3. AllocatedIs(t, x, f)
    BY <1>0, <2>1, StepFields
  <2>4. /\ s'.table = t.table /\ s'.inverse = t.inverse /\ s'.queue = t.queue /\ s'.allocated = t.allocated
        /\ Fields(s') /\ s'.tlb = t.tlb /\ s'.held = t.held
    BY <1>3, <2>1 DEF MapsAs, RestAs
  <2>5. DOMAIN t.table = DOMAIN s.table \cup {x} /\ Inverses(t.table, t.inverse)
    <3>1. Inverses(s.table, s.inverse)
      BY <1>0 DEF MapsInverse, Inverses
    <3>2. Placed(s.table, s.inverse, f, x, t.table, t.inverse)
      BY <2>3 DEF AllocatedIs, Placed
    <3>3. f \notin DOMAIN s.inverse
      BY <1>3 DEF Free
    <3>4. x \notin DOMAIN s.table
      BY <1>3, <2>1
    <3> QED BY <3>1, <3>2, <3>3, <3>4, AllocateKeeps
  <2>6. MapsInverse'
    BY <2>4, <2>5 DEF MapsInverse, Inverses, Range
  <2>7. IsFiniteSet(DOMAIN t.table) /\ Cardinality(DOMAIN t.table) = s.allocated + 1
    <3>1. x \notin DOMAIN s.table
      BY <1>3, <2>1
    <3>2. IsFiniteSet(DOMAIN s.table \cup {x}) /\ Cardinality(DOMAIN s.table \cup {x}) = Cardinality(DOMAIN s.table) + 1
      BY <2>2, <3>1, FS_AddElement
    <3> QED BY <2>2, <2>5, <3>2
  <2>8. t.queue \in Seq(Virtual) /\ Len(t.queue) = s.allocated + 1 /\ t.allocated = s.allocated + 1
    BY <2>2, <2>3, AppendProperties DEF AllocatedIs
  <2>9. Counted'
    BY SMTT(60), <1>3, <2>2, <2>4, <2>7, <2>8 DEF Counted, NumbersAssumed
  <2>10. DOMAIN s'.tlb = Cpu /\ DOMAIN s'.held = Cpu /\ DOMAIN s'.table \subseteq Virtual
    BY <1>0, <2>2, <2>3, <2>4, <2>5 DEF AllocatedIs
  <2> QED BY <2>4, <2>6, <2>9, <2>10 DEF IInv, Shaped, Fields
<1> QED BY <1>1, <1>2, <1>3, StepIs

(* It holds of the empty table. *)
LEMMA Start ==
  ASSUME NumbersAssumed, Init
  PROVE  IInv
<1>1. /\ Fields(s) /\ s.table = << >> /\ s.inverse = << >> /\ s.queue = << >> /\ s.allocated = 0
      /\ DOMAIN s.tlb = Cpu /\ DOMAIN s.held = Cpu
  BY DEF Init, Fields
<1>2. DOMAIN s.table = {} /\ DOMAIN s.inverse = {} /\ Len(s.queue) = 0 /\ s.queue \in Seq(Virtual)
  BY <1>1
<1>3. Range(s.table) = {}
  BY <1>2 DEF Range
<1> QED BY <1>1, <1>2, <1>3, FS_EmptySet DEF IInv, Shaped, MapsInverse, Counted, NumbersAssumed

LEMMA Invariant == NumbersAssumed => (Spec => []IInv)
<1> SUFFICES ASSUME NumbersAssumed  PROVE Spec => []IInv
  OBVIOUS
<1>1. Init => IInv
  BY Start
<1>2. IInv /\ [Next]_s => IInv'
  BY StepKeeps
<1> QED BY <1>1, <1>2, PTL DEF Spec

(* The page table and its inverse are each other's inverse, so no two      *)
(* pages have one frame; the counter, the queue and the table agree on     *)
(* the number of pages, which is at most that of the frames.               *)
THEOREM TablesAreInverse == NumbersAssumed => (Spec => [](MapsInverse /\ PagesCounted))
<1> SUFFICES ASSUME NumbersAssumed  PROVE Spec => [](MapsInverse /\ PagesCounted)
  OBVIOUS
<1>1. IInv => MapsInverse /\ PagesCounted
  BY DEF IInv, Counted, PagesCounted
<1> QED BY <1>1, Invariant, PTL

(* When all frames are taken, the loop finds a page to take one from, and  *)
(* inverse_table has the frame (src/main.cc:428-451, three assertions).    *)
SwapFindsPage ==
  s.allocated >= DRAM_PAGES => NRU_vpage \in DOMAIN s.table /\ s.table[NRU_vpage] \in DOMAIN s.inverse

(* The three assertions of a page swap never fail. *)
THEOREM SwapsFindTheirPage == NumbersAssumed => (Spec => []SwapFindsPage)
<1> SUFFICES ASSUME NumbersAssumed  PROVE Spec => []SwapFindsPage
  OBVIOUS
<1>1. IInv => SwapFindsPage
  <2> SUFFICES ASSUME IInv, s.allocated >= DRAM_PAGES
               PROVE  NRU_vpage \in DOMAIN s.table /\ s.table[NRU_vpage] \in DOMAIN s.inverse
    BY DEF SwapFindsPage
  <2>1. DOMAIN s.table # {}
    BY FS_EmptySet DEF IInv, Counted, NumbersAssumed
  <2>2. NRU_vpage \in DOMAIN s.table
    BY <2>1, FirstPage DEF IInv, Shaped
  <2> QED BY <2>2 DEF IInv, MapsInverse, Range
<1> QED BY <1>1, Invariant, PTL

(* With one core, the swap itself leaves no translation of the page that   *)
(* loses its frame and no line of the frame behind (src/main.cc:462-501):  *)
(* what the run page_swap shows takes several cores.  Of a translation     *)
(* still in flight, which fills a TLB later, it says nothing.              *)
THEOREM OneCoreSwapsInvalidate == NumbersAssumed /\ Cpu = {0} => (Spec => SwapInvalidates)
<1> SUFFICES ASSUME NumbersAssumed, Cpu = {0}  PROVE Spec => SwapInvalidates
  OBVIOUS
<1>1. IInv /\ [Next]_s =>
        [\A x \in DOMAIN s.table :
           x \notin DOMAIN s'.table =>
             /\ \A e \in s'.tlb[x[1]] : e.page # x[2]
             /\ \A c \in Cpu : s.table[x] \notin s'.held[c]]_s
  <2> SUFFICES ASSUME IInv, [Next]_s, NEW x \in DOMAIN s.table, x \notin DOMAIN s'.table
               PROVE  /\ \A e \in s'.tlb[x[1]] : e.page # x[2]
                      /\ \A c \in Cpu : s.table[x] \notin s'.held[c]
    OBVIOUS
  <2>0. Fields(s) /\ DOMAIN s.tlb = Cpu /\ DOMAIN s.held = Cpu /\ x \in Virtual
    BY DEF IInv, Shaped
  <2>1. ASSUME NEW c \in Cpu, NEW v \in VPage,
               MapsAs(Swapped(c, <<c, v>>)), RestAs(Swapped(c, <<c, v>>))
        PROVE  /\ \A e \in s'.tlb[x[1]] : e.page # x[2]
               /\ \A d \in Cpu : s.table[x] \notin s'.held[d]
    <3>1. PICK y, old, t : y = <<c, v>> /\ old = NRU_vpage /\ t = Swapped(c, y)
      OBVIOUS
    <3>2. SwappedIs(t, c, y, old, s.table[old])
      BY <2>0, <3>1, StepFields
    <3>3. s'.table = t.table /\ s'.tlb = t.tlb /\ s'.held = t.held
      BY <2>1, <3>1 DEF MapsAs, RestAs
    <3>4. x = old
      BY <3>2, <3>3 DEF SwappedIs, Mapped, Restrict
    <3>5. c = 0 /\ x[1] = 0
      BY <2>0 DEF Virtual
    <3>6. t.tlb[0] = {e \in s.tlb[0] : ~(x[1] = 0 /\ e.page = x[2])}
      BY <2>0, <3>2, <3>4, <3>5 DEF SwappedIs, TlbAfterSwap
    <3>7. t.held[0] = s.held[0] \ {s.table[x]}
      BY <2>0, <3>2, <3>4, <3>5 DEF SwappedIs
    <3> QED BY <3>3, <3>5, <3>6, <3>7
  <2>2. ASSUME NEW c \in Cpu, NEW v \in VPage, NEW f, NEW run, MapsAs(Allocated(<<c, v>>, f, run))
        PROVE  FALSE
    <3>1. s'.table = Mapped(s.table, <<c, v>>, f)
      BY <2>0, <2>2, StepFields DEF MapsAs, AllocatedIs
    <3> QED BY <3>1 DEF Mapped
  <2>3. CASE MapsAs(s)
    BY <2>3 DEF MapsAs
  <2> QED BY <2>1, <2>2, <2>3, StepIs
<1> QED BY <1>1, Invariant, PTL DEF Spec, SwapInvalidates
=============================================================================
