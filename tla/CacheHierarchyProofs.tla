------------------------ MODULE CacheHierarchyProofs ------------------------
(***************************************************************************)
(* The hierarchy of CacheHierarchy answers every miss exactly once, loses  *)
(* no read, overruns no queue and keeps every modified line until DRAM has *)
(* written it: for any number of lines and requests, any caches wired as   *)
(* main() wires them, and queues and MSHRs of any size as long as a read   *)
(* queue has room for the misses of the levels above.  No request of the   *)
(* core is lost, doubled or answered twice in the first-level caches.      *)
(***************************************************************************)
EXTENDS CacheHierarchy, FiniteSetTheorems, TLAPS

-----------------------------------------------------------------------------
(* First part: reads, prefetches and misses on their way down the hierarchy *)
(* and data on its way up.  The invariant Traffic says for every cache who  *)
(* is owed which line, and every step of CacheHierarchy preserves it.       *)

-----------------------------------------------------------------------------
(* Queues of packets, of any length. *)

(* The packets of queue q for line x. *)
At(q, x) == {p \in {q[i] : i \in DOMAIN q} : p.line = x}

(* No two packets of queue q are for the same line. *)
Distinct(q) == \A i, j \in DOMAIN q : q[i].line = q[j].line => i = j

(* The packet that add_pq leaves for one that waits: the nearer fill level. *)
Nearer(p, r) == IF p.fill < r.fill THEN [r EXCEPT !.fill = p.fill] ELSE r

-----------------------------------------------------------------------------
(* What it means for a packet to wait for line x.                          *)
LEMMA AtMember ==
  ASSUME NEW q \in Seq(Packet), NEW x
  PROVE  /\ \A p : p \in At(q, x) <=> \E i \in 1 .. Len(q) : p = q[i] /\ q[i].line = x
         /\ \A p \in At(q, x) : p \in Packet /\ p.line = x
         /\ x \in Lines(q) <=> At(q, x) # {}
BY DEF At, Lines

(* Two packets of a queue without duplicates are for different lines.      *)
LEMMA AtMostOne ==
  ASSUME NEW q \in Seq(Packet), Distinct(q), NEW x, NEW p \in At(q, x)
  PROVE  At(q, x) = {p}
BY AtMember DEF Distinct

(* The head of a queue waits for its own line.                             *)
LEMMA HeadAt ==
  ASSUME NEW q \in Seq(Packet), q # <<>>
  PROVE  /\ Head(q) \in Packet
         /\ Head(q) \in At(q, Head(q).line)
         /\ Head(q).line \in Line
<1>1. Head(q) = q[1] /\ 1 \in 1 .. Len(q)
  OBVIOUS
<1>2. Head(q) \in Packet
  BY <1>1
<1>3. Head(q) \in At(q, Head(q).line)
  <2> DEFINE x == Head(q).line
  <2>1. \A p : p \in At(q, x) <=> \E i \in 1 .. Len(q) : p = q[i] /\ q[i].line = x
    BY AtMember
  <2> QED BY <1>1, <2>1
<1> QED BY <1>2, <1>3 DEF Packet

(* Removing the head leaves only packets that were there.                  *)
LEMMA TailSubset ==
  ASSUME NEW q \in Seq(Packet), q # <<>>
  PROVE  /\ Tail(q) \in Seq(Packet)
         /\ Len(Tail(q)) = Len(q) - 1
         /\ \A x : At(Tail(q), x) \subseteq At(q, x)
<1>1. /\ Tail(q) \in Seq(Packet) /\ Len(Tail(q)) = Len(q) - 1
      /\ \A i \in 1 .. Len(Tail(q)) : Tail(q)[i] = q[i + 1] /\ i + 1 \in 1 .. Len(q)
  OBVIOUS
<1>2. ASSUME NEW x, NEW p \in At(Tail(q), x)  PROVE p \in At(q, x)
  <2> DEFINE t == Tail(q)
  <2>0. t \in Seq(Packet) /\ p \in At(t, x)
    BY <1>1, <1>2
  <2> HIDE DEF t
  <2>1. PICK i \in 1 .. Len(t) : p = t[i] /\ t[i].line = x
    BY <2>0, AtMember
  <2> USE DEF t
  <2>2. i + 1 \in 1 .. Len(q) /\ p = q[i + 1] /\ q[i + 1].line = x
    BY <1>1, <2>1
  <2> QED BY <2>2, AtMember
<1> QED BY <1>1, <1>2

(* Removing the head takes away nothing else.                              *)
LEMMA TailKeeps ==
  ASSUME NEW q \in Seq(Packet), q # <<>>, NEW x, NEW p \in At(q, x), p # Head(q)
  PROVE  p \in At(Tail(q), x)
<1>1. /\ Tail(q) \in Seq(Packet) /\ Head(q) = q[1]
      /\ \A i \in 1 .. Len(q) : i = 1 \/ (i - 1 \in 1 .. Len(Tail(q)) /\ Tail(q)[i - 1] = q[i])
  OBVIOUS
<1>2. PICK i \in 1 .. Len(q) : p = q[i] /\ q[i].line = x
  BY AtMember
<1>3. i - 1 \in 1 .. Len(Tail(q)) /\ Tail(q)[i - 1] = q[i]
  BY <1>1, <1>2
<1> QED BY ZenonT(60), <1>1, <1>2, <1>3, AtMember

(* Without duplicates, removing the head takes away its line's packet and  *)
(* no other.                                                               *)
LEMMA TailAt ==
  ASSUME NEW q \in Seq(Packet), q # <<>>, Distinct(q)
  PROVE  /\ Distinct(Tail(q))
         /\ At(q, Head(q).line) = {Head(q)}
         /\ At(Tail(q), Head(q).line) = {}
         /\ \A x : x # Head(q).line => At(Tail(q), x) = At(q, x)
<1>1. /\ Tail(q) \in Seq(Packet) /\ Len(Tail(q)) = Len(q) - 1
      /\ \A i \in 1 .. Len(Tail(q)) : Tail(q)[i] = q[i + 1] /\ i + 1 \in 1 .. Len(q)
      /\ Head(q) = q[1] /\ 1 \in 1 .. Len(q)
      /\ \A i \in 1 .. Len(q) : i = 1 \/ (i - 1 \in 1 .. Len(Tail(q)) /\ Tail(q)[i - 1] = q[i])
  OBVIOUS
<1>2. Distinct(Tail(q))
  BY <1>1 DEF Distinct
<1>3. At(q, Head(q).line) = {Head(q)}
  BY HeadAt, AtMostOne
<1>4. At(Tail(q), Head(q).line) = {}
  <2> SUFFICES ASSUME NEW p \in At(Tail(q), Head(q).line)  PROVE FALSE
    OBVIOUS
  <2> DEFINE t == Tail(q)
             x == Head(q).line
  <2>0. t \in Seq(Packet) /\ p \in At(t, x)
    BY <1>1
  <2> HIDE DEF t, x
  <2>1. PICK i \in 1 .. Len(t) : t[i].line = x
    BY <2>0, AtMember
  <2> USE DEF t, x
  <2>2. i + 1 \in 1 .. Len(q) /\ q[i + 1].line = q[1].line /\ i + 1 # 1
    BY <1>1, <2>1
  <2> QED BY <1>1, <2>2 DEF Distinct
<1>5. ASSUME NEW x, x # Head(q).line  PROVE At(Tail(q), x) = At(q, x)
  <2>1. ASSUME NEW p \in At(q, x)  PROVE p \in At(Tail(q), x)
    <3>1. PICK i \in 1 .. Len(q) : p = q[i] /\ q[i].line = x
      BY AtMember
    <3>2. i - 1 \in 1 .. Len(Tail(q)) /\ Tail(q)[i - 1] = q[i]
      BY <1>1, <1>5, <3>1
    <3> QED BY ZenonT(60), <1>1, <3>1, <3>2, AtMember
  <2> QED BY <2>1, TailSubset
<1> QED BY <1>2, <1>3, <1>4, <1>5

(* Appending a packet adds it for its own line only.                       *)
LEMMA AppendAt ==
  ASSUME NEW q \in Seq(Packet), NEW p \in Packet
  PROVE  /\ Append(q, p) \in Seq(Packet)
         /\ Len(Append(q, p)) = Len(q) + 1
         /\ \A x : At(Append(q, p), x) = IF x = p.line THEN At(q, x) \cup {p} ELSE At(q, x)
         /\ Distinct(q) /\ At(q, p.line) = {} => Distinct(Append(q, p))
<1> DEFINE a == Append(q, p)
<1>1. /\ a \in Seq(Packet) /\ Len(a) = Len(q) + 1
      /\ \A i \in 1 .. Len(q) : a[i] = q[i] /\ i \in 1 .. Len(a)
      /\ a[Len(q) + 1] = p /\ Len(q) + 1 \in 1 .. Len(a)
      /\ \A i \in 1 .. Len(a) : i = Len(q) + 1 \/ i \in 1 .. Len(q)
  OBVIOUS
<1> HIDE DEF a
<1>2. ASSUME NEW x  PROVE At(a, x) = IF x = p.line THEN At(q, x) \cup {p} ELSE At(q, x)
  <2>1. \A r : r \in At(a, x) <=> \E i \in 1 .. Len(a) : r = a[i] /\ a[i].line = x
    BY <1>1, AtMember
  <2>2. \A r : r \in At(q, x) <=> \E i \in 1 .. Len(q) : r = q[i] /\ q[i].line = x
    BY AtMember
  <2>3. ASSUME NEW r  PROVE r \in At(a, x) <=> r \in At(q, x) \/ (r = p /\ p.line = x)
    BY <1>1, <2>1, <2>2
  <2> QED BY <2>3
<1>3. ASSUME Distinct(q), At(q, p.line) = {}  PROVE Distinct(a)
  <2>1. \A i \in 1 .. Len(q) : q[i].line # p.line
    BY <1>3, AtMember
  <2> QED BY <1>1, <1>3, <2>1 DEF Distinct
<1> QED BY <1>1, <1>2, <1>3 DEF a

(* add_rq of a lower level with room for a line that does not wait there.  *)
LEMMA QueuedAt ==
  ASSUME NEW q \in Seq(Packet), NEW p \in Packet, NEW size \in Nat, Len(q) <= size
  PROVE  LET n == Queued(q, p, size)
             d == [p EXCEPT !.deps = {}]
         IN  /\ n \in Seq(Packet) /\ Len(n) <= size
             /\ Distinct(q) => Distinct(n)
             /\ \A x : x # p.line => At(n, x) = At(q, x)
             /\ At(q, p.line) = {} /\ Len(q) < size => At(n, p.line) = {d}
             /\ At(n, p.line) \subseteq At(q, p.line) \cup {d}
             /\ d \in Packet /\ d.line = p.line
<1> DEFINE d == [p EXCEPT !.deps = {}]
<1>1. d \in Packet /\ d.line = p.line
  BY DEF Packet
<1> HIDE DEF d
<1>2. CASE p.line \in Lines(q) \/ Len(q) >= size
  BY <1>1, <1>2, AtMember DEF Queued, d
<1>3. CASE ~(p.line \in Lines(q) \/ Len(q) >= size)
  <2>1. Queued(q, p, size) = Append(q, d) /\ At(q, p.line) = {}
    BY <1>3, AtMember DEF Queued, d
  <2>2. /\ Append(q, d) \in Seq(Packet) /\ Len(Append(q, d)) = Len(q) + 1
        /\ Distinct(q) /\ At(q, p.line) = {} => Distinct(Append(q, d))
        /\ \A x : At(Append(q, d), x) = IF x = p.line THEN At(q, x) \cup {d} ELSE At(q, x)
    BY <1>1, AppendAt
  <2>3. Len(q) + 1 <= size
    BY <1>3
  <2> HIDE DEF d
  <2> QED BY <1>1, <2>1, <2>2, <2>3 DEF d
<1> QED BY <1>2, <1>3

(* A queue rewritten packet by packet without touching the lines.          *)
LEMMA RewrittenAt ==
  ASSUME NEW q \in Seq(Packet), NEW n, n = [i \in DOMAIN q |-> n[i]],
         \A i \in DOMAIN q : n[i] \in Packet /\ n[i].line = q[i].line
  PROVE  /\ n \in Seq(Packet) /\ Len(n) = Len(q)
         /\ Distinct(q) => Distinct(n)
         /\ \A x : \A r : r \in At(n, x) <=> \E i \in 1 .. Len(q) : r = n[i] /\ q[i].line = x
<1>1. DOMAIN q = 1 .. Len(q) /\ Len(q) \in Nat
  OBVIOUS
<1>2. n = [i \in 1 .. Len(q) |-> n[i]] /\ \A i \in 1 .. Len(q) : n[i] \in Packet
  BY <1>1
<1>3. n \in Seq(Packet) /\ Len(n) = Len(q)
  BY <1>1, <1>2
<1>4. Distinct(q) => Distinct(n)
  BY <1>1, <1>3 DEF Distinct
<1>5. ASSUME NEW x, NEW r  PROVE r \in At(n, x) <=> \E i \in 1 .. Len(q) : r = n[i] /\ q[i].line = x
  <2>1. r \in At(n, x) <=> \E i \in 1 .. Len(n) : r = n[i] /\ n[i].line = x
    BY <1>3, AtMember
  <2> QED BY <1>1, <1>3, <2>1
<1> QED BY <1>3, <1>4, <1>5

(* add_pq adds the prefetch or brings the waiting one nearer, and          *)
(* touches no other line.                                                  *)
LEMMA PrefetchQueuedAt ==
  ASSUME NEW q \in Seq(Packet), NEW p \in Packet, NEW size \in Nat, Len(q) < size
  PROVE  LET n == PrefetchQueued(q, p)
         IN  /\ n \in Seq(Packet) /\ Len(n) <= size
             /\ Distinct(q) => Distinct(n)
             /\ \A x : x # p.line => At(n, x) = At(q, x)
             /\ At(n, p.line) = IF At(q, p.line) = {} THEN {p} ELSE {Nearer(p, r) : r \in At(q, p.line)}
<1> DEFINE n == PrefetchQueued(q, p)
<1>1. CASE p.line \notin Lines(q)
  <2>1. n = Append(q, p) /\ At(q, p.line) = {}
    BY <1>1, AtMember DEF PrefetchQueued
  <2> QED BY <2>1, AppendAt
<1>2. CASE p.line \in Lines(q)
  <2>1. n = [i \in DOMAIN q |-> IF q[i].line = p.line THEN Nearer(p, q[i]) ELSE q[i]]
    <3>1. n = [i \in DOMAIN q |-> IF q[i].line = p.line /\ p.fill < q[i].fill
                           THEN [q[i] EXCEPT !.fill = p.fill] ELSE q[i]]
      BY <1>2 DEF PrefetchQueued
    <3> QED BY <3>1 DEF Nearer
  <2> HIDE DEF n
  <2>2. \A i \in DOMAIN q : q[i] \in Packet
    OBVIOUS
  <2>3. \A r \in Packet : Nearer(p, r) \in Packet /\ Nearer(p, r).line = r.line
    BY DEF Nearer, Packet
  <2>4. /\ n = [i \in DOMAIN q |-> n[i]]
        /\ \A i \in DOMAIN q : n[i] = IF q[i].line = p.line THEN Nearer(p, q[i]) ELSE q[i]
    BY <2>1
  <2>5. \A i \in DOMAIN q : n[i] \in Packet /\ n[i].line = q[i].line
    BY <2>2, <2>3, <2>4
  <2>6. /\ n \in Seq(Packet) /\ Len(n) = Len(q)
        /\ Distinct(q) => Distinct(n)
        /\ \A x : \A r : r \in At(n, x) <=> \E i \in 1 .. Len(q) : r = n[i] /\ q[i].line = x
    BY SMTT(60), <2>4, <2>5, RewrittenAt
  <2>7. \A x : \A r : r \in At(q, x) <=> \E i \in 1 .. Len(q) : r = q[i] /\ q[i].line = x
    BY AtMember
  <2>8. DOMAIN q = 1 .. Len(q)
    OBVIOUS
  <2>9. ASSUME NEW x, x # p.line  PROVE At(n, x) = At(q, x)
    <3>1. ASSUME NEW r  PROVE r \in At(n, x) <=> r \in At(q, x)
      BY <2>4, <2>6, <2>7, <2>8, <2>9
    <3> QED BY <3>1
  <2>10. At(n, p.line) = {Nearer(p, r) : r \in At(q, p.line)}
    <3>1. ASSUME NEW r  PROVE r \in At(n, p.line) <=> \E t \in At(q, p.line) : r = Nearer(p, t)
      BY SMTT(60), <2>4, <2>6, <2>7, <2>8
    <3> QED BY <3>1
  <2>11. At(q, p.line) # {}
    BY <1>2, AtMember
  <2> QED BY <2>6, <2>9, <2>10, <2>11 DEF n
<1> QED BY <1>1, <1>2

(* In a queue without duplicates there are as many packets as lines.       *)
LEMMA DistinctLines ==
  ASSUME NEW q \in Seq(Packet), Distinct(q), IsFiniteSet(Line)
  PROVE  Len(q) = Cardinality(Lines(q)) /\ Lines(q) \subseteq Line
<1> DEFINE f == [i \in 1 .. Len(q) |-> q[i].line]
<1>1. DOMAIN q = 1 .. Len(q) /\ Len(q) \in Nat
  OBVIOUS
<1>2. \A i \in 1 .. Len(q) : q[i] \in Packet
  OBVIOUS
<1>3. Lines(q) = {f[i] : i \in 1 .. Len(q)} /\ Lines(q) \subseteq Line
  BY <1>1, <1>2 DEF Lines, Packet
<1>4. f \in Bijection(1 .. Len(q), Lines(q))
  <2>1. f \in [1 .. Len(q) -> Lines(q)]
    BY <1>3
  <2>2. \A i, j \in 1 .. Len(q) : f[i] = f[j] => i = j
    BY <1>1 DEF Distinct
  <2>3. \A x \in Lines(q) : \E i \in 1 .. Len(q) : f[i] = x
    BY <1>3
  <2> HIDE DEF f
  <2> QED BY <2>1, <2>2, <2>3 DEF Bijection, Injection, Surjection, IsInjective
<1> HIDE DEF f
<1>5. Cardinality(Lines(q)) = Len(q)
  BY <1>1, <1>4, FS_CountingElements DEF ExistsBijection
<1> QED BY <1>3, <1>5

-----------------------------------------------------------------------------
(* What all results rest on: the lines that the instruction side and the   *)
(* data side of a core ask for are different ones.                         *)
CodeAndDataApart ==
  \A c, e \in FirstLevel : c # e /\ lower[c] = lower[e] => Footprint[c] \cap Footprint[e] = {}

-----------------------------------------------------------------------------
(* The inductive invariant. *)

Typed ==
  /\ mshr \in [Cache -> [Line -> MshrEntry \cup {Free}]]
  /\ rq \in [Cache -> Seq(Packet)]
  /\ pq \in [Cache -> Seq(Packet)]
  /\ dramRQ \subseteq Line

Sized ==
  \A c \in Cache :
    /\ MshrOccupancy(c) <= MSHR_SIZE[c]
    /\ Len(rq[c]) <= RQ_SIZE[c] /\ Len(pq[c]) <= PQ_SIZE[c]

(* The caches that hold modified data. *)
DataKinds == {"L1D", "L2C", "LLC"}

(* A read is a demand and wants its line everywhere up to the core.        *)
LawfulRead(c, p) ==
  /\ p.type \in {"LOAD", "RFO"} /\ p.fill = 1
  /\ c \in FirstLevel => p.line \in Footprint[c] /\ (p.instr <=> kind[c] \in {"L1I", "ITLB"})

(* The writes of the L1D are stores, those below it evictions that no      *)
(* upper level waits for.                                                  *)
LawfulWrite(c, p) ==
  /\ kind[c] \in DataKinds /\ ~p.instr /\ p.deps = {} /\ p.fill = fill_level(c)
  /\ IF kind[c] = "L1D" THEN p.type = "RFO" /\ p.line \in Footprint[c] ELSE p.type = "WRITEBACK"

LawfulPrefetch(c, p) ==
  /\ kind[c] \in DataKinds /\ p.type = "PREFETCH" /\ ~p.instr
  /\ kind[c] = "L1D" => p.line \in Footprint[c]

(* A demand miss wants its line everywhere; only a prefetch may stop at a  *)
(* lower level, and it is always on the data side.                         *)
LawfulMiss(c, x, e) ==
  /\ e.type \in {"LOAD", "RFO", "PREFETCH"}
  /\ e.type = "PREFETCH" => ~e.instr
  /\ e.type # "PREFETCH" => e.fill = 1
  /\ c \in FirstLevel => x \in Footprint[c]

LawfulAt(c, x) ==
  /\ \A p \in At(rq[c], x) : LawfulRead(c, p)
  /\ \A p \in At(pq[c], x) : LawfulPrefetch(c, p)
  /\ mshr[c][x] # Free => LawfulMiss(c, x, mshr[c][x])

Lawful ==
  \A c \in Cache : Distinct(rq[c]) /\ Distinct(pq[c]) /\ \A x \in Line : LawfulAt(c, x)

(* The upper level on the instruction or on the data side. *)
Side(d, instr) == IF instr THEN icache[d] ELSE dcache[d]

(* The sides to which cache d owes line x: for a read in its queue, for a  *)
(* prefetch wanted above, for a miss of its own that is wanted above.      *)
OwedReads(d, x) == IF d \in FirstLevel THEN {} ELSE {p.instr : p \in At(rq[d], x)}
OwedPrefetches(d, x) == {p.instr : p \in {r \in At(pq[d], x) : r.fill < fill_level(d)}}
OwedMiss(d, x) ==
  IF mshr[d][x] # Free /\ mshr[d][x].fill < fill_level(d) THEN {mshr[d][x].instr} ELSE {}

Owed(d, x) == OwedReads(d, x) \cup OwedPrefetches(d, x) \cup OwedMiss(d, x)

OwedOnce(d, x) ==
  \/ OwedReads(d, x) = {} /\ OwedPrefetches(d, x) = {}
  \/ OwedReads(d, x) = {} /\ OwedMiss(d, x) = {}
  \/ OwedPrefetches(d, x) = {} /\ OwedMiss(d, x) = {}

(* The caches above d whose miss for x is in flight. *)
Waiters(d, x) == {u \in Cache : lower[u] = d /\ InFlight(u, x)}

(* Who waits for cache d is exactly who d owes the line to, and d owes it  *)
(* for one reason only.                                                    *)
AnsweringAt(d, x) ==
  /\ {Side(d, i) : i \in Owed(d, x)} = Waiters(d, x)
  /\ OwedOnce(d, x)

Answering == \A d \in Cache, x \in Line : AnsweringAt(d, x)

(* The STLB finds every translation and the LLC waits for what DRAM has to *)
(* read.                                                                   *)
AnsweredFromOutside ==
  /\ \A x \in Line : Waiters(NoCache, x) = {}
  /\ \A c \in Cache, x \in Line : lower[c] = DRAM => (InFlight(c, x) <=> x \in dramRQ)

(* Misses, reads and prefetches. *)
Traffic == Typed /\ Sized /\ Lawful /\ Answering /\ AnsweredFromOutside

(* Stores and evictions. *)
Writes ==
  /\ wq \in [Cache -> Seq(Packet)]
  /\ \A c \in Cache : Len(wq[c]) <= WQ_SIZE[c]
  /\ \A c \in Cache, x \in Line : \A p \in At(wq[c], x) : LawfulWrite(c, p)

-----------------------------------------------------------------------------
(* The wiring. *)
LEMMA Levels ==
  ASSUME NEW c \in Cache
  PROVE  /\ c \in FirstLevel <=> kind[c] \in {"ITLB", "DTLB", "L1I", "L1D"}
         /\ fill_level(c) \in Fills
         /\ c \in FirstLevel <=> fill_level(c) = 1
         /\ c \in FirstLevel => lower[c] \in Cache
         /\ lower[c] \in Cache => lower[c] \notin FirstLevel /\ fill_level(lower[c]) = 2 * fill_level(c)
         /\ lower[c] = DRAM => c \notin FirstLevel /\ fill_level(c) = 4
         /\ lower[c] = NoCache => c \notin FirstLevel
         /\ lower[c] \in Cache \/ lower[c] = DRAM \/ lower[c] = NoCache
BY LevelsAssumption DEF FirstLevel, fill_level, Kinds, Fills

(* Caches above the same one are on different sides of it, or the same.    *)
LEMMA SameLower ==
  ASSUME NEW c \in Cache, NEW u \in Cache, lower[u] = lower[c], lower[c] \in Cache, u # c
  PROVE  u \in FirstLevel /\ c \in FirstLevel
BY Levels, LevelsAssumption, UpperAssumption DEF Kinds, FirstLevel

(* The levels above a cache are on one of its two sides.                   *)
LEMMA UpperIsSide ==
  ASSUME NEW u \in Cache, lower[u] \in Cache
  PROVE  /\ u = icache[lower[u]] \/ u = dcache[lower[u]]
         /\ kind[u] \in {"L1I", "ITLB"} => Side(lower[u], TRUE) = u
         /\ kind[u] \in {"L1D", "DTLB"} => Side(lower[u], FALSE) = u
         /\ u \notin FirstLevel => \A i \in BOOLEAN : Side(lower[u], i) = u
         /\ u # lower[u]
BY Levels, LevelsAssumption, UpperAssumption DEF Kinds, FirstLevel, Side, Fills

-----------------------------------------------------------------------------
(* The room in MSHRs and in the read queue below.                          *)
LEMMA EntryTyped ==
  /\ Free \notin MshrEntry
  /\ \A p \in Packet, back \in BOOLEAN :
       Entry(p, back) \in MshrEntry /\ Entry(p, back) # Free
BY DEF Free, MshrEntry, Entry, Packet, Fills

(* The lines with a miss, as a set of a function on lines.                 *)
Taken(m) == {x \in Line : m[x] # Free}

(* The occupancy counts a finite set.                                      *)
LEMMA OccupancyType ==
  ASSUME NEW c \in Cache
  PROVE  /\ MshrOccupancy(c) = Cardinality(Taken(mshr[c]))
         /\ MshrOccupancy(c) \in Nat
         /\ IsFiniteSet(Taken(mshr[c]))
<1>1. Taken(mshr[c]) \in SUBSET Line
  BY DEF Taken
<1>2. IsFiniteSet(Taken(mshr[c]))
  BY <1>1, FS_Subset, SizesAssumption
<1> QED BY <1>2, FS_CardinalityType DEF MshrOccupancy, Taken

(* One more miss takes at most one more MSHR.                              *)
LEMMA TakeOne ==
  ASSUME NEW c \in Cache, NEW x \in Line, MshrRoom(c), NEW m,
         \A y \in Line : y # x => (m[y] # Free <=> mshr[c][y] # Free)
  PROVE  Cardinality(Taken(m)) <= MSHR_SIZE[c]
<1>1. Taken(m) \in SUBSET (Taken(mshr[c]) \cup {x})
  BY DEF Taken
<1>2. /\ IsFiniteSet(Taken(mshr[c]) \cup {x})
      /\ Cardinality(Taken(mshr[c]) \cup {x}) <= MshrOccupancy(c) + 1
      /\ Cardinality(Taken(mshr[c]) \cup {x}) \in Nat
  <2>1. PICK T : T = Taken(mshr[c])
    OBVIOUS
  <2>2. MshrOccupancy(c) = Cardinality(T) /\ MshrOccupancy(c) \in Nat /\ IsFiniteSet(T)
    BY <2>1, OccupancyType
  <2>3. /\ IsFiniteSet(T \cup {x})
        /\ Cardinality(T \cup {x}) = IF x \in T THEN Cardinality(T) ELSE Cardinality(T) + 1
    BY <2>2, FS_AddElement
  <2> QED BY <2>1, <2>2, <2>3
<1>3. Cardinality(Taken(m)) <= Cardinality(Taken(mshr[c]) \cup {x}) /\ IsFiniteSet(Taken(m))
  BY <1>1, <1>2, FS_Subset
<1>4. Cardinality(Taken(m)) \in Nat
  BY <1>3, FS_CardinalityType
<1>5. MshrOccupancy(c) < MSHR_SIZE[c] /\ MSHR_SIZE[c] \in Nat /\ MshrOccupancy(c) \in Nat
  BY OccupancyType, SizesAssumption DEF MshrRoom
<1> QED BY <1>2, <1>3, <1>4, <1>5

(* No more misses than before take no more MSHRs.                          *)
LEMMA TakeNone ==
  ASSUME NEW c \in Cache, NEW m, \A y \in Line : m[y] # Free => mshr[c][y] # Free
  PROVE  Cardinality(Taken(m)) <= MshrOccupancy(c) /\ Cardinality(Taken(m)) \in Nat
<1>1. Taken(m) \in SUBSET Taken(mshr[c])
  BY DEF Taken
<1> QED BY <1>1, OccupancyType, FS_Subset, FS_CardinalityType

(* The lines that wait in a read queue below the first level are lines     *)
(* for which a cache above has a miss in flight.                           *)
LEMMA ReadsHaveMisses ==
  ASSUME Typed, Answering, NEW d \in Cache, d \notin FirstLevel, NEW x \in Lines(rq[d])
  PROVE  \E u \in Cache : lower[u] = d /\ mshr[u][x] # Free /\ x \in Line
<1>1. rq[d] \in Seq(Packet)
  BY DEF Typed
<1>2. PICK p \in At(rq[d], x) : p \in Packet /\ p.line = x
  BY <1>1, AtMember
<1>3. x \in Line
  BY <1>2 DEF Packet
<1>4. p.instr \in Owed(d, x)
  BY <1>2 DEF Owed, OwedReads
<1>5. Side(d, p.instr) \in Waiters(d, x)
  BY <1>3, <1>4 DEF Answering, AnsweringAt
<1> QED BY <1>3, <1>5 DEF Waiters, InFlight

(* Hence a cache with a free MSHR finds room in the read queue below it:   *)
(* the queue has an entry for every MSHR of the caches above.              *)
LEMMA RoomBelow ==
  ASSUME Typed, Sized, Lawful, Answering,
         NEW c \in Cache, lower[c] \in Cache, MshrOccupancy(c) < MSHR_SIZE[c]
  PROVE  Len(rq[lower[c]]) < RQ_SIZE[lower[c]]
<1> DEFINE d == lower[c]
           T(u) == Taken(mshr[u])
<1>1. rq[d] \in Seq(Packet) /\ Distinct(rq[d]) /\ d \notin FirstLevel
  BY Levels DEF Typed, Lawful
<1>2. Len(rq[d]) = Cardinality(Lines(rq[d])) /\ Lines(rq[d]) \subseteq Line
  BY <1>1, DistinctLines, SizesAssumption
<1>3. \A x \in Lines(rq[d]) : \E u \in Cache : lower[u] = d /\ x \in T(u)
  BY <1>1, ReadsHaveMisses DEF Taken
<1>4. \A u \in Cache : /\ IsFiniteSet(T(u)) /\ Cardinality(T(u)) \in Nat
                       /\ Cardinality(T(u)) <= MSHR_SIZE[u]
                       /\ Cardinality(T(u)) = MshrOccupancy(u)
  BY OccupancyType DEF Sized
<1> HIDE DEF T
<1>5. MSHR_SIZE[c] \in Nat /\ RQ_SIZE[d] \in Nat /\ MSHR_SIZE[c] <= RQ_SIZE[d]
  BY SizesAssumption
<1>6. CASE \A u \in Cache : lower[u] = d => u = c
  <2>1. Lines(rq[d]) \in SUBSET T(c)
    BY <1>3, <1>6
  <2>2. Cardinality(Lines(rq[d])) <= Cardinality(T(c)) /\ IsFiniteSet(Lines(rq[d]))
    BY <1>4, <2>1, FS_Subset
  <2>3. Cardinality(Lines(rq[d])) \in Nat
    BY <2>2, FS_CardinalityType
  <2> QED BY <1>2, <1>4, <1>5, <2>2, <2>3
<1>7. CASE \E u \in Cache : lower[u] = d /\ u # c
  <2>1. PICK e \in Cache : lower[e] = d /\ e # c
    BY <1>7
  <2>2. \A u \in Cache : lower[u] = d => u = c \/ u = e
    <3>1. \A u \in Cache : lower[u] = d => u = icache[d] \/ u = dcache[d]
      BY UpperIsSide
    <3> QED BY <2>1, <3>1
  <2>3. Lines(rq[d]) \in SUBSET (T(c) \cup T(e))
    BY <1>3, <2>2
  <2>4. /\ IsFiniteSet(T(c) \cup T(e)) /\ Cardinality(T(c) \cup T(e)) \in Nat
        /\ Cardinality(T(c) \cup T(e)) <= Cardinality(T(c)) + Cardinality(T(e))
    <3>1. /\ IsFiniteSet(T(c) \cup T(e))
          /\ Cardinality(T(c) \cup T(e)) = Cardinality(T(c)) + Cardinality(T(e)) - Cardinality(T(c) \cap T(e))
      BY <1>4, <2>1, FS_Union
    <3>2. IsFiniteSet(T(c) \cap T(e))
      BY <1>4, FS_Intersection
    <3> QED BY <1>4, <2>1, <3>1, <3>2, FS_CardinalityType
  <2>5. Cardinality(Lines(rq[d])) <= Cardinality(T(c) \cup T(e)) /\ IsFiniteSet(Lines(rq[d]))
    BY <2>3, <2>4, FS_Subset
  <2>6. Cardinality(Lines(rq[d])) \in Nat
    BY <2>5, FS_CardinalityType
  <2>7. MSHR_SIZE[c] + MSHR_SIZE[e] <= RQ_SIZE[d] /\ MSHR_SIZE[e] \in Nat
    BY <2>1, SizesAssumption
  <2>8. Cardinality(T(c)) < MSHR_SIZE[c] /\ Cardinality(T(e)) <= MSHR_SIZE[e]
    BY <1>4, <2>1
  <2> QED BY SMTT(60), <1>2, <1>4, <1>5, <2>1, <2>4, <2>5, <2>6, <2>7, <2>8
<1> QED BY <1>6, <1>7

-----------------------------------------------------------------------------
(* A line for which a cache has no miss is owed to nobody by the cache     *)
(* below.                                                                  *)
LEMMA NothingOwed ==
  ASSUME CodeAndDataApart, Typed, Lawful, Answering,
         NEW c \in Cache, NEW x \in Line, lower[c] \in Cache, mshr[c][x] = Free,
         c \in FirstLevel => x \in Footprint[c]
  PROVE  /\ Waiters(lower[c], x) = {} /\ Owed(lower[c], x) = {}
<1>1. ASSUME NEW v \in Waiters(lower[c], x)  PROVE FALSE
  <2>1. v \in Cache /\ lower[v] = lower[c] /\ mshr[v][x] # Free
    BY DEF Waiters, InFlight
  <2>2. v # c
    BY <2>1
  <2>3. v \in FirstLevel /\ c \in FirstLevel
    BY <2>1, <2>2, SameLower
  <2>4. x \in Footprint[v]
    BY <2>1, <2>3 DEF Lawful, LawfulAt, LawfulMiss
  <2> QED BY <2>1, <2>2, <2>3, <2>4 DEF CodeAndDataApart
<1>2. AnsweringAt(lower[c], x)
  BY DEF Answering
<1> QED BY <1>1, <1>2 DEF AnsweringAt

(* Nobody waits for a first-level cache, and it owes nothing.              *)
LEMMA FirstLevelOwesNothing ==
  ASSUME Typed, NEW c \in FirstLevel, NEW x \in Line
  PROVE  AnsweringAt(c, x)
<1>1. c \in Cache /\ fill_level(c) = 1
  BY Levels DEF FirstLevel
<1>2. Waiters(c, x) = {}
  BY <1>1, Levels DEF Waiters
<1>3. OwedReads(c, x) = {}
  BY DEF OwedReads
<1>4. OwedPrefetches(c, x) = {}
  <2>1. \A p \in At(pq[c], x) : p \in Packet
    BY <1>1, AtMember DEF Typed
  <2>2. \A p \in At(pq[c], x) : ~(p.fill < 1)
    BY <2>1 DEF Packet, Fills
  <2> QED BY <1>1, <2>2 DEF OwedPrefetches
<1>5. OwedMiss(c, x) = {}
  <2>1. mshr[c][x] \in MshrEntry \cup {Free}
    BY <1>1 DEF Typed
  <2>2. mshr[c][x] # Free => ~(mshr[c][x].fill < 1)
    BY <2>1 DEF MshrEntry, Fills
  <2> QED BY <1>1, <2>2 DEF OwedMiss
<1> QED BY <1>2, <1>3, <1>4, <1>5 DEF AnsweringAt, Owed, OwedOnce

(* The same after a step.                                                  *)
LEMMA FirstLevelOwesNothingPrime ==
  Typed' => (\A c \in FirstLevel, x \in Line : AnsweringAt(c, x))'
<1>1. Typed => \A c \in FirstLevel, x \in Line : AnsweringAt(c, x)
  BY FirstLevelOwesNothing
<1> QED BY <1>1, PTL

-----------------------------------------------------------------------------
(* What a step leaves alone. *)
SameQueues(d, y) == At(rq'[d], y) = At(rq[d], y) /\ At(pq'[d], y) = At(pq[d], y)

(* A miss that stays as it is, or that its data has reached. *)
SameMiss(d, y) ==
  mshr'[d][y] = mshr[d][y] \/ (mshr[d][y] # Free /\ mshr'[d][y] = [mshr[d][y] EXCEPT !.returned = TRUE])

SameWaiters(d, y) == \A u \in Cache : lower[u] = d => (InFlight(u, y)' <=> InFlight(u, y))

(* The data that reaches a miss changes nothing else of it.                *)
LEMMA ReturnedEntry ==
  ASSUME NEW e \in MshrEntry
  PROVE  LET r == [e EXCEPT !.returned = TRUE]
         IN  /\ r \in MshrEntry /\ r # Free /\ e # Free /\ r.returned = TRUE
             /\ r.type = e.type /\ r.instr = e.instr /\ r.fill = e.fill /\ r.deps = e.deps
<1> DEFINE r == [e EXCEPT !.returned = TRUE]
<1>1. r \in MshrEntry /\ r.returned = TRUE
  BY DEF MshrEntry
<1>2. r.type = e.type /\ r.instr = e.instr /\ r.fill = e.fill /\ r.deps = e.deps
  BY DEF MshrEntry
<1> HIDE DEF r
<1>3. r # Free /\ e # Free
  BY <1>1, EntryTyped
<1> QED BY <1>1, <1>2, <1>3 DEF r

(* A miss that stays, or that its data reaches, keeps what it is for.      *)
LEMMA SameMissFields ==
  ASSUME Typed, NEW d \in Cache, NEW y \in Line, SameMiss(d, y)
  PROVE  /\ mshr'[d][y] \in MshrEntry \cup {Free}
         /\ mshr'[d][y] # Free <=> mshr[d][y] # Free
         /\ mshr[d][y] # Free =>
              /\ mshr'[d][y].type = mshr[d][y].type /\ mshr'[d][y].instr = mshr[d][y].instr
              /\ mshr'[d][y].fill = mshr[d][y].fill /\ mshr'[d][y].deps = mshr[d][y].deps
<1>1. mshr[d][y] \in MshrEntry \cup {Free}
  BY DEF Typed
<1>2. CASE mshr'[d][y] = mshr[d][y]
  BY <1>1, <1>2
<1>3. CASE mshr[d][y] # Free /\ mshr'[d][y] = [mshr[d][y] EXCEPT !.returned = TRUE]
  <2>1. mshr[d][y] \in MshrEntry
    BY <1>1, <1>3
  <2> QED BY <1>3, <2>1, ReturnedEntry
<1> QED BY <1>2, <1>3 DEF SameMiss

(* So it is still owed to those above.                                     *)
LEMMA SameMissOwed ==
  ASSUME Typed, NEW d \in Cache, NEW y \in Line, SameMiss(d, y)
  PROVE  OwedMiss(d, y)' = OwedMiss(d, y)
BY SameMissFields DEF OwedMiss

(* A cache at which nothing happens for a line keeps its promises for it.  *)
LEMMA Undisturbed ==
  ASSUME Typed, NEW d \in Cache, NEW y \in Line, AnsweringAt(d, y),
         SameQueues(d, y), SameMiss(d, y), SameWaiters(d, y)
  PROVE  AnsweringAt(d, y)'
<1>1. OwedMiss(d, y)' = OwedMiss(d, y)
  BY SameMissOwed
<1>2. OwedReads(d, y)' = OwedReads(d, y) /\ OwedPrefetches(d, y)' = OwedPrefetches(d, y)
  BY DEF SameQueues, OwedReads, OwedPrefetches
<1>3. Waiters(d, y)' = Waiters(d, y)
  BY DEF SameWaiters, Waiters
<1>4. Owed(d, y)' = Owed(d, y)
  BY <1>1, <1>2 DEF Owed
<1>5. OwedOnce(d, y)' <=> OwedOnce(d, y)
  BY <1>1, <1>2 DEF OwedOnce
<1> QED BY <1>3, <1>4, <1>5 DEF AnsweringAt

(* And everything about the line stays lawful.                             *)
LEMMA UndisturbedLawful ==
  ASSUME Typed, NEW d \in Cache, NEW y \in Line, LawfulAt(d, y), SameQueues(d, y), SameMiss(d, y)
  PROVE  LawfulAt(d, y)'
<1>1. mshr[d][y] # Free => LawfulMiss(d, y, mshr[d][y])
  BY DEF LawfulAt
<1>2. mshr'[d][y] # Free => LawfulMiss(d, y, mshr'[d][y])
  BY <1>1, SameMissFields DEF LawfulMiss
<1> QED BY <1>2 DEF LawfulAt, SameQueues

(* Outside the cache and the line that a step is about nothing changes.    *)
LEMMA AnsweringElsewhere ==
  ASSUME Typed, Answering, NEW c \in Cache, NEW x \in Line, AnsweringAt(c, x)',
         \A d \in Cache, y \in Line : d # c \/ y # x =>
           SameQueues(d, y) /\ SameMiss(d, y) /\ SameWaiters(d, y)
  PROVE  Answering'
<1> SUFFICES ASSUME NEW d \in Cache, NEW y \in Line  PROVE AnsweringAt(d, y)'
  BY DEF Answering
<1>1. CASE d = c /\ y = x
  BY <1>1
<1>2. CASE d # c \/ y # x
  BY <1>2, Undisturbed DEF Answering
<1> QED BY <1>1, <1>2

(* Steps that change no miss. *)
LEMMA OutsideUnchanged ==
  ASSUME AnsweredFromOutside, mshr' = mshr, dramRQ' = dramRQ
  PROVE  AnsweredFromOutside'
BY DEF AnsweredFromOutside, Waiters, InFlight

(* A step that changes no miss fills no MSHR.                              *)
LEMMA SizedMisses ==
  ASSUME Sized, mshr' = mshr, NEW c \in Cache
  PROVE  MshrOccupancy(c)' <= MSHR_SIZE[c]
BY DEF Sized, MshrOccupancy

(* The core's requests, and the answers to them, pass through the read     *)
(* queue of a first-level cache.                                           *)
LEMMA FirstLevelReads ==
  ASSUME Traffic, NEW c \in FirstLevel, NEW q \in Seq(Packet), rq' = [rq EXCEPT ![c] = q],
         Len(q) <= RQ_SIZE[c], Distinct(q),
         \A y \in Line : \A p \in At(q, y) : LawfulRead(c, p),
         mshr' = mshr, pq' = pq, dramRQ' = dramRQ
  PROVE  Traffic'
<1> USE DEF Traffic
<1>0. c \in Cache
  BY DEF FirstLevel
<1>1. Typed'
  BY <1>0 DEF Typed
<1>2. rq'[c] = q /\ \A d \in Cache : d # c => rq'[d] = rq[d]
  BY <1>0 DEF Typed
<1>3. Sized'
  BY <1>2, SizedMisses DEF Sized
<1>4. Lawful'
  <2>1. ASSUME NEW d \in Cache, NEW y \in Line  PROVE LawfulAt(d, y)'
    BY <1>2 DEF Lawful, LawfulAt
  <2> QED BY <1>2, <2>1 DEF Lawful
<1>5. Answering'
  <2> SUFFICES ASSUME NEW d \in Cache, NEW y \in Line  PROVE AnsweringAt(d, y)'
    BY DEF Answering
  <2>1. CASE d = c
    BY <1>1, <2>1, FirstLevelOwesNothingPrime
  <2>2. CASE d # c
    <3>1. SameQueues(d, y) /\ SameMiss(d, y) /\ SameWaiters(d, y)
      BY <1>2, <2>2 DEF SameQueues, SameMiss, SameWaiters, InFlight
    <3> QED BY <3>1, Undisturbed DEF Answering
  <2> QED BY <2>1, <2>2
<1>6. AnsweredFromOutside'
  BY OutsideUnchanged
<1> QED BY <1>1, <1>3, <1>4, <1>5, <1>6

(* add_rq from the core.                                                   *)
LEMMA CpuReadTraffic ==
  ASSUME Traffic, NEW c \in FirstLevel, NEW r \in Req, NEW x \in Line, CpuRead(c, r, x)
  PROVE  Traffic'
<1>0. /\ c \in Cache /\ rq[c] \in Seq(Packet) /\ Distinct(rq[c]) /\ Len(rq[c]) <= RQ_SIZE[c]
      /\ \A y \in Line : \A p \in At(rq[c], y) : LawfulRead(c, p)
      /\ RQ_SIZE[c] \in Nat
  BY SizesAssumption DEF FirstLevel, Traffic, Typed, Sized, Lawful, LawfulAt
<1>1. mshr' = mshr /\ pq' = pq /\ dramRQ' = dramRQ /\ x \in Footprint[c]
  BY DEF CpuRead
<1>2. CASE rq' = rq
  <2>1. rq' = [rq EXCEPT ![c] = rq[c]]
    BY <1>0, <1>2 DEF Traffic, Typed
  <2> QED BY <1>0, <1>1, <2>1, FirstLevelReads
<1>3. CASE rq' = [rq EXCEPT ![c] = Joined(@, x, r)]
  <2> DEFINE q == rq[c]
             n == Joined(q, x, r)
  <2>1. rq' = [rq EXCEPT ![c] = n]
    BY <1>3
  <2>2. \A i \in DOMAIN q : q[i] \in Packet
    BY <1>0
  <2>3. \A p \in Packet : LET m == [p EXCEPT !.deps = @ \cup {r}]
                          IN  /\ m \in Packet /\ m.line = p.line
                              /\ LawfulRead(c, p) => LawfulRead(c, m)
    BY DEF Packet, LawfulRead
  <2>4. /\ n = [i \in DOMAIN q |-> n[i]]
        /\ \A i \in DOMAIN q : /\ n[i] \in Packet /\ n[i].line = q[i].line
                               /\ LawfulRead(c, q[i]) => LawfulRead(c, n[i])
    BY <2>2, <2>3 DEF Joined
  <2>44. q \in Seq(Packet) /\ \A i \in DOMAIN q : n[i] \in Packet /\ n[i].line = q[i].line
    BY <1>0, <2>4
  <2>45. n = [i \in DOMAIN q |-> n[i]]
    BY <2>4
  <2> HIDE DEF n, q
  <2>5. /\ n \in Seq(Packet) /\ Len(n) = Len(q)
        /\ Distinct(q) => Distinct(n)
        /\ \A y : \A p : p \in At(n, y) <=> \E i \in 1 .. Len(q) : p = n[i] /\ q[i].line = y
    BY SMTT(60), <2>44, <2>45, RewrittenAt
  <2> USE DEF q
  <2>6. ASSUME NEW y \in Line, NEW p \in At(n, y)  PROVE LawfulRead(c, p)
    <3>1. PICK i \in 1 .. Len(q) : p = n[i] /\ q[i].line = y
      BY <2>5
    <3>2. q[i] \in At(q, y)
      BY <1>0, <3>1, AtMember
    <3>3. i \in DOMAIN q
      BY <1>0
    <3> QED BY <1>0, <2>4, <3>1, <3>2, <3>3
  <2> QED BY <1>0, <1>1, <2>1, <2>5, <2>6, FirstLevelReads
<1>4. CASE /\ x \notin Lines(rq[c])
           /\ Len(rq[c]) < RQ_SIZE[c]
           /\ rq' = [rq EXCEPT ![c] = Append(@,
                    [line |-> x, type |-> "LOAD", instr |-> kind[c] \in {"L1I", "ITLB"},
                     fill |-> 1, deps |-> {r}])]
  <2> DEFINE side == kind[c] \in {"L1I", "ITLB"}
             p == [line |-> x, type |-> "LOAD", instr |-> side, fill |-> 1, deps |-> {r}]
             n == Append(rq[c], p)
  <2>0. side \in BOOLEAN /\ (side <=> kind[c] \in {"L1I", "ITLB"})
    OBVIOUS
  <2>1. p \in Packet /\ p.line = x /\ LawfulRead(c, p)
    <3> HIDE DEF side
    <3>1. p \in Packet /\ p.line = x
      BY <2>0 DEF Packet, Types, Fills
    <3>2. p.type = "LOAD" /\ p.fill = 1 /\ p.instr = side
      OBVIOUS
    <3> HIDE DEF p
    <3>3. p.instr <=> kind[c] \in {"L1I", "ITLB"}
      BY <2>0, <3>2
    <3> QED BY <1>1, <3>1, <3>2, <3>3 DEF LawfulRead
  <2>2. rq' = [rq EXCEPT ![c] = n] /\ At(rq[c], x) = {}
    BY <1>0, <1>4, AtMember
  <2> HIDE DEF p
  <2>3. /\ n \in Seq(Packet) /\ Len(n) = Len(rq[c]) + 1 /\ Distinct(n)
        /\ \A y : At(n, y) = IF y = x THEN At(rq[c], y) \cup {p} ELSE At(rq[c], y)
    BY <1>0, <2>1, <2>2, AppendAt
  <2> HIDE DEF n
  <2>4. \A y \in Line : \A m \in At(n, y) : LawfulRead(c, m)
    BY <1>0, <2>1, <2>3
  <2>5. Len(n) <= RQ_SIZE[c]
    BY <1>0, <1>4, <2>3
  <2> QED BY <1>1, <2>2, <2>3, <2>4, <2>5, FirstLevelReads
<1> QED BY <1>2, <1>3, <1>4 DEF CpuRead

-----------------------------------------------------------------------------
(* Prefetch queues. *)

(* The prefetches of a queue that are wanted above fill level f. *)
Wanted(q, x, f) == {r \in At(q, x) : r.fill < f}

(* A prefetch that no upper level wants disturbs none that one does.       *)
LEMMA UnwantedPrefetch ==
  ASSUME NEW q \in Seq(Packet), NEW p \in Packet, NEW size \in Nat, Len(q) < size,
         NEW f \in Fills, ~(p.fill < f)
  PROVE  \A x : Wanted(PrefetchQueued(q, p), x, f) = Wanted(q, x, f)
<1> SUFFICES ASSUME NEW x  PROVE Wanted(PrefetchQueued(q, p), x, f) = Wanted(q, x, f)
  OBVIOUS
<1> DEFINE n == PrefetchQueued(q, p)
<1>1. /\ \A y : y # p.line => At(n, y) = At(q, y)
      /\ At(n, p.line) = IF At(q, p.line) = {} THEN {p} ELSE {Nearer(p, r) : r \in At(q, p.line)}
  BY PrefetchQueuedAt
<1> HIDE DEF n
<1>2. CASE x # p.line
  BY <1>1, <1>2 DEF Wanted, n
<1>3. CASE x = p.line
  <2>1. CASE At(q, x) = {}
    BY <1>1, <1>3, <2>1 DEF Wanted, n
  <2>2. CASE At(q, x) # {}
    <3>1. At(n, x) = {Nearer(p, r) : r \in At(q, x)}
      BY <1>1, <1>3, <2>2
    <3>2. \A r \in At(q, x) : r \in Packet
      BY AtMember
    <3>3. \A r \in At(q, x) : (Nearer(p, r).fill < f <=> r.fill < f) /\ (r.fill < f => Nearer(p, r) = r)
      <4>1. \A r \in Packet : r.fill \in Int /\ [r EXCEPT !.fill = p.fill].fill = p.fill
        BY DEF Packet, Fills
      <4>2. p.fill \in Int /\ f \in Int
        BY DEF Packet, Fills
      <4> QED BY <3>2, <4>1, <4>2 DEF Nearer
    <3> QED BY <3>1, <3>3 DEF Wanted, n
  <2> QED BY <2>1, <2>2
<1> QED BY <1>2, <1>3

(* A step that only changes a prefetch queue, and no prefetch in it that   *)
(* an upper level wants.                                                   *)
LEMMA QuietPrefetches ==
  ASSUME Traffic, NEW c \in Cache, NEW q \in Seq(Packet), pq' = [pq EXCEPT ![c] = q],
         Len(q) <= PQ_SIZE[c], Distinct(q),
         \A y \in Line : \A p \in At(q, y) : LawfulPrefetch(c, p),
         \A y \in Line : Wanted(q, y, fill_level(c)) = Wanted(pq[c], y, fill_level(c)),
         mshr' = mshr, rq' = rq, dramRQ' = dramRQ
  PROVE  Traffic'
<1> USE DEF Traffic
<1>1. Typed'
  BY DEF Typed
<1>2. pq'[c] = q /\ \A d \in Cache : d # c => pq'[d] = pq[d]
  BY DEF Typed
<1>3. Sized'
  BY <1>2, SizedMisses DEF Sized
<1>4. Lawful'
  <2>1. ASSUME NEW d \in Cache, NEW y \in Line  PROVE LawfulAt(d, y)'
    BY <1>2 DEF Lawful, LawfulAt
  <2> QED BY <1>2, <2>1 DEF Lawful
<1>5. Answering'
  <2> SUFFICES ASSUME NEW d \in Cache, NEW y \in Line  PROVE AnsweringAt(d, y)'
    BY DEF Answering
  <2>1. OwedPrefetches(d, y)' = OwedPrefetches(d, y)
    BY <1>2 DEF OwedPrefetches, Wanted
  <2>2. OwedReads(d, y)' = OwedReads(d, y) /\ OwedMiss(d, y)' = OwedMiss(d, y)
    BY DEF OwedReads, OwedMiss
  <2>3. Waiters(d, y)' = Waiters(d, y)
    BY DEF Waiters, InFlight
  <2>4. AnsweringAt(d, y)
    BY DEF Answering
  <2> QED BY <2>1, <2>2, <2>3, <2>4 DEF AnsweringAt, Owed, OwedOnce
<1>6. AnsweredFromOutside'
  BY OutsideUnchanged
<1> QED BY <1>1, <1>3, <1>4, <1>5, <1>6

(* add_pq keeps the queue lawful. *)
LEMMA PrefetchQueuedLawful ==
  ASSUME NEW c \in Cache, NEW q \in Seq(Packet), NEW p \in Packet, Len(q) < PQ_SIZE[c],
         \A y \in Line : \A r \in At(q, y) : LawfulPrefetch(c, r), LawfulPrefetch(c, p)
  PROVE  \A y \in Line : \A r \in At(PrefetchQueued(q, p), y) : LawfulPrefetch(c, r)
<1> DEFINE n == PrefetchQueued(q, p)
<1>0. p.line \in Line
  BY DEF Packet
<1>1. /\ \A y : y # p.line => At(n, y) = At(q, y)
      /\ At(n, p.line) = IF At(q, p.line) = {} THEN {p} ELSE {Nearer(p, r) : r \in At(q, p.line)}
  BY PrefetchQueuedAt, SizesAssumption
<1>2. \A r \in Packet : LawfulPrefetch(c, r) => LawfulPrefetch(c, Nearer(p, r))
  BY DEF LawfulPrefetch, Nearer, Packet
<1>3. \A r \in At(q, p.line) : r \in Packet
  BY AtMember
<1> HIDE DEF n
<1>4. ASSUME NEW y \in Line, NEW r \in At(n, y)  PROVE LawfulPrefetch(c, r)
  BY <1>0, <1>1, <1>2, <1>3
<1> QED BY <1>4 DEF n

(* prefetch_line and add_pq from the prefetcher of a cache.                *)
LEMMA PrefetchTraffic ==
  ASSUME Traffic, NEW c \in Cache, NEW x \in Line, NEW f \in {1, 2, 4}, Prefetch(c, x, f)
  PROVE  Traffic'
<1> DEFINE p == [line |-> x, type |-> "PREFETCH", instr |-> FALSE, fill |-> f, deps |-> {}]
           n == PrefetchQueued(pq[c], p)
<1>0. /\ pq[c] \in Seq(Packet) /\ Distinct(pq[c]) /\ Len(pq[c]) <= PQ_SIZE[c] /\ PQ_SIZE[c] \in Nat
      /\ \A y \in Line : \A r \in At(pq[c], y) : LawfulPrefetch(c, r)
      /\ pq = [pq EXCEPT ![c] = pq[c]]
  BY SizesAssumption DEF Traffic, Typed, Sized, Lawful, LawfulAt
<1>1. /\ mshr' = mshr /\ rq' = rq /\ dramRQ' = dramRQ /\ x \in Footprint[c]
      /\ Len(pq[c]) < PQ_SIZE[c] /\ kind[c] \in DataKinds /\ f >= fill_level(c)
  BY DEF Prefetch, DataKinds
<1>2. p \in Packet /\ p.line = x /\ LawfulPrefetch(c, p) /\ p.fill = f
  BY <1>1 DEF Packet, Types, Fills, LawfulPrefetch
<1>3. ~(p.fill < fill_level(c)) /\ fill_level(c) \in Fills
  BY <1>1, <1>2, Levels DEF Fills
<1> HIDE DEF p
<1>4. CASE pq' = pq
  <2>1. pq' = [pq EXCEPT ![c] = pq[c]]
    BY <1>0, <1>4
  <2> QED BY <1>0, <1>1, <2>1, QuietPrefetches
<1>5. CASE pq' = [pq EXCEPT ![c] = n]
  <2>1. n \in Seq(Packet) /\ Len(n) <= PQ_SIZE[c] /\ Distinct(n)
    BY <1>0, <1>1, <1>2, PrefetchQueuedAt
  <2>2. \A y \in Line : \A r \in At(n, y) : LawfulPrefetch(c, r)
    BY <1>0, <1>1, <1>2, PrefetchQueuedLawful
  <2>3. \A y : Wanted(n, y, fill_level(c)) = Wanted(pq[c], y, fill_level(c))
    BY <1>0, <1>1, <1>2, <1>3, UnwantedPrefetch
  <2> HIDE DEF n
  <2> QED BY <1>1, <1>5, <2>1, <2>2, <2>3, QuietPrefetches
<1>6. pq' = pq \/ pq' = [pq EXCEPT ![c] = n]
  BY DEF Prefetch, p
<1> QED BY <1>4, <1>5, <1>6

-----------------------------------------------------------------------------
(* Data on its way up. *)

(* A cache owes a line to one side at most.                                *)
LEMMA OwedUnique ==
  ASSUME Typed, Lawful, NEW c \in Cache, NEW x \in Line, OwedOnce(c, x), NEW i \in Owed(c, x)
  PROVE  Owed(c, x) = {i}
<1>1. rq[c] \in Seq(Packet) /\ Distinct(rq[c]) /\ LawfulAt(c, x)
  BY DEF Typed, Lawful
<1>2. \A p, r \in At(rq[c], x) : p = r
  BY <1>1, AtMostOne
<1>3. \A j, k \in OwedReads(c, x) : j = k
  BY <1>2 DEF OwedReads
<1>4. \A j, k \in OwedPrefetches(c, x) : j = k
  <2>1. \A p \in At(pq[c], x) : p \in Packet /\ ~p.instr
    BY <1>1, AtMember DEF Typed, LawfulAt, LawfulPrefetch
  <2>2. \A p \in At(pq[c], x) : p.instr = FALSE
    BY <2>1 DEF Packet
  <2> QED BY <2>2 DEF OwedPrefetches
<1>5. \A j, k \in OwedMiss(c, x) : j = k
  BY DEF OwedMiss
<1> QED BY <1>3, <1>4, <1>5 DEF Owed, OwedOnce

(* return_data: the upper level's miss for the line has its data.          *)
LEMMA ReturnedMshr ==
  ASSUME NEW ms \in [Cache -> [Line -> MshrEntry \cup {Free}]], NEW c \in Cache, NEW p, p.line \in Line,
         p.fill < fill_level(c) => Upper(c, p) \in Cache /\ ms[Upper(c, p)][p.line] # Free
  PROVE  LET n == Returned(ms, c, p)
             u == Upper(c, p)
         IN  /\ n \in [Cache -> [Line -> MshrEntry \cup {Free}]]
             /\ ~(p.fill < fill_level(c)) => n = ms
             /\ p.fill < fill_level(c) =>
                  /\ n[u][p.line] = [ms[u][p.line] EXCEPT !.returned = TRUE]
                  /\ \A d \in Cache, y \in Line : d # u \/ y # p.line => n[d][y] = ms[d][y]
<1> DEFINE u == Upper(c, p)
           x == p.line
           e == [ms[u][x] EXCEPT !.returned = TRUE]
<1>1. CASE ~(p.fill < fill_level(c))
  BY <1>1 DEF Returned
<1>2. CASE p.fill < fill_level(c)
  <2>1. u \in Cache /\ x \in Line /\ ms[u][x] \in MshrEntry
    BY <1>2
  <2>2. e \in MshrEntry
    BY <2>1 DEF MshrEntry
  <2>3. Returned(ms, c, p) = [ms EXCEPT ![u][x].returned = TRUE]
    BY <1>2 DEF Returned
  <2>4. [ms EXCEPT ![u][x].returned = TRUE] = [ms EXCEPT ![u] = [ms[u] EXCEPT ![x] = e]]
    OBVIOUS
  <2> HIDE DEF u, x, e
  <2>5. [ms[u] EXCEPT ![x] = e] \in [Line -> MshrEntry \cup {Free}]
    BY <2>1, <2>2
  <2> DEFINE n == Returned(ms, c, p)
  <2>6. n = [ms EXCEPT ![u] = [ms[u] EXCEPT ![x] = e]]
    BY <2>3, <2>4 DEF u, x
  <2> HIDE DEF n
  <2>7. n \in [Cache -> [Line -> MshrEntry \cup {Free}]]
    BY <2>1, <2>5, <2>6
  <2>8. n[u][x] = e
    BY <2>1, <2>6
  <2>9. \A d \in Cache, y \in Line : d # u \/ y # x => n[d][y] = ms[d][y]
    BY <2>1, <2>6
  <2> QED BY <1>2, <2>7, <2>8, <2>9 DEF n, u, x, e
<1> QED BY <1>1, <1>2

(* Whoever is owed a line waits for it. *)
LEMMA OwedWaits ==
  ASSUME Answering, NEW c \in Cache, NEW x \in Line, NEW i \in Owed(c, x)
  PROVE  LET u == Side(c, i)
         IN  u \in Cache /\ lower[u] = c /\ u # c /\ mshr[u][x] # Free /\ InFlight(u, x)
<1> DEFINE u == Side(c, i)
<1>1. u \in Waiters(c, x)
  BY DEF Answering, AnsweringAt
<1>2. u \in Cache /\ lower[u] = c /\ InFlight(u, x)
  BY <1>1 DEF Waiters
<1> HIDE DEF u
<1>3. u # c
  BY <1>2, UpperIsSide
<1> QED BY <1>2, <1>3 DEF InFlight, u

(* A step about one line of one cache keeps the rest lawful.               *)
LEMMA LawfulElsewhere ==
  ASSUME Typed, Lawful, NEW c \in Cache, NEW x \in Line, LawfulAt(c, x)',
         \A d \in Cache : Distinct(rq'[d]) /\ Distinct(pq'[d]),
         \A d \in Cache, y \in Line : d # c \/ y # x => SameQueues(d, y) /\ SameMiss(d, y)
  PROVE  Lawful'
<1> SUFFICES ASSUME NEW d \in Cache, NEW y \in Line  PROVE LawfulAt(d, y)'
  BY DEF Lawful
<1>1. CASE d = c /\ y = x
  BY <1>1
<1>2. CASE d # c \/ y # x
  BY <1>2, UndisturbedLawful DEF Lawful
<1> QED BY <1>1, <1>2

(* A step that starts no miss in a cache fills no MSHR of it.              *)
LEMMA NoMoreMisses ==
  ASSUME Sized, NEW c \in Cache, \A y \in Line : mshr'[c][y] # Free => mshr[c][y] # Free
  PROVE  MshrOccupancy(c)' <= MSHR_SIZE[c]
<1>1. Cardinality(Taken(mshr'[c])) <= MshrOccupancy(c) /\ Cardinality(Taken(mshr'[c])) \in Nat
  BY TakeNone
<1>2. MshrOccupancy(c)' = Cardinality(Taken(mshr'[c]))
  BY DEF MshrOccupancy, Taken
<1>3. MshrOccupancy(c) <= MSHR_SIZE[c] /\ MshrOccupancy(c) \in Nat /\ MSHR_SIZE[c] \in Nat
  BY OccupancyType, SizesAssumption DEF Sized
<1> QED BY <1>1, <1>2, <1>3

(* A cache that has the line answers the only one it owes it to.           *)
LEMMA Delivered ==
  ASSUME Traffic, NEW c \in Cache, NEW x \in Line, NEW i \in Owed(c, x),
         mshr'[Side(c, i)][x] = [mshr[Side(c, i)][x] EXCEPT !.returned = TRUE],
         mshr'[c][x] = mshr[c][x] \/ (mshr'[c][x] = Free /\ ~InFlight(c, x)),
         \A d \in Cache, y \in Line : y # x \/ (d # c /\ d # Side(c, i)) => mshr'[d][y] = mshr[d][y],
         \A d \in Cache, y \in Line : d # c \/ y # x => SameQueues(d, y),
         Owed(c, x)' = {}, dramRQ' = dramRQ
  PROVE  /\ Answering' /\ AnsweredFromOutside'
         /\ \A d \in Cache, y \in Line : d # c \/ y # x => SameMiss(d, y)
         /\ \A d \in Cache, y \in Line : mshr'[d][y] # Free => mshr[d][y] # Free
<1> USE DEF Traffic
<1> DEFINE u == Side(c, i)
<1>1. u \in Cache /\ lower[u] = c /\ u # c /\ mshr[u][x] # Free /\ InFlight(u, x)
  BY OwedWaits
<1>2. Waiters(c, x) = {u}
  BY OwedUnique DEF Answering, AnsweringAt
<1>3. mshr[u][x] \in MshrEntry
  BY <1>1 DEF Typed
<1>4. mshr'[u][x] = [mshr[u][x] EXCEPT !.returned = TRUE] /\ mshr'[u][x] # Free /\ ~InFlight(u, x)'
  BY <1>3, ReturnedEntry DEF InFlight
<1> HIDE DEF u
<1>5. \A d \in Cache, y \in Line : y # x \/ (d # c /\ d # u) => mshr'[d][y] = mshr[d][y]
  BY DEF u
<1>6. \A d \in Cache, y \in Line : d # u \/ y # x => (InFlight(d, y)' <=> InFlight(d, y))
  BY <1>5 DEF InFlight
<1>7. ASSUME NEW d \in Cache, NEW y \in Line, d # c \/ y # x
      PROVE  SameMiss(d, y) /\ SameWaiters(d, y)
  <2>1. SameMiss(d, y)
    BY <1>1, <1>4, <1>5, <1>7 DEF SameMiss
  <2>2. SameWaiters(d, y)
    BY <1>1, <1>6, <1>7 DEF SameWaiters
  <2> QED BY <2>1, <2>2
<1>8. AnsweringAt(c, x)'
  <2>1. Waiters(c, x)' = {}
    <3>1. ASSUME NEW v \in Cache, lower[v] = c, InFlight(v, x)'  PROVE FALSE
      BY <1>1, <1>2, <1>4, <1>6, <3>1 DEF Waiters
    <3> QED BY <3>1 DEF Waiters
  <2> QED BY <2>1 DEF AnsweringAt, OwedOnce, Owed
<1>9. Answering'
  BY <1>7, <1>8, AnsweringElsewhere
<1>10. AnsweredFromOutside'
  <2>1. \A y \in Line : Waiters(NoCache, y)' = {}
    <3>1. ASSUME NEW v \in Cache, NEW y \in Line, lower[v] = NoCache, InFlight(v, y)'  PROVE FALSE
      <4>1. v # u
        BY <1>1, <3>1, LevelsAssumption
      <4> QED BY <1>6, <3>1, <4>1 DEF AnsweredFromOutside, Waiters
    <3> QED BY <3>1 DEF Waiters
  <2>2. ASSUME NEW v \in Cache, NEW y \in Line, lower[v] = DRAM  PROVE InFlight(v, y)' <=> y \in dramRQ'
    <3>1. v # u
      BY <1>1, <2>2, LevelsAssumption
    <3> QED BY <1>6, <2>2, <3>1 DEF AnsweredFromOutside
  <2> QED BY <2>1, <2>2 DEF AnsweredFromOutside
<1>11. \A d \in Cache, y \in Line : mshr'[d][y] # Free => mshr[d][y] # Free
  BY <1>1, <1>4, <1>5
<1> QED BY <1>7, <1>9, <1>10, <1>11

(* handle_read, hit. *)
LEMMA ReadHitTraffic ==
  ASSUME Traffic, NEW c \in Cache, ReadHit(c)
  PROVE  Traffic'
<1>p. PICK p : p = Head(rq[c])
  OBVIOUS
<1>q. PICK q : q = Tail(rq[c])
  OBVIOUS
<1> DEFINE x == p.line
<1>0. /\ rq[c] \in Seq(Packet) /\ Distinct(rq[c]) /\ Len(rq[c]) <= RQ_SIZE[c] /\ rq[c] # <<>>
      /\ RQ_SIZE[c] \in Nat
      /\ mshr \in [Cache -> [Line -> MshrEntry \cup {Free}]] /\ rq \in [Cache -> Seq(Packet)]
  BY SizesAssumption DEF Traffic, Typed, Sized, Lawful, ReadHit
<1>1. /\ rq' = [rq EXCEPT ![c] = q] /\ mshr' = Returned(mshr, c, p)
      /\ pq' = pq /\ dramRQ' = dramRQ
  BY <1>p, <1>q DEF ReadHit
<1>2. /\ p \in Packet /\ x \in Line /\ p \in At(rq[c], x) /\ p.line = x
  BY <1>0, <1>p, HeadAt
<1>3. LawfulAt(c, x) /\ LawfulRead(c, p) /\ p.fill = 1
  BY <1>2 DEF Traffic, Lawful, LawfulAt, LawfulRead
<1>4. /\ q \in Seq(Packet) /\ Len(q) <= RQ_SIZE[c] /\ Distinct(q)
      /\ At(rq[c], x) = {p} /\ At(q, x) = {}
      /\ \A y : y # x => At(q, y) = At(rq[c], y)
  <2>1. q \in Seq(Packet) /\ Len(q) = Len(rq[c]) - 1 /\ Len(rq[c]) \in Nat
    BY <1>0, <1>q, TailSubset
  <2>2. /\ Distinct(q) /\ At(rq[c], x) = {p} /\ At(q, x) = {}
        /\ \A y : y # x => At(q, y) = At(rq[c], y)
    BY <1>0, <1>p, <1>q, TailAt
  <2> QED BY <1>0, <2>1, <2>2
<1> HIDE DEF x
<1>5. CASE c \in FirstLevel
  <2>1. ~(p.fill < fill_level(c))
    BY <1>3, <1>5, Levels
  <2>2. mshr' = mshr
    BY <1>1, <2>1 DEF Returned
  <2>3. \A y \in Line : \A r \in At(q, y) : LawfulRead(c, r)
    BY <1>4 DEF Traffic, Lawful, LawfulAt
  <2> QED BY <1>1, <1>4, <1>5, <2>2, <2>3, FirstLevelReads
<1>6. CASE c \notin FirstLevel
  <2> DEFINE i == p.instr
             u == Side(c, i)
  <2>1. p.fill < fill_level(c) /\ Upper(c, p) = u
    BY <1>3, <1>6, Levels DEF Fills, Upper, Side
  <2>2. i \in OwedReads(c, x) /\ i \in Owed(c, x)
    BY <1>2, <1>6 DEF OwedReads, Owed
  <2>3. u \in Cache /\ lower[u] = c /\ u # c /\ mshr[u][x] # Free
    BY <1>2, <2>2, OwedWaits DEF Traffic
  <2>4. /\ mshr' \in [Cache -> [Line -> MshrEntry \cup {Free}]]
        /\ mshr'[u][x] = [mshr[u][x] EXCEPT !.returned = TRUE]
        /\ \A d \in Cache, y \in Line : d # u \/ y # x => mshr'[d][y] = mshr[d][y]
    <3>1. p.line \in Line /\ Upper(c, p) \in Cache /\ mshr[Upper(c, p)][p.line] # Free /\ p.fill < fill_level(c)
      BY <1>2, <2>1, <2>3
    <3>2. LET n == Returned(mshr, c, p)
          IN  /\ n \in [Cache -> [Line -> MshrEntry \cup {Free}]]
              /\ n[Upper(c, p)][p.line] = [mshr[Upper(c, p)][p.line] EXCEPT !.returned = TRUE]
              /\ \A d \in Cache, y \in Line : d # Upper(c, p) \/ y # p.line => n[d][y] = mshr[d][y]
      <4>1. mshr \in [Cache -> [Line -> MshrEntry \cup {Free}]]
        BY <1>0
      <4> HIDE DEF u, i, x
      <4> QED BY <3>1, <4>1, ReturnedMshr
    <3> QED BY <1>1, <1>2, <2>1, <3>2
  <2>5. /\ rq'[c] = q /\ \A d \in Cache : d # c => rq'[d] = rq[d]
        /\ \A d \in Cache, y \in Line : d # c \/ y # x => SameQueues(d, y)
    BY <1>0, <1>1, <1>4 DEF SameQueues
  <2> HIDE DEF i, u
  <2>6. OwedPrefetches(c, x) = {} /\ OwedMiss(c, x) = {}
    BY <1>2, <2>2 DEF Traffic, Answering, AnsweringAt, OwedOnce
  <2>7. mshr'[c][x] = mshr[c][x]
    BY <1>2, <2>3, <2>4
  <2>8. Owed(c, x)' = {}
    <3>1. OwedReads(c, x)' = {}
      BY <1>4, <2>5 DEF OwedReads
    <3>2. OwedPrefetches(c, x)' = {} /\ OwedMiss(c, x)' = {}
      BY <1>1, <2>6, <2>7 DEF OwedPrefetches, OwedMiss
    <3> QED BY <3>1, <3>2 DEF Owed
  <2>9. /\ Answering' /\ AnsweredFromOutside'
        /\ \A d \in Cache, y \in Line : d # c \/ y # x => SameMiss(d, y)
        /\ \A d \in Cache, y \in Line : mshr'[d][y] # Free => mshr[d][y] # Free
    BY <1>1, <1>2, <2>2, <2>4, <2>5, <2>7, <2>8, Delivered DEF u
  <2>10. Typed'
    BY <1>1, <1>4, <2>4 DEF Traffic, Typed
  <2>11. Sized'
    BY <1>1, <1>4, <2>5, <2>9, NoMoreMisses DEF Traffic, Sized
  <2>12. LawfulAt(c, x)'
    BY <1>1, <1>3, <1>4, <2>5, <2>7 DEF LawfulAt
  <2>13. Lawful'
    <3>1. \A d \in Cache : Distinct(rq'[d]) /\ Distinct(pq'[d])
      BY <1>1, <1>4, <2>5 DEF Traffic, Lawful
    <3> QED BY <1>2, <2>5, <2>9, <2>12, <3>1, LawfulElsewhere DEF Traffic
  <2> QED BY <2>9, <2>10, <2>11, <2>13 DEF Traffic
<1> QED BY <1>5, <1>6

(* handle_prefetch, hit. *)
LEMMA PrefetchHitTraffic ==
  ASSUME Traffic, NEW c \in Cache, PrefetchHit(c)
  PROVE  Traffic'
<1>p. PICK p : p = Head(pq[c])
  OBVIOUS
<1>q. PICK q : q = Tail(pq[c])
  OBVIOUS
<1> DEFINE x == p.line
<1>0. /\ pq[c] \in Seq(Packet) /\ Distinct(pq[c]) /\ Len(pq[c]) <= PQ_SIZE[c] /\ pq[c] # <<>>
      /\ PQ_SIZE[c] \in Nat
      /\ mshr \in [Cache -> [Line -> MshrEntry \cup {Free}]] /\ pq \in [Cache -> Seq(Packet)]
  BY SizesAssumption DEF Traffic, Typed, Sized, Lawful, PrefetchHit
<1>1. /\ pq' = [pq EXCEPT ![c] = q] /\ mshr' = Returned(mshr, c, p)
      /\ rq' = rq /\ dramRQ' = dramRQ
  BY <1>p, <1>q DEF PrefetchHit
<1>2. /\ p \in Packet /\ x \in Line /\ p \in At(pq[c], x) /\ p.line = x
  BY <1>0, <1>p, HeadAt
<1>3. LawfulAt(c, x)
  BY <1>2 DEF Traffic, Lawful
<1>4. /\ q \in Seq(Packet) /\ Len(q) <= PQ_SIZE[c] /\ Distinct(q)
      /\ At(pq[c], x) = {p} /\ At(q, x) = {}
      /\ \A y : y # x => At(q, y) = At(pq[c], y)
  <2>1. q \in Seq(Packet) /\ Len(q) = Len(pq[c]) - 1 /\ Len(pq[c]) \in Nat
    BY <1>0, <1>q, TailSubset
  <2>2. /\ Distinct(q) /\ At(pq[c], x) = {p} /\ At(q, x) = {}
        /\ \A y : y # x => At(q, y) = At(pq[c], y)
    BY <1>0, <1>p, <1>q, TailAt
  <2> QED BY <1>0, <2>1, <2>2
<1> HIDE DEF x
<1>5. CASE ~(p.fill < fill_level(c))
  <2>1. mshr' = mshr
    BY <1>1, <1>5 DEF Returned
  <2>2. \A y \in Line : \A r \in At(q, y) : LawfulPrefetch(c, r)
    BY <1>4 DEF Traffic, Lawful, LawfulAt
  <2>3. \A y \in Line : Wanted(q, y, fill_level(c)) = Wanted(pq[c], y, fill_level(c))
    <3>1. Wanted(pq[c], x, fill_level(c)) = {} /\ Wanted(q, x, fill_level(c)) = {}
      BY <1>4, <1>5 DEF Wanted
    <3> QED BY <1>4, <3>1 DEF Wanted
  <2> QED BY <1>1, <1>4, <2>1, <2>2, <2>3, QuietPrefetches
<1>6. CASE p.fill < fill_level(c)
  <2> DEFINE i == p.instr
             u == Side(c, i)
  <2>1. Upper(c, p) = u
    BY DEF Upper, Side
  <2>2. i \in OwedPrefetches(c, x) /\ i \in Owed(c, x)
    BY <1>2, <1>6 DEF OwedPrefetches, Owed
  <2>3. u \in Cache /\ lower[u] = c /\ u # c /\ mshr[u][x] # Free
    BY <1>2, <2>2, OwedWaits DEF Traffic
  <2>4. /\ mshr' \in [Cache -> [Line -> MshrEntry \cup {Free}]]
        /\ mshr'[u][x] = [mshr[u][x] EXCEPT !.returned = TRUE]
        /\ \A d \in Cache, y \in Line : d # u \/ y # x => mshr'[d][y] = mshr[d][y]
    <3>1. p.line \in Line /\ Upper(c, p) \in Cache /\ mshr[Upper(c, p)][p.line] # Free /\ p.fill < fill_level(c)
      BY <1>2, <1>6, <2>1, <2>3
    <3>2. LET n == Returned(mshr, c, p)
          IN  /\ n \in [Cache -> [Line -> MshrEntry \cup {Free}]]
              /\ n[Upper(c, p)][p.line] = [mshr[Upper(c, p)][p.line] EXCEPT !.returned = TRUE]
              /\ \A d \in Cache, y \in Line : d # Upper(c, p) \/ y # p.line => n[d][y] = mshr[d][y]
      <4>1. mshr \in [Cache -> [Line -> MshrEntry \cup {Free}]]
        BY <1>0
      <4> HIDE DEF u, i, x
      <4> QED BY <3>1, <4>1, ReturnedMshr
    <3> QED BY <1>1, <1>2, <2>1, <3>2
  <2>5. /\ pq'[c] = q /\ \A d \in Cache : d # c => pq'[d] = pq[d]
        /\ \A d \in Cache, y \in Line : d # c \/ y # x => SameQueues(d, y)
    BY <1>0, <1>1, <1>4 DEF SameQueues
  <2> HIDE DEF i, u
  <2>6. OwedReads(c, x) = {} /\ OwedMiss(c, x) = {}
    BY <1>2, <2>2 DEF Traffic, Answering, AnsweringAt, OwedOnce
  <2>7. mshr'[c][x] = mshr[c][x]
    BY <1>2, <2>3, <2>4
  <2>8. Owed(c, x)' = {}
    <3>1. OwedPrefetches(c, x)' = {}
      BY <1>4, <2>5 DEF OwedPrefetches
    <3>2. OwedReads(c, x)' = {} /\ OwedMiss(c, x)' = {}
      BY <1>1, <2>6, <2>7 DEF OwedReads, OwedMiss
    <3> QED BY <3>1, <3>2 DEF Owed
  <2>9. /\ Answering' /\ AnsweredFromOutside'
        /\ \A d \in Cache, y \in Line : d # c \/ y # x => SameMiss(d, y)
        /\ \A d \in Cache, y \in Line : mshr'[d][y] # Free => mshr[d][y] # Free
    BY <1>1, <1>2, <2>2, <2>4, <2>5, <2>7, <2>8, Delivered DEF u
  <2>10. Typed'
    BY <1>1, <1>4, <2>4 DEF Traffic, Typed
  <2>11. Sized'
    BY <1>1, <1>4, <2>5, <2>9, NoMoreMisses DEF Traffic, Sized
  <2>12. LawfulAt(c, x)'
    BY <1>1, <1>3, <1>4, <2>5, <2>7 DEF LawfulAt
  <2>13. Lawful'
    <3>1. \A d \in Cache : Distinct(rq'[d]) /\ Distinct(pq'[d])
      BY <1>1, <1>4, <2>5 DEF Traffic, Lawful
    <3> QED BY <1>2, <2>5, <2>9, <2>12, <3>1, LawfulElsewhere DEF Traffic
  <2> QED BY <2>9, <2>10, <2>11, <2>13 DEF Traffic
<1> QED BY <1>5, <1>6

(* handle_fill. *)
LEMMA HandleFillTraffic ==
  ASSUME Traffic, NEW c \in Cache, NEW x \in Line, HandleFill(c, x)
  PROVE  Traffic'
<1> DEFINE e == mshr[c][x]
           p == [line |-> x, type |-> e.type, instr |-> e.instr, fill |-> e.fill, deps |-> e.deps]
           ms == [mshr EXCEPT ![c][x] = Free]
<1>0. mshr \in [Cache -> [Line -> MshrEntry \cup {Free}]]
  BY DEF Traffic, Typed
<1>1. /\ e # Free /\ e.returned /\ mshr' = Returned(ms, c, p)
      /\ rq' = rq /\ pq' = pq /\ dramRQ' = dramRQ
  BY DEF HandleFill, ReadyToFill
<1>2. p.line = x /\ p.instr = e.instr /\ p.fill = e.fill
  OBVIOUS
<1>3. /\ ms \in [Cache -> [Line -> MshrEntry \cup {Free}]]
      /\ ms[c][x] = Free
      /\ \A d \in Cache, y \in Line : d # c \/ y # x => ms[d][y] = mshr[d][y]
  BY <1>0
<1>4. ~InFlight(c, x)
  BY <1>1 DEF InFlight
<1> HIDE DEF e, p, ms
<1>5. \A d \in Cache, y \in Line : SameQueues(d, y)
  BY <1>1 DEF SameQueues
<1>6. /\ mshr' \in [Cache -> [Line -> MshrEntry \cup {Free}]]
      /\ mshr'[c][x] = Free
      /\ \A d \in Cache, y \in Line : mshr'[d][y] # Free => mshr[d][y] # Free
      /\ \A d \in Cache, y \in Line : d # c \/ y # x => SameMiss(d, y)
      /\ Answering' /\ AnsweredFromOutside'
  <2>1. CASE ~(e.fill < fill_level(c))
    <3>1. mshr' = ms
      BY <1>1, <1>2, <2>1 DEF Returned
    <3>2. \A d \in Cache, y \in Line : d # c \/ y # x => SameMiss(d, y)
      BY <1>3, <3>1 DEF SameMiss
    <3>3. \A d \in Cache, y \in Line : InFlight(d, y)' <=> InFlight(d, y)
      <4>1. ASSUME NEW d \in Cache, NEW y \in Line, d # c \/ y # x  PROVE InFlight(d, y)' <=> InFlight(d, y)
        BY <1>3, <3>1, <4>1 DEF InFlight
      <4>2. ~InFlight(c, x)'
        BY <1>3, <3>1 DEF InFlight
      <4> QED BY <1>4, <4>1, <4>2
    <3>4. \A d \in Cache, y \in Line : SameWaiters(d, y)
      BY <3>3 DEF SameWaiters
    <3>5. AnsweringAt(c, x)'
      <4>1. OwedMiss(c, x) = {} /\ OwedMiss(c, x)' = {}
        BY <1>3, <2>1, <3>1 DEF OwedMiss, e
      <4>2. OwedReads(c, x)' = OwedReads(c, x) /\ OwedPrefetches(c, x)' = OwedPrefetches(c, x)
        BY <1>1 DEF OwedReads, OwedPrefetches
      <4>3. Waiters(c, x)' = Waiters(c, x)
        BY <3>3 DEF Waiters
      <4>4. AnsweringAt(c, x)
        BY DEF Traffic, Answering
      <4> QED BY <4>1, <4>2, <4>3, <4>4 DEF AnsweringAt, Owed, OwedOnce
    <3>6. Answering'
      BY <1>5, <3>2, <3>4, <3>5, AnsweringElsewhere DEF Traffic
    <3>7. AnsweredFromOutside'
      BY <1>1, <3>3 DEF Traffic, AnsweredFromOutside, Waiters
    <3>8. \A d \in Cache, y \in Line : mshr'[d][y] # Free => mshr[d][y] # Free
      BY <1>3, <3>1
    <3> QED BY <1>3, <3>1, <3>2, <3>6, <3>7, <3>8
  <2>2. CASE e.fill < fill_level(c)
    <3> DEFINE i == e.instr
               u == Side(c, i)
    <3>1. Upper(c, p) = u /\ p.fill < fill_level(c)
      BY <1>2, <2>2 DEF Upper, Side
    <3>2. i \in OwedMiss(c, x) /\ i \in Owed(c, x)
      BY <1>1, <2>2 DEF OwedMiss, Owed, e
    <3>3. u \in Cache /\ lower[u] = c /\ u # c /\ mshr[u][x] # Free
      BY <3>2, OwedWaits DEF Traffic
    <3>4. ms[u][x] = mshr[u][x]
      BY <1>3, <3>3
    <3>5. /\ mshr' \in [Cache -> [Line -> MshrEntry \cup {Free}]]
          /\ mshr'[u][x] = [ms[u][x] EXCEPT !.returned = TRUE]
          /\ \A d \in Cache, y \in Line : d # u \/ y # x => mshr'[d][y] = ms[d][y]
      BY <1>1, <1>2, <1>3, <3>1, <3>3, <3>4, ReturnedMshr
    <3> HIDE DEF i, u
    <3>6. mshr'[c][x] = Free
      BY <1>3, <3>3, <3>5
    <3>7. Owed(c, x)' = {}
      <4>1. OwedMiss(c, x)' = {}
        BY <3>6 DEF OwedMiss
      <4>2. OwedReads(c, x) = {} /\ OwedPrefetches(c, x) = {}
        BY <3>2 DEF Traffic, Answering, AnsweringAt, OwedOnce
      <4>3. OwedReads(c, x)' = {} /\ OwedPrefetches(c, x)' = {}
        BY <1>1, <4>2 DEF OwedReads, OwedPrefetches
      <4> QED BY <4>1, <4>3 DEF Owed
    <3>8. mshr'[u][x] = [mshr[u][x] EXCEPT !.returned = TRUE]
      BY <3>4, <3>5
    <3>9. \A d \in Cache, y \in Line : y # x \/ (d # c /\ d # u) => mshr'[d][y] = mshr[d][y]
      BY <1>3, <3>5
    <3> QED BY <1>1, <1>4, <1>5, <3>2, <3>5, <3>6, <3>7, <3>8, <3>9, Delivered DEF u
  <2> QED BY <2>1, <2>2
<1>7. Typed'
  BY <1>1, <1>6 DEF Traffic, Typed
<1>8. Sized'
  BY <1>1, <1>6, NoMoreMisses DEF Traffic, Sized
<1>9. LawfulAt(c, x)'
  BY <1>1, <1>6 DEF Traffic, Lawful, LawfulAt
<1>10. Lawful'
  BY <1>1, <1>5, <1>6, <1>9, LawfulElsewhere DEF Traffic, Lawful
<1> QED BY <1>6, <1>7, <1>8, <1>10 DEF Traffic

-----------------------------------------------------------------------------
(* A new miss.                                                             *)

(* The lower level answers at once or it does not.                         *)
LEMMA ForwardedType ==
  ASSUME NEW c \in Cache, NEW x
  PROVE  ForwardedBelow(c, x) \in BOOLEAN
<1> DEFINE fw == ForwardedBelow(c, x)
<1>1. CASE lower[c] = DRAM
  <2>1. fw = (x \in dramWQ)
    BY <1>1 DEF ForwardedBelow
  <2> QED BY <2>1
<1>2. CASE lower[c] # DRAM
  <2>1. fw = (x \in Lines(wq[lower[c]]))
    BY <1>2 DEF ForwardedBelow
  <2> QED BY <2>1
<1> QED BY <1>1, <1>2

(* What NewMiss does, in terms of whether the lower level answers at once. *)
LEMMA NewMissEffect ==
  ASSUME NEW c \in Cache, NEW p \in Packet, NEW q, NewMiss(c, p, q)
  PROVE  \E back \in BOOLEAN :
           /\ mshr' = [mshr EXCEPT ![c][p.line] = Entry(p, back)]
           /\ lower[c] = NoCache => back = TRUE
           /\ lower[c] \notin Cache => rq' = [rq EXCEPT ![c] = q]
           /\ lower[c] \in Cache =>
                rq' = [rq EXCEPT ![c] = q,
                                 ![lower[c]] = IF back THEN @ ELSE Queued(@, p, RQ_SIZE[lower[c]])]
           /\ lower[c] # DRAM => dramRQ' = dramRQ
           /\ lower[c] = DRAM => dramRQ' = IF back THEN dramRQ ELSE dramRQ \cup {p.line}
<1> DEFINE fw == ForwardedBelow(c, p.line)
<1>0. fw \in BOOLEAN
  BY ForwardedType
<1>1. CASE lower[c] = NoCache
  <2>1. NoCache \notin Cache /\ NoCache # DRAM
    BY LevelsAssumption
  <2>2. /\ mshr' = [mshr EXCEPT ![c][p.line] = Entry(p, TRUE)]
        /\ rq' = [rq EXCEPT ![c] = q]
        /\ dramRQ' = dramRQ
    BY <1>1, <2>1 DEF NewMiss
  <2> HIDE DEF fw
  <2> WITNESS TRUE \in BOOLEAN
  <2> QED BY <1>1, <2>1, <2>2
<1>2. CASE lower[c] = DRAM
  <2>1. DRAM \notin Cache /\ NoCache # DRAM
    BY LevelsAssumption
  <2>2. /\ mshr' = [mshr EXCEPT ![c][p.line] = Entry(p, fw)]
        /\ rq' = [rq EXCEPT ![c] = q]
        /\ dramRQ' = IF fw THEN dramRQ ELSE dramRQ \cup {p.line}
    BY <1>2, <2>1 DEF NewMiss
  <2> HIDE DEF fw
  <2> WITNESS fw \in BOOLEAN
  <2> QED BY <1>2, <2>1, <2>2
<1>3. CASE lower[c] # NoCache /\ lower[c] # DRAM
  <2>1. lower[c] \in Cache
    BY <1>3, Levels
  <2>2. /\ mshr' = [mshr EXCEPT ![c][p.line] = Entry(p, fw)]
        /\ rq' = [rq EXCEPT ![c] = q,
                            ![lower[c]] = IF fw THEN @ ELSE Queued(@, p, RQ_SIZE[lower[c]])]
        /\ dramRQ' = dramRQ
    BY <1>3 DEF NewMiss
  <2> HIDE DEF fw
  <2> WITNESS fw \in BOOLEAN
  <2> QED BY <1>3, <2>1, <2>2
<1> QED BY <1>1, <1>2, <1>3

(* One entry of an MSHR file is rewritten.                                 *)
LEMMA MshrSet ==
  ASSUME Typed, NEW c \in Cache, NEW x \in Line, NEW e \in MshrEntry,
         mshr' = [mshr EXCEPT ![c][x] = e]
  PROVE  /\ mshr' \in [Cache -> [Line -> MshrEntry \cup {Free}]]
         /\ mshr'[c][x] = e /\ e # Free
         /\ \A d \in Cache, y \in Line : d # c \/ y # x => mshr'[d][y] = mshr[d][y] /\ SameMiss(d, y)
<1>1. mshr \in [Cache -> [Line -> MshrEntry \cup {Free}]]
  BY DEF Typed
<1>2. [mshr[c] EXCEPT ![x] = e] \in [Line -> MshrEntry \cup {Free}]
  BY <1>1
<1>3. mshr' = [mshr EXCEPT ![c] = [mshr[c] EXCEPT ![x] = e]]
  OBVIOUS
<1>4. mshr' \in [Cache -> [Line -> MshrEntry \cup {Free}]]
  BY <1>1, <1>2, <1>3
<1>5. mshr'[c][x] = e
  BY <1>1, <1>3
<1>6. \A d \in Cache, y \in Line : d # c \/ y # x => mshr'[d][y] = mshr[d][y]
  BY <1>1, <1>3
<1> QED BY <1>4, <1>5, <1>6, EntryTyped DEF SameMiss

(* A demand that misses takes an MSHR and is passed on: the cache above it *)
(* now waits for the miss instead of the read, and the cache itself waits  *)
(* for the level below, which owed it nothing for this line.               *)
LEMMA NewMissTraffic ==
  ASSUME CodeAndDataApart, Traffic, NEW c \in Cache, NEW p \in Packet, NEW q \in Seq(Packet),
         NewMiss(c, p, q), pq' = pq, mshr[c][p.line] = Free, MshrRoom(c), LawfulRead(c, p),
         Len(q) <= RQ_SIZE[c], Distinct(q),
         \A y \in Line : y # p.line => At(q, y) = At(rq[c], y),
         \A r \in At(q, p.line) : LawfulRead(c, r),
         c \notin FirstLevel => At(rq[c], p.line) = {p} /\ At(q, p.line) = {}
  PROVE  Traffic'
<1> DEFINE x == p.line
<1>1. PICK back \in BOOLEAN :
           /\ mshr' = [mshr EXCEPT ![c][x] = Entry(p, back)]
           /\ lower[c] = NoCache => back = TRUE
           /\ lower[c] \notin Cache => rq' = [rq EXCEPT ![c] = q]
           /\ lower[c] \in Cache =>
                rq' = [rq EXCEPT ![c] = q,
                                 ![lower[c]] = IF back THEN @ ELSE Queued(@, p, RQ_SIZE[lower[c]])]
           /\ lower[c] # DRAM => dramRQ' = dramRQ
           /\ lower[c] = DRAM => dramRQ' = IF back THEN dramRQ ELSE dramRQ \cup {x}
  BY NewMissEffect
<1> DEFINE e == Entry(p, back)
           d == lower[c]
<1>2. x \in Line /\ e \in MshrEntry /\ p.instr \in BOOLEAN
  BY EntryTyped DEF Packet
<1>3. e.returned = back /\ e.fill = 1 /\ e.instr = p.instr /\ e.type = p.type /\ LawfulMiss(c, x, e)
  <2>1. e.returned = back /\ e.fill = p.fill /\ e.instr = p.instr /\ e.type = p.type
    BY DEF Entry
  <2> HIDE DEF e
  <2> QED BY <2>1 DEF LawfulRead, LawfulMiss
<1> HIDE DEF e
<1>4. /\ mshr' \in [Cache -> [Line -> MshrEntry \cup {Free}]]
      /\ mshr'[c][x] = e /\ e # Free
      /\ \A v \in Cache, y \in Line : v # c \/ y # x => mshr'[v][y] = mshr[v][y] /\ SameMiss(v, y)
  BY ZenonT(60), <1>1, <1>2, MshrSet DEF Traffic, e
<1>5. ~InFlight(c, x) /\ (InFlight(c, x)' <=> ~back)
  BY <1>3, <1>4 DEF InFlight
<1>6. \A v \in Cache, y \in Line : v # c \/ y # x => (InFlight(v, y)' <=> InFlight(v, y))
  BY <1>4 DEF InFlight
<1> HIDE DEF x
<1>7. LawfulAt(c, x) /\ AnsweringAt(c, x)
  BY <1>2 DEF Traffic, Lawful, Answering
<1>8. ASSUME d \in Cache
      PROVE  /\ d # c /\ rq[d] \in Seq(Packet) /\ Distinct(rq[d]) /\ Len(rq[d]) < RQ_SIZE[d]
             /\ Waiters(d, x) = {} /\ Owed(d, x) = {} /\ At(rq[d], x) = {} /\ d \notin FirstLevel
             /\ Side(d, p.instr) = c
             /\ RQ_SIZE[d] \in Nat
  <2>1. d # c /\ rq[d] \in Seq(Packet) /\ Distinct(rq[d]) /\ d \notin FirstLevel /\ RQ_SIZE[d] \in Nat
    BY ZenonT(60), <1>8, UpperIsSide, Levels, SizesAssumption DEF Traffic, Typed, Lawful
  <2>2. Len(rq[d]) < RQ_SIZE[d]
    BY <1>8, RoomBelow DEF Traffic, MshrRoom
  <2>3. c \in FirstLevel => x \in Footprint[c]
    BY DEF LawfulRead, x
  <2>4. Waiters(d, x) = {} /\ Owed(d, x) = {}
    BY <1>2, <1>8, <2>3, NothingOwed DEF Traffic, x
  <2>5. At(rq[d], x) = {}
    <3>1. OwedReads(d, x) = {} /\ OwedReads(d, x) = {r.instr : r \in At(rq[d], x)}
      BY <2>1, <2>4 DEF Owed, OwedReads
    <3> QED BY ZenonT(60), <3>1
  <2>6. Side(d, p.instr) = c
    <3>1. CASE c \in FirstLevel
      <4>1. p.instr <=> kind[c] \in {"L1I", "ITLB"}
        BY <3>1 DEF LawfulRead
      <4>2. CASE kind[c] \in {"L1I", "ITLB"}
        <5>1. p.instr = TRUE
          BY <1>2, <4>1, <4>2
        <5> QED BY <1>8, <4>2, <5>1, UpperIsSide
      <4>3. CASE kind[c] \notin {"L1I", "ITLB"}
        <5>1. p.instr = FALSE
          BY <1>2, <4>1, <4>3
        <5>2. kind[c] \in {"L1D", "DTLB"}
          BY <3>1, <4>3, Levels
        <5> QED BY <1>8, <5>1, <5>2, UpperIsSide
      <4> QED BY <4>2, <4>3
    <3>2. CASE c \notin FirstLevel
      BY <1>2, <1>8, <3>2, UpperIsSide
    <3> QED BY <3>1, <3>2
  <2> QED BY <2>1, <2>2, <2>4, <2>5, <2>6
<1>9. /\ rq' \in [Cache -> Seq(Packet)] /\ rq'[c] = q
      /\ \A v \in Cache : v # c /\ (v # d \/ back) => rq'[v] = rq[v]
      /\ d \in Cache /\ ~back => rq'[d] = Queued(rq[d], p, RQ_SIZE[d])
  <2>1. rq \in [Cache -> Seq(Packet)]
    BY DEF Traffic, Typed
  <2>2. CASE d \notin Cache
    BY <1>1, <2>1, <2>2
  <2>3. CASE d \in Cache
    <3> DEFINE n == IF back THEN rq[d] ELSE Queued(rq[d], p, RQ_SIZE[d])
    <3>1. n \in Seq(Packet)
      <4>1. Len(rq[d]) <= RQ_SIZE[d]
        BY <1>8, <2>3 DEF Traffic, Sized
      <4>2. Queued(rq[d], p, RQ_SIZE[d]) \in Seq(Packet)
        BY <1>8, <2>3, <4>1, QueuedAt
      <4> QED BY <1>8, <2>3, <4>2
    <3>2. rq' = [rq EXCEPT ![c] = q, ![d] = n]
      BY <1>1, <1>8, <2>1, <2>3
    <3>3. n = IF back THEN rq[d] ELSE Queued(rq[d], p, RQ_SIZE[d])
      OBVIOUS
    <3> HIDE DEF n, d
    <3>4. rq'[d] = n /\ rq'[c] = q /\ rq' \in [Cache -> Seq(Packet)]
      BY <1>8, <2>1, <2>3, <3>1, <3>2
    <3>5. \A v \in Cache : v # c /\ v # d => rq'[v] = rq[v]
      BY <2>1, <3>2
    <3> QED BY <3>3, <3>4, <3>5
  <2> QED BY <2>2, <2>3
<1>10. ASSUME d \in Cache, ~back
       PROVE  LET r == [p EXCEPT !.deps = {}]
              IN  /\ rq'[d] \in Seq(Packet) /\ Len(rq'[d]) <= RQ_SIZE[d] /\ Distinct(rq'[d])
                  /\ At(rq'[d], x) = {r} /\ \A y : y # x => At(rq'[d], y) = At(rq[d], y)
                  /\ r \in Packet /\ r.instr = p.instr /\ r.line = x
                  /\ LawfulRead(d, r)
  <2> DEFINE r == [p EXCEPT !.deps = {}]
  <2>1. r \in Packet /\ r.instr = p.instr /\ r.line = x /\ r.fill = p.fill /\ r.type = p.type
    BY DEF Packet, x
  <2>2. rq'[d] = Queued(rq[d], p, RQ_SIZE[d])
    BY <1>9, <1>10
  <2>3. /\ rq[d] \in Seq(Packet) /\ Distinct(rq[d]) /\ Len(rq[d]) < RQ_SIZE[d] /\ RQ_SIZE[d] \in Nat
        /\ At(rq[d], x) = {} /\ d \notin FirstLevel
    BY <1>8, <1>10
  <2> HIDE DEF d
  <2>4. /\ Queued(rq[d], p, RQ_SIZE[d]) \in Seq(Packet)
        /\ Len(Queued(rq[d], p, RQ_SIZE[d])) <= RQ_SIZE[d]
        /\ Distinct(Queued(rq[d], p, RQ_SIZE[d]))
        /\ At(Queued(rq[d], p, RQ_SIZE[d]), x) = {r}
        /\ \A y : y # x => At(Queued(rq[d], p, RQ_SIZE[d]), y) = At(rq[d], y)
    <3> DEFINE s == rq[d]
               k == RQ_SIZE[d]
    <3>1. s \in Seq(Packet) /\ Distinct(s) /\ Len(s) <= k /\ Len(s) < k /\ k \in Nat /\ At(s, p.line) = {}
      BY <2>3 DEF x
    <3> HIDE DEF s, k
    <3>2. /\ Queued(s, p, k) \in Seq(Packet) /\ Len(Queued(s, p, k)) <= k
          /\ Distinct(Queued(s, p, k)) /\ At(Queued(s, p, k), p.line) = {r}
          /\ \A y : y # p.line => At(Queued(s, p, k), y) = At(s, y)
      <4> HIDE DEF r
      <4> QED BY ZenonT(60), <3>1, QueuedAt DEF r
    <3> QED BY <3>2 DEF s, k, x
  <2>5. LawfulRead(d, r)
    BY <2>1, <2>3 DEF LawfulRead
  <2> HIDE DEF r
  <2> QED BY <2>1, <2>2, <2>4, <2>5 DEF r
<1>11. ASSUME NEW v \in Cache, NEW y \in Line, y # x \/ (v # c /\ (v # d \/ back))
       PROVE  SameQueues(v, y)
  <2>1. CASE v = c
    BY <1>2, <1>9, <1>11, <2>1 DEF SameQueues, x
  <2>2. CASE v # c /\ (v # d \/ back)
    BY <1>9, <2>2 DEF SameQueues
  <2>3. CASE v # c /\ v = d /\ ~back
    BY <1>10, <1>11, <2>3 DEF SameQueues
  <2> QED BY <2>1, <2>2, <2>3
<1>12. Typed'
  <2>1. dramRQ' \subseteq Line
    BY <1>1, <1>2 DEF Traffic, Typed
  <2> QED BY <1>4, <1>9, <2>1 DEF Traffic, Typed
<1>13. Sized'
  <2>1. ASSUME NEW v \in Cache  PROVE MshrOccupancy(v)' <= MSHR_SIZE[v]
    <3>1. CASE v = c
      <4>1. Cardinality(Taken(mshr'[c])) <= MSHR_SIZE[c]
        BY <1>2, <1>4, TakeOne
      <4> QED BY <3>1, <4>1 DEF Taken, MshrOccupancy
    <3>2. CASE v # c
      BY <1>4, <3>2, NoMoreMisses DEF Traffic
    <3> QED BY <3>1, <3>2
  <2>2. ASSUME NEW v \in Cache  PROVE Len(rq'[v]) <= RQ_SIZE[v]
    <3>1. CASE v = c
      BY <1>9, <3>1
    <3>2. CASE v # c /\ (v # d \/ back)
      BY <1>9, <3>2 DEF Traffic, Sized
    <3>3. CASE v # c /\ v = d /\ ~back
      BY <1>10, <3>3
    <3> QED BY <3>1, <3>2, <3>3
  <2> QED BY <2>1, <2>2 DEF Traffic, Sized
<1>14. Lawful'
  <2>1. ASSUME NEW v \in Cache  PROVE Distinct(rq'[v]) /\ Distinct(pq'[v])
    <3>1. CASE v = c
      BY <1>9, <3>1 DEF Traffic, Lawful
    <3>2. CASE v # c /\ (v # d \/ back)
      BY <1>9, <3>2 DEF Traffic, Lawful
    <3>3. CASE v # c /\ v = d /\ ~back
      BY <1>10, <3>3 DEF Traffic, Lawful
    <3> QED BY <3>1, <3>2, <3>3
  <2>2. ASSUME NEW v \in Cache, NEW y \in Line  PROVE LawfulAt(v, y)'
    <3>0. LawfulAt(v, y)
      BY DEF Traffic, Lawful
    <3>1. CASE v = c /\ y = x
      BY <1>3, <1>4, <1>7, <1>9, <3>1 DEF LawfulAt, x
    <3>2. CASE y # x \/ (v # c /\ (v # d \/ back))
      BY <1>4, <1>11, <3>0, <3>2, UndisturbedLawful DEF Traffic
    <3>3. CASE v # c /\ v = d /\ ~back /\ y = x
      <4>1. mshr'[v][y] = mshr[v][y]
        BY <1>4, <3>3
      <4>2. \A r \in At(rq'[v], y) : LawfulRead(v, r)
        BY <1>10, <3>3
      <4> QED BY <3>0, <4>1, <4>2 DEF LawfulAt
    <3> QED BY <3>1, <3>2, <3>3
  <2> QED BY <2>1, <2>2 DEF Lawful
<1>15. AnsweringAt(c, x)'
  <2>1. CASE c \in FirstLevel
    BY <1>2, <1>12, <2>1, FirstLevelOwesNothingPrime
  <2>2. CASE c \notin FirstLevel
    <3>1. OwedReads(c, x) = {p.instr} /\ OwedReads(c, x)' = {}
      BY <1>9, <2>2 DEF OwedReads, x
    <3>2. OwedPrefetches(c, x) = {} /\ OwedMiss(c, x) = {}
      BY <1>7, <3>1 DEF AnsweringAt, OwedOnce
    <3>3. OwedPrefetches(c, x)' = {}
      BY <3>2 DEF OwedPrefetches
    <3>4. OwedMiss(c, x)' = {p.instr}
      <4>1. 1 < fill_level(c)
        BY <2>2, Levels DEF Fills
      <4> QED BY <1>3, <1>4, <4>1 DEF OwedMiss
    <3>5. Waiters(c, x)' = Waiters(c, x)
      <4>1. \A u \in Cache : lower[u] = c => u # c
        BY UpperIsSide
      <4> QED BY <1>2, <1>6, <4>1 DEF Waiters
    <3>6. Owed(c, x)' = Owed(c, x) /\ OwedOnce(c, x)'
      BY <3>1, <3>2, <3>3, <3>4 DEF Owed, OwedOnce
    <3> QED BY <1>7, <3>5, <3>6 DEF AnsweringAt
  <2> QED BY <2>1, <2>2
<1>16. ASSUME d \in Cache, ~back  PROVE AnsweringAt(d, x)'
  <2>1. OwedReads(d, x)' = {p.instr}
    <3> DEFINE r == [p EXCEPT !.deps = {}]
    <3>1. At(rq'[d], x) = {r} /\ r.instr = p.instr /\ d \notin FirstLevel
      BY <1>8, <1>10, <1>16
    <3> HIDE DEF r, d
    <3> QED BY <3>1 DEF OwedReads
  <2>2. OwedPrefetches(d, x)' = {}
    BY <1>8, <1>16 DEF Owed, OwedPrefetches
  <2>3. OwedMiss(d, x)' = {}
    BY <1>2, <1>4, <1>8, <1>16 DEF Owed, OwedMiss
  <2>4. Waiters(d, x)' = {c}
    BY <1>2, <1>5, <1>6, <1>8, <1>16 DEF Waiters
  <2>5. Side(d, p.instr) = c
    BY <1>8, <1>16
  <2> HIDE DEF d
  <2>6. Owed(d, x)' = {p.instr} /\ OwedOnce(d, x)'
    BY <2>1, <2>2, <2>3 DEF Owed, OwedOnce
  <2> QED BY <2>4, <2>5, <2>6 DEF AnsweringAt
<1>17. Answering'
  <2> SUFFICES ASSUME NEW v \in Cache, NEW y \in Line  PROVE AnsweringAt(v, y)'
    BY DEF Answering
  <2>1. CASE v = c /\ y = x
    BY <1>15, <2>1
  <2>2. CASE v # c /\ v = d /\ ~back /\ y = x
    BY <1>16, <2>2
  <2>3. CASE y # x \/ (v # c /\ (v # d \/ back))
    <3>1. SameQueues(v, y) /\ SameMiss(v, y)
      BY <1>4, <1>11, <2>3
    <3>2. SameWaiters(v, y)
      <4>1. ASSUME NEW u \in Cache, lower[u] = v  PROVE InFlight(u, y)' <=> InFlight(u, y)
        <5>1. CASE u = c /\ y = x
          BY <1>5, <2>3, <4>1, <5>1
        <5>2. CASE u # c \/ y # x
          BY <1>6, <5>2
        <5> QED BY <5>1, <5>2
      <4> QED BY <4>1 DEF SameWaiters
    <3> QED BY <3>1, <3>2, Undisturbed DEF Traffic, Answering
  <2> QED BY <2>1, <2>2, <2>3
<1>18. AnsweredFromOutside'
  <2>1. ASSUME NEW y \in Line, NEW u \in Cache, lower[u] = NoCache, InFlight(u, y)'  PROVE FALSE
    <3>1. CASE u = c /\ y = x
      BY <1>1, <1>5, <2>1, <3>1
    <3>2. CASE u # c \/ y # x
      BY <1>6, <2>1, <3>2 DEF Traffic, AnsweredFromOutside, Waiters
    <3> QED BY <3>1, <3>2
  <2>2. ASSUME NEW u \in Cache, NEW y \in Line, lower[u] = DRAM  PROVE InFlight(u, y)' <=> y \in dramRQ'
    <3>0. InFlight(u, y) <=> y \in dramRQ
      BY <2>2 DEF Traffic, AnsweredFromOutside
    <3>1. CASE u = c
      BY <1>1, <1>5, <1>6, <2>2, <3>0, <3>1
    <3>2. CASE u # c
      <4>1. d # DRAM
        BY <2>2, <3>2, LevelsAssumption
      <4> QED BY <1>1, <1>6, <3>0, <3>2, <4>1
    <3> QED BY <3>1, <3>2
  <2>3. \A y \in Line : Waiters(NoCache, y)' = {}
    BY <2>1 DEF Waiters
  <2> QED BY <2>2, <2>3 DEF AnsweredFromOutside
<1> QED BY <1>12, <1>13, <1>14, <1>17, <1>18 DEF Traffic

-----------------------------------------------------------------------------
(* Misses that find their line in flight.                                  *)

(* One MSHR of c is rewritten, for the same line and as far on its way;    *)
(* packets for the line may leave the queues of c.                         *)
LEMMA RewriteMiss ==
  ASSUME Traffic, NEW c \in Cache, NEW x \in Line, NEW e \in MshrEntry,
         mshr' = [mshr EXCEPT ![c][x] = e], mshr[c][x] # Free,
         e.returned = mshr[c][x].returned, LawfulMiss(c, x, e),
         rq' \in [Cache -> Seq(Packet)], pq' \in [Cache -> Seq(Packet)], dramRQ' = dramRQ,
         \A d \in Cache : /\ Distinct(rq'[d]) /\ Len(rq'[d]) <= RQ_SIZE[d]
                          /\ Distinct(pq'[d]) /\ Len(pq'[d]) <= PQ_SIZE[d],
         \A d \in Cache, y \in Line : d # c \/ y # x => SameQueues(d, y),
         At(rq'[c], x) \subseteq At(rq[c], x), At(pq'[c], x) \subseteq At(pq[c], x),
         c \notin FirstLevel => Owed(c, x)' = Owed(c, x) /\ OwedOnce(c, x)'
  PROVE  Traffic'
<1> USE DEF Traffic
<1>1. /\ mshr' \in [Cache -> [Line -> MshrEntry \cup {Free}]]
      /\ mshr'[c][x] = e /\ e # Free
      /\ \A d \in Cache, y \in Line : d # c \/ y # x => mshr'[d][y] = mshr[d][y] /\ SameMiss(d, y)
  BY MshrSet
<1>2. \A d \in Cache, y \in Line : InFlight(d, y)' <=> InFlight(d, y)
  <2>1. ASSUME NEW d \in Cache, NEW y \in Line  PROVE InFlight(d, y)' <=> InFlight(d, y)
    <3>1. CASE d = c /\ y = x
      BY <1>1, <3>1 DEF InFlight
    <3>2. CASE d # c \/ y # x
      BY <1>1, <3>2 DEF InFlight
    <3> QED BY <3>1, <3>2
  <2> QED BY <2>1
<1>3. Typed'
  BY <1>1 DEF Typed
<1>4. Sized'
  <2>1. ASSUME NEW d \in Cache  PROVE MshrOccupancy(d)' <= MSHR_SIZE[d]
    BY <1>1, NoMoreMisses
  <2> QED BY <2>1 DEF Sized
<1>5. LawfulAt(c, x)'
  BY <1>1 DEF Lawful, LawfulAt
<1>6. Lawful'
  BY <1>1, <1>5, LawfulElsewhere
<1>7. AnsweringAt(c, x)'
  <2>1. CASE c \in FirstLevel
    BY <1>3, <2>1, FirstLevelOwesNothingPrime
  <2>2. CASE c \notin FirstLevel
    <3>1. Waiters(c, x)' = Waiters(c, x)
      BY <1>2 DEF Waiters
    <3> QED BY <2>2, <3>1 DEF Answering, AnsweringAt
  <2> QED BY <2>1, <2>2
<1>8. Answering'
  <2>1. \A d \in Cache, y \in Line : SameWaiters(d, y)
    BY <1>2 DEF SameWaiters
  <2> QED BY <1>1, <1>7, <2>1, AnsweringElsewhere
<1>9. AnsweredFromOutside'
  BY <1>2 DEF AnsweredFromOutside, Waiters
<1> QED BY <1>3, <1>4, <1>6, <1>8, <1>9

(* What joins in Merged: a demand stays or becomes a demand.               *)
LEMMA MergedEntry ==
  ASSUME NEW c \in Cache, NEW x \in Line, NEW e \in MshrEntry, NEW p \in Packet, p.line = x,
         LawfulMiss(c, x, e), LawfulRead(c, p)
  PROVE  /\ Merged(e, p) \in MshrEntry /\ Merged(e, p).returned = e.returned
         /\ LawfulMiss(c, x, Merged(e, p))
         /\ e.type = "PREFETCH" => Merged(e, p).fill = 1 /\ Merged(e, p).instr = p.instr
<1> DEFINE m == Merged(e, p)
<1>1. CASE e.type = "PREFETCH"
  <2>1. m = Entry(p, e.returned)
    BY <1>1 DEF Merged
  <2>2. e.returned \in BOOLEAN
    BY DEF MshrEntry
  <2>3. m \in MshrEntry
    BY <2>1, <2>2, EntryTyped
  <2>4. m.returned = e.returned /\ m.fill = 1 /\ m.instr = p.instr /\ m.type = p.type
    BY <2>1 DEF Entry, LawfulRead
  <2> HIDE DEF m
  <2>5. LawfulMiss(c, x, m)
    BY <2>4 DEF LawfulMiss, LawfulRead
  <2> QED BY <2>3, <2>4, <2>5 DEF m
<1>2. CASE e.type # "PREFETCH"
  <2>1. m = [e EXCEPT !.deps = @ \cup p.deps, !.fill = IF p.fill < @ THEN p.fill ELSE @]
    BY <1>2 DEF Merged
  <2>2. e.fill = 1 /\ p.fill = 1
    BY <1>2 DEF LawfulMiss, LawfulRead
  <2>3. m = [e EXCEPT !.deps = e.deps \cup p.deps, !.fill = 1]
    BY <2>1, <2>2
  <2> HIDE DEF m
  <2>4. e.deps \cup p.deps \in SUBSET Req
    BY DEF MshrEntry, Packet
  <2>5. m \in MshrEntry /\ m.returned = e.returned /\ m.fill = 1 /\ m.instr = e.instr /\ m.type = e.type
    BY <2>3, <2>4 DEF MshrEntry, Fills
  <2>6. LawfulMiss(c, x, m)
    BY <2>5 DEF LawfulMiss
  <2> QED BY <1>2, <2>5, <2>6 DEF m
<1> QED BY <1>1, <1>2

(* A demand joins a miss: below the first level that miss is a prefetch's  *)
(* that no upper level waits for, or the line would be owed twice.         *)
LEMMA JoinMissTraffic ==
  ASSUME Traffic, NEW c \in Cache, NEW p \in Packet, NEW x \in Line, p.line = x, NEW q \in Seq(Packet),
         mshr[c][x] # Free, LawfulRead(c, p),
         NEW m, m = Merged(mshr[c][x], p), mshr' = [mshr EXCEPT ![c][x] = m],
         rq' = [rq EXCEPT ![c] = q], pq' = pq, dramRQ' = dramRQ,
         Len(q) <= RQ_SIZE[c], Distinct(q),
         \A y \in Line : y # x => At(q, y) = At(rq[c], y),
         At(q, x) \subseteq At(rq[c], x),
         c \notin FirstLevel => At(rq[c], x) = {p} /\ At(q, x) = {}
  PROVE  Traffic'
<1>1. PICK e \in MshrEntry : mshr[c][x] = e
  BY DEF Traffic, Typed
<1>2. LawfulMiss(c, x, e) /\ AnsweringAt(c, x)
  BY <1>1 DEF Traffic, Lawful, LawfulAt, Answering
<1>3. /\ m \in MshrEntry /\ m.returned = e.returned /\ LawfulMiss(c, x, m)
      /\ e.type = "PREFETCH" => m.fill = 1 /\ m.instr = p.instr
  BY <1>1, <1>2, MergedEntry
<1>4. /\ rq' \in [Cache -> Seq(Packet)] /\ pq' \in [Cache -> Seq(Packet)]
      /\ rq'[c] = q /\ \A d \in Cache : d # c => rq'[d] = rq[d]
  BY DEF Traffic, Typed
<1>5. \A d \in Cache, y \in Line : d # c \/ y # x => SameQueues(d, y)
  BY <1>4 DEF SameQueues
<1>6. mshr'[c][x] = m /\ m # Free
  <2>1. mshr'[c][x] = m
    BY DEF Traffic, Typed
  <2> QED BY <1>3, <2>1, EntryTyped
<1>7. ASSUME c \notin FirstLevel  PROVE Owed(c, x)' = Owed(c, x) /\ OwedOnce(c, x)'
  <2>1. OwedReads(c, x) = {p.instr} /\ OwedReads(c, x)' = {}
    BY <1>4, <1>7 DEF OwedReads
  <2>2. OwedPrefetches(c, x) = {} /\ OwedMiss(c, x) = {}
    BY <1>2, <2>1 DEF AnsweringAt, OwedOnce
  <2>3. OwedPrefetches(c, x)' = {}
    BY <2>2 DEF OwedPrefetches
  <2>4. 1 < fill_level(c)
    BY <1>7, Levels DEF Fills
  <2>5. ~(e.fill < fill_level(c))
    BY <1>1, <2>2 DEF OwedMiss
  <2>6. e.type = "PREFETCH"
    BY <1>2, <2>4, <2>5 DEF LawfulMiss
  <2>7. OwedMiss(c, x)' = {p.instr}
    BY <1>3, <1>6, <2>4, <2>6 DEF OwedMiss
  <2> QED BY <2>1, <2>2, <2>3, <2>7 DEF Owed, OwedOnce
<1>8. \A d \in Cache : /\ Distinct(rq'[d]) /\ Len(rq'[d]) <= RQ_SIZE[d]
                       /\ Distinct(pq'[d]) /\ Len(pq'[d]) <= PQ_SIZE[d]
  BY <1>4 DEF Traffic, Lawful, Sized
<1>9. At(rq'[c], x) \subseteq At(rq[c], x) /\ At(pq'[c], x) \subseteq At(pq[c], x)
  BY <1>4
<1>10. mshr[c][x] # Free /\ m.returned = mshr[c][x].returned /\ m \in MshrEntry /\ LawfulMiss(c, x, m)
  BY <1>1, <1>3
<1>11. c \notin FirstLevel => Owed(c, x)' = Owed(c, x) /\ OwedOnce(c, x)'
  BY <1>7
<1> QED BY ZenonT(60), <1>4, <1>5, <1>8, <1>9, <1>10, <1>11, RewriteMiss

(* handle_read, miss. *)
LEMMA ReadMissTraffic ==
  ASSUME CodeAndDataApart, Traffic, NEW c \in Cache, ReadMiss(c)
  PROVE  Traffic'
<1>0. /\ rq[c] \in Seq(Packet) /\ Distinct(rq[c]) /\ Len(rq[c]) <= RQ_SIZE[c] /\ rq[c] # <<>>
      /\ RQ_SIZE[c] \in Nat /\ Len(rq[c]) \in Nat
  BY SizesAssumption DEF Traffic, Typed, Sized, Lawful, ReadMiss
<1>p. PICK p \in Packet : p = Head(rq[c])
  BY <1>0, HeadAt
<1>x. PICK x \in Line : x = p.line
  BY DEF Packet
<1>q. PICK q \in Seq(Packet) : q = Tail(rq[c])
  BY <1>0, TailSubset
<1>1. Len(q) <= RQ_SIZE[c]
  BY <1>0, <1>q, TailSubset
<1>2. /\ Distinct(q) /\ At(rq[c], p.line) = {p} /\ At(q, p.line) = {}
      /\ \A y : y # p.line => At(q, y) = At(rq[c], y)
  BY <1>0, <1>p, <1>q, TailAt
<1>3. LawfulRead(c, p)
  BY <1>x, <1>2 DEF Traffic, Lawful, LawfulAt
<1>4. CASE mshr[c][x] = Free
  <2>1. NewMiss(c, p, q) /\ pq' = pq /\ MshrRoom(c)
    BY <1>p, <1>x, <1>q, <1>4 DEF ReadMiss
  <2> QED BY <1>x, <1>1, <1>2, <1>3, <1>4, <2>1, NewMissTraffic
<1>5. CASE mshr[c][x] # Free
  <2>m. PICK m : m = Merged(mshr[c][x], p)
    OBVIOUS
  <2>1. rq' = [rq EXCEPT ![c] = q] /\ pq' = pq /\ dramRQ' = dramRQ
    BY <1>p, <1>x, <1>q, <1>5 DEF ReadMiss
  <2>2. mshr' = [mshr EXCEPT ![c][x] = Merged(@, p)]
    BY <1>p, <1>x, <1>5 DEF ReadMiss
  <2>3. mshr' = [mshr EXCEPT ![c][x] = m]
    BY <2>2, <2>m
  <2> QED BY <1>x, <1>1, <1>2, <1>3, <1>5, <2>m, <2>1, <2>3, JoinMissTraffic
<1> QED BY <1>4, <1>5

(* The head of a write queue. *)
LEMMA HeadWrite ==
  ASSUME Writes, NEW c \in Cache, wq[c] # <<>>
  PROVE  Head(wq[c]) \in Packet /\ Head(wq[c]).line \in Line /\ LawfulWrite(c, Head(wq[c]))
<1>1. wq[c] \in Seq(Packet)
  BY DEF Writes
<1>2. PICK p : p = Head(wq[c])
  OBVIOUS
<1>3. p \in Packet /\ p.line \in Line /\ p \in At(wq[c], p.line)
  BY <1>1, <1>2, HeadAt
<1>4. LawfulWrite(c, p)
  BY <1>3 DEF Writes
<1> QED BY <1>2, <1>3, <1>4

(* handle_writeback, miss in the L1D. *)
LEMMA StoreMissTraffic ==
  ASSUME CodeAndDataApart, Traffic, Writes, NEW c \in Cache, StoreMiss(c)
  PROVE  Traffic'
<1>0. /\ rq[c] \in Seq(Packet) /\ Distinct(rq[c]) /\ Len(rq[c]) <= RQ_SIZE[c] /\ wq[c] # <<>>
      /\ kind[c] = "L1D" /\ c \in FirstLevel
  BY DEF Traffic, Typed, Sized, Lawful, StoreMiss, FirstLevel
<1>p. PICK p \in Packet : p = Head(wq[c]) /\ LawfulWrite(c, p)
  BY <1>0, HeadWrite
<1>x. PICK x \in Line : x = p.line
  BY DEF Packet
<1>q. PICK q \in Seq(Packet) : q = rq[c]
  BY <1>0
<1>3. LawfulRead(c, p)
  <2>1. fill_level(c) = 1
    BY <1>0, Levels
  <2> QED BY <1>0, <1>p, <2>1 DEF LawfulWrite, LawfulRead
<1>4. CASE mshr[c][x] = Free
  <2>1. NewMiss(c, p, q) /\ pq' = pq /\ MshrRoom(c)
    BY <1>p, <1>x, <1>q, <1>4 DEF StoreMiss
  <2>2. \A r \in At(q, x) : LawfulRead(c, r)
    BY <1>q DEF Traffic, Lawful, LawfulAt
  <2> QED BY <1>0, <1>x, <1>q, <1>3, <1>4, <2>1, <2>2, NewMissTraffic
<1>5. CASE mshr[c][x] # Free
  <2>m. PICK m : m = Merged(mshr[c][x], p)
    OBVIOUS
  <2>1. rq' = rq /\ pq' = pq /\ dramRQ' = dramRQ
    BY <1>p, <1>x, <1>q, <1>5 DEF StoreMiss
  <2>2. rq' = [rq EXCEPT ![c] = q]
    BY <1>q, <2>1 DEF Traffic, Typed
  <2>3. mshr' = [mshr EXCEPT ![c][x] = Merged(@, p)]
    BY <1>p, <1>x, <1>5 DEF StoreMiss
  <2>4. mshr' = [mshr EXCEPT ![c][x] = m]
    BY <2>3, <2>m
  <2> QED BY <1>0, <1>x, <1>q, <1>3, <1>5, <2>m, <2>1, <2>2, <2>4, JoinMissTraffic
<1> QED BY <1>4, <1>5

-----------------------------------------------------------------------------
(* DRAM answers, and steps that are not about misses.                      *)
LEMMA DramReturnTraffic ==
  ASSUME Traffic, NEW c \in Cache, NEW x \in Line, DramReturn(c, x)
  PROVE  Traffic'
<1>1. /\ lower[c] = DRAM /\ x \in dramRQ /\ dramRQ' = dramRQ \ {x}
      /\ rq' = rq /\ pq' = pq
      /\ mshr' = IF mshr[c][x] = Free THEN mshr ELSE [mshr EXCEPT ![c][x].returned = TRUE]
  BY DEF DramReturn
<1>2. InFlight(c, x)
  BY <1>1 DEF Traffic, AnsweredFromOutside
<1>3. mshr[c][x] \in MshrEntry
  BY <1>2 DEF InFlight, Traffic, Typed
<1>4. PICK e \in MshrEntry : e = [mshr[c][x] EXCEPT !.returned = TRUE]
  BY <1>3, ReturnedEntry
<1>5. e # Free /\ e.returned = TRUE
  BY <1>3, <1>4, ReturnedEntry
<1>6. mshr' = [mshr EXCEPT ![c][x] = e]
  BY <1>1, <1>2, <1>4 DEF InFlight
<1>7. mshr \in [Cache -> [Line -> MshrEntry \cup {Free}]]
  BY DEF Traffic, Typed
<1>8. /\ mshr' \in [Cache -> [Line -> MshrEntry \cup {Free}]]
      /\ mshr'[c][x] = e
      /\ \A d \in Cache, y \in Line : d # c \/ y # x => mshr'[d][y] = mshr[d][y]
  BY <1>6, <1>7
<1>9. \A d \in Cache, y \in Line : SameMiss(d, y) /\ SameQueues(d, y)
  BY <1>1, <1>2, <1>4, <1>8 DEF SameMiss, SameQueues, InFlight
<1>10. \A d \in Cache, y \in Line : InFlight(d, y)' <=> InFlight(d, y) /\ ~(d = c /\ y = x)
  <2>1. ASSUME NEW d \in Cache, NEW y \in Line, d # c \/ y # x  PROVE InFlight(d, y)' <=> InFlight(d, y)
    BY <1>8, <2>1 DEF InFlight
  <2>2. ~InFlight(c, x)'
    BY <1>5, <1>8 DEF InFlight
  <2> QED BY <2>1, <2>2
<1>11. Typed'
  BY <1>1, <1>8 DEF Traffic, Typed
<1>12. Sized'
  BY <1>1, <1>2, <1>8, NoMoreMisses DEF Traffic, Sized, InFlight
<1>13. Lawful'
  <2>1. \A d \in Cache, y \in Line : LawfulAt(d, y)'
    BY <1>9, UndisturbedLawful DEF Traffic, Lawful
  <2> QED BY <1>1, <2>1 DEF Traffic, Lawful
<1>14. Answering'
  <2>1. ASSUME NEW d \in Cache, NEW y \in Line  PROVE AnsweringAt(d, y)'
    <3>1. DRAM \notin Cache
      BY LevelsAssumption
    <3>2. SameWaiters(d, y)
      BY <1>1, <1>10, <3>1 DEF SameWaiters
    <3> QED BY <1>9, <3>2, Undisturbed DEF Traffic, Answering
  <2> QED BY <2>1 DEF Answering
<1>15. AnsweredFromOutside'
  <2>1. \A y \in Line : Waiters(NoCache, y)' = {}
    BY <1>10 DEF Traffic, AnsweredFromOutside, Waiters
  <2>2. ASSUME NEW d \in Cache, NEW y \in Line, lower[d] = DRAM  PROVE InFlight(d, y)' <=> y \in dramRQ'
    <3>1. d = c
      BY <1>1, <2>2, LevelsAssumption
    <3>2. InFlight(d, y) <=> y \in dramRQ
      BY <2>2 DEF Traffic, AnsweredFromOutside
    <3> QED BY <1>1, <1>10, <3>1, <3>2
  <2> QED BY <2>1, <2>2 DEF AnsweredFromOutside
<1> QED BY <1>11, <1>12, <1>13, <1>14, <1>15 DEF Traffic

(* Steps that touch no miss and no request for one.                        *)
LEMMA OtherTraffic ==
  ASSUME Traffic, mshr' = mshr, rq' = rq, pq' = pq, dramRQ' = dramRQ
  PROVE  Traffic'
<1>1. Typed' /\ Sized' /\ AnsweredFromOutside'
  BY OutsideUnchanged, SizedMisses DEF Traffic, Typed, Sized
<1>2. Lawful'
  BY DEF Traffic, Lawful, LawfulAt
<1>3. Answering'
  <2>1. \A d \in Cache, y \in Line : SameQueues(d, y) /\ SameMiss(d, y) /\ SameWaiters(d, y)
    BY DEF SameQueues, SameMiss, SameWaiters, InFlight
  <2> QED BY <2>1, Undisturbed DEF Traffic, Answering
<1> QED BY <1>1, <1>2, <1>3 DEF Traffic

(* A write is answered to nobody. *)
LEMMA WriteReturnsNothing ==
  ASSUME Writes, NEW c \in Cache, wq[c] # <<>>
  PROVE  Returned(mshr, c, Head(wq[c])) = mshr
<1>1. PICK p \in Packet : p = Head(wq[c]) /\ p.fill = fill_level(c)
  BY HeadWrite DEF LawfulWrite
<1>2. ~(p.fill < fill_level(c))
  BY <1>1, Levels DEF Fills
<1>3. Returned(mshr, c, p) = mshr
  BY <1>2 DEF Returned
<1> QED BY <1>1, <1>3

-----------------------------------------------------------------------------
(* handle_prefetch, misses. *)

(* Prefetch queues change, but in none a prefetch an upper level wants.    *)
LEMMA QuietPrefetchQueues ==
  ASSUME Traffic, pq' \in [Cache -> Seq(Packet)],
         \A d \in Cache : Len(pq'[d]) <= PQ_SIZE[d] /\ Distinct(pq'[d]),
         \A d \in Cache, y \in Line : \A p \in At(pq'[d], y) : LawfulPrefetch(d, p),
         \A d \in Cache, y \in Line : Wanted(pq'[d], y, fill_level(d)) = Wanted(pq[d], y, fill_level(d)),
         mshr' = mshr, rq' = rq, dramRQ' = dramRQ
  PROVE  Traffic'
<1> USE DEF Traffic
<1>1. Typed'
  BY DEF Typed
<1>2. Sized'
  BY SizedMisses DEF Sized
<1>3. Lawful'
  BY DEF Lawful, LawfulAt
<1>4. Answering'
  <2> SUFFICES ASSUME NEW d \in Cache, NEW y \in Line  PROVE AnsweringAt(d, y)'
    BY DEF Answering
  <2>1. OwedPrefetches(d, y)' = OwedPrefetches(d, y)
    BY DEF OwedPrefetches, Wanted
  <2>2. OwedReads(d, y)' = OwedReads(d, y) /\ OwedMiss(d, y)' = OwedMiss(d, y)
    BY DEF OwedReads, OwedMiss
  <2>3. Waiters(d, y)' = Waiters(d, y)
    BY DEF Waiters, InFlight
  <2>4. AnsweringAt(d, y)
    BY DEF Answering
  <2> QED BY <2>1, <2>2, <2>3, <2>4 DEF AnsweringAt, Owed, OwedOnce
<1>5. AnsweredFromOutside'
  BY OutsideUnchanged
<1> QED BY <1>1, <1>2, <1>3, <1>4, <1>5

(* A miss of c for line x starts with the prefetch at the head of its      *)
(* queue and is owed to those above that the prefetch was owed to.         *)
LEMMA PrefetchTakesMiss ==
  ASSUME Traffic, NEW c \in Cache, NEW x \in Line, NEW p \in Packet, NEW q,
         LawfulPrefetch(c, p), mshr[c][x] = Free, NEW e \in MshrEntry, mshr'[c][x] = e,
         e.fill = p.fill, e.instr = p.instr, e.type = p.type,
         At(pq[c], x) = {p}, pq'[c] = q, At(q, x) = {}, rq' = rq,
         \A d \in Cache, y \in Line : d # c \/ y # x => mshr'[d][y] = mshr[d][y]
  PROVE  AnsweringAt(c, x)'
<1>1. AnsweringAt(c, x)
  BY DEF Traffic, Answering
<1>2. OwedReads(c, x)' = OwedReads(c, x)
  BY DEF OwedReads
<1>3. OwedPrefetches(c, x)' = {}
  BY DEF OwedPrefetches
<1>4. OwedMiss(c, x) = {}
  BY DEF OwedMiss
<1>5. OwedMiss(c, x)' = OwedPrefetches(c, x)
  <2>1. OwedMiss(c, x)' = IF p.fill < fill_level(c) THEN {p.instr} ELSE {}
    BY EntryTyped DEF OwedMiss
  <2>2. OwedPrefetches(c, x) = IF p.fill < fill_level(c) THEN {p.instr} ELSE {}
    BY DEF OwedPrefetches
  <2> QED BY <2>1, <2>2
<1>6. Waiters(c, x)' = Waiters(c, x)
  <2>1. \A u \in Cache : lower[u] = c => u # c
    BY UpperIsSide
  <2>2. \A u \in Cache : u # c => (InFlight(u, x)' <=> InFlight(u, x))
    BY DEF InFlight
  <2> QED BY <2>1, <2>2 DEF Waiters
<1> QED BY <1>1, <1>2, <1>3, <1>4, <1>5, <1>6 DEF AnsweringAt, Owed, OwedOnce

(* A prefetch that the cache above waits for arrives in the queue of d,    *)
(* which owed its line to nobody.                                          *)
LEMMA WantedPrefetch ==
  ASSUME Traffic, NEW d \in Cache, NEW x \in Line, NEW p \in Packet, p.line = x,
         Owed(d, x) = {}, p.fill < fill_level(d), p.instr = FALSE, Len(pq[d]) < PQ_SIZE[d],
         pq'[d] = PrefetchQueued(pq[d], p)
  PROVE  OwedPrefetches(d, x)' = {FALSE}
<1>0. pq[d] \in Seq(Packet) /\ PQ_SIZE[d] \in Nat /\ LawfulAt(d, x)
  BY SizesAssumption DEF Traffic, Typed, Lawful
<1>1. At(pq'[d], x) = IF At(pq[d], x) = {} THEN {p} ELSE {Nearer(p, r) : r \in At(pq[d], x)}
  BY ZenonT(60), <1>0, PrefetchQueuedAt
<1>2. \A r \in At(pq[d], x) : r \in Packet /\ r.instr = FALSE /\ ~(r.fill < fill_level(d))
  <2>1. \A r \in At(pq[d], x) : r \in Packet /\ ~r.instr
    BY <1>0, AtMember DEF LawfulAt, LawfulPrefetch
  <2>2. \A r \in At(pq[d], x) : r.instr \in BOOLEAN
    BY <2>1 DEF Packet
  <2>3. OwedPrefetches(d, x) = {}
    BY DEF Owed
  <2> QED BY <2>1, <2>2, <2>3 DEF OwedPrefetches
<1>3. \A r \in At(pq[d], x) : Nearer(p, r).fill = p.fill /\ Nearer(p, r).instr = FALSE
  <2>1. \A r \in Packet : /\ r.fill \in Int /\ [r EXCEPT !.fill = p.fill].fill = p.fill
                          /\ [r EXCEPT !.fill = p.fill].instr = r.instr
    BY DEF Packet, Fills
  <2>2. p.fill \in Int /\ fill_level(d) \in Int
    BY Levels DEF Packet, Fills
  <2> QED BY <1>2, <2>1, <2>2 DEF Nearer
<1>4. \A r \in At(pq'[d], x) : r.fill < fill_level(d) /\ r.instr = FALSE
  BY <1>1, <1>3
<1>5. At(pq'[d], x) # {}
  BY <1>1
<1> QED BY <1>4, <1>5 DEF OwedPrefetches

(* What PrefetchMiss does, in terms of whether the lower level answers at  *)
(* once.                                                                   *)
LEMMA PrefetchMissEffect ==
  ASSUME Traffic, NEW c \in Cache, NEW p \in Packet, NEW q \in Seq(Packet), PrefetchMiss(c),
         p = Head(pq[c]), q = Tail(pq[c]), LawfulPrefetch(c, p)
  PROVE  /\ rq' = rq /\ mshr[c][p.line] = Free /\ MshrRoom(c) /\ pq[c] # <<>>
         /\ lower[c] \in Cache \/ lower[c] = DRAM
         /\ lower[c] = DRAM => p.fill <= fill_level(c)
         /\ lower[c] \in Cache => /\ Len(pq[lower[c]]) < PQ_SIZE[lower[c]]
                                  /\ kind[lower[c]] \in DataKinds \ {"L1D"}
         /\ \E back \in BOOLEAN :
              /\ p.fill <= fill_level(c) => mshr' = [mshr EXCEPT ![c][p.line] = Entry(p, back)]
              /\ ~(p.fill <= fill_level(c)) => mshr' = mshr
              /\ lower[c] # DRAM => dramRQ' = dramRQ
              /\ lower[c] = DRAM => dramRQ' = IF back THEN dramRQ ELSE dramRQ \cup {p.line}
              /\ pq' \in [Cache -> Seq(Packet)] /\ pq'[c] = q
              /\ \A v \in Cache : v # c /\ (v # lower[c] \/ back) => pq'[v] = pq[v]
              /\ lower[c] \in Cache /\ ~back => pq'[lower[c]] = PrefetchQueued(pq[lower[c]], p)
<1> DEFINE d == lower[c]
           fw == ForwardedBelow(c, p.line)
           tail == [pq EXCEPT ![c] = q]
<1>0. fw \in BOOLEAN
  BY ForwardedType
<1>1. /\ d \in Cache \/ d = DRAM
      /\ d = DRAM => p.fill <= fill_level(c)
      /\ d \in Cache => d # DRAM /\ d # c /\ kind[d] \in DataKinds \ {"L1D"}
  BY Levels, UpperIsSide, LevelsAssumption DEF LawfulPrefetch, DataKinds, Packet, Fills
<1>2. rq' = rq /\ mshr[c][p.line] = Free /\ MshrRoom(c) /\ pq[c] # <<>>
  BY DEF PrefetchMiss
<1>3. pq \in [Cache -> Seq(Packet)] /\ \A v \in Cache : pq[v] \in Seq(Packet) /\ PQ_SIZE[v] \in Nat
  BY SizesAssumption DEF Traffic, Typed
<1>4. tail \in [Cache -> Seq(Packet)] /\ tail[c] = q /\ \A v \in Cache : v # c => tail[v] = pq[v]
  BY <1>3
<1>5. /\ p.fill <= fill_level(c) => mshr' = [mshr EXCEPT ![c][p.line] = Entry(p, fw)]
      /\ ~(p.fill <= fill_level(c)) => mshr' = mshr
  BY DEF PrefetchMiss
<1>6. CASE d = DRAM
  <2>1. dramRQ' = (IF fw THEN dramRQ ELSE dramRQ \cup {p.line}) /\ pq' = tail
    BY <1>6 DEF PrefetchMiss
  <2>2. DRAM \notin Cache
    BY LevelsAssumption
  <2> HIDE DEF fw, tail
  <2> QED BY <1>0, <1>1, <1>2, <1>4, <1>5, <1>6, <2>1, <2>2
<1>7. CASE d \in Cache
  <2>1. /\ dramRQ' = dramRQ /\ Len(pq[d]) < PQ_SIZE[d]
        /\ pq' = [tail EXCEPT ![d] = IF fw THEN @ ELSE PrefetchQueued(@, p)]
    BY <1>1, <1>7 DEF PrefetchMiss
  <2>2. PrefetchQueued(pq[d], p) \in Seq(Packet)
    BY <1>3, <1>7, <2>1, PrefetchQueuedAt
  <2> HIDE DEF tail, fw
  <2>3. pq' = [tail EXCEPT ![d] = IF fw THEN pq[d] ELSE PrefetchQueued(pq[d], p)]
    BY <1>1, <1>4, <1>7, <2>1
  <2>4. /\ pq' \in [Cache -> Seq(Packet)] /\ pq'[c] = q
        /\ pq'[d] = IF fw THEN pq[d] ELSE PrefetchQueued(pq[d], p)
        /\ \A v \in Cache : v # c /\ v # d => pq'[v] = pq[v]
    <3> DEFINE n == IF fw THEN pq[d] ELSE PrefetchQueued(pq[d], p)
    <3>1. n \in Seq(Packet)
      BY <1>3, <1>7, <2>2
    <3>2. pq' = [tail EXCEPT ![d] = n]
      BY <2>3
    <3>3. n = IF fw THEN pq[d] ELSE PrefetchQueued(pq[d], p)
      OBVIOUS
    <3> HIDE DEF n, d
    <3>4. pq' \in [Cache -> Seq(Packet)] /\ pq'[c] = q /\ pq'[d] = n
      BY <1>1, <1>4, <1>7, <3>1, <3>2
    <3>5. \A v \in Cache : v # c /\ v # d => pq'[v] = pq[v]
      BY <1>4, <3>2
    <3> QED BY <3>3, <3>4, <3>5
  <2>5. \E back \in BOOLEAN :
          /\ p.fill <= fill_level(c) => mshr' = [mshr EXCEPT ![c][p.line] = Entry(p, back)]
          /\ ~(p.fill <= fill_level(c)) => mshr' = mshr
          /\ pq' \in [Cache -> Seq(Packet)] /\ pq'[c] = q
          /\ \A v \in Cache : v # c /\ (v # d \/ back) => pq'[v] = pq[v]
          /\ ~back => pq'[d] = PrefetchQueued(pq[d], p)
    <3> WITNESS fw \in BOOLEAN
    <3>1. \A v \in Cache : v # c /\ (v # d \/ fw) => pq'[v] = pq[v]
      BY <2>4
    <3> QED BY <1>5, <2>4, <3>1
  <2>6. d # DRAM /\ kind[d] \in DataKinds \ {"L1D"}
    BY <1>1, <1>7
  <2> QED BY <1>1, <1>2, <1>7, <2>1, <2>5, <2>6
<1> QED BY <1>1, <1>6, <1>7

(* A prefetch that misses: the cache takes it over for those above it, and *)
(* passes it on.                                                           *)
LEMMA PrefetchMissTraffic ==
  ASSUME CodeAndDataApart, Traffic, NEW c \in Cache, PrefetchMiss(c)
  PROVE  Traffic'
<1> DEFINE d == lower[c]
<1>0. /\ pq[c] \in Seq(Packet) /\ Distinct(pq[c]) /\ Len(pq[c]) <= PQ_SIZE[c] /\ pq[c] # <<>>
      /\ PQ_SIZE[c] \in Nat /\ Len(pq[c]) \in Nat
  BY SizesAssumption DEF Traffic, Typed, Sized, Lawful, PrefetchMiss
<1>p. PICK p \in Packet : p = Head(pq[c])
  BY <1>0, HeadAt
<1>x. PICK x \in Line : x = p.line
  BY DEF Packet
<1>q. PICK q \in Seq(Packet) : q = Tail(pq[c])
  BY <1>0, TailSubset
<1>1. Len(q) <= PQ_SIZE[c]
  BY <1>0, <1>q, TailSubset
<1>2. /\ Distinct(q) /\ At(pq[c], x) = {p} /\ At(q, x) = {}
      /\ \A y : y # x => At(q, y) = At(pq[c], y)
  BY <1>0, <1>p, <1>q, <1>x, TailAt
<1>3. LawfulAt(c, x) /\ LawfulPrefetch(c, p) /\ p.instr = FALSE
  <2>1. LawfulAt(c, x) /\ LawfulPrefetch(c, p)
    BY <1>2 DEF Traffic, Lawful, LawfulAt
  <2> QED BY <2>1 DEF LawfulPrefetch, Packet
<1>4. /\ rq' = rq /\ mshr[c][x] = Free /\ MshrRoom(c)
      /\ d \in Cache \/ d = DRAM
      /\ d = DRAM => p.fill <= fill_level(c)
      /\ d \in Cache => Len(pq[d]) < PQ_SIZE[d] /\ kind[d] \in DataKinds \ {"L1D"}
  BY <1>p, <1>x, <1>q, <1>3, PrefetchMissEffect
<1>5. PICK back \in BOOLEAN :
         /\ p.fill <= fill_level(c) => mshr' = [mshr EXCEPT ![c][x] = Entry(p, back)]
         /\ ~(p.fill <= fill_level(c)) => mshr' = mshr
         /\ d # DRAM => dramRQ' = dramRQ
         /\ d = DRAM => dramRQ' = IF back THEN dramRQ ELSE dramRQ \cup {x}
         /\ pq' \in [Cache -> Seq(Packet)] /\ pq'[c] = q
         /\ \A v \in Cache : v # c /\ (v # d \/ back) => pq'[v] = pq[v]
         /\ d \in Cache /\ ~back => pq'[d] = PrefetchQueued(pq[d], p)
  BY ZenonT(60), <1>p, <1>x, <1>q, <1>3, PrefetchMissEffect
<1>6. /\ c \in FirstLevel => x \in Footprint[c]
      /\ d \in Cache => d # c /\ pq[d] \in Seq(Packet) /\ Distinct(pq[d]) /\ PQ_SIZE[d] \in Nat
      /\ fill_level(c) \in Fills
      /\ d \in Cache => fill_level(d) = 2 * fill_level(c) /\ fill_level(d) \in Fills
  <2>1. c \in FirstLevel => x \in Footprint[c]
    BY <1>3, <1>x, Levels DEF LawfulPrefetch, DataKinds
  <2> QED BY <2>1, UpperIsSide, Levels, SizesAssumption DEF Traffic, Typed, Lawful
<1>7. ASSUME d \in Cache, ~back
      PROVE  /\ Len(pq'[d]) <= PQ_SIZE[d] /\ Distinct(pq'[d])
             /\ \A y : y # x => At(pq'[d], y) = At(pq[d], y)
             /\ \A y \in Line : \A r \in At(pq'[d], y) : LawfulPrefetch(d, r)
  <2> DEFINE s == pq[d]
             n == PrefetchQueued(s, p)
  <2>1. s \in Seq(Packet) /\ Len(s) < PQ_SIZE[d] /\ Distinct(s) /\ PQ_SIZE[d] \in Nat /\ pq'[d] = n
    BY <1>4, <1>5, <1>6, <1>7
  <2>2. LawfulPrefetch(d, p)
    BY <1>3, <1>4, <1>7 DEF LawfulPrefetch
  <2>3. \A y \in Line : \A r \in At(s, y) : LawfulPrefetch(d, r)
    BY <1>7 DEF Traffic, Lawful, LawfulAt
  <2>4. d \in Cache
    BY <1>7
  <2> HIDE DEF d, s
  <2>5. Len(n) <= PQ_SIZE[d] /\ Distinct(n) /\ \A y : y # x => At(n, y) = At(s, y)
    BY ZenonT(60), <1>x, <2>1, PrefetchQueuedAt
  <2>6. \A y \in Line : \A r \in At(n, y) : LawfulPrefetch(d, r)
    BY <2>1, <2>2, <2>3, <2>4, PrefetchQueuedLawful
  <2> HIDE DEF n
  <2> QED BY <2>1, <2>5, <2>6 DEF s
<1>8. ASSUME NEW v \in Cache, NEW y \in Line, y # x \/ (v # c /\ (v # d \/ back))
      PROVE  SameQueues(v, y)
  <2>0. At(rq'[v], y) = At(rq[v], y)
    BY <1>4
  <2>1. CASE v = c
    BY <1>2, <1>5, <1>8, <2>0, <2>1 DEF SameQueues
  <2>2. CASE v # c /\ (v # d \/ back)
    BY <1>5, <2>0, <2>2 DEF SameQueues
  <2>3. CASE v # c /\ v = d /\ ~back
    BY <1>7, <1>8, <2>0, <2>3 DEF SameQueues
  <2> QED BY <2>1, <2>2, <2>3
<1>9. /\ \A v \in Cache : /\ Distinct(pq'[v]) /\ Len(pq'[v]) <= PQ_SIZE[v]
                          /\ Distinct(rq'[v]) /\ Len(rq'[v]) <= RQ_SIZE[v]
      /\ \A v \in Cache, y \in Line : \A r \in At(pq'[v], y) : LawfulPrefetch(v, r)
  <2> SUFFICES ASSUME NEW v \in Cache
               PROVE  /\ Distinct(pq'[v]) /\ Len(pq'[v]) <= PQ_SIZE[v]
                      /\ \A y \in Line : \A r \in At(pq'[v], y) : LawfulPrefetch(v, r)
    BY <1>4 DEF Traffic, Lawful, Sized
  <2>0. \A y \in Line : \A r \in At(pq[v], y) : LawfulPrefetch(v, r)
    BY DEF Traffic, Lawful, LawfulAt
  <2>1. CASE v = c
    BY <1>1, <1>2, <1>5, <2>0, <2>1
  <2>2. CASE v # c /\ (v # d \/ back)
    BY <1>5, <2>0, <2>2 DEF Traffic, Lawful, Sized
  <2>3. CASE v # c /\ v = d /\ ~back
    BY <1>7, <2>3
  <2> QED BY <2>1, <2>2, <2>3
<1>10. CASE ~(p.fill <= fill_level(c))
  <2>1. d \in Cache /\ mshr' = mshr /\ dramRQ' = dramRQ
    BY <1>4, <1>5, <1>10, LevelsAssumption
  <2>2. ASSUME NEW v \in Cache, NEW y \in Line
        PROVE  Wanted(pq'[v], y, fill_level(v)) = Wanted(pq[v], y, fill_level(v))
    <3>1. CASE y # x \/ (v # c /\ (v # d \/ back))
      BY <1>8, <3>1 DEF SameQueues, Wanted
    <3>2. CASE v = c /\ y = x
      <4>1. ~(p.fill < fill_level(c))
        BY <1>6, <1>10 DEF Fills, Packet
      <4> QED BY <1>2, <1>5, <3>2, <4>1 DEF Wanted
    <3>3. CASE v # c /\ v = d /\ ~back
      <4>1. ~(p.fill < fill_level(d))
        BY <1>6, <1>10, <2>1 DEF Fills, Packet
      <4>2. pq'[d] = PrefetchQueued(pq[d], p) /\ pq[d] \in Seq(Packet) /\ Len(pq[d]) < PQ_SIZE[d]
        BY <1>4, <1>5, <1>6, <2>1, <3>3
      <4>3. fill_level(d) \in Fills /\ PQ_SIZE[d] \in Nat
        BY <1>6, <2>1
      <4>4. Wanted(PrefetchQueued(pq[d], p), y, fill_level(d)) = Wanted(pq[d], y, fill_level(d))
        BY <4>1, <4>2, <4>3, UnwantedPrefetch
      <4> QED BY <3>3, <4>2, <4>4
    <3> QED BY <3>1, <3>2, <3>3
  <2> QED BY <1>4, <1>5, <1>9, <2>1, <2>2, QuietPrefetchQueues
<1>11. CASE p.fill <= fill_level(c)
  <2>e. PICK e \in MshrEntry : e = Entry(p, back)
    BY EntryTyped
  <2>1. mshr' = [mshr EXCEPT ![c][x] = e]
    BY <1>5, <1>11, <2>e
  <2>2. e.returned = back /\ e.fill = p.fill /\ e.instr = p.instr /\ e.type = p.type
    BY <2>e DEF Entry
  <2>3. /\ mshr' \in [Cache -> [Line -> MshrEntry \cup {Free}]]
        /\ mshr'[c][x] = e /\ e # Free
        /\ \A v \in Cache, y \in Line : v # c \/ y # x => mshr'[v][y] = mshr[v][y] /\ SameMiss(v, y)
    BY <2>1, MshrSet DEF Traffic
  <2>4. ~InFlight(c, x) /\ (InFlight(c, x)' <=> ~back)
    BY <1>4, <2>2, <2>3 DEF InFlight
  <2>5. \A v \in Cache, y \in Line : v # c \/ y # x => (InFlight(v, y)' <=> InFlight(v, y))
    BY <2>3 DEF InFlight
  <2>6. Typed'
    <3>1. dramRQ' \subseteq Line
      BY <1>4, <1>5, LevelsAssumption DEF Traffic, Typed
    <3> QED BY <1>4, <1>5, <2>3, <3>1 DEF Traffic, Typed
  <2>7. Sized'
    <3>1. ASSUME NEW v \in Cache  PROVE MshrOccupancy(v)' <= MSHR_SIZE[v]
      <4>1. CASE v = c
        <5>1. Cardinality(Taken(mshr'[c])) <= MSHR_SIZE[c]
          BY <1>4, <2>3, TakeOne
        <5> QED BY <4>1, <5>1 DEF Taken, MshrOccupancy
      <4>2. CASE v # c
        BY <2>3, <4>2, NoMoreMisses DEF Traffic
      <4> QED BY <4>1, <4>2
    <3> QED BY <1>9, <3>1 DEF Sized
  <2>8. Lawful'
    <3>1. ASSUME NEW v \in Cache, NEW y \in Line  PROVE LawfulAt(v, y)'
      <4>0. LawfulAt(v, y) /\ \A r \in At(rq'[v], y) : LawfulRead(v, r)
        BY <1>4 DEF Traffic, Lawful, LawfulAt
      <4>1. CASE v = c /\ y = x
        <5>1. LawfulMiss(c, x, e)
          BY <1>3, <1>6, <2>2 DEF LawfulPrefetch, LawfulMiss
        <5> QED BY <1>9, <2>3, <4>0, <4>1, <5>1 DEF LawfulAt
      <4>2. CASE v # c \/ y # x
        BY <1>9, <2>3, <4>0, <4>2 DEF LawfulAt
      <4> QED BY <4>1, <4>2
    <3> QED BY <1>9, <3>1 DEF Lawful
  <2>9. AnsweringAt(c, x)'
    BY SMTT(60), <1>2, <1>3, <1>4, <1>5, <2>2, <2>3, PrefetchTakesMiss
  <2>10. ASSUME d \in Cache, ~back  PROVE AnsweringAt(d, x)'
    <3>1. Waiters(d, x) = {} /\ Owed(d, x) = {}
      BY <1>4, <1>6, <2>10, NothingOwed DEF Traffic
    <3>2. OwedReads(d, x)' = {}
      BY <1>4, <3>1 DEF Owed, OwedReads
    <3>3. OwedMiss(d, x)' = {}
      BY <1>6, <2>3, <2>10, <3>1 DEF Owed, OwedMiss
    <3>4. OwedPrefetches(d, x)' = {FALSE}
      <4>1. p.fill < fill_level(d)
        BY <1>6, <1>11, <2>10 DEF Fills, Packet
      <4>2. pq'[d] = PrefetchQueued(pq[d], p) /\ Len(pq[d]) < PQ_SIZE[d]
        BY <1>4, <1>5, <2>10
      <4> QED BY <1>x, <1>3, <2>10, <3>1, <4>1, <4>2, WantedPrefetch
    <3>5. Waiters(d, x)' = {c}
      BY <1>6, <2>4, <2>5, <2>10, <3>1 DEF Waiters
    <3>6. Side(d, FALSE) = c
      <4>1. c \in FirstLevel => kind[c] = "L1D"
        BY <1>3, Levels DEF LawfulPrefetch, DataKinds
      <4> QED BY <2>10, <4>1, UpperIsSide
    <3> HIDE DEF d
    <3>7. Owed(d, x)' = {FALSE} /\ OwedOnce(d, x)'
      BY <3>2, <3>3, <3>4 DEF Owed, OwedOnce
    <3> QED BY <3>5, <3>6, <3>7 DEF AnsweringAt
  <2>11. Answering'
    <3> SUFFICES ASSUME NEW v \in Cache, NEW y \in Line  PROVE AnsweringAt(v, y)'
      BY DEF Answering
    <3>1. CASE v = c /\ y = x
      BY <2>9, <3>1
    <3>2. CASE v # c /\ v = d /\ ~back /\ y = x
      BY <2>10, <3>2
    <3>3. CASE y # x \/ (v # c /\ (v # d \/ back))
      <4>1. SameQueues(v, y) /\ SameMiss(v, y)
        BY <1>8, <2>3, <3>3
      <4>2. SameWaiters(v, y)
        <5>1. ASSUME NEW u \in Cache, lower[u] = v  PROVE InFlight(u, y)' <=> InFlight(u, y)
          <6>1. CASE u = c /\ y = x
            BY <2>4, <3>3, <5>1, <6>1
          <6>2. CASE u # c \/ y # x
            BY <2>5, <6>2
          <6> QED BY <6>1, <6>2
        <5> QED BY <5>1 DEF SameWaiters
      <4> QED BY <4>1, <4>2, Undisturbed DEF Traffic, Answering
    <3> QED BY <3>1, <3>2, <3>3
  <2>12. AnsweredFromOutside'
    <3>1. ASSUME NEW y \in Line, NEW u \in Cache, lower[u] = NoCache, InFlight(u, y)'  PROVE FALSE
      <4>1. u # c
        BY <1>4, <3>1, LevelsAssumption
      <4> QED BY <2>5, <3>1, <4>1 DEF Traffic, AnsweredFromOutside, Waiters
    <3>2. ASSUME NEW u \in Cache, NEW y \in Line, lower[u] = DRAM  PROVE InFlight(u, y)' <=> y \in dramRQ'
      <4>0. InFlight(u, y) <=> y \in dramRQ
        BY <3>2 DEF Traffic, AnsweredFromOutside
      <4>1. CASE u = c
        BY <1>5, <2>4, <2>5, <3>2, <4>0, <4>1
      <4>2. CASE u # c
        <5>1. d # DRAM
          BY <3>2, <4>2, LevelsAssumption
        <5> QED BY <1>5, <2>5, <4>0, <4>2, <5>1
      <4> QED BY <4>1, <4>2
    <3>3. \A y \in Line : Waiters(NoCache, y)' = {}
      BY <3>1 DEF Waiters
    <3> QED BY <3>2, <3>3 DEF AnsweredFromOutside
  <2> QED BY <2>6, <2>7, <2>8, <2>11, <2>12 DEF Traffic
<1> QED BY <1>10, <1>11

(* A prefetch whose line is in flight: the miss is brought as near as the  *)
(* prefetch wants it.                                                      *)
LEMMA PrefetchMergeTraffic ==
  ASSUME Traffic, NEW c \in Cache, PrefetchMerge(c)
  PROVE  Traffic'
<1>0. /\ pq[c] \in Seq(Packet) /\ Distinct(pq[c]) /\ Len(pq[c]) <= PQ_SIZE[c] /\ pq[c] # <<>>
      /\ PQ_SIZE[c] \in Nat /\ Len(pq[c]) \in Nat
  BY SizesAssumption DEF Traffic, Typed, Sized, Lawful, PrefetchMerge
<1>p. PICK p \in Packet : p = Head(pq[c])
  BY <1>0, HeadAt
<1>x. PICK x \in Line : x = p.line
  BY DEF Packet
<1>q. PICK q \in Seq(Packet) : q = Tail(pq[c])
  BY <1>0, TailSubset
<1>1. Len(q) <= PQ_SIZE[c]
  BY <1>0, <1>q, TailSubset
<1>2. /\ Distinct(q) /\ At(pq[c], x) = {p} /\ At(q, x) = {}
      /\ \A y : y # x => At(q, y) = At(pq[c], y)
  BY <1>0, <1>p, <1>q, <1>x, TailAt
<1>3. LawfulAt(c, x) /\ LawfulPrefetch(c, p) /\ p.instr = FALSE /\ AnsweringAt(c, x)
  <2>1. LawfulAt(c, x) /\ LawfulPrefetch(c, p) /\ AnsweringAt(c, x)
    BY <1>2 DEF Traffic, Lawful, LawfulAt, Answering
  <2> QED BY <2>1 DEF LawfulPrefetch, Packet
<1>4. /\ rq' = rq /\ pq' = [pq EXCEPT ![c] = q] /\ dramRQ' = dramRQ /\ mshr[c][x] # Free
      /\ mshr' = [mshr EXCEPT ![c][x].fill = IF p.fill < @ THEN p.fill ELSE @]
  BY <1>p, <1>x, <1>q DEF PrefetchMerge
<1>5. PICK o \in MshrEntry : o = mshr[c][x]
  BY <1>4 DEF Traffic, Typed
<1>6. PICK e : e = [o EXCEPT !.fill = IF p.fill < o.fill THEN p.fill ELSE o.fill]
  OBVIOUS
<1>7. /\ e \in MshrEntry /\ e.fill = (IF p.fill < o.fill THEN p.fill ELSE o.fill)
      /\ e.type = o.type /\ e.instr = o.instr /\ e.returned = o.returned
  BY <1>6 DEF MshrEntry, Packet
<1>8. mshr' = [mshr EXCEPT ![c][x] = e]
  BY <1>4, <1>5, <1>6
<1>9. LawfulMiss(c, x, o)
  BY <1>3, <1>4, <1>5 DEF LawfulAt
<1>10. LawfulMiss(c, x, e)
  BY <1>7, <1>9 DEF LawfulMiss, MshrEntry, Packet, Fills
<1>11. /\ rq' \in [Cache -> Seq(Packet)] /\ pq' \in [Cache -> Seq(Packet)]
       /\ pq'[c] = q /\ \A d \in Cache : d # c => pq'[d] = pq[d]
  BY <1>4 DEF Traffic, Typed
<1>12. \A d \in Cache, y \in Line : d # c \/ y # x => SameQueues(d, y)
  BY <1>2, <1>4, <1>11 DEF SameQueues
<1>13. mshr'[c][x] = e /\ e # Free
  <2>1. mshr'[c][x] = e
    BY <1>8 DEF Traffic, Typed
  <2> QED BY <1>7, <2>1, EntryTyped
<1>14. Owed(c, x)' = Owed(c, x) /\ OwedOnce(c, x)'
  <2>1. OwedReads(c, x)' = OwedReads(c, x)
    BY <1>4 DEF OwedReads
  <2>2. OwedPrefetches(c, x)' = {}
    BY <1>2, <1>11 DEF OwedPrefetches
  <2>3. OwedPrefetches(c, x) = IF p.fill < fill_level(c) THEN {FALSE} ELSE {}
    BY <1>2, <1>3 DEF OwedPrefetches
  <2>4. /\ OwedMiss(c, x) = IF o.fill < fill_level(c) THEN {o.instr} ELSE {}
        /\ OwedMiss(c, x)' = IF e.fill < fill_level(c) THEN {o.instr} ELSE {}
    BY <1>4, <1>5, <1>7, <1>13 DEF OwedMiss
  <2>5. p.fill \in Fills /\ o.fill \in Fills /\ fill_level(c) \in Fills
    BY Levels DEF MshrEntry, Packet
  <2>6. CASE p.fill < fill_level(c)
    <3>1. OwedReads(c, x) = {} /\ OwedMiss(c, x) = {}
      BY <1>3, <2>3, <2>6 DEF AnsweringAt, OwedOnce
    <3>2. ~(o.fill < fill_level(c))
      BY <2>4, <3>1
    <3>3. o.instr = FALSE
      BY <1>9, <2>5, <2>6, <3>2 DEF LawfulMiss, MshrEntry, Fills
    <3>4. e.fill < fill_level(c)
      BY <1>7, <2>5, <2>6, <3>2 DEF Fills
    <3> QED BY <2>1, <2>2, <2>3, <2>4, <2>6, <3>1, <3>3, <3>4 DEF Owed, OwedOnce
  <2>7. CASE ~(p.fill < fill_level(c))
    <3>1. e.fill < fill_level(c) <=> o.fill < fill_level(c)
      BY <1>7, <2>5, <2>7 DEF Fills
    <3> QED BY <1>3, <2>1, <2>2, <2>3, <2>4, <2>7, <3>1 DEF AnsweringAt, Owed, OwedOnce
  <2> QED BY <2>6, <2>7
<1>15. \A d \in Cache : /\ Distinct(rq'[d]) /\ Len(rq'[d]) <= RQ_SIZE[d]
                        /\ Distinct(pq'[d]) /\ Len(pq'[d]) <= PQ_SIZE[d]
  BY <1>1, <1>2, <1>4, <1>11 DEF Traffic, Lawful, Sized
<1>16. At(rq'[c], x) \subseteq At(rq[c], x) /\ At(pq'[c], x) \subseteq At(pq[c], x)
  BY <1>2, <1>4, <1>11
<1>17. e.returned = mshr[c][x].returned /\ e \in MshrEntry
  BY <1>5, <1>7
<1>18. dramRQ' = dramRQ /\ mshr[c][x] # Free
  BY <1>4
<1> QED BY <1>8, <1>10, <1>11, <1>12, <1>14, <1>15, <1>16, <1>17, <1>18, RewriteMiss
-----------------------------------------------------------------------------
(* Initially no line is asked for and nothing is owed.                     *)
LEMMA TrafficInit == Init => Traffic
<1> SUFFICES ASSUME Init PROVE Traffic
  OBVIOUS
<1>1. /\ mshr = [c \in Cache |-> [x \in Line |-> Free]]
      /\ rq = [c \in Cache |-> <<>>] /\ pq = [c \in Cache |-> <<>>] /\ dramRQ = {}
  BY DEF Init
<1>2. Typed
  BY <1>1 DEF Typed
<1>3. \A c \in Cache, x \in Line : ~InFlight(c, x) /\ mshr[c][x] = Free
  BY <1>1 DEF InFlight
<1>4. \A c \in Cache, x \in Line : At(rq[c], x) = {} /\ At(pq[c], x) = {}
  BY <1>1 DEF At
<1>5. Sized
  <2>1. ASSUME NEW c \in Cache  PROVE MshrOccupancy(c) <= MSHR_SIZE[c]
    <3>1. {x \in Line : mshr[c][x] # Free} = {}
      BY <1>3
    <3>2. MshrOccupancy(c) = 0
      BY <3>1, FS_EmptySet DEF MshrOccupancy
    <3> QED BY <3>2, SizesAssumption
  <2>2. \A c \in Cache : Len(rq[c]) <= RQ_SIZE[c] /\ Len(pq[c]) <= PQ_SIZE[c]
    BY <1>1, SizesAssumption
  <2> QED BY <2>1, <2>2 DEF Sized
<1>6. Lawful
  BY <1>1, <1>3, <1>4 DEF Lawful, LawfulAt, Distinct
<1>7. Answering
  <2>1. ASSUME NEW c \in Cache, NEW x \in Line  PROVE AnsweringAt(c, x)
    <3>1. OwedReads(c, x) = {} /\ OwedPrefetches(c, x) = {} /\ OwedMiss(c, x) = {}
      BY <1>3, <1>4 DEF OwedReads, OwedPrefetches, OwedMiss
    <3>2. Waiters(c, x) = {}
      BY <1>3 DEF Waiters
    <3> QED BY <3>1, <3>2 DEF AnsweringAt, Owed, OwedOnce
  <2> QED BY <2>1 DEF Answering
<1>8. AnsweredFromOutside
  BY <1>1, <1>3 DEF AnsweredFromOutside, Waiters
<1> QED BY <1>2, <1>5, <1>6, <1>7, <1>8 DEF Traffic

(* Every step keeps every miss answered. *)
LEMMA TrafficStep ==
  ASSUME CodeAndDataApart, Traffic, Writes, [Next]_vars
  PROVE  Traffic'
<1>1. CASE Core
  <2>1. ASSUME NEW c \in FirstLevel, CpuComplete(c)  PROVE Traffic'
    BY <2>1, OtherTraffic DEF CpuComplete
  <2>2. ASSUME NEW c \in FirstLevel, NEW r \in Req, NEW x \in Line, CpuRead(c, r, x)  PROVE Traffic'
    BY <2>2, CpuReadTraffic
  <2>3. ASSUME NEW c \in FirstLevel, NEW x \in Line, CpuStore(c, x)  PROVE Traffic'
    BY <2>3, OtherTraffic DEF CpuStore
  <2>4. ASSUME NEW c \in Cache, NEW x \in Line, NEW f \in {1, 2, 4}, Prefetch(c, x, f)  PROVE Traffic'
    BY <2>4, PrefetchTraffic
  <2>5. ASSUME NEW x \in Line, Invalidate(x)  PROVE Traffic'
    BY <2>5, OtherTraffic DEF Invalidate
  <2> QED BY <1>1, <2>1, <2>2, <2>3, <2>4, <2>5 DEF Core
<1>2. ASSUME NEW c \in Cache, Operate(c)  PROVE Traffic'
  <2>1. ASSUME NEW x \in Line, HandleFill(c, x)  PROVE Traffic'
    BY <2>1, HandleFillTraffic
  <2>2. CASE WritebackHit(c)
    <3>1. mshr' = mshr
      BY <2>2, WriteReturnsNothing DEF WritebackHit
    <3> QED BY <2>2, <3>1, OtherTraffic DEF WritebackHit
  <2>3. CASE StoreMiss(c)
    BY <2>3, StoreMissTraffic
  <2>4. CASE WritebackMiss(c)
    <3>1. mshr' = mshr
      BY <2>4, WriteReturnsNothing DEF WritebackMiss
    <3> QED BY <2>4, <3>1, OtherTraffic DEF WritebackMiss
  <2>5. CASE ReadHit(c)
    BY <2>5, ReadHitTraffic
  <2>6. CASE ReadMiss(c)
    BY <2>6, ReadMissTraffic
  <2>7. CASE PrefetchHit(c)
    BY <2>7, PrefetchHitTraffic
  <2>8. CASE PrefetchMiss(c)
    BY <2>8, PrefetchMissTraffic
  <2>9. CASE PrefetchMerge(c)
    BY <2>9, PrefetchMergeTraffic
  <2> QED BY <1>2, <2>1, <2>2, <2>3, <2>4, <2>5, <2>6, <2>7, <2>8, <2>9 DEF Operate
<1>3. ASSUME NEW c \in Cache, NEW x \in Line, DramReturn(c, x)  PROVE Traffic'
  BY <1>3, DramReturnTraffic
<1>4. ASSUME NEW x \in Line, DramWrite(x)  PROVE Traffic'
  BY <1>4, OtherTraffic DEF DramWrite
<1>5. CASE UNCHANGED vars
  BY <1>5, OtherTraffic DEF vars
<1> QED BY <1>1, <1>2, <1>3, <1>4, <1>5 DEF Next

-----------------------------------------------------------------------------
(* Second part: writes, ways and the two ends, and the theorems.            *)

BlockType == [line : Line \cup {NoLine}, valid : BOOLEAN, dirty : BOOLEAN]

(* What the ways hold: only the data side is ever modified, and a modified *)
(* block has a line to be written back to.                                 *)
Blocks ==
  /\ DOMAIN block = Cache
  /\ \A c \in Cache :
       /\ block[c] \in [Ways(c) -> BlockType]
       /\ \A w \in Ways(c) : block[c][w].dirty => kind[c] \in DataKinds /\ block[c][w].line \in Line

(* The core's side and DRAM's. *)
Ends ==
  /\ processed \in [FirstLevel -> Seq(SUBSET Req)]
  /\ \A c \in FirstLevel : Len(processed[c]) <= PROCESSED_SIZE
  /\ dramWQ \subseteq Line
  /\ status \in [Req -> {"idle", "waiting", "done"}]
  /\ budget \in [stores : 0 .. MaxStores, prefetches : 0 .. MaxPrefetches, swaps : 0 .. MaxSwaps]

(* The inductive invariant of the whole hierarchy. *)
IInv == Traffic /\ Writes /\ Blocks /\ Ends

-----------------------------------------------------------------------------
(* Ways. *)

(* check_hit returns a way that holds the line: a set of ways that is not  *)
(* empty has a first one.                                                  *)
LEMMA HitWayHits ==
  ASSUME NEW c \in Cache, NEW x, Hits(c, x) # {}
  PROVE  HitWay(c, x) \in Hits(c, x) /\ HitWay(c, x) \in Ways(c)
<1> DEFINE T == Hits(c, x)
<1>1. T \subseteq Nat /\ T # {} /\ T \subseteq Ways(c)
  BY SizesAssumption DEF Hits, Ways
<1> HIDE DEF T
<1>2. PICK w \in T : \A v \in T : <<v, w>> \notin OpToRel(<, Nat)
  BY <1>1, NatLessThanWellFounded, WFMin, Zenon
<1>3. \A v \in T : ~(v < w)
  BY <1>1, <1>2, Zenon DEF OpToRel
<1>4. \A v \in T : w <= v
  BY <1>1, <1>3
<1>5. \E h \in T : \A v \in T : h <= v
  BY <1>4
<1>6. HitWay(c, x) = CHOOSE h \in T : \A v \in T : h <= v
  BY DEF HitWay, T
<1>7. HitWay(c, x) \in T
  BY <1>5, <1>6
<1> QED BY <1>1, <1>7 DEF T

(* Every victim is a way. *)
LEMMA VictimIsWay ==
  ASSUME NEW c \in Cache
  PROVE  Victims(c) \subseteq Ways(c)
BY DEF Victims

(* The blocks after way w of c is rewritten. *)
Rewritten(c, w, b) == [block EXCEPT ![c][w] = b]

(* The way that is rewritten changes and no other does.                    *)
LEMMA WayRewritten ==
  ASSUME Blocks, NEW c \in Cache, NEW w \in Ways(c), NEW b
  PROVE  /\ Rewritten(c, w, b)[c][w] = b
         /\ \A d \in Cache : \A v \in Ways(d) : d # c \/ v # w => Rewritten(c, w, b)[d][v] = block[d][v]
<1>0. PICK n : n = Rewritten(c, w, b)
  OBVIOUS
<1>1. DOMAIN block = Cache /\ block[c] \in [Ways(c) -> BlockType]
  BY DEF Blocks
<1>2. n = [block EXCEPT ![c] = [block[c] EXCEPT ![w] = b]]
  BY <1>0 DEF Rewritten
<1>3. n[c] = [block[c] EXCEPT ![w] = b] /\ \A d \in Cache : d # c => n[d] = block[d]
  BY <1>1, <1>2
<1>4. n[c][w] = b /\ \A v \in Ways(c) : v # w => n[c][v] = block[c][v]
  BY <1>1, <1>3
<1> QED BY <1>0, <1>3, <1>4

(* The blocks stay lawful if the way gets a lawful one. *)
LEMMA WaySet ==
  ASSUME Blocks, NEW c \in Cache, NEW w \in Ways(c), NEW b \in BlockType,
         b.dirty => kind[c] \in DataKinds /\ b.line \in Line, block' = [block EXCEPT ![c][w] = b]
  PROVE  Blocks'
<1>1. DOMAIN block = Cache /\ block[c] \in [Ways(c) -> BlockType]
  BY DEF Blocks
<1>2. block' = [block EXCEPT ![c] = [block[c] EXCEPT ![w] = b]]
  OBVIOUS
<1>3. /\ DOMAIN block' = Cache
      /\ block'[c] = [block[c] EXCEPT ![w] = b]
      /\ \A d \in Cache : d # c => block'[d] = block[d]
  BY <1>1, <1>2
<1>4. /\ block'[c] \in [Ways(c) -> BlockType] /\ block'[c][w] = b
      /\ \A v \in Ways(c) : v # w => block'[c][v] = block[c][v]
  BY <1>1, <1>3
<1>5. Blocks'
  <2>1. ASSUME NEW d \in Cache
        PROVE  /\ block'[d] \in [Ways(d) -> BlockType]
               /\ \A v \in Ways(d) : block'[d][v].dirty => kind[d] \in DataKinds /\ block'[d][v].line \in Line
    <3>1. CASE d = c
      BY <1>4, <3>1 DEF Blocks
    <3>2. CASE d # c
      BY <1>3, <3>2 DEF Blocks
    <3> QED BY <3>1, <3>2
  <2>2. DOMAIN block' = Cache
    BY <1>3
  <2> HIDE DEF BlockType
  <2> QED BY <2>1, <2>2 DEF Blocks, Ways, BlockType
<1> QED BY <1>5

-----------------------------------------------------------------------------
(* Write queues. *)

(* The write queue of c is replaced by one that is lawful for it.          *)
LEMMA WriteQueueSet ==
  ASSUME Writes, NEW c \in Cache, NEW q \in Seq(Packet), Len(q) <= WQ_SIZE[c],
         \A x \in Line : \A p \in At(q, x) : LawfulWrite(c, p), wq' = [wq EXCEPT ![c] = q]
  PROVE  /\ Writes' /\ wq'[c] = q
         /\ \A d \in Cache : d # c => wq'[d] = wq[d]
<1>1. wq'[c] = q /\ \A d \in Cache : d # c => wq'[d] = wq[d]
  BY DEF Writes
<1> QED BY <1>1 DEF Writes

(* The victim leaves for a write queue that has room and belongs to a      *)
(* cache of the data side, or for DRAM.                                    *)
LEMMA EvictWrites ==
  ASSUME Writes, Blocks, NEW c \in Cache, NEW w \in Ways(c), NEW q \in Seq(Packet), Len(q) <= WQ_SIZE[c],
         \A x \in Line : \A p \in At(q, x) : LawfulWrite(c, p), Evict(c, w, q)
  PROVE  /\ Writes' /\ wq'[c] = q
         /\ dramWQ \subseteq Line => dramWQ' \subseteq Line
         /\ dramWQ \subseteq dramWQ'
         /\ \A e \in Cache : e # c => \A x : At(wq[e], x) \subseteq At(wq'[e], x)
         /\ block[c][w].dirty =>
              \/ block[c][w].line \in dramWQ'
              \/ \E e \in Cache : e # c /\ kind[e] # "L1D" /\ At(wq'[e], block[c][w].line) # {}
         /\ \A e \in Cache : e # c => \A x :
              \/ At(wq'[e], x) = At(wq[e], x)
              \/ e = lower[c] /\ x = block[c][w].line /\ block[c][w].dirty
<1> DEFINE v == block[c][w]
           d == lower[c]
           p == Writeback(c, v.line)
<1>1. CASE ~MustWriteBack(c, v)
  <2>1. wq' = [wq EXCEPT ![c] = q] /\ dramWQ' = dramWQ
    BY <1>1 DEF Evict
  <2>2. ~v.dirty
    <3>1. v.dirty => kind[c] \in DataKinds
      BY DEF Blocks
    <3> QED BY <1>1, <3>1, LevelsAssumption DEF MustWriteBack, DataKinds
  <2>3. \A e \in Cache : e # c => wq'[e] = wq[e]
    BY <2>1, WriteQueueSet
  <2> QED BY <2>1, <2>2, <2>3, WriteQueueSet
<1>2. CASE MustWriteBack(c, v)
  <2>1. kind[c] \in DataKinds /\ v.line \in Line
    BY <1>2 DEF MustWriteBack, Blocks
  <2>2. CASE d = DRAM
    <3>1. wq' = [wq EXCEPT ![c] = q] /\ dramWQ' = dramWQ \cup {v.line}
      BY <1>2, <2>2 DEF Evict
    <3>2. \A e \in Cache : e # c => wq'[e] = wq[e]
      BY <3>1, WriteQueueSet
    <3> QED BY <2>1, <3>1, <3>2, WriteQueueSet
  <2>3. CASE d # DRAM
    <3>1. /\ d \in Cache /\ d # c /\ kind[d] \in DataKinds \ {"L1D"}
          /\ fill_level(d) = 2 * fill_level(c) /\ fill_level(d) \in Fills
      BY <2>1, <2>3, Levels, UpperIsSide, LevelsAssumption DEF DataKinds
    <3>2. /\ Len(wq[d]) < WQ_SIZE[d] /\ dramWQ' = dramWQ
          /\ wq' = [wq EXCEPT ![c] = q, ![d] = IF v.line \in Lines(@) THEN @ ELSE Append(@, p)]
      BY <1>2, <2>3 DEF Evict, WqRoomBelow
    <3>3. p \in Packet /\ p.line = v.line /\ LawfulWrite(d, p)
      <4>1. p = [line |-> v.line, type |-> "WRITEBACK", instr |-> FALSE, fill |-> fill_level(d), deps |-> {}]
        BY <3>1 DEF Writeback
      <4> HIDE DEF p, d
      <4>2. /\ p.line = v.line /\ p.type = "WRITEBACK" /\ p.instr = FALSE
            /\ p.fill = fill_level(d) /\ p.deps = {}
        BY <4>1
      <4>3. p \in Packet
        BY <2>1, <3>1, <4>1 DEF Packet, Types
      <4> QED BY <3>1, <4>2, <4>3 DEF LawfulWrite
    <3> DEFINE n == IF v.line \in Lines(wq[d]) THEN wq[d] ELSE Append(wq[d], p)
    <3>4. wq[d] \in Seq(Packet) /\ WQ_SIZE[d] \in Nat /\ Len(wq[d]) \in Nat
      BY <3>1, SizesAssumption DEF Writes
    <3>5. n \in Seq(Packet) /\ Len(n) <= WQ_SIZE[d]
      <4> HIDE DEF p, d
      <4>1. Append(wq[d], p) \in Seq(Packet) /\ Len(Append(wq[d], p)) = Len(wq[d]) + 1
        BY <3>3, <3>4, AppendAt
      <4> QED BY <3>2, <3>4, <4>1
    <3>6. \A x \in Line : \A r \in At(n, x) : LawfulWrite(d, r)
      <4>0. \A x \in Line : \A r \in At(wq[d], x) : LawfulWrite(d, r)
        BY <3>1 DEF Writes
      <4> HIDE DEF p, d
      <4>1. \A x : At(Append(wq[d], p), x) \subseteq At(wq[d], x) \cup {p}
        BY <3>3, <3>4, AppendAt
      <4>2. \A x \in Line : \A r \in At(Append(wq[d], p), x) : LawfulWrite(d, r)
        BY <3>3, <4>0, <4>1
      <4> QED BY <4>0, <4>2
    <3>7. wq' = [wq EXCEPT ![c] = q, ![d] = n]
      BY <3>1, <3>2 DEF Writes
    <3>0. /\ At(n, v.line) # {}
          /\ \A x : At(wq[d], x) \subseteq At(n, x) /\ (x = v.line \/ At(n, x) = At(wq[d], x))
      <4> HIDE DEF p, d
      <4>1. CASE v.line \in Lines(wq[d])
        BY <3>4, <4>1, AtMember
      <4>2. CASE v.line \notin Lines(wq[d])
        <5>1. n = Append(wq[d], p) /\ p \in Packet /\ p.line = v.line
          BY <3>3, <4>2
        <5> HIDE DEF n, v
        <5>2. \A x : At(n, x) = IF x = p.line THEN At(wq[d], x) \cup {p} ELSE At(wq[d], x)
          BY ZenonT(60), <3>4, <5>1, AppendAt
        <5> QED BY <5>1, <5>2
      <4> QED BY <4>1, <4>2
    <3> HIDE DEF n, p
    <3>8. /\ wq' \in [Cache -> Seq(Packet)] /\ wq'[c] = q /\ wq'[d] = n
          /\ \A e \in Cache : e # c /\ e # d => wq'[e] = wq[e]
      <4> HIDE DEF d
      <4>1. wq' \in [Cache -> Seq(Packet)] /\ wq'[c] = q /\ wq'[d] = n
        BY <3>1, <3>5, <3>7 DEF Writes
      <4>2. \A e \in Cache : e # c /\ e # d => wq'[e] = wq[e]
        BY <3>7 DEF Writes
      <4> QED BY <4>1, <4>2
    <3> HIDE DEF d
    <3>9. ASSUME NEW e \in Cache
          PROVE  Len(wq'[e]) <= WQ_SIZE[e] /\ \A x \in Line : \A r \in At(wq'[e], x) : LawfulWrite(e, r)
      <4>1. CASE e = c
        BY <3>8, <4>1
      <4>2. CASE e = d
        BY <3>5, <3>6, <3>8, <4>2
      <4>3. CASE e # c /\ e # d
        BY <3>8, <4>3 DEF Writes
      <4> QED BY <4>1, <4>2, <4>3
    <3>10. Writes'
      BY <3>8, <3>9 DEF Writes
    <3>11. \A e \in Cache : e # c => \A x : At(wq[e], x) \subseteq At(wq'[e], x)
      BY <3>0, <3>8
    <3>12. d # c /\ kind[d] # "L1D" /\ At(wq'[d], v.line) # {}
      BY <3>0, <3>1, <3>8
    <3>13. \A e \in Cache : e # c => \A x : At(wq'[e], x) = At(wq[e], x) \/ (e = d /\ x = v.line)
      BY <3>0, <3>8
    <3>14. d = lower[c] /\ v.dirty
      BY <1>2 DEF MustWriteBack, d
    <3>15. v.line \in dramWQ' \/ \E e \in Cache : e # c /\ kind[e] # "L1D" /\ At(wq'[e], v.line) # {}
      BY <3>1, <3>12
    <3>16. \A e \in Cache : e # c =>
             \A x : At(wq'[e], x) = At(wq[e], x) \/ (e = lower[c] /\ x = v.line /\ v.dirty)
      BY <3>13, <3>14
    <3>17. wq'[c] = q /\ dramWQ' = dramWQ
      BY <3>2, <3>8
    <3> QED BY <3>10, <3>11, <3>15, <3>16, <3>17
  <2> QED BY <2>2, <2>3
<1> QED BY <1>1, <1>2

-----------------------------------------------------------------------------
(* Every step keeps the write queues lawful. *)
LEMMA WritesStep ==
  ASSUME Writes, Blocks, Traffic, [Next]_vars
  PROVE  Writes'
<1>0. ASSUME NEW c \in Cache
      PROVE  /\ wq[c] \in Seq(Packet) /\ Len(wq[c]) <= WQ_SIZE[c] /\ WQ_SIZE[c] \in Nat /\ Len(wq[c]) \in Nat
             /\ \A x \in Line : \A p \in At(wq[c], x) : LawfulWrite(c, p)
  BY SizesAssumption DEF Writes
<1>1. ASSUME NEW c \in Cache, wq[c] # <<>>
      PROVE  /\ Tail(wq[c]) \in Seq(Packet) /\ Len(Tail(wq[c])) <= WQ_SIZE[c]
             /\ \A x \in Line : \A p \in At(Tail(wq[c]), x) : LawfulWrite(c, p)
  <2>0. /\ wq[c] \in Seq(Packet) /\ Len(wq[c]) <= WQ_SIZE[c] /\ WQ_SIZE[c] \in Nat /\ Len(wq[c]) \in Nat
        /\ \A x \in Line : \A p \in At(wq[c], x) : LawfulWrite(c, p)
    BY <1>0
  <2>1. /\ Tail(wq[c]) \in Seq(Packet) /\ Len(Tail(wq[c])) = Len(wq[c]) - 1
        /\ \A x : At(Tail(wq[c]), x) \subseteq At(wq[c], x)
    BY <1>1, <2>0, TailSubset
  <2> QED BY <2>0, <2>1
<1>2. CASE wq' = wq
  BY <1>2 DEF Writes
<1>3. ASSUME NEW c \in Cache, wq[c] # <<>>, wq' = [wq EXCEPT ![c] = Tail(@)]  PROVE Writes'
  <2>1. PICK q \in Seq(Packet) : /\ q = Tail(wq[c]) /\ Len(q) <= WQ_SIZE[c]
                                 /\ \A x \in Line : \A p \in At(q, x) : LawfulWrite(c, p)
    BY <1>1, <1>3
  <2>2. wq' = [wq EXCEPT ![c] = q]
    BY <1>3, <2>1
  <2> QED BY <2>1, <2>2, WriteQueueSet
<1>4. ASSUME NEW c \in FirstLevel, NEW x \in Line, CpuStore(c, x)  PROVE Writes'
  <2>0. /\ c \in Cache /\ kind[c] = "L1D" /\ x \in Footprint[c] /\ Len(wq[c]) < WQ_SIZE[c]
        /\ fill_level(c) = 1
    BY <1>4, Levels DEF CpuStore, FirstLevel
  <2>1. PICK p : p = [line |-> x, type |-> "RFO", instr |-> FALSE, fill |-> 1, deps |-> {}]
    OBVIOUS
  <2>2. p \in Packet /\ p.line = x /\ p.type = "RFO" /\ p.instr = FALSE /\ p.fill = 1 /\ p.deps = {}
    BY <2>1 DEF Packet, Types, Fills
  <2>3. LawfulWrite(c, p)
    BY <2>0, <2>2 DEF LawfulWrite, DataKinds
  <2>4. PICK q : q = Append(wq[c], p)
    OBVIOUS
  <2>5. /\ q \in Seq(Packet) /\ Len(q) = Len(wq[c]) + 1
        /\ \A y : At(q, y) \subseteq At(wq[c], y) \cup {p}
    BY <1>0, <2>0, <2>2, <2>4, AppendAt
  <2>6. Len(q) <= WQ_SIZE[c] /\ \A y \in Line : \A r \in At(q, y) : LawfulWrite(c, r)
    BY <1>0, <2>0, <2>3, <2>5
  <2>7. CASE wq' = [wq EXCEPT ![c] = q]
    BY <2>0, <2>5, <2>6, <2>7, WriteQueueSet
  <2>8. wq' = wq \/ wq' = [wq EXCEPT ![c] = q]
    BY <1>4, <2>1, <2>4 DEF CpuStore
  <2> QED BY <1>2, <2>7, <2>8
<1>5. ASSUME NEW c \in Cache, NEW x \in Line, HandleFill(c, x)  PROVE Writes'
  <2>1. PICK w \in Victims(c) : Evict(c, w, wq[c])
    BY <1>5 DEF HandleFill
  <2>2. w \in Ways(c)
    BY VictimIsWay
  <2>3. PICK q \in Seq(Packet) : q = wq[c]
    BY <1>0
  <2> QED BY <1>0, <2>1, <2>2, <2>3, EvictWrites
<1>6. ASSUME NEW c \in Cache, WritebackMiss(c)  PROVE Writes'
  <2>1. PICK w \in Victims(c) : Evict(c, w, Tail(wq[c]))
    BY <1>6 DEF WritebackMiss
  <2>2. w \in Ways(c) /\ wq[c] # <<>>
    BY <1>6, VictimIsWay DEF WritebackMiss
  <2>3. PICK q \in Seq(Packet) : /\ q = Tail(wq[c]) /\ Len(q) <= WQ_SIZE[c]
                                 /\ \A x \in Line : \A p \in At(q, x) : LawfulWrite(c, p)
    BY <1>1, <2>2
  <2> QED BY <2>1, <2>2, <2>3, EvictWrites
<1>7. CASE Core
  <2>1. CASE \E c \in FirstLevel, x \in Line : CpuStore(c, x)
    BY <1>4, <2>1
  <2>2. CASE ~\E c \in FirstLevel, x \in Line : CpuStore(c, x)
    <3>1. wq' = wq
      BY <1>7, <2>2 DEF Core, CpuComplete, CpuRead, Prefetch, Invalidate
    <3> QED BY <1>2, <3>1
  <2> QED BY <2>1, <2>2
<1>8. ASSUME NEW c \in Cache, Operate(c)  PROVE Writes'
  <2>1. CASE \E x \in Line : HandleFill(c, x)
    BY <1>5, <2>1
  <2>2. CASE WritebackHit(c) \/ StoreMiss(c)
    BY <1>3, <2>2 DEF WritebackHit, StoreMiss
  <2>3. CASE WritebackMiss(c)
    BY <1>6, <2>3
  <2>4. CASE ReadHit(c) \/ ReadMiss(c) \/ PrefetchHit(c) \/ PrefetchMiss(c) \/ PrefetchMerge(c)
    <3>1. wq' = wq
      BY <2>4 DEF ReadHit, ReadMiss, PrefetchHit, PrefetchMiss, PrefetchMerge
    <3> QED BY SMTT(60), <1>2, <3>1
  <2> QED BY <1>8, <2>1, <2>2, <2>3, <2>4 DEF Operate
<1>9. ASSUME \/ \E c \in Cache, x \in Line : DramReturn(c, x)
             \/ \E x \in Line : DramWrite(x)
             \/ UNCHANGED vars
      PROVE  Writes'
  BY <1>2, <1>9 DEF DramReturn, DramWrite, vars
<1> QED BY <1>7, <1>8, <1>9 DEF Next

(* Every step keeps the blocks lawful. *)
LEMMA BlocksStep ==
  ASSUME Traffic, Writes, Blocks, [Next]_vars
  PROVE  Blocks'
<1>1. CASE block' = block
  BY <1>1 DEF Blocks, Ways
<1>2. ASSUME NEW x \in Line, Invalidate(x)  PROVE Blocks'
  <2>1. block' = [c \in Cache |-> IF Hits(c, x) = {} THEN block[c]
                                  ELSE [block[c] EXCEPT ![HitWay(c, x)].valid = FALSE]]
    BY <1>2 DEF Invalidate
  <2>2. ASSUME NEW c \in Cache
        PROVE  /\ block'[c] \in [Ways(c) -> BlockType]
               /\ \A w \in Ways(c) : block'[c][w].dirty => kind[c] \in DataKinds /\ block'[c][w].line \in Line
    <3>0. block[c] \in [Ways(c) -> BlockType]
      BY DEF Blocks
    <3>1. CASE Hits(c, x) = {}
      BY <2>1, <3>1 DEF Blocks
    <3>2. CASE Hits(c, x) # {}
      <4>1. PICK h \in Ways(c) : h = HitWay(c, x)
        BY <3>2, HitWayHits
      <4>2. PICK b : b = [block[c][h] EXCEPT !.valid = FALSE]
        OBVIOUS
      <4>3. b \in BlockType /\ b.dirty = block[c][h].dirty /\ b.line = block[c][h].line
        BY <3>0, <4>2 DEF BlockType
      <4>4. block'[c] = [block[c] EXCEPT ![h] = b]
        BY <2>1, <3>2, <4>1, <4>2
      <4>5. block'[c][h] = b /\ \A w \in Ways(c) : w # h => block'[c][w] = block[c][w]
        BY <3>0, <4>4
      <4>6. block'[c] \in [Ways(c) -> BlockType]
        BY <3>0, <4>3, <4>4
      <4> QED BY <4>3, <4>5, <4>6 DEF Blocks
    <3> QED BY <3>1, <3>2
  <2>3. DOMAIN block' = Cache
    BY <2>1
  <2> QED BY <2>2, <2>3 DEF Blocks, Ways
<1>3. ASSUME NEW c \in Cache, NEW x \in Line, HandleFill(c, x)  PROVE Blocks'
  <2> DEFINE side == kind[c] = "L1D" /\ mshr[c][x].type = "RFO"
  <2>1. PICK w \in Ways(c) : block' = [block EXCEPT ![c][w] = [line |-> x, valid |-> TRUE, dirty |-> side]]
    BY <1>3, VictimIsWay DEF HandleFill
  <2>2. side \in BOOLEAN /\ (side => kind[c] = "L1D")
    OBVIOUS
  <2> HIDE DEF side
  <2>3. PICK b : b = [line |-> x, valid |-> TRUE, dirty |-> side]
    OBVIOUS
  <2>4. b \in BlockType /\ b.dirty = side /\ b.line = x
    BY <2>2, <2>3 DEF BlockType
  <2>5. block' = [block EXCEPT ![c][w] = b]
    BY <2>1, <2>3
  <2>6. b.dirty => kind[c] \in DataKinds /\ b.line \in Line
    BY <2>2, <2>4 DEF DataKinds
  <2> QED BY <2>4, <2>5, <2>6, WaySet
<1>4. ASSUME NEW c \in Cache, WritebackHit(c)  PROVE Blocks'
  <2>0. wq[c] # <<>>
    BY <1>4 DEF WritebackHit
  <2>1. PICK x \in Line : x = Head(wq[c]).line
    BY <2>0, HeadWrite
  <2>2. kind[c] \in DataKinds
    BY <2>0, HeadWrite DEF LawfulWrite
  <2>3. Hits(c, x) # {} /\ block' = [block EXCEPT ![c][HitWay(c, x)].dirty = TRUE]
    BY <1>4, <2>1 DEF WritebackHit
  <2>4. PICK h \in Ways(c) : h = HitWay(c, x) /\ block[c][h].line = x
    BY <2>3, HitWayHits DEF Hits
  <2>5. PICK b : b = [block[c][h] EXCEPT !.dirty = TRUE]
    OBVIOUS
  <2>6. b \in BlockType /\ b.line = x
    <3>1. block[c][h] \in BlockType
      BY DEF Blocks
    <3> QED BY <2>4, <2>5, <3>1 DEF BlockType
  <2>7. block' = [block EXCEPT ![c][h] = b]
    BY <2>3, <2>4, <2>5
  <2> QED BY <2>2, <2>6, <2>7, WaySet
<1>5. ASSUME NEW c \in Cache, WritebackMiss(c)  PROVE Blocks'
  <2>0. wq[c] # <<>>
    BY <1>5 DEF WritebackMiss
  <2>1. PICK x \in Line : x = Head(wq[c]).line
    BY <2>0, HeadWrite
  <2>2. kind[c] \in DataKinds
    BY <2>0, HeadWrite DEF LawfulWrite
  <2>3. PICK b : b = [line |-> x, valid |-> TRUE, dirty |-> TRUE]
    OBVIOUS
  <2>4. b \in BlockType /\ b.line = x
    BY <2>3 DEF BlockType
  <2>5. PICK w \in Ways(c) : block' = [block EXCEPT ![c][w] = b]
    BY <1>5, <2>1, <2>3, VictimIsWay DEF WritebackMiss
  <2> QED BY <2>2, <2>4, <2>5, WaySet
<1>6. CASE Core
  <2>1. CASE \E x \in Line : Invalidate(x)
    BY <1>2, <2>1
  <2>2. CASE ~\E x \in Line : Invalidate(x)
    <3>1. block' = block
      BY <1>6, <2>2 DEF Core, CpuComplete, CpuRead, CpuStore, Prefetch
    <3> QED BY <1>1, <3>1
  <2> QED BY <2>1, <2>2
<1>7. ASSUME NEW c \in Cache, Operate(c)  PROVE Blocks'
  <2>1. CASE \E x \in Line : HandleFill(c, x)
    BY <1>3, <2>1
  <2>2. CASE WritebackHit(c)
    BY <1>4, <2>2
  <2>3. CASE WritebackMiss(c)
    BY <1>5, <2>3
  <2>4. CASE StoreMiss(c) \/ ReadHit(c) \/ ReadMiss(c) \/ PrefetchHit(c) \/ PrefetchMiss(c) \/ PrefetchMerge(c)
    <3>1. block' = block
      BY <2>4 DEF StoreMiss, ReadHit, ReadMiss, PrefetchHit, PrefetchMiss, PrefetchMerge
    <3> QED BY SMTT(60), <1>1, <3>1
  <2> QED BY <1>7, <2>1, <2>2, <2>3, <2>4 DEF Operate
<1>8. ASSUME \/ \E c \in Cache, x \in Line : DramReturn(c, x)
             \/ \E x \in Line : DramWrite(x)
             \/ UNCHANGED vars
      PROVE  Blocks'
  BY <1>1, <1>8 DEF DramReturn, DramWrite, vars
<1> QED BY <1>6, <1>7, <1>8 DEF Next

(* PROCESSED takes what it has room for. *)
LEMMA FinishSet ==
  ASSUME Ends, NEW c \in FirstLevel, NEW deps \in SUBSET Req, processed' = Finish(c, deps)
  PROVE  processed' \in [FirstLevel -> Seq(SUBSET Req)] /\ \A d \in FirstLevel : Len(processed'[d]) <= PROCESSED_SIZE
<1>0. processed \in [FirstLevel -> Seq(SUBSET Req)] /\ \A d \in FirstLevel : Len(processed[d]) <= PROCESSED_SIZE
  BY DEF Ends
<1>1. CASE Len(processed[c]) < PROCESSED_SIZE
  <2>1. processed' = [processed EXCEPT ![c] = Append(processed[c], deps)]
    BY <1>0, <1>1 DEF Finish
  <2>2. PICK q : q = Append(processed[c], deps)
    OBVIOUS
  <2>3. q \in Seq(SUBSET Req) /\ Len(q) = Len(processed[c]) + 1 /\ Len(processed[c]) \in Nat
    BY <1>0, <2>2
  <2>4. Len(q) <= PROCESSED_SIZE
    BY <1>1, <2>3, SizesAssumption
  <2>5. processed' = [processed EXCEPT ![c] = q]
    BY <2>1, <2>2
  <2> QED BY <1>0, <2>3, <2>4, <2>5
<1>2. CASE ~(Len(processed[c]) < PROCESSED_SIZE)
  BY <1>0, <1>2 DEF Finish
<1> QED BY <1>1, <1>2

(* Every step respects the ends. *)
LEMMA EndsStep ==
  ASSUME Traffic, Writes, Blocks, Ends, [Next]_vars
  PROVE  Ends'
<1> DEFINE Processed == /\ processed \in [FirstLevel -> Seq(SUBSET Req)]
                        /\ \A c \in FirstLevel : Len(processed[c]) <= PROCESSED_SIZE
<1>0. Processed /\ dramWQ \subseteq Line
  BY DEF Ends
<1>1. ASSUME NEW c \in FirstLevel, NEW r \in Req, NEW x \in Line, CpuRead(c, r, x)  PROVE Ends'
  <2>1. Processed'
    <3>1. processed' = processed \/ processed' = Finish(c, {r})
      BY <1>1 DEF CpuRead
    <3>2. CASE processed' = processed
      BY <1>0, <3>2
    <3>3. CASE processed' = Finish(c, {r})
      BY <3>3, FinishSet
    <3> QED BY <3>1, <3>2, <3>3
  <2>2. status' = [status EXCEPT ![r] = "waiting"] /\ UNCHANGED <<dramWQ, budget>>
    BY <1>1 DEF CpuRead
  <2> QED BY <2>1, <2>2 DEF Ends
<1>2. ASSUME NEW c \in FirstLevel, CpuComplete(c)  PROVE Ends'
  <2>1. /\ processed[c] # <<>> /\ processed' = [processed EXCEPT ![c] = Tail(processed[c])]
        /\ status' = [r \in Req |-> IF r \in Head(processed[c]) THEN "done" ELSE status[r]]
        /\ UNCHANGED <<dramWQ, budget>>
    BY <1>0, <1>2 DEF CpuComplete
  <2>2. PICK q : q = Tail(processed[c])
    OBVIOUS
  <2>3. processed[c] \in Seq(SUBSET Req) /\ Len(processed[c]) <= PROCESSED_SIZE
    BY <1>0
  <2>4. q \in Seq(SUBSET Req) /\ Len(q) <= PROCESSED_SIZE
    BY <2>1, <2>2, <2>3, SizesAssumption
  <2>5. processed' = [processed EXCEPT ![c] = q]
    BY <2>1, <2>2
  <2>6. Processed'
    BY <1>0, <2>4, <2>5
  <2>7. status' \in [Req -> {"idle", "waiting", "done"}]
    BY <2>1 DEF Ends
  <2> QED BY <2>1, <2>6, <2>7 DEF Ends
<1>3. ASSUME \/ \E c \in FirstLevel, x \in Line : CpuStore(c, x)
             \/ \E c \in Cache, x \in Line, f \in {1, 2, 4} : Prefetch(c, x, f)
             \/ \E x \in Line : Invalidate(x)
      PROVE  Ends'
  <2>1. UNCHANGED <<processed, dramWQ, status>>
    BY <1>3 DEF CpuStore, Prefetch, Invalidate
  <2>2. \/ budget.stores > 0 /\ budget' = [budget EXCEPT !.stores = @ - 1]
        \/ budget.prefetches > 0 /\ budget' = [budget EXCEPT !.prefetches = @ - 1]
        \/ budget.swaps > 0 /\ budget' = [budget EXCEPT !.swaps = @ - 1]
    BY <1>3 DEF CpuStore, Prefetch, Invalidate
  <2>3. budget' \in [stores : 0 .. MaxStores, prefetches : 0 .. MaxPrefetches, swaps : 0 .. MaxSwaps]
    <3>1. budget \in [stores : 0 .. MaxStores, prefetches : 0 .. MaxPrefetches, swaps : 0 .. MaxSwaps]
      BY DEF Ends
    <3>2. PICK s, p, w : /\ s \in 0 .. MaxStores /\ p \in 0 .. MaxPrefetches /\ w \in 0 .. MaxSwaps
                         /\ budget = [stores |-> s, prefetches |-> p, swaps |-> w]
      BY <3>1
    <3>3. \/ s > 0 /\ budget' = [stores |-> s - 1, prefetches |-> p, swaps |-> w]
          \/ p > 0 /\ budget' = [stores |-> s, prefetches |-> p - 1, swaps |-> w]
          \/ w > 0 /\ budget' = [stores |-> s, prefetches |-> p, swaps |-> w - 1]
      BY <2>2, <3>2
    <3> QED BY <3>2, <3>3, SizesAssumption
  <2> QED BY <2>1, <2>3 DEF Ends
<1>4. ASSUME NEW c \in Cache, NEW x \in Line, HandleFill(c, x)  PROVE Ends'
  <2>1. mshr[c][x] \in MshrEntry
    BY <1>4 DEF HandleFill, ReadyToFill, Traffic, Typed
  <2>2. PICK deps \in SUBSET Req : deps = mshr[c][x].deps
    BY <2>1 DEF MshrEntry
  <2>3. processed' = processed \/ (c \in FirstLevel /\ processed' = Finish(c, deps))
    BY <1>4, <2>2 DEF HandleFill
  <2>4. Processed'
    BY <1>0, <2>3, FinishSet
  <2>5. dramWQ' \subseteq Line
    <3>1. PICK w \in Victims(c) : Evict(c, w, wq[c])
      BY <1>4 DEF HandleFill
    <3>2. w \in Ways(c)
      BY VictimIsWay
    <3>3. PICK q \in Seq(Packet) : q = wq[c] /\ Len(q) <= WQ_SIZE[c]
      BY DEF Writes
    <3>4. \A y \in Line : \A p \in At(q, y) : LawfulWrite(c, p)
      BY <3>3 DEF Writes
    <3> QED BY <1>0, <3>1, <3>2, <3>3, <3>4, EvictWrites
  <2> QED BY <1>4, <2>4, <2>5 DEF Ends, HandleFill
<1>5. ASSUME NEW c \in Cache, WritebackMiss(c)  PROVE Ends'
  <2>1. dramWQ' \subseteq Line
    <3>1. PICK w \in Victims(c) : Evict(c, w, Tail(wq[c]))
      BY <1>5 DEF WritebackMiss
    <3>2. w \in Ways(c) /\ wq[c] # <<>>
      BY <1>5, VictimIsWay DEF WritebackMiss
    <3>3. wq[c] \in Seq(Packet) /\ Len(wq[c]) <= WQ_SIZE[c] /\ WQ_SIZE[c] \in Nat /\ Len(wq[c]) \in Nat
      BY SizesAssumption DEF Writes
    <3>4. PICK q \in Seq(Packet) : q = Tail(wq[c]) /\ Len(q) = Len(wq[c]) - 1 /\ \A y : At(q, y) \subseteq At(wq[c], y)
      BY <3>2, <3>3, TailSubset
    <3>5. Len(q) <= WQ_SIZE[c] /\ \A y \in Line : \A p \in At(q, y) : LawfulWrite(c, p)
      BY <3>3, <3>4 DEF Writes
    <3> QED BY <1>0, <3>1, <3>2, <3>4, <3>5, EvictWrites
  <2> QED BY <1>5, <2>1 DEF Ends, WritebackMiss
<1>6. ASSUME NEW c \in Cache, ReadHit(c)  PROVE Ends'
  <2>1. rq[c] \in Seq(Packet) /\ rq[c] # <<>>
    BY <1>6 DEF ReadHit, Traffic, Typed
  <2>2. Head(rq[c]) \in Packet
    BY <2>1, HeadAt
  <2>3. PICK deps \in SUBSET Req : deps = Head(rq[c]).deps
    BY <2>2 DEF Packet
  <2>4. processed' = processed \/ (c \in FirstLevel /\ processed' = Finish(c, deps))
    BY <1>6, <2>3 DEF ReadHit
  <2>5. Processed'
    BY <1>0, <2>4, FinishSet
  <2> QED BY <1>6, <2>5 DEF Ends, ReadHit
<1>7. ASSUME NEW x \in Line, DramWrite(x)  PROVE Ends'
  BY <1>7 DEF Ends, DramWrite
<1>8. CASE UNCHANGED <<processed, dramWQ, status, budget>>
  BY <1>8 DEF Ends
<1>9. CASE Core
  BY <1>1, <1>2, <1>3, <1>9 DEF Core
<1>10. ASSUME NEW c \in Cache, Operate(c)  PROVE Ends'
  <2>1. CASE \/ \E x \in Line : HandleFill(c, x)
             \/ WritebackMiss(c) \/ ReadHit(c)
    BY SMTT(60), <1>4, <1>5, <1>6, <2>1
  <2>2. CASE \/ WritebackHit(c) \/ StoreMiss(c) \/ ReadMiss(c)
             \/ PrefetchHit(c) \/ PrefetchMiss(c) \/ PrefetchMerge(c)
    BY <1>8, <2>2 DEF WritebackHit, StoreMiss, ReadMiss, PrefetchHit, PrefetchMiss, PrefetchMerge
  <2> QED BY <1>10, <2>1, <2>2 DEF Operate
<1>11. CASE UNCHANGED vars \/ \E c \in Cache, x \in Line : DramReturn(c, x)
  BY <1>8, <1>11 DEF vars, DramReturn
<1> QED BY <1>7, <1>9, <1>10, <1>11 DEF Next
-----------------------------------------------------------------------------
(* The invariant holds from the start and every step preserves it. *)
LEMMA InvariantInit == Init => IInv
<1> SUFFICES ASSUME Init PROVE IInv
  OBVIOUS
<1>1. Traffic
  BY TrafficInit
<1>2. Writes
  <2>1. wq = [c \in Cache |-> <<>>]
    BY DEF Init
  <2>2. wq \in [Cache -> Seq(Packet)] /\ \A c \in Cache : Len(wq[c]) <= WQ_SIZE[c]
    BY <2>1, SizesAssumption
  <2>3. \A c \in Cache, x \in Line : At(wq[c], x) = {}
    BY <2>1 DEF At
  <2> QED BY <2>2, <2>3 DEF Writes
<1>3. Blocks
  <2>1. block = [c \in Cache |-> [w \in Ways(c) |-> [line |-> NoLine, valid |-> FALSE, dirty |-> FALSE]]]
    BY DEF Init
  <2>2. [line |-> NoLine, valid |-> FALSE, dirty |-> FALSE] \in BlockType
    BY DEF BlockType
  <2>3. \A c \in Cache : block[c] \in [Ways(c) -> BlockType] /\ \A w \in Ways(c) : ~block[c][w].dirty
    BY <2>1, <2>2
  <2> QED BY <2>1, <2>3 DEF Blocks
<1>4. Ends
  <2>1. /\ processed = [c \in FirstLevel |-> <<>>] /\ dramWQ = {}
        /\ status = [r \in Req |-> "idle"]
        /\ budget = [stores |-> MaxStores, prefetches |-> MaxPrefetches, swaps |-> MaxSwaps]
    BY DEF Init
  <2>2. processed \in [FirstLevel -> Seq(SUBSET Req)] /\ \A c \in FirstLevel : Len(processed[c]) <= PROCESSED_SIZE
    BY <2>1, SizesAssumption
  <2>3. budget \in [stores : 0 .. MaxStores, prefetches : 0 .. MaxPrefetches, swaps : 0 .. MaxSwaps]
    BY <2>1, SizesAssumption
  <2> QED BY <2>1, <2>2, <2>3 DEF Ends
<1> QED BY <1>1, <1>2, <1>3, <1>4 DEF IInv

(* The invariant is inductive. *)
LEMMA InvariantStep == CodeAndDataApart /\ IInv /\ [Next]_vars => IInv'
BY TrafficStep, WritesStep, BlocksStep, EndsStep DEF IInv

(* The inductive invariant holds always. *)
LEMMA InvariantAlways == CodeAndDataApart => (Spec => []IInv)
<1> SUFFICES ASSUME CodeAndDataApart  PROVE Spec => []IInv
  OBVIOUS
<1>1. IInv /\ [Next]_vars => IInv'
  BY InvariantStep
<1> QED BY <1>1, InvariantInit, PTL DEF Spec

(* No queue, MSHR file or PROCESSED ever holds more than it has room for,  *)
(* so the assertion of add_wq (src/cache.cc:1442) never fails.             *)
LEMMA InvariantTypes == IInv => TypeOK
<1> SUFFICES ASSUME IInv PROVE TypeOK
  OBVIOUS
<1>1. ASSUME NEW c \in Cache
      PROVE  /\ block[c] \in [Ways(c) -> BlockType]
             /\ mshr[c] \in [Line -> MshrEntry \cup {Free}]
             /\ MshrOccupancy(c) <= MSHR_SIZE[c]
             /\ rq[c] \in Seq(Packet) /\ Len(rq[c]) <= RQ_SIZE[c]
             /\ wq[c] \in Seq(Packet) /\ Len(wq[c]) <= WQ_SIZE[c]
             /\ pq[c] \in Seq(Packet) /\ Len(pq[c]) <= PQ_SIZE[c]
  BY DEF IInv, Traffic, Typed, Sized, Writes, Blocks
<1>2. dramRQ \subseteq Line
  BY DEF IInv, Traffic, Typed
<1>3. Ends
  BY DEF IInv
<1> QED BY <1>1, <1>2, <1>3 DEF TypeOK, Ends, BlockType

(* Every queue, MSHR file and set stays within its capacity and holds what *)
(* it is made for, however many caches, lines and requests there are.      *)
THEOREM CapacitiesRespected == CodeAndDataApart => (Spec => []TypeOK)
<1> SUFFICES ASSUME CodeAndDataApart  PROVE Spec => []TypeOK
  OBVIOUS
<1>1. Spec => []IInv
  BY InvariantAlways
<1> QED BY <1>1, InvariantTypes, PTL
-----------------------------------------------------------------------------
(* Reads. *)

(* While a cache has a free MSHR the read queue below it has room, so the  *)
(* result of add_rq, which no cache above the LLC looks at, is never -2    *)
(* (src/cache.cc:1376).                                                    *)
LEMMA InvariantRoom == IInv => NoLostRead
BY RoomBelow DEF IInv, Traffic, NoLostRead

(* No cache that passes a miss down ever meets a full read queue.          *)
THEOREM NoReadIsLost == CodeAndDataApart => (Spec => []NoLostRead)
<1> SUFFICES ASSUME CodeAndDataApart  PROVE Spec => []NoLostRead
  OBVIOUS
<1>1. Spec => []IInv
  BY InvariantAlways
<1> QED BY <1>1, InvariantRoom, PTL

(* The promises of a cache, by the reason and the side it owes the line to. *)
LEMMA PromisesAreOwed ==
  ASSUME NEW d \in Cache, NEW x \in Line
  PROVE  Promises(d, x) = {<<"RQ", Side(d, i)>> : i \in OwedReads(d, x)}
                          \cup {<<"PQ", Side(d, i)>> : i \in OwedPrefetches(d, x)}
                          \cup {<<"MSHR", Side(d, i)>> : i \in OwedMiss(d, x)}
<1>1. {<<"RQ", Upper(d, rq[d][i])>> : i \in {j \in DOMAIN rq[d] : rq[d][j].line = x /\ d \notin FirstLevel}}
      = {<<"RQ", Side(d, i)>> : i \in OwedReads(d, x)}
  BY DEF Upper, Side, OwedReads, At
<1>2. {<<"PQ", Upper(d, pq[d][i])>> :
          i \in {j \in DOMAIN pq[d] : pq[d][j].line = x /\ pq[d][j].fill < fill_level(d)}}
      = {<<"PQ", Side(d, i)>> : i \in OwedPrefetches(d, x)}
  BY DEF Upper, Side, OwedPrefetches, At
<1>3. (IF mshr[d][x] # Free /\ mshr[d][x].fill < fill_level(d)
        THEN {<<"MSHR", Upper(d, mshr[d][x])>>} ELSE {})
      = {<<"MSHR", Side(d, i)>> : i \in OwedMiss(d, x)}
  BY DEF Upper, Side, OwedMiss
<1> QED BY <1>1, <1>2, <1>3 DEF Promises

(* return_data finds its MSHR, and no MSHR gets its data twice. *)
LEMMA InvariantReturns == IInv => ReturnsMatch
<1> SUFFICES ASSUME IInv PROVE ReturnsMatch
  OBVIOUS
<1>1. ASSUME NEW d \in Cache, NEW x \in Line, NEW p \in Promises(d, x), NEW q \in Promises(d, x)
      PROVE  InFlight(p[2], x) /\ (p[2] = q[2] => p = q)
  <2>1. {Side(d, i) : i \in Owed(d, x)} = Waiters(d, x) /\ OwedOnce(d, x)
    BY DEF IInv, Traffic, Answering, AnsweringAt
  <2>2. PICK i \in Owed(d, x) : p[2] = Side(d, i)
    BY PromisesAreOwed DEF Owed
  <2>3. InFlight(p[2], x)
    BY <2>1, <2>2 DEF Waiters
  <2>4. p[1] = q[1]
    BY <2>1, PromisesAreOwed DEF OwedOnce
  <2>5. p = <<p[1], p[2]>> /\ q = <<q[1], q[2]>>
    BY PromisesAreOwed
  <2> QED BY <2>3, <2>4, <2>5
<1>2. \A c \in Cache, x \in dramRQ : lower[c] = DRAM => InFlight(c, x)
  BY DEF IInv, Traffic, Typed, AnsweredFromOutside
<1> QED BY <1>1, <1>2 DEF ReturnsMatch

(* A lower level, or DRAM, is going to answer every miss in flight. *)
LEMMA InvariantWakes == IInv => NoOrphanMiss
<1> SUFFICES ASSUME IInv, NEW u \in Cache, NEW x \in Line, InFlight(u, x)
             PROVE  IF lower[u] = DRAM THEN x \in dramRQ
                    ELSE \E p \in Promises(lower[u], x) : p[2] = u
  BY DEF NoOrphanMiss
<1>1. CASE lower[u] = DRAM
  BY <1>1 DEF IInv, Traffic, AnsweredFromOutside
<1>2. CASE lower[u] = NoCache
  BY <1>2 DEF IInv, Traffic, AnsweredFromOutside, Waiters
<1>3. CASE lower[u] \in Cache
  <2>1. {Side(lower[u], i) : i \in Owed(lower[u], x)} = Waiters(lower[u], x)
    BY <1>3 DEF IInv, Traffic, Answering, AnsweringAt
  <2>2. PICK i \in Owed(lower[u], x) : u = Side(lower[u], i)
    BY <2>1 DEF Waiters
  <2>3. PICK d \in Cache : d = lower[u]
    BY <1>3
  <2>4. Promises(d, x) = {<<"RQ", Side(d, j)>> : j \in OwedReads(d, x)}
                          \cup {<<"PQ", Side(d, j)>> : j \in OwedPrefetches(d, x)}
                          \cup {<<"MSHR", Side(d, j)>> : j \in OwedMiss(d, x)}
    BY PromisesAreOwed
  <2>5. \E t \in {"RQ", "PQ", "MSHR"} : <<t, u>> \in Promises(d, x)
    BY <2>2, <2>3, <2>4 DEF Owed
  <2> QED BY <1>3, <2>3, <2>5, LevelsAssumption
<1> QED BY <1>1, <1>2, <1>3, Levels

(* The assertion of return_data (src/cache.cc:1663) never fails. *)
THEOREM ReturnFindsItsMiss == CodeAndDataApart => (Spec => []ReturnsMatch)
<1> SUFFICES ASSUME CodeAndDataApart  PROVE Spec => []ReturnsMatch
  OBVIOUS
<1>1. Spec => []IInv
  BY InvariantAlways
<1> QED BY <1>1, InvariantReturns, PTL

(* No wake-up is lost: some level below is going to answer every miss. *)
THEOREM NoMissIsOrphaned == CodeAndDataApart => (Spec => []NoOrphanMiss)
<1> SUFFICES ASSUME CodeAndDataApart  PROVE Spec => []NoOrphanMiss
  OBVIOUS
<1>1. Spec => []IInv
  BY InvariantAlways
<1> QED BY <1>1, InvariantWakes, PTL

(* Together: every miss in flight is answered exactly once. *)
THEOREM EveryMissAnsweredOnce == CodeAndDataApart => (Spec => []MissesAnsweredOnce)
<1> SUFFICES ASSUME CodeAndDataApart  PROVE Spec => []MissesAnsweredOnce
  OBVIOUS
<1>1. IInv => MissesAnsweredOnce
  BY InvariantReturns, InvariantWakes DEF MissesAnsweredOnce
<1>2. Spec => []IInv
  BY InvariantAlways
<1> QED BY <1>1, <1>2, PTL
-----------------------------------------------------------------------------
(* Modified lines. *)

(* The two kinds of places a modified line can be in: a way of a cache, or *)
(* the write queue of a level below the first, DRAM's included.            *)
InBlock(x) == \E c \in Cache : \E w \in Ways(c) : block[c][w].line = x /\ block[c][w].dirty
Leaving(x) == x \in dramWQ \/ \E c \in Cache : kind[c] # "L1D" /\ At(wq[c], x) # {}

(* Only evictions wait below the first level and only stores wait in it,   *)
(* so a line is modified exactly when it is in one of those places.        *)
LEMMA DirtyPlaces ==
  ASSUME Writes, NEW x \in Line
  PROVE  Dirty(x) <=> InBlock(x) \/ Leaving(x)
<1>1. ASSUME NEW c \in Cache
      PROVE  (\E i \in DOMAIN wq[c] : wq[c][i].line = x /\ wq[c][i].type = "WRITEBACK")
             <=> kind[c] # "L1D" /\ At(wq[c], x) # {}
  <2>1. wq[c] \in Seq(Packet) /\ \A p \in At(wq[c], x) : LawfulWrite(c, p)
    BY DEF Writes
  <2>2. \A i \in DOMAIN wq[c] : wq[c][i].line = x => wq[c][i] \in At(wq[c], x)
    BY DEF At
  <2>3. \A p \in At(wq[c], x) : p.type = "WRITEBACK" <=> kind[c] # "L1D"
    BY <2>1 DEF LawfulWrite
  <2>4. At(wq[c], x) # {} => \E i \in DOMAIN wq[c] : wq[c][i].line = x
    BY DEF At
  <2> QED BY <2>2, <2>3, <2>4
<1> QED BY <1>1 DEF Dirty, InBlock, Leaving

(* The same after a step. *)
LEMMA DirtyPlacesPrime ==
  Writes' => (\A x \in Line : Dirty(x) <=> InBlock(x) \/ Leaving(x))'
<1>1. Writes => \A x \in Line : Dirty(x) <=> InBlock(x) \/ Leaving(x)
  BY DirtyPlaces
<1> QED BY <1>1, PTL

(* A step that takes no dirty bit from a block and nothing from a lower    *)
(* write queue leaves the line modified.                                   *)
LEMMA DirtyKept ==
  ASSUME NEW x \in Line, Writes, Writes', Dirty(x),
         \A c \in Cache : \A w \in Ways(c) :
           block[c][w].line = x /\ block[c][w].dirty =>
             (block'[c][w].line = x /\ block'[c][w].dirty) \/ InBlock(x)' \/ Leaving(x)',
         \A c \in Cache : kind[c] # "L1D" /\ At(wq[c], x) # {} => At(wq'[c], x) # {} \/ InBlock(x)' \/ Leaving(x)',
         x \in dramWQ => x \in dramWQ'
  PROVE  Dirty(x)'
<1>1. InBlock(x) \/ Leaving(x)
  BY DirtyPlaces
<1>2. InBlock(x)' \/ Leaving(x)'
  BY <1>1 DEF InBlock, Leaving
<1>3. Dirty(x)' <=> InBlock(x)' \/ Leaving(x)'
  BY DirtyPlacesPrime
<1> QED BY <1>2, <1>3

(* A victim's modified line leaves with it, and the rest stay. *)
LEMMA EvictKeepsDirty ==
  ASSUME NEW x \in Line, Writes, Blocks, Dirty(x),
         NEW c \in Cache, NEW w \in Ways(c), NEW q \in Seq(Packet), Len(q) <= WQ_SIZE[c],
         \A y \in Line : \A p \in At(q, y) : LawfulWrite(c, p), Evict(c, w, q),
         NEW b \in BlockType, b.dirty => kind[c] \in DataKinds /\ b.line \in Line,
         block' = Rewritten(c, w, b),
         At(wq[c], x) # {} => At(q, x) # {} \/ (b.line = x /\ b.dirty)
  PROVE  Dirty(x)'
<1>1. /\ block'[c][w] = b
      /\ \A d \in Cache : \A v \in Ways(d) : d # c \/ v # w => block'[d][v] = block[d][v]
  BY WayRewritten
<1>2. /\ Writes' /\ wq'[c] = q /\ dramWQ \subseteq dramWQ'
      /\ \A e \in Cache : e # c => \A y : At(wq[e], y) \subseteq At(wq'[e], y)
      /\ block[c][w].dirty =>
           \/ block[c][w].line \in dramWQ'
           \/ \E e \in Cache : e # c /\ kind[e] # "L1D" /\ At(wq'[e], block[c][w].line) # {}
  BY ZenonT(60), EvictWrites
<1>3. block[c][w].line = x /\ block[c][w].dirty => Leaving(x)'
  BY <1>2 DEF Leaving
<1>4. \A d \in Cache : \A v \in Ways(d) :
        block[d][v].line = x /\ block[d][v].dirty =>
          (block'[d][v].line = x /\ block'[d][v].dirty) \/ InBlock(x)' \/ Leaving(x)'
  BY <1>1, <1>3
<1>5. b.line = x /\ b.dirty => InBlock(x)'
  BY <1>1 DEF InBlock, Ways
<1>6. \A d \in Cache : kind[d] # "L1D" /\ At(wq[d], x) # {} => At(wq'[d], x) # {} \/ InBlock(x)' \/ Leaving(x)'
  BY <1>2, <1>5
<1> QED BY <1>2, <1>4, <1>6, DirtyKept

(* A modified line stays modified in every step but its write to DRAM. *)
LEMMA DirtyStep ==
  ASSUME IInv, Writes', [Next]_vars, NEW x \in Line, Dirty(x), ~DramWrite(x)
  PROVE  Dirty(x)'
<1>0. Traffic /\ Writes /\ Blocks
  BY DEF IInv
<1>1. ASSUME NEW c \in Cache
      PROVE  /\ wq[c] \in Seq(Packet) /\ Len(wq[c]) <= WQ_SIZE[c] /\ WQ_SIZE[c] \in Nat /\ Len(wq[c]) \in Nat
             /\ \A y \in Line : \A p \in At(wq[c], y) : LawfulWrite(c, p)
  BY <1>0, SizesAssumption DEF Writes
<1>2. CASE UNCHANGED <<block, wq, dramWQ>>
  BY <1>0, <1>2, DirtyKept
<1>3. ASSUME NEW c \in FirstLevel, NEW y \in Line, CpuStore(c, y)  PROVE Dirty(x)'
  <2>1. kind[c] = "L1D" /\ \A d \in Cache : d # c => wq'[d] = wq[d]
    BY <1>0, <1>3 DEF CpuStore, Writes
  <2>2. UNCHANGED <<block, dramWQ>>
    BY <1>3 DEF CpuStore
  <2> QED BY <1>0, <2>1, <2>2, DirtyKept
<1>4. ASSUME NEW y \in Line, Invalidate(y)  PROVE Dirty(x)'
  <2>1. block' = [c \in Cache |-> IF Hits(c, y) = {} THEN block[c]
                                  ELSE [block[c] EXCEPT ![HitWay(c, y)].valid = FALSE]]
    BY <1>4 DEF Invalidate
  <2>2. ASSUME NEW c \in Cache, NEW w \in Ways(c)
        PROVE  block'[c][w].line = block[c][w].line /\ block'[c][w].dirty = block[c][w].dirty
    <3>0. block[c] \in [Ways(c) -> BlockType]
      BY <1>0 DEF Blocks
    <3>1. CASE Hits(c, y) = {}
      BY <2>1, <3>1
    <3>2. CASE Hits(c, y) # {}
      <4>1. PICK h \in Ways(c) : h = HitWay(c, y)
        BY <3>2, HitWayHits
      <4>2. block'[c] = [block[c] EXCEPT ![h] = [block[c][h] EXCEPT !.valid = FALSE]]
        BY <2>1, <3>2, <4>1
      <4> QED BY <3>0, <4>1, <4>2 DEF BlockType
    <3> QED BY <3>1, <3>2
  <2>3. UNCHANGED <<wq, dramWQ>>
    BY <1>4 DEF Invalidate
  <2> QED BY <1>0, <2>2, <2>3, DirtyKept
<1>5. ASSUME NEW c \in Cache, NEW y \in Line, HandleFill(c, y)  PROVE Dirty(x)'
  <2> DEFINE side == kind[c] = "L1D" /\ mshr[c][y].type = "RFO"
  <2>1. PICK w \in Ways(c) : /\ Evict(c, w, wq[c])
                             /\ block' = [block EXCEPT ![c][w] = [line |-> y, valid |-> TRUE, dirty |-> side]]
    BY <1>5, VictimIsWay DEF HandleFill
  <2>2. side \in BOOLEAN /\ (side => kind[c] \in DataKinds)
    BY DEF DataKinds
  <2> HIDE DEF side
  <2>3. PICK b : b = [line |-> y, valid |-> TRUE, dirty |-> side]
    OBVIOUS
  <2>4. b \in BlockType /\ b.dirty = side /\ b.line = y /\ block' = [block EXCEPT ![c][w] = b]
    BY <2>1, <2>2, <2>3 DEF BlockType
  <2>5. PICK q \in Seq(Packet) : /\ q = wq[c] /\ Len(q) <= WQ_SIZE[c]
                                 /\ \A z \in Line : \A p \in At(q, z) : LawfulWrite(c, p)
    BY <1>1
  <2>6. (b.dirty => kind[c] \in DataKinds /\ b.line \in Line) /\ Evict(c, w, q)
    BY <2>1, <2>2, <2>4, <2>5
  <2>7. At(wq[c], x) # {} => At(q, x) # {} \/ (b.line = x /\ b.dirty)
    BY <2>5
  <2>8. block' = Rewritten(c, w, b)
    BY <2>4 DEF Rewritten
  <2> QED BY <1>0, <2>4, <2>5, <2>6, <2>7, <2>8, EvictKeepsDirty
<1>6. ASSUME NEW c \in Cache, wq[c] # <<>>
      PROVE  /\ Tail(wq[c]) \in Seq(Packet) /\ Len(Tail(wq[c])) <= WQ_SIZE[c]
             /\ \A y \in Line : \A p \in At(Tail(wq[c]), y) : LawfulWrite(c, p)
             /\ \A y : Head(wq[c]).line # y => At(wq[c], y) \subseteq At(Tail(wq[c]), y)
  <2>0. /\ wq[c] \in Seq(Packet) /\ Len(wq[c]) <= WQ_SIZE[c] /\ WQ_SIZE[c] \in Nat /\ Len(wq[c]) \in Nat
        /\ \A y \in Line : \A p \in At(wq[c], y) : LawfulWrite(c, p)
    BY <1>1
  <2>1. /\ Tail(wq[c]) \in Seq(Packet) /\ Len(Tail(wq[c])) = Len(wq[c]) - 1
        /\ \A y : At(Tail(wq[c]), y) \subseteq At(wq[c], y)
    BY <1>6, <2>0, TailSubset
  <2>2. ASSUME NEW y, Head(wq[c]).line # y, NEW p \in At(wq[c], y)  PROVE p \in At(Tail(wq[c]), y)
    <3>1. p.line = y
      BY <2>2 DEF At
    <3> QED BY <1>6, <2>0, <2>2, <3>1, TailKeeps
  <2> QED BY <2>0, <2>1, <2>2
<1>7. ASSUME NEW c \in Cache, WritebackMiss(c)  PROVE Dirty(x)'
  <2>0. wq[c] # <<>>
    BY <1>7 DEF WritebackMiss
  <2>1. PICK y \in Line : y = Head(wq[c]).line
    BY <1>0, <2>0, HeadWrite
  <2>2. kind[c] \in DataKinds
    BY <1>0, <2>0, HeadWrite DEF LawfulWrite
  <2>3. PICK b : b = [line |-> y, valid |-> TRUE, dirty |-> TRUE]
    OBVIOUS
  <2>4. b \in BlockType /\ b.dirty /\ b.line = y
    BY <2>3 DEF BlockType
  <2>5. PICK w \in Ways(c) : Evict(c, w, Tail(wq[c])) /\ block' = [block EXCEPT ![c][w] = b]
    BY <1>7, <2>1, <2>3, VictimIsWay DEF WritebackMiss
  <2>6. PICK q \in Seq(Packet) : /\ q = Tail(wq[c]) /\ Len(q) <= WQ_SIZE[c]
                                 /\ \A z \in Line : \A p \in At(q, z) : LawfulWrite(c, p)
                                 /\ \A z : y # z => At(wq[c], z) \subseteq At(q, z)
    BY <1>6, <2>0, <2>1
  <2>7. At(wq[c], x) # {} => At(q, x) # {} \/ (b.line = x /\ b.dirty)
    BY <2>4, <2>6
  <2>8. block' = Rewritten(c, w, b)
    BY <2>5 DEF Rewritten
  <2> QED BY <1>0, <2>2, <2>4, <2>5, <2>6, <2>7, <2>8, EvictKeepsDirty
<1>8. ASSUME NEW c \in Cache, WritebackHit(c)  PROVE Dirty(x)'
  <2>0. wq[c] # <<>>
    BY <1>8 DEF WritebackHit
  <2>1. PICK y \in Line : y = Head(wq[c]).line
    BY <1>0, <2>0, HeadWrite
  <2>2. kind[c] \in DataKinds
    BY <1>0, <2>0, HeadWrite DEF LawfulWrite
  <2>3. Hits(c, y) # {} /\ block' = [block EXCEPT ![c][HitWay(c, y)].dirty = TRUE]
    BY <1>8, <2>1 DEF WritebackHit
  <2>4. PICK h \in Ways(c) : h = HitWay(c, y) /\ block[c][h].line = y
    BY <2>3, HitWayHits DEF Hits
  <2>5. PICK b : b = [block[c][h] EXCEPT !.dirty = TRUE]
    OBVIOUS
  <2>6. b \in BlockType /\ b.line = y /\ b.dirty
    <3>1. block[c][h] \in BlockType
      BY <1>0 DEF Blocks
    <3> QED BY <2>4, <2>5, <3>1 DEF BlockType
  <2>7. block' = [block EXCEPT ![c][h] = b]
    BY <2>3, <2>4, <2>5
  <2>8. /\ block'[c][h] = b
        /\ \A d \in Cache : \A v \in Ways(d) : d # c \/ v # h => block'[d][v] = block[d][v]
    <3>1. PICK n : n = Rewritten(c, h, b)
      OBVIOUS
    <3>2. /\ n[c][h] = b
          /\ \A d \in Cache : \A v \in Ways(d) : d # c \/ v # h => n[d][v] = block[d][v]
      BY <1>0, <3>1, WayRewritten
    <3>3. block' = n
      BY <2>7, <3>1 DEF Rewritten
    <3> QED BY <3>2, <3>3
  <2>9. \A d \in Cache : \A v \in Ways(d) :
          block[d][v].line = x /\ block[d][v].dirty => block'[d][v].line = x /\ block'[d][v].dirty
    BY <2>4, <2>6, <2>8
  <2>10. y = x => InBlock(x)'
    BY <2>6, <2>8 DEF InBlock, Ways
  <2>11. PICK q : q = Tail(wq[c]) /\ \A z : y # z => At(wq[c], z) \subseteq At(q, z)
    BY <1>6, <2>0, <2>1
  <2>12. wq' = [wq EXCEPT ![c] = q] /\ dramWQ' = dramWQ
    BY <1>8, <2>11 DEF WritebackHit
  <2>13. \A d \in Cache : At(wq[d], x) # {} => At(wq'[d], x) # {} \/ InBlock(x)'
    BY <1>0, <2>10, <2>11, <2>12 DEF Writes
  <2> QED BY <1>0, <2>9, <2>12, <2>13, DirtyKept
<1>9. ASSUME NEW c \in Cache, StoreMiss(c)  PROVE Dirty(x)'
  <2>1. kind[c] = "L1D" /\ \A d \in Cache : d # c => wq'[d] = wq[d]
    BY <1>0, <1>9 DEF StoreMiss, Writes
  <2>2. UNCHANGED <<block, dramWQ>>
    BY <1>9 DEF StoreMiss
  <2> QED BY <1>0, <2>1, <2>2, DirtyKept
<1>10. ASSUME NEW y \in Line, DramWrite(y)  PROVE Dirty(x)'
  <2>1. y # x /\ dramWQ' = dramWQ \ {y} /\ UNCHANGED <<block, wq>>
    BY <1>10 DEF DramWrite
  <2> QED BY <1>0, <2>1, DirtyKept
<1>11. CASE Core
  <2>1. CASE (\E c \in FirstLevel, y \in Line : CpuStore(c, y)) \/ \E y \in Line : Invalidate(y)
    BY <1>3, <1>4, <2>1
  <2>2. CASE ~((\E c \in FirstLevel, y \in Line : CpuStore(c, y)) \/ \E y \in Line : Invalidate(y))
    BY ZenonT(60), <1>2, <1>11, <2>2 DEF Core, CpuComplete, CpuRead, Prefetch
  <2> QED BY <2>1, <2>2
<1>12. ASSUME NEW c \in Cache, Operate(c)  PROVE Dirty(x)'
  <2>1. CASE \E y \in Line : HandleFill(c, y)
    BY <1>5, <2>1
  <2>2. CASE WritebackHit(c) \/ StoreMiss(c) \/ WritebackMiss(c)
    BY <1>7, <1>8, <1>9, <2>2
  <2>3. CASE ReadHit(c) \/ ReadMiss(c) \/ PrefetchHit(c) \/ PrefetchMiss(c) \/ PrefetchMerge(c)
    BY <1>2, <2>3 DEF ReadHit, ReadMiss, PrefetchHit, PrefetchMiss, PrefetchMerge
  <2> QED BY <1>12, <2>1, <2>2, <2>3 DEF Operate
<1>13. CASE UNCHANGED vars \/ \E c \in Cache, y \in Line : DramReturn(c, y)
  BY <1>2, <1>13 DEF vars, DramReturn
<1> QED BY <1>10, <1>11, <1>12, <1>13 DEF Next

(* A modified line stays modified somewhere in the hierarchy until DRAM    *)
(* has written it: no eviction, no merge in a write queue and no page swap *)
(* loses it.                                                               *)
THEOREM ModifiedUntilWritten == CodeAndDataApart => (Spec => DirtyUntilWritten)
<1> SUFFICES ASSUME CodeAndDataApart  PROVE Spec => DirtyUntilWritten
  OBVIOUS
<1>1. ASSUME IInv, IInv', [Next]_vars
      PROVE  \A x \in Line : Dirty(x) /\ ~Dirty(x)' => DramWrite(x)
  <2>1. Writes'
    BY <1>1 DEF IInv
  <2> QED BY <1>1, <2>1, DirtyStep
<1>2. IInv /\ IInv' /\ [Next]_vars => [\A x \in Line : Dirty(x) /\ ~Dirty(x)' => DramWrite(x)]_vars
  BY <1>1
<1>3. Spec => []IInv
  BY InvariantAlways
<1> QED BY <1>2, <1>3, PTL DEF Spec, DirtyUntilWritten
-----------------------------------------------------------------------------
(* No line in two ways.  A prefetch or a page swap can put a line in two   *)
(* ways of a set; demand traffic alone cannot.                             *)
DemandOnly == MaxPrefetches = 0 /\ MaxSwaps = 0

NothingPrefetched ==
  \A c \in Cache :
    pq[c] = <<>> /\ \A x \in Line : mshr[c][x] # Free => mshr[c][x].type # "PREFETCH"

(* What a block that is to be written back holds was asked for.            *)
ModifiedIsValid ==
  \A c \in Cache : \A w \in Ways(c) :
    block[c][w].dirty => block[c][w].valid /\ (c \in FirstLevel => block[c][w].line \in Footprint[c])

(* No cache misses on a line that it holds. *)
MissingIsAbsent == \A c \in Cache, x \in Line : mshr[c][x] # Free => Hits(c, x) = {}

(* While an eviction waits below, nobody asks for its line there.          *)
EvictedIsUnasked ==
  \A c \in Cache, x \in Line :
    kind[c] # "L1D" /\ At(wq[c], x) # {} => At(rq[c], x) = {} /\ mshr[c][x] = Free

Single == NothingPrefetched /\ ModifiedIsValid /\ MissingIsAbsent /\ EvictedIsUnasked /\ NoDuplicateLine

(* return_data changes neither which lines miss nor why and for whom. *)
LEMMA ReturnedTypes ==
  ASSUME NEW ms \in [Cache -> [Line -> MshrEntry \cup {Free}]], NEW c \in Cache, NEW p, p.line \in Line,
         NEW d \in Cache, NEW y \in Line
  PROVE  /\ Returned(ms, c, p)[d][y] # Free <=> ms[d][y] # Free
         /\ Returned(ms, c, p)[d][y].type = ms[d][y].type
         /\ Returned(ms, c, p)[d][y].deps = ms[d][y].deps
<1> DEFINE u == Upper(c, p)
           x == p.line
           e == [ms[u][x] EXCEPT !.returned = TRUE]
<1>1. CASE ~(p.fill < fill_level(c) /\ ms[u][x] # Free)
  BY <1>1 DEF Returned
<1>2. CASE p.fill < fill_level(c) /\ ms[u][x] # Free /\ u \in Cache
  <2>1. Returned(ms, c, p) = [ms EXCEPT ![u] = [ms[u] EXCEPT ![x] = e]]
    BY <1>2 DEF Returned
  <2>2. ms[u][x] \in MshrEntry
    BY <1>2
  <2>3. e # Free /\ e.type = ms[u][x].type /\ e.deps = ms[u][x].deps
    BY <2>2, ReturnedEntry
  <2>4. ms[u] \in [Line -> MshrEntry \cup {Free}] /\ x \in Line
    BY <1>2
  <2> HIDE DEF u, e, x
  <2> QED BY <1>2, <2>1, <2>3, <2>4
<1>3. CASE p.fill < fill_level(c) /\ ms[u][x] # Free /\ u \notin Cache
  BY <1>3 DEF Returned
<1> QED BY <1>1, <1>2, <1>3

(* A miss that a step leaves in place, and one that it begins. *)
OldMiss(d, y) == mshr[d][y] # Free /\ mshr'[d][y].type = mshr[d][y].type
NewDemand(d, y) ==
  /\ Hits(d, y) = {} /\ mshr'[d][y].type # "PREFETCH"
  /\ kind[d] = "L1D" \/ At(wq[d], y) = {}

(* A step in which no block gets another line. *)
LEMMA SingleQuiet ==
  ASSUME Single, pq' = pq,
         \A d \in Cache : \A w \in Ways(d) :
           /\ block'[d][w].line = block[d][w].line /\ block'[d][w].valid = block[d][w].valid
           /\ block'[d][w].dirty =>
                \/ block[d][w].dirty
                \/ block[d][w].valid /\ (d \in FirstLevel => block[d][w].line \in Footprint[d]),
         \A d \in Cache, y \in Line : mshr'[d][y] # Free => OldMiss(d, y) \/ NewDemand(d, y),
         \A d \in Cache, y \in Line : kind[d] # "L1D" /\ At(wq'[d], y) # {} => At(wq[d], y) # {},
         \A d \in Cache, y \in Line : At(rq'[d], y) # {} => At(rq[d], y) # {} \/ kind[d] = "L1D" \/ At(wq[d], y) = {}
  PROVE  Single'
<1>1. \A d \in Cache, y \in Line : Hits(d, y)' = Hits(d, y)
  BY DEF Hits, Ways
<1>2. NothingPrefetched'
  BY DEF Single, NothingPrefetched, OldMiss, NewDemand
<1>3. ModifiedIsValid'
  BY DEF Single, ModifiedIsValid, Ways
<1>4. MissingIsAbsent'
  BY <1>1 DEF Single, MissingIsAbsent, OldMiss, NewDemand
<1>5. EvictedIsUnasked'
  BY DEF Single, EvictedIsUnasked, OldMiss, NewDemand
<1>6. NoDuplicateLine'
  BY DEF Single, NoDuplicateLine, Ways
<1> QED BY <1>2, <1>3, <1>4, <1>5, <1>6 DEF Single

(* A line that the cache holds is asked for neither by it nor, below it,   *)
(* by anyone.                                                              *)
LEMMA HeldIsUnasked ==
  ASSUME CodeAndDataApart, Traffic, Single, NEW c \in Cache, lower[c] \in Cache,
         NEW w \in Ways(c), block[c][w].dirty, block[c][w].line \in Line
  PROVE  At(rq[lower[c]], block[c][w].line) = {} /\ mshr[lower[c]][block[c][w].line] = Free
<1>1. PICK d \in Cache : d = lower[c]
  OBVIOUS
<1>2. PICK x \in Line : x = block[c][w].line
  OBVIOUS
<1>3. w \in Hits(c, x) /\ (c \in FirstLevel => x \in Footprint[c])
  BY <1>2 DEF Single, ModifiedIsValid, Hits
<1>4. mshr[c][x] = Free
  BY <1>3 DEF Single, MissingIsAbsent
<1>5. Owed(d, x) = {}
  BY <1>1, <1>3, <1>4, NothingOwed DEF Traffic
<1>6. d \notin FirstLevel /\ fill_level(d) \in {2, 4}
  BY <1>1, Levels DEF Fills
<1>7. At(rq[d], x) = {}
  <2>1. OwedReads(d, x) = {p.instr : p \in At(rq[d], x)}
    BY <1>6 DEF OwedReads
  <2> QED BY <1>5, <2>1 DEF Owed
<1>8. mshr[d][x] = Free
  <2>1. ~(mshr[d][x] # Free /\ mshr[d][x].fill < fill_level(d))
    BY <1>5 DEF Owed, OwedMiss
  <2>2. mshr[d][x] # Free => mshr[d][x].fill = 1
    BY DEF Traffic, Lawful, LawfulAt, LawfulMiss, Single, NothingPrefetched
  <2> QED BY <1>6, <2>1, <2>2
<1> QED BY <1>1, <1>2, <1>7, <1>8

(* A step that puts a line that the cache does not hold in a victim's way. *)
LEMMA SingleFill ==
  ASSUME CodeAndDataApart, Traffic, Writes, Blocks, Single,
         NEW c \in Cache, NEW w \in Ways(c), NEW x \in Line, Hits(c, x) = {},
         NEW q \in Seq(Packet), Len(q) <= WQ_SIZE[c], \A y : At(q, y) \subseteq At(wq[c], y), Evict(c, w, q),
         NEW b \in BlockType, b.line = x, b.dirty => b.valid /\ (c \in FirstLevel => x \in Footprint[c]),
         block' = Rewritten(c, w, b), mshr'[c][x] = Free,
         \A d \in Cache, y \in Line : mshr'[d][y] # Free => OldMiss(d, y),
         rq' = rq, pq' = pq
  PROVE  Single'
<1>1. /\ block'[c][w] = b
      /\ \A d \in Cache : \A v \in Ways(d) : d # c \/ v # w => block'[d][v] = block[d][v]
  BY WayRewritten
<1>2. \A y \in Line : \A p \in At(q, y) : LawfulWrite(c, p)
  BY DEF Writes
<1>3. /\ wq'[c] = q
      /\ \A e \in Cache : e # c => \A y :
           \/ At(wq'[e], y) = At(wq[e], y)
           \/ e = lower[c] /\ y = block[c][w].line /\ block[c][w].dirty
  BY ZenonT(60), <1>2, EvictWrites
<1>4. NothingPrefetched'
  BY DEF Single, NothingPrefetched, OldMiss
<1>5. ModifiedIsValid'
  BY <1>1 DEF Single, ModifiedIsValid, Ways
<1>6. MissingIsAbsent'
  <2> SUFFICES ASSUME NEW d \in Cache, NEW y \in Line, mshr'[d][y] # Free  PROVE Hits(d, y)' = {}
    BY DEF MissingIsAbsent
  <2>1. Hits(d, y) = {} /\ (d = c => y # x)
    BY DEF Single, MissingIsAbsent, OldMiss
  <2> QED BY <1>1, <2>1 DEF Hits, Ways
<1>7. EvictedIsUnasked'
  <2> SUFFICES ASSUME NEW d \in Cache, NEW y \in Line, kind[d] # "L1D", At(wq'[d], y) # {}
               PROVE  At(rq[d], y) = {} /\ mshr[d][y] = Free
    BY DEF EvictedIsUnasked, OldMiss
  <2>1. CASE At(wq[d], y) # {}
    BY <2>1 DEF Single, EvictedIsUnasked
  <2>2. CASE At(wq[d], y) = {}
    <3>1. d # c /\ d = lower[c] /\ y = block[c][w].line /\ block[c][w].dirty
      BY <1>3, <2>2
    <3> QED BY <3>1, HeldIsUnasked
  <2> QED BY <2>1, <2>2
<1>8. NoDuplicateLine'
  <2> SUFFICES ASSUME NEW d \in Cache, NEW u \in Ways(d), NEW v \in Ways(d), block'[d][u].valid,
                      block'[d][v].valid, block'[d][u].line = block'[d][v].line
               PROVE  u = v
    BY DEF NoDuplicateLine, Ways
  <2>1. CASE d # c \/ (u # w /\ v # w)
    BY <1>1, <2>1 DEF Single, NoDuplicateLine
  <2>2. CASE d = c /\ u = w /\ v # w
    BY <1>1, <2>2 DEF Hits
  <2>3. CASE d = c /\ u # w /\ v = w
    BY <1>1, <2>3 DEF Hits
  <2> QED BY <2>1, <2>2, <2>3
<1> QED BY <1>4, <1>5, <1>6, <1>7, <1>8 DEF Single

(* A demand that misses takes a free MSHR or that of a prefetch, or joins  *)
(* the demand in flight.                                                   *)
LEMMA DemandEntry ==
  ASSUME Traffic, NEW c \in Cache, NEW p \in Packet, p.line \in Line,
         \/ mshr[c][p.line] = Free /\ \E r : NewMiss(c, p, r)
         \/ mshr[c][p.line] # Free /\ mshr' = [mshr EXCEPT ![c][p.line] = Merged(@, p)]
  PROVE  \E m :
           /\ mshr' = [mshr EXCEPT ![c][p.line] = m]
           /\ \/ /\ mshr[c][p.line] = Free \/ mshr[c][p.line].type = "PREFETCH"
                 /\ m.type = p.type /\ m.deps = p.deps
              \/ /\ mshr[c][p.line] # Free /\ mshr[c][p.line].type # "PREFETCH"
                 /\ m.type = mshr[c][p.line].type /\ m.deps = mshr[c][p.line].deps \cup p.deps
<1>0. mshr \in [Cache -> [Line -> MshrEntry \cup {Free}]]
  BY DEF Traffic, Typed
<1>1. PICK x \in Line : x = p.line
  OBVIOUS
<1>2. CASE mshr[c][x] = Free /\ \E r : NewMiss(c, p, r)
  <2>1. PICK r : NewMiss(c, p, r)
    BY <1>2
  <2>2. PICK back : mshr' = [mshr EXCEPT ![c][x] = Entry(p, back)]
    BY <1>1, <2>1, LevelsAssumption DEF NewMiss
  <2>3. PICK m : m = Entry(p, back)
    OBVIOUS
  <2>4. m.type = p.type /\ m.deps = p.deps
    BY <2>3 DEF Entry
  <2> QED BY <1>1, <1>2, <2>2, <2>3, <2>4
<1>3. CASE mshr[c][x] # Free /\ mshr' = [mshr EXCEPT ![c][x] = Merged(@, p)]
  <2>1. PICK m : m = Merged(mshr[c][x], p)
    OBVIOUS
  <2>2. PICK e \in MshrEntry : e = mshr[c][x]
    BY <1>0, <1>3
  <2>3. \/ e.type = "PREFETCH" /\ m.type = p.type /\ m.deps = p.deps
        \/ e.type # "PREFETCH" /\ m.type = e.type /\ m.deps = e.deps \cup p.deps
    <3>1. CASE e.type = "PREFETCH"
      BY <2>1, <2>2, <3>1 DEF Merged, Entry
    <3>2. CASE e.type # "PREFETCH"
      <4>1. m = [e EXCEPT !.deps = @ \cup p.deps, !.fill = IF p.fill < @ THEN p.fill ELSE @]
        BY <2>1, <2>2, <3>2 DEF Merged
      <4>2. m.type = e.type /\ m.deps = e.deps \cup p.deps
        BY <4>1 DEF MshrEntry
      <4> QED BY <3>2, <4>2
    <3> QED BY <3>1, <3>2
  <2>4. mshr' = [mshr EXCEPT ![c][x] = m]
    BY <1>0, <1>3, <2>1
  <2> QED BY <1>1, <1>3, <2>2, <2>3, <2>4
<1> QED BY <1>1, <1>2, <1>3

(* Such a miss is an old one or a new demand. *)
LEMMA DemandMisses ==
  ASSUME Traffic, NothingPrefetched, NEW c \in Cache, NEW p \in Packet, p.type # "PREFETCH", p.line \in Line,
         Hits(c, p.line) = {}, kind[c] = "L1D" \/ At(wq[c], p.line) = {},
         \/ mshr[c][p.line] = Free /\ \E r : NewMiss(c, p, r)
         \/ mshr[c][p.line] # Free /\ mshr' = [mshr EXCEPT ![c][p.line] = Merged(@, p)]
  PROVE  \A d \in Cache, y \in Line : mshr'[d][y] # Free => OldMiss(d, y) \/ NewDemand(d, y)
<1>0. mshr \in [Cache -> [Line -> MshrEntry \cup {Free}]]
  BY DEF Traffic, Typed
<1>1. PICK x \in Line : x = p.line
  OBVIOUS
<1>2. PICK m : mshr' = [mshr EXCEPT ![c][x] = m] /\ (m.type = p.type \/ (mshr[c][x] # Free /\ m.type = mshr[c][x].type))
  <2>1. PICK m : /\ mshr' = [mshr EXCEPT ![c][p.line] = m]
                 /\ m.type = p.type \/ (mshr[c][p.line] # Free /\ m.type = mshr[c][p.line].type)
    BY DemandEntry
  <2> QED BY <1>1, <2>1
<1>3. mshr'[c][x] = m /\ \A d \in Cache, y \in Line : d # c \/ y # x => mshr'[d][y] = mshr[d][y]
  BY <1>0, <1>2
<1>4. m.type # "PREFETCH"
  BY <1>1, <1>2 DEF NothingPrefetched
<1>5. ASSUME NEW d \in Cache, NEW y \in Line, mshr'[d][y] # Free  PROVE OldMiss(d, y) \/ NewDemand(d, y)
  <2>1. CASE d # c \/ y # x
    BY <1>3, <1>5, <2>1 DEF OldMiss
  <2>2. CASE d = c /\ y = x
    BY <1>1, <1>3, <1>4, <2>2 DEF NewDemand
  <2> QED BY <2>1, <2>2
<1> QED BY <1>5

(* Steps that change no block. *)
LEMMA SingleSameBlocks ==
  ASSUME Single, block' = block, pq' = pq,
         \A d \in Cache, y \in Line : mshr'[d][y] # Free => OldMiss(d, y) \/ NewDemand(d, y),
         \A d \in Cache, y \in Line : kind[d] # "L1D" /\ At(wq'[d], y) # {} => At(wq[d], y) # {},
         \A d \in Cache, y \in Line : At(rq'[d], y) # {} => At(rq[d], y) # {} \/ kind[d] = "L1D" \/ At(wq[d], y) = {}
  PROVE  Single'
BY SingleQuiet

(* No write waits in a first-level cache other than the L1D.               *)
LEMMA NoWriteThere ==
  ASSUME Writes, NEW c \in FirstLevel, kind[c] # "L1D", NEW y \in Line
  PROVE  At(wq[c], y) = {}
BY DEF Writes, LawfulWrite, FirstLevel, DataKinds

(* A miss sends its read only below a cache with no eviction of the line.  *)
LEMMA ReadsBelow ==
  ASSUME Typed, Sized, Writes, NEW c \in Cache, NEW p \in Packet, NEW q \in Seq(Packet), NewMiss(c, p, q),
         \A y \in Line : At(q, y) \subseteq At(rq[c], y)
  PROVE  \A d \in Cache, y \in Line : At(rq'[d], y) # {} => At(rq[d], y) # {} \/ At(wq[d], y) = {}
<1>0. rq \in [Cache -> Seq(Packet)] /\ p.line \in Line
  BY DEF Typed, Packet
<1>1. CASE lower[c] \notin Cache
  <2>1. rq' = [rq EXCEPT ![c] = q]
    BY <1>1, LevelsAssumption DEF NewMiss
  <2> QED BY <1>0, <2>1
<1>2. CASE lower[c] \in Cache
  <2>1. PICK d \in Cache : d = lower[c]
    BY <1>2
  <2>2. d # c /\ d # DRAM /\ d # NoCache
    BY <2>1, UpperIsSide, LevelsAssumption
  <2>3. PICK n : n = IF ForwardedBelow(c, p.line) THEN rq[d] ELSE Queued(rq[d], p, RQ_SIZE[d])
    OBVIOUS
  <2>4. rq' = [rq EXCEPT ![c] = q, ![d] = n]
    BY <1>0, <2>1, <2>2, <2>3 DEF NewMiss
  <2>5. rq'[c] = q /\ rq'[d] = n /\ \A e \in Cache : e # c /\ e # d => rq'[e] = rq[e]
    BY <1>0, <2>2, <2>4
  <2>6. ASSUME NEW y \in Line, At(n, y) # {}, At(rq[d], y) = {}  PROVE At(wq[d], y) = {}
    <3>1. ~ForwardedBelow(c, p.line) /\ n # rq[d]
      BY <2>3, <2>6
    <3>2. wq[d] \in Seq(Packet)
      BY DEF Writes
    <3>3. At(wq[d], p.line) = {}
      BY <2>1, <2>2, <3>1, <3>2, AtMember DEF ForwardedBelow
    <3>4. y = p.line
      <4>1. PICK r : r = [p EXCEPT !.deps = {}]
        OBVIOUS
      <4>2. r \in Packet /\ r.line = p.line
        BY <4>1 DEF Packet
      <4>3. n = Append(rq[d], r)
        BY <2>3, <3>1, <4>1 DEF Queued
      <4>4. rq[d] \in Seq(Packet)
        BY <1>0
      <4>5. At(n, y) = IF y = r.line THEN At(rq[d], y) \cup {r} ELSE At(rq[d], y)
        BY ZenonT(60), <4>2, <4>3, <4>4, AppendAt
      <4> QED BY <2>6, <4>2, <4>5
    <3> QED BY <3>3, <3>4
  <2>7. ASSUME NEW e \in Cache, NEW y \in Line, At(rq'[e], y) # {}  PROVE At(rq[e], y) # {} \/ At(wq[e], y) = {}
    <3>1. CASE e = c
      BY <2>5, <2>7, <3>1
    <3>2. CASE e = d
      BY <2>5, <2>6, <2>7, <3>2
    <3>3. CASE e # c /\ e # d
      BY <2>5, <2>7, <3>3
    <3> QED BY <3>1, <3>2, <3>3
  <2> QED BY <2>7
<1> QED BY <1>1, <1>2

(* Without prefetches and page swaps every step keeps lines single. *)
LEMMA SingleStep ==
  ASSUME CodeAndDataApart, DemandOnly, IInv, Single, [Next]_vars
  PROVE  Single'
<1>0. /\ Traffic /\ Writes /\ Blocks /\ Typed /\ Sized /\ NothingPrefetched
      /\ mshr \in [Cache -> [Line -> MshrEntry \cup {Free}]]
      /\ wq \in [Cache -> Seq(Packet)] /\ rq \in [Cache -> Seq(Packet)] /\ pq \in [Cache -> Seq(Packet)]
  BY DEF IInv, Single, Traffic, Typed, Writes
<1>1. ASSUME NEW c \in Cache, pq[c] # <<>>  PROVE FALSE
  BY <1>0, <1>1 DEF NothingPrefetched
<1>2. budget.prefetches = 0 /\ budget.swaps = 0
  <2>1. budget \in [stores : 0 .. MaxStores, prefetches : 0 .. 0, swaps : 0 .. 0]
    BY DEF IInv, Ends, DemandOnly
  <2> QED BY <2>1
<1>3. CASE UNCHANGED <<block, mshr, rq, wq, pq>>
  BY <1>3, SingleSameBlocks DEF OldMiss
<1>4. ASSUME NEW c \in FirstLevel, NEW r \in Req, NEW x \in Line, CpuRead(c, r, x)  PROVE Single'
  <2>1. UNCHANGED <<block, mshr, wq, pq>> /\ \A d \in Cache : d # c => rq'[d] = rq[d]
    BY <1>0, <1>4 DEF CpuRead
  <2>2. \A d \in Cache, y \in Line : At(rq'[d], y) # {} => At(rq[d], y) # {} \/ kind[d] = "L1D" \/ At(wq[d], y) = {}
    BY <1>0, <2>1, NoWriteThere
  <2> QED BY <2>1, <2>2, SingleSameBlocks DEF OldMiss
<1>5. ASSUME NEW c \in FirstLevel, NEW x \in Line, CpuStore(c, x)  PROVE Single'
  <2>1. UNCHANGED <<block, mshr, rq, pq>> /\ kind[c] = "L1D" /\ \A d \in Cache : d # c => wq'[d] = wq[d]
    BY <1>0, <1>5 DEF CpuStore
  <2> QED BY <2>1, SingleSameBlocks DEF OldMiss
<1>6. ASSUME NEW c \in Cache, NEW x \in Line, HandleFill(c, x)  PROVE Single'
  <2>1. mshr[c][x] # Free /\ mshr[c][x] \in MshrEntry
    BY <1>0, <1>6 DEF HandleFill, ReadyToFill
  <2>2. Hits(c, x) = {} /\ (c \in FirstLevel => x \in Footprint[c])
    BY <1>0, <2>1 DEF Single, MissingIsAbsent, Traffic, Lawful, LawfulAt, LawfulMiss
  <2> DEFINE dirty == kind[c] = "L1D" /\ mshr[c][x].type = "RFO"
  <2>3. PICK w \in Ways(c) : Evict(c, w, wq[c]) /\ block' = [block EXCEPT ![c][w] = [line |-> x, valid |-> TRUE, dirty |-> dirty]]
    BY <1>6, VictimIsWay DEF HandleFill
  <2>4. dirty \in BOOLEAN
    OBVIOUS
  <2>5. PICK p : /\ p = [line |-> x, type |-> mshr[c][x].type, instr |-> mshr[c][x].instr,
                         fill |-> mshr[c][x].fill, deps |-> mshr[c][x].deps]
                 /\ mshr' = Returned([mshr EXCEPT ![c][x] = Free], c, p)
    BY <1>6 DEF HandleFill
  <2>6. PICK ms : ms = [mshr EXCEPT ![c][x] = Free]
    OBVIOUS
  <2>7. /\ ms \in [Cache -> [Line -> MshrEntry \cup {Free}]] /\ ms[c][x] = Free
        /\ \A d \in Cache, y \in Line : d # c \/ y # x => ms[d][y] = mshr[d][y]
    BY <1>0, <2>6
  <2>8. p.line = x /\ mshr' = Returned(ms, c, p)
    BY <2>5, <2>6
  <2>9. \A d \in Cache, y \in Line : /\ mshr'[d][y] # Free <=> ms[d][y] # Free
                                     /\ mshr'[d][y].type = ms[d][y].type
    BY <2>7, <2>8, ReturnedTypes
  <2>10. mshr'[c][x] = Free /\ \A d \in Cache, y \in Line : mshr'[d][y] # Free => OldMiss(d, y)
    BY <2>7, <2>9 DEF OldMiss
  <2> HIDE DEF dirty
  <2>11. PICK b : b = [line |-> x, valid |-> TRUE, dirty |-> dirty]
    OBVIOUS
  <2>12. b \in BlockType /\ b.line = x /\ b.valid
    BY <2>4, <2>11 DEF BlockType
  <2>13. block' = Rewritten(c, w, b)
    BY <2>3, <2>11 DEF Rewritten
  <2>14. PICK q \in Seq(Packet) : q = wq[c]
    BY <1>0
  <2>15. Len(q) <= WQ_SIZE[c] /\ (\A y : At(q, y) \subseteq At(wq[c], y)) /\ Evict(c, w, q)
    BY <1>0, <2>3, <2>14 DEF Writes
  <2>16. rq' = rq /\ pq' = pq
    BY <1>6 DEF HandleFill
  <2> QED BY <1>0, <2>2, <2>10, <2>12, <2>13, <2>15, <2>16, SingleFill
<1>7. ASSUME NEW c \in Cache, wq[c] # <<>>
      PROVE  /\ Tail(wq[c]) \in Seq(Packet) /\ Len(Tail(wq[c])) <= WQ_SIZE[c]
             /\ \A y : At(Tail(wq[c]), y) \subseteq At(wq[c], y)
  <2>0. wq[c] \in Seq(Packet) /\ Len(wq[c]) <= WQ_SIZE[c] /\ WQ_SIZE[c] \in Nat /\ Len(wq[c]) \in Nat
    BY <1>0, SizesAssumption DEF Writes
  <2>1. /\ Tail(wq[c]) \in Seq(Packet) /\ Len(Tail(wq[c])) = Len(wq[c]) - 1
        /\ \A y : At(Tail(wq[c]), y) \subseteq At(wq[c], y)
    BY <1>7, <2>0, TailSubset
  <2> QED BY <2>0, <2>1
<1>8. ASSUME NEW c \in Cache, WritebackMiss(c)  PROVE Single'
  <2>1. wq[c] # <<>> /\ kind[c] # "L1D" /\ mshr' = Returned(mshr, c, Head(wq[c])) /\ UNCHANGED <<rq, pq>>
    BY <1>8 DEF WritebackMiss
  <2>2. PICK p : p = Head(wq[c])
    OBVIOUS
  <2>3. PICK x \in Line : x = p.line
    BY <1>0, <2>1, <2>2, HeadWrite
  <2>4. Hits(c, x) = {}
    BY <1>8, <2>2, <2>3 DEF WritebackMiss
  <2>5. p \in At(wq[c], x)
    BY <1>0, <2>1, <2>2, <2>3, HeadAt
  <2>6. mshr[c][x] = Free /\ c \notin FirstLevel
    BY <1>0, <2>1, <2>5, NoWriteThere DEF Single, EvictedIsUnasked
  <2>7. \A d \in Cache, y \in Line : /\ mshr'[d][y] # Free <=> mshr[d][y] # Free
                                     /\ mshr'[d][y].type = mshr[d][y].type
    <3>1. mshr' = Returned(mshr, c, p) /\ p.line \in Line
      BY <2>1, <2>2, <2>3
    <3>2. PICK ms \in [Cache -> [Line -> MshrEntry \cup {Free}]] : ms = mshr
      BY <1>0
    <3> QED BY <3>1, <3>2, ReturnedTypes
  <2>8. mshr'[c][x] = Free /\ \A d \in Cache, y \in Line : mshr'[d][y] # Free => OldMiss(d, y)
    BY <2>6, <2>7 DEF OldMiss
  <2>9. PICK b : b = [line |-> x, valid |-> TRUE, dirty |-> TRUE]
    OBVIOUS
  <2>10. b \in BlockType /\ b.line = x /\ b.valid
    BY <2>9 DEF BlockType
  <2>11. PICK w \in Ways(c) : Evict(c, w, Tail(wq[c])) /\ block' = Rewritten(c, w, b)
    BY <1>8, <2>2, <2>3, <2>9, VictimIsWay DEF WritebackMiss, Rewritten
  <2>12. PICK q \in Seq(Packet) : q = Tail(wq[c])
    BY <1>7, <2>1
  <2>13. Len(q) <= WQ_SIZE[c] /\ (\A y : At(q, y) \subseteq At(wq[c], y)) /\ Evict(c, w, q)
    BY <1>7, <2>1, <2>11, <2>12
  <2> QED BY <1>0, <2>1, <2>4, <2>6, <2>8, <2>10, <2>11, <2>13, SingleFill
<1>9. ASSUME NEW c \in Cache, WritebackHit(c)  PROVE Single'
  <2>1. wq[c] # <<>> /\ mshr' = mshr /\ UNCHANGED <<rq, pq>>
    BY <1>0, <1>9, WriteReturnsNothing DEF WritebackHit
  <2>2. PICK p \in Packet : p = Head(wq[c]) /\ LawfulWrite(c, p)
    BY SMTT(60), <1>0, <2>1, HeadWrite
  <2>3. PICK h \in Ways(c) : h \in Hits(c, p.line) /\ block' = [block EXCEPT ![c][h].dirty = TRUE]
    BY <1>9, <2>2, HitWayHits DEF WritebackHit
  <2>4. block[c][h].valid /\ block[c][h].line = p.line
    BY <2>3 DEF Hits
  <2>5. c \in FirstLevel => p.line \in Footprint[c]
    BY <2>2 DEF LawfulWrite, FirstLevel, DataKinds
  <2>6. PICK b : b = [block[c][h] EXCEPT !.dirty = TRUE]
    OBVIOUS
  <2>7. block[c][h] \in BlockType
    BY <1>0 DEF Blocks
  <2>8. b.line = block[c][h].line /\ b.valid = block[c][h].valid
    BY <2>6, <2>7 DEF BlockType
  <2>9. block' = Rewritten(c, h, b)
    BY <2>3, <2>6 DEF Rewritten
  <2>10. /\ block'[c][h] = b
         /\ \A d \in Cache : \A v \in Ways(d) : d # c \/ v # h => block'[d][v] = block[d][v]
    BY <1>0, <2>9, WayRewritten
  <2>11. \A d \in Cache : \A w \in Ways(d) :
           /\ block'[d][w].line = block[d][w].line /\ block'[d][w].valid = block[d][w].valid
           /\ block'[d][w].dirty =>
                \/ block[d][w].dirty
                \/ block[d][w].valid /\ (d \in FirstLevel => block[d][w].line \in Footprint[d])
    BY <2>4, <2>5, <2>8, <2>10
  <2>12. PICK q \in Seq(Packet) : q = Tail(wq[c]) /\ \A y : At(q, y) \subseteq At(wq[c], y)
    BY <1>7, <2>1
  <2>13. wq' = [wq EXCEPT ![c] = q]
    BY <1>9, <2>12 DEF WritebackHit
  <2>14. \A d \in Cache, y \in Line : At(wq'[d], y) # {} => At(wq[d], y) # {}
    BY <1>0, <2>12, <2>13
  <2> QED BY <2>1, <2>11, <2>14, SingleQuiet DEF OldMiss
<1>10. ASSUME NEW c \in Cache, StoreMiss(c)  PROVE Single'
  <2>1. wq[c] # <<>> /\ kind[c] = "L1D" /\ UNCHANGED <<block, pq>> /\ wq' = [wq EXCEPT ![c] = Tail(@)]
    BY <1>10 DEF StoreMiss
  <2>2. PICK p \in Packet : p = Head(wq[c]) /\ LawfulWrite(c, p) /\ p.line \in Line
    BY <1>0, <2>1, HeadWrite
  <2>3. p.type # "PREFETCH"
    BY <2>1, <2>2 DEF LawfulWrite
  <2>4. /\ Hits(c, p.line) = {}
        /\ \/ mshr[c][p.line] = Free /\ NewMiss(c, p, rq[c])
           \/ mshr[c][p.line] # Free /\ mshr' = [mshr EXCEPT ![c][p.line] = Merged(@, p)] /\ rq' = rq
    BY <1>10, <2>2 DEF StoreMiss
  <2>5. \A d \in Cache, y \in Line : mshr'[d][y] # Free => OldMiss(d, y) \/ NewDemand(d, y)
    BY <1>0, <2>1, <2>2, <2>3, <2>4, DemandMisses
  <2>6. PICK q \in Seq(Packet) : q = rq[c]
    BY <1>0
  <2>7. \A d \in Cache, y \in Line : At(rq'[d], y) # {} => At(rq[d], y) # {} \/ At(wq[d], y) = {}
    BY <1>0, <2>2, <2>4, <2>6, ReadsBelow
  <2>8. \A d \in Cache : d # c => wq'[d] = wq[d]
    BY <1>0, <2>1
  <2>9. \A d \in Cache, y \in Line : kind[d] # "L1D" /\ At(wq'[d], y) # {} => At(wq[d], y) # {}
    BY <2>1, <2>8
  <2> QED BY <2>1, <2>5, <2>7, <2>9, SingleSameBlocks
<1>11. ASSUME NEW c \in Cache, rq[c] # <<>>
       PROVE  /\ Head(rq[c]) \in Packet /\ Head(rq[c]).line \in Line /\ Head(rq[c]) \in At(rq[c], Head(rq[c]).line)
              /\ Tail(rq[c]) \in Seq(Packet) /\ \A y : At(Tail(rq[c]), y) \subseteq At(rq[c], y)
  <2>1. rq[c] \in Seq(Packet)
    BY <1>0
  <2>2. Head(rq[c]) \in Packet
    BY <1>11, <2>1, HeadAt
  <2> QED BY <1>11, <2>1, <2>2, HeadAt, TailSubset DEF Packet
<1>12. ASSUME NEW c \in Cache, ReadHit(c)  PROVE Single'
  <2>1. rq[c] # <<>> /\ mshr' = Returned(mshr, c, Head(rq[c])) /\ UNCHANGED <<block, wq, pq>>
    BY <1>12 DEF ReadHit
  <2>2. PICK p \in Packet : p = Head(rq[c]) /\ p.line \in Line
    BY <1>11, <2>1
  <2>3. \A d \in Cache, y \in Line : /\ mshr'[d][y] # Free <=> mshr[d][y] # Free
                                     /\ mshr'[d][y].type = mshr[d][y].type
    <3>1. mshr' = Returned(mshr, c, p) /\ p.line \in Line
      BY <2>1, <2>2
    <3>2. PICK ms \in [Cache -> [Line -> MshrEntry \cup {Free}]] : ms = mshr
      BY <1>0
    <3> QED BY <3>1, <3>2, ReturnedTypes
  <2>4. \A d \in Cache, y \in Line : mshr'[d][y] # Free => OldMiss(d, y)
    BY <2>3 DEF OldMiss
  <2>5. PICK q \in Seq(Packet) : q = Tail(rq[c]) /\ \A y : At(q, y) \subseteq At(rq[c], y)
    BY <1>11, <2>1
  <2>6. rq' = [rq EXCEPT ![c] = q]
    BY <1>12, <2>5 DEF ReadHit
  <2>7. \A d \in Cache, y \in Line : At(rq'[d], y) # {} => At(rq[d], y) # {}
    BY <1>0, <2>5, <2>6
  <2> QED BY <2>1, <2>4, <2>7, SingleSameBlocks
<1>13. ASSUME NEW c \in Cache, ReadMiss(c)  PROVE Single'
  <2>1. rq[c] # <<>> /\ UNCHANGED <<block, wq, pq>>
    BY <1>13 DEF ReadMiss
  <2>2. PICK p \in Packet : p = Head(rq[c]) /\ p.line \in Line /\ p \in At(rq[c], p.line)
    BY <1>11, <2>1
  <2>3. p.type # "PREFETCH"
    BY <1>0, <2>2 DEF Traffic, Lawful, LawfulAt, LawfulRead
  <2>4. kind[c] = "L1D" \/ At(wq[c], p.line) = {}
    BY <2>2 DEF Single, EvictedIsUnasked
  <2>5. PICK q \in Seq(Packet) : q = Tail(rq[c]) /\ \A y : At(q, y) \subseteq At(rq[c], y)
    BY <1>11, <2>1
  <2>6. /\ Hits(c, p.line) = {}
        /\ \/ mshr[c][p.line] = Free /\ NewMiss(c, p, q)
           \/ mshr[c][p.line] # Free /\ mshr' = [mshr EXCEPT ![c][p.line] = Merged(@, p)] /\ rq' = [rq EXCEPT ![c] = q]
    BY <1>13, <2>2, <2>5 DEF ReadMiss
  <2>7. \A d \in Cache, y \in Line : mshr'[d][y] # Free => OldMiss(d, y) \/ NewDemand(d, y)
    BY <1>0, <2>2, <2>3, <2>4, <2>6, DemandMisses
  <2>8. \A d \in Cache, y \in Line : At(rq'[d], y) # {} => At(rq[d], y) # {} \/ At(wq[d], y) = {}
    <3>1. CASE NewMiss(c, p, q)
      BY <1>0, <2>5, <3>1, ReadsBelow
    <3>2. CASE rq' = [rq EXCEPT ![c] = q]
      BY <1>0, <2>5, <3>2
    <3> QED BY <2>6, <3>1, <3>2
  <2> QED BY <2>1, <2>7, <2>8, SingleSameBlocks
<1>14. ASSUME NEW c \in Cache, NEW x \in Line, DramReturn(c, x)  PROVE Single'
  <2>1. UNCHANGED <<block, rq, wq, pq>>
    BY <1>14 DEF DramReturn
  <2>2. mshr' = mshr \/ (mshr[c][x] # Free /\ mshr' = [mshr EXCEPT ![c][x].returned = TRUE])
    BY <1>14 DEF DramReturn
  <2>3. CASE mshr[c][x] # Free /\ mshr' = [mshr EXCEPT ![c][x].returned = TRUE]
    <3>1. PICK e : e = [mshr[c][x] EXCEPT !.returned = TRUE]
      OBVIOUS
    <3>2. mshr' = [mshr EXCEPT ![c][x] = e] /\ mshr[c][x] \in MshrEntry
      BY <1>0, <2>3, <3>1
    <3>3. e.type = mshr[c][x].type
      BY <3>1, <3>2, ReturnedEntry
    <3>4. mshr'[c][x] = e /\ \A d \in Cache, y \in Line : d # c \/ y # x => mshr'[d][y] = mshr[d][y]
      BY <1>0, <3>2
    <3>5. \A d \in Cache, y \in Line : mshr'[d][y] # Free => OldMiss(d, y)
      BY <2>3, <3>3, <3>4 DEF OldMiss
    <3> QED BY <2>1, <3>5, SingleSameBlocks
  <2> QED BY <1>3, <2>1, <2>2, <2>3
<1>15. CASE Core
  <2>1. CASE \E c \in FirstLevel, r \in Req, x \in Line : CpuRead(c, r, x)
    BY <1>4, <2>1
  <2>2. CASE \E c \in FirstLevel, x \in Line : CpuStore(c, x)
    BY <1>5, <2>2
  <2>3. CASE \E c \in FirstLevel : CpuComplete(c)
    BY <1>3, <2>3 DEF CpuComplete
  <2> QED BY <1>2, <1>15, <2>1, <2>2, <2>3 DEF Core, Prefetch, Invalidate
<1>16. ASSUME NEW c \in Cache, Operate(c)  PROVE Single'
  <2>1. CASE (\E x \in Line : HandleFill(c, x)) \/ WritebackHit(c) \/ StoreMiss(c) \/ WritebackMiss(c)
    BY <1>6, <1>8, <1>9, <1>10, <2>1
  <2>2. CASE ReadHit(c) \/ ReadMiss(c)
    BY SMTT(60), <1>12, <1>13, <2>2
  <2>3. ~(PrefetchHit(c) \/ PrefetchMiss(c) \/ PrefetchMerge(c))
    BY <1>1 DEF PrefetchHit, PrefetchMiss, PrefetchMerge
  <2> QED BY <1>16, <2>1, <2>2, <2>3 DEF Operate
<1>17. CASE UNCHANGED vars \/ \E x \in Line : DramWrite(x)
  BY <1>3, <1>17 DEF vars, DramWrite
<1> QED BY <1>14, <1>15, <1>16, <1>17 DEF Next

(* Without prefetching and page swaps no set ever holds a line twice. *)
THEOREM LinesAreSingle == CodeAndDataApart /\ DemandOnly => (Spec => []NoDuplicateLine)
<1> SUFFICES ASSUME CodeAndDataApart, DemandOnly  PROVE Spec => []NoDuplicateLine
  OBVIOUS
<1>1. Init => Single
  <2> SUFFICES ASSUME Init PROVE Single
    OBVIOUS
  <2>1. /\ block = [c \in Cache |-> [w \in Ways(c) |-> [line |-> NoLine, valid |-> FALSE, dirty |-> FALSE]]]
        /\ mshr = [c \in Cache |-> [x \in Line |-> Free]]
        /\ wq = [c \in Cache |-> <<>>] /\ pq = [c \in Cache |-> <<>>]
    BY DEF Init
  <2>2. \A c \in Cache : \A w \in Ways(c) : ~block[c][w].dirty /\ ~block[c][w].valid
    BY <2>1
  <2>3. \A c \in Cache, x \in Line : mshr[c][x] = Free /\ At(wq[c], x) = {}
    BY <2>1 DEF At
  <2>4. \A c \in Cache : pq[c] = <<>>
    BY <2>1
  <2> QED BY <2>2, <2>3, <2>4
          DEF Single, NothingPrefetched, ModifiedIsValid, MissingIsAbsent, EvictedIsUnasked, NoDuplicateLine
<1>2. IInv /\ Single /\ [Next]_vars => Single'
  BY SingleStep
<1>3. Single => NoDuplicateLine
  BY DEF Single
<1>4. Spec => []IInv
  BY InvariantAlways
<1> QED BY <1>1, <1>2, <1>3, <1>4, PTL DEF Spec

-----------------------------------------------------------------------------
(* Requests of the core.  A full PROCESSED drops what is added to it, so   *)
(* requests are conserved as long as the core keeps it from filling up.    *)
ProcessedRoom == \A c \in FirstLevel : Len(processed[c]) < PROCESSED_SIZE

(* The requests that queue q of packets has for line x, those of all the   *)
(* entries of a PROCESSED queue s, and that s has each of them once.       *)
AskedIn(q, x) == UNION {p.deps : p \in At(q, x)}
DoneIn(s) == UNION {s[i] : i \in DOMAIN s}
OnceIn(s) == \A i, j \in DOMAIN s : i # j => s[i] \cap s[j] = {}

(* The requests that wait for line x in the read queue of c, in its MSHR,  *)
(* and those that c has finished.                                          *)
Asking(c, x) == AskedIn(rq[c], x)
Missing(c, x) == mshr[c][x].deps
Finished(c) == DoneIn(processed[c])

Place == (FirstLevel \X {"RQ", "MSHR"} \X Line) \cup (FirstLevel \X {"PROCESSED"} \X {NoLine})
Held(k) ==
  IF k[2] = "RQ" THEN Asking(k[1], k[3])
  ELSE IF k[2] = "MSHR" THEN Missing(k[1], k[3])
  ELSE Finished(k[1])

(* No request is in two places, and the waiting ones are those in a place. *)
Apart == \A k, l \in Place : k # l => Held(k) \cap Held(l) = {}
Placed == \A r \in Req : status[r] = "waiting" <=> \E k \in Place : r \in Held(k)

(* No request is finished twice.                                           *)
FinishedOnce == \A c \in FirstLevel : OnceIn(processed[c])

(* Nobody waits for a prefetch. *)
PrefetchesUnasked ==
  \A c \in Cache, x \in Line :
    /\ \A p \in At(pq[c], x) : p.deps = {}
    /\ mshr[c][x].type = "PREFETCH" => mshr[c][x].deps = {}

Conserved == Apart /\ Placed /\ FinishedOnce /\ PrefetchesUnasked

(* The places. *)
LEMMA PlaceCases ==
  /\ \A c \in FirstLevel, x \in Line : <<c, "RQ", x>> \in Place /\ <<c, "MSHR", x>> \in Place
  /\ \A c \in FirstLevel : <<c, "PROCESSED", NoLine>> \in Place
  /\ \A k \in Place :
       \/ \E c \in FirstLevel, x \in Line : k = <<c, "RQ", x>> \/ k = <<c, "MSHR", x>>
       \/ \E c \in FirstLevel : k = <<c, "PROCESSED", NoLine>>
BY DEF Place

(* What each place holds, before and after a step. *)
LEMMA HeldAt ==
  ASSUME NEW c, NEW x
  PROVE  /\ Held(<<c, "RQ", x>>) = Asking(c, x) /\ Held(<<c, "MSHR", x>>) = Missing(c, x)
         /\ Held(<<c, "PROCESSED", x>>) = Finished(c)
         /\ Held(<<c, "RQ", x>>)' = Asking(c, x)' /\ Held(<<c, "MSHR", x>>)' = Missing(c, x)'
         /\ Held(<<c, "PROCESSED", x>>)' = Finished(c)'
BY DEF Held

(* A step that changes what the places of S hold and no other.             *)
LEMMA OthersKeep ==
  ASSUME NEW S,
         \A c \in FirstLevel, x \in Line :
           /\ <<c, "RQ", x>> \in S \/ Asking(c, x)' = Asking(c, x)
           /\ <<c, "MSHR", x>> \in S \/ Missing(c, x)' = Missing(c, x),
         \A c \in FirstLevel : <<c, "PROCESSED", NoLine>> \in S \/ Finished(c)' = Finished(c)
  PROVE  \A k \in Place \ S : Held(k)' = Held(k)
<1> SUFFICES ASSUME NEW k \in Place, k \notin S  PROVE Held(k)' = Held(k)
  OBVIOUS
<1>1. CASE \E c \in FirstLevel, x \in Line : k = <<c, "RQ", x>> \/ k = <<c, "MSHR", x>>
  <2>1. PICK c \in FirstLevel, x \in Line : k = <<c, "RQ", x>> \/ k = <<c, "MSHR", x>>
    BY <1>1
  <2>2. CASE k = <<c, "RQ", x>>
    <3>1. Asking(c, x)' = Asking(c, x)
      BY <2>2
    <3> QED BY ZenonT(60), <2>2, <3>1, HeldAt
  <2>3. CASE k = <<c, "MSHR", x>>
    <3>1. Missing(c, x)' = Missing(c, x)
      BY <2>3
    <3> QED BY ZenonT(60), <2>3, <3>1, HeldAt
  <2> QED BY <2>1, <2>2, <2>3
<1>2. CASE \E c \in FirstLevel : k = <<c, "PROCESSED", NoLine>>
  <2>1. PICK c \in FirstLevel : k = <<c, "PROCESSED", NoLine>>
    BY <1>2
  <2>2. Finished(c)' = Finished(c)
    BY <2>1
  <2> QED BY <2>1, <2>2, HeldAt
<1> QED BY <1>1, <1>2, PlaceCases

(* Requests that move from place a to place b stay apart and in a place.   *)
LEMMA Moved ==
  ASSUME Apart, Placed, status' = status, NEW a \in Place, NEW b \in Place, a # b,
         Held(a)' = {}, Held(b)' = Held(b) \cup Held(a),
         \A k \in Place : k # a /\ k # b => Held(k)' = Held(k)
  PROVE  Apart' /\ Placed'
<1>1. Apart'
  <2> SUFFICES ASSUME NEW k \in Place, NEW l \in Place, k # l  PROVE Held(k)' \cap Held(l)' = {}
    BY DEF Apart, Place, FirstLevel
  <2> QED BY DEF Apart
<1>2. Placed'
  <2>1. \A r \in Req : (\E k \in Place : r \in Held(k)') <=> (\E k \in Place : r \in Held(k))
    OBVIOUS
  <2> QED BY <2>1 DEF Placed, Place, FirstLevel
<1> QED BY <1>1, <1>2

(* A new request arrives in place b. *)
LEMMA Arrived ==
  ASSUME Apart, Placed, NEW r \in Req, status \in [Req -> {"idle", "waiting", "done"}], status[r] = "idle",
         status' = [status EXCEPT ![r] = "waiting"],
         NEW b \in Place, Held(b)' = Held(b) \cup {r}, \A k \in Place : k # b => Held(k)' = Held(k)
  PROVE  Apart' /\ Placed'
<1>0. \A k \in Place : r \notin Held(k)
  BY DEF Placed
<1>1. Apart'
  <2> SUFFICES ASSUME NEW k \in Place, NEW l \in Place, k # l  PROVE Held(k)' \cap Held(l)' = {}
    BY DEF Apart, Place, FirstLevel
  <2> QED BY <1>0 DEF Apart
<1>2. Placed'
  <2>1. \A s \in Req : (\E k \in Place : s \in Held(k)') <=> s = r \/ (\E k \in Place : s \in Held(k))
    OBVIOUS
  <2>2. \A s \in Req : status'[s] = IF s = r THEN "waiting" ELSE status[s]
    OBVIOUS
  <2> QED BY <2>1, <2>2 DEF Placed, Place, FirstLevel
<1> QED BY <1>1, <1>2

(* A step that moves no request. *)
LEMMA Unmoved ==
  ASSUME Apart, Placed, status' = status, \A k \in Place : Held(k)' = Held(k)
  PROVE  Apart' /\ Placed'
BY DEF Apart, Placed, Place, FirstLevel

(* The head of a read queue takes its requests along.                      *)
LEMMA AskedTail ==
  ASSUME NEW q \in Seq(Packet), q # <<>>, Distinct(q)
  PROVE  /\ AskedIn(q, Head(q).line) = Head(q).deps
         /\ AskedIn(Tail(q), Head(q).line) = {}
         /\ \A x : x # Head(q).line => AskedIn(Tail(q), x) = AskedIn(q, x)
BY TailAt DEF AskedIn

(* A packet at the end of a queue adds its own requests.                   *)
LEMMA AskedAppend ==
  ASSUME NEW q \in Seq(Packet), NEW p \in Packet, NEW x
  PROVE  AskedIn(Append(q, p), x) = IF x = p.line THEN AskedIn(q, x) \cup p.deps ELSE AskedIn(q, x)
BY AppendAt DEF AskedIn

(* A request that joins a waiting packet is one more for its line.         *)
LEMMA AskedJoined ==
  ASSUME NEW q \in Seq(Packet), NEW x \in Lines(q), NEW r \in Req, NEW y
  PROVE  AskedIn(Joined(q, x, r), y) = IF y = x THEN AskedIn(q, y) \cup {r} ELSE AskedIn(q, y)
<1> DEFINE n == Joined(q, x, r)
<1>1. \A p \in Packet : LET m == [p EXCEPT !.deps = @ \cup {r}]
                        IN  m \in Packet /\ m.line = p.line /\ m.deps = p.deps \cup {r}
  BY DEF Packet
<1>2. \A i \in DOMAIN q : q[i] \in Packet
  OBVIOUS
<1>3. /\ n = [i \in DOMAIN q |-> n[i]]
      /\ \A i \in DOMAIN q : /\ n[i] \in Packet /\ n[i].line = q[i].line
                             /\ n[i].deps = IF q[i].line = x THEN q[i].deps \cup {r} ELSE q[i].deps
  BY <1>1, <1>2 DEF Joined
<1>4. \A i \in DOMAIN q : n[i] \in Packet /\ n[i].line = q[i].line
  BY <1>3
<1>5. n = [i \in DOMAIN q |-> n[i]]
  BY <1>3
<1> HIDE DEF n
<1>6. \A p : p \in At(n, y) <=> \E i \in 1 .. Len(q) : p = n[i] /\ q[i].line = y
  BY SMTT(60), <1>4, <1>5, RewrittenAt
<1>7. \A p : p \in At(q, y) <=> \E i \in 1 .. Len(q) : p = q[i] /\ q[i].line = y
  BY AtMember
<1>8. DOMAIN q = 1 .. Len(q)
  OBVIOUS
<1>9. ASSUME NEW s  PROVE s \in AskedIn(n, y) <=> \E i \in DOMAIN q : q[i].line = y /\ s \in n[i].deps
  <2>1. s \in AskedIn(n, y) <=> \E p \in At(n, y) : s \in p.deps
    BY DEF AskedIn
  <2> QED BY <1>6, <1>8, <2>1
<1>10. ASSUME NEW s  PROVE s \in AskedIn(q, y) <=> \E i \in DOMAIN q : q[i].line = y /\ s \in q[i].deps
  <2>1. s \in AskedIn(q, y) <=> \E p \in At(q, y) : s \in p.deps
    BY DEF AskedIn
  <2> QED BY <1>7, <1>8, <2>1
<1>11. \E i \in DOMAIN q : q[i].line = x
  BY DEF Lines
<1>12. CASE y = x
  <2>1. ASSUME NEW s  PROVE s \in AskedIn(n, y) <=> s \in AskedIn(q, y) \/ s = r
    <3>1. \A i \in DOMAIN q : q[i].line = y => (s \in n[i].deps <=> s \in q[i].deps \/ s = r)
      BY <1>3, <1>12
    <3>2. PICK i \in DOMAIN q : q[i].line = y
      BY <1>11, <1>12
    <3>3. s = r => s \in AskedIn(n, y)
      BY <1>9, <3>1, <3>2
    <3>4. s \in AskedIn(q, y) => s \in AskedIn(n, y)
      BY <1>9, <1>10, <3>1
    <3>5. s \in AskedIn(n, y) => s \in AskedIn(q, y) \/ s = r
      BY <1>9, <1>10, <3>1
    <3> QED BY <3>3, <3>4, <3>5
  <2> QED BY <1>12, <2>1 DEF n
<1>13. CASE y # x
  <2>1. ASSUME NEW s  PROVE s \in AskedIn(n, y) <=> s \in AskedIn(q, y)
    BY ZenonT(60), <1>3, <1>9, <1>10, <1>13
  <2>2. AskedIn(n, y) = AskedIn(q, y)
    BY <2>1 DEF AskedIn
  <2> QED BY <1>13, <2>2 DEF n
<1> QED BY <1>12, <1>13

(* An entry at the end of PROCESSED adds its requests.                     *)
LEMMA DoneAppend ==
  ASSUME NEW s \in Seq(SUBSET Req), NEW d \in SUBSET Req
  PROVE  /\ DoneIn(Append(s, d)) = DoneIn(s) \cup d
         /\ OnceIn(s) /\ d \cap DoneIn(s) = {} => OnceIn(Append(s, d))
<1> DEFINE a == Append(s, d)
<1>1. /\ DOMAIN a = 1 .. Len(s) + 1 /\ DOMAIN s = 1 .. Len(s) /\ Len(s) \in Nat
      /\ \A i \in DOMAIN s : a[i] = s[i] /\ i \in DOMAIN a
      /\ a[Len(s) + 1] = d /\ Len(s) + 1 \in DOMAIN a
      /\ \A i \in DOMAIN a : i \in DOMAIN s \/ i = Len(s) + 1
  OBVIOUS
<1> HIDE DEF a
<1>2. ASSUME NEW r  PROVE r \in DoneIn(a) <=> r \in DoneIn(s) \/ r \in d
  <2>1. r \in DoneIn(a) <=> \E i \in DOMAIN a : r \in a[i]
    BY DEF DoneIn
  <2>2. r \in DoneIn(s) <=> \E i \in DOMAIN s : r \in s[i]
    BY DEF DoneIn
  <2> QED BY <1>1, <2>1, <2>2
<1>3. ASSUME OnceIn(s), d \cap DoneIn(s) = {}  PROVE OnceIn(a)
  <2>1. \A i \in DOMAIN s : s[i] \cap d = {}
    BY <1>3 DEF DoneIn
  <2> QED BY <1>1, <1>3, <2>1 DEF OnceIn
<1> QED BY <1>2, <1>3 DEF a

(* The head of PROCESSED takes its requests away.                          *)
LEMMA DoneTail ==
  ASSUME NEW s \in Seq(SUBSET Req), s # <<>>, OnceIn(s)
  PROVE  /\ DoneIn(Tail(s)) = DoneIn(s) \ Head(s)
         /\ Head(s) \subseteq DoneIn(s)
         /\ OnceIn(Tail(s))
<1> DEFINE t == Tail(s)
<1>1. /\ DOMAIN s = 1 .. Len(s) /\ DOMAIN t = 1 .. Len(s) - 1 /\ Len(s) \in Nat /\ 1 \in DOMAIN s
      /\ Head(s) = s[1]
      /\ \A i \in DOMAIN t : t[i] = s[i + 1] /\ i + 1 \in DOMAIN s /\ i + 1 # 1
      /\ \A i \in DOMAIN s : i = 1 \/ (i - 1 \in DOMAIN t /\ t[i - 1] = s[i])
  OBVIOUS
<1> HIDE DEF t
<1>2. ASSUME NEW r  PROVE r \in DoneIn(t) <=> r \in DoneIn(s) /\ r \notin Head(s)
  <2>1. r \in DoneIn(t) <=> \E i \in DOMAIN t : r \in t[i]
    BY DEF DoneIn
  <2>2. r \in DoneIn(s) <=> \E i \in DOMAIN s : r \in s[i]
    BY DEF DoneIn
  <2>3. \A i \in DOMAIN s : i # 1 => s[i] \cap Head(s) = {}
    BY <1>1 DEF OnceIn
  <2> QED BY <1>1, <2>1, <2>2, <2>3
<1>3. Head(s) \subseteq DoneIn(s)
  BY <1>1 DEF DoneIn
<1>4. OnceIn(t)
  <2> SUFFICES ASSUME NEW i \in DOMAIN t, NEW j \in DOMAIN t, i # j  PROVE t[i] \cap t[j] = {}
    BY DEF OnceIn
  <2>1. i + 1 \in DOMAIN s /\ j + 1 \in DOMAIN s /\ i + 1 # j + 1 /\ t[i] = s[i + 1] /\ t[j] = s[j + 1]
    BY <1>1
  <2> QED BY <2>1 DEF OnceIn
<1> QED BY <1>2, <1>3, <1>4 DEF t

(* add_pq leaves a queue that nobody waits for as it is.                   *)
LEMMA QueuedUnasked ==
  ASSUME NEW q \in Seq(Packet), NEW p \in Packet, p.deps = {}, NEW size \in Nat, Len(q) < size,
         \A x \in Line : \A r \in At(q, x) : r.deps = {}
  PROVE  \A x \in Line : \A r \in At(PrefetchQueued(q, p), x) : r.deps = {}
<1> DEFINE n == PrefetchQueued(q, p)
<1>1. /\ \A x : x # p.line => At(n, x) = At(q, x)
      /\ At(n, p.line) = IF At(q, p.line) = {} THEN {p} ELSE {Nearer(p, r) : r \in At(q, p.line)}
  BY PrefetchQueuedAt
<1>2. \A r \in Packet : Nearer(p, r).deps = r.deps
  BY DEF Nearer, Packet
<1>3. \A r \in At(q, p.line) : r \in Packet /\ r.deps = {}
  BY AtMember DEF Packet
<1> HIDE DEF n
<1>4. \A r \in At(n, p.line) : r.deps = {}
  BY <1>1, <1>2, <1>3
<1> QED BY <1>1, <1>4 DEF n

(* The prefetch queues stay unasked for.                                   *)
LEMMA PrefetchQueuesStep ==
  ASSUME Traffic, PrefetchesUnasked, [Next]_vars
  PROVE  \A c \in Cache, x \in Line : \A p \in At(pq'[c], x) : p.deps = {}
<1> DEFINE Quiet(q) == \A x \in Line : \A p \in At(q, x) : p.deps = {}
<1>0. pq \in [Cache -> Seq(Packet)] /\ \A c \in Cache : Quiet(pq[c])
  BY DEF Traffic, Typed, PrefetchesUnasked
<1>1. ASSUME NEW c \in Cache, pq[c] # <<>>
      PROVE  /\ Tail(pq[c]) \in Seq(Packet) /\ Quiet(Tail(pq[c]))
             /\ Head(pq[c]) \in Packet /\ Head(pq[c]).deps = {}
  <2>1. pq[c] \in Seq(Packet) /\ Quiet(pq[c])
    BY <1>0
  <2>2. PICK p : p = Head(pq[c])
    OBVIOUS
  <2>3. p \in Packet /\ p.line \in Line /\ p \in At(pq[c], p.line)
    BY <1>1, <2>1, <2>2, HeadAt DEF Packet
  <2>4. Tail(pq[c]) \in Seq(Packet) /\ \A x : At(Tail(pq[c]), x) \subseteq At(pq[c], x)
    BY <1>1, <2>1, TailSubset
  <2> QED BY <2>1, <2>2, <2>3, <2>4
<1>2. ASSUME NEW c \in Cache, NEW q, Quiet(q), pq' = [pq EXCEPT ![c] = q]
      PROVE  \A d \in Cache : Quiet(pq'[d])
  <2>1. \A d \in Cache : pq'[d] = IF d = c THEN q ELSE pq[d]
    BY <1>0, <1>2
  <2> HIDE DEF Quiet
  <2> QED BY <1>0, <1>2, <2>1
<1>3. CASE pq' = pq
  BY <1>0, <1>3
<1>4. ASSUME NEW c \in Cache, NEW x \in Line, NEW f \in {1, 2, 4}, Prefetch(c, x, f)
      PROVE  \A d \in Cache : Quiet(pq'[d])
  <2>1. PICK p : p = [line |-> x, type |-> "PREFETCH", instr |-> FALSE, fill |-> f, deps |-> {}]
    OBVIOUS
  <2>2. p \in Packet /\ p.deps = {}
    BY <2>1 DEF Packet, Types, Fills
  <2>3. pq' = pq \/ pq' = [pq EXCEPT ![c] = PrefetchQueued(@, p)]
    BY <1>4, <2>1 DEF Prefetch
  <2>4. PICK q \in Seq(Packet) : q = pq[c] /\ Quiet(q)
    BY <1>0
  <2>5. Len(q) < PQ_SIZE[c] /\ PQ_SIZE[c] \in Nat
    BY <1>4, <2>4, SizesAssumption DEF Prefetch
  <2>6. PICK n : n = PrefetchQueued(q, p) /\ Quiet(n)
    BY <2>2, <2>4, <2>5, QueuedUnasked
  <2>7. pq' = pq \/ pq' = [pq EXCEPT ![c] = n]
    BY <1>0, <2>3, <2>4, <2>6
  <2> HIDE DEF Quiet
  <2> QED BY ZenonT(60), <1>2, <1>3, <2>6, <2>7 DEF Quiet
<1>5. ASSUME NEW c \in Cache, PrefetchHit(c) \/ PrefetchMerge(c)  PROVE \A d \in Cache : Quiet(pq'[d])
  <2>1. pq[c] # <<>> /\ pq' = [pq EXCEPT ![c] = Tail(@)]
    BY <1>5 DEF PrefetchHit, PrefetchMerge
  <2>2. PICK q : q = Tail(pq[c]) /\ Quiet(q)
    BY <1>1, <2>1
  <2>3. pq' = [pq EXCEPT ![c] = q]
    BY <1>0, <2>1, <2>2
  <2> HIDE DEF Quiet
  <2> QED BY <1>2, <2>2, <2>3
<1>6. ASSUME NEW c \in Cache, PrefetchMiss(c)  PROVE \A d \in Cache : Quiet(pq'[d])
  <2>1. pq[c] # <<>>
    BY <1>6 DEF PrefetchMiss
  <2>2. PICK q \in Seq(Packet) : q = Tail(pq[c]) /\ Quiet(q)
    BY <1>1, <2>1
  <2>3. PICK p \in Packet : p = Head(pq[c]) /\ p.deps = {}
    BY <1>1, <2>1
  <2>4. CASE lower[c] = DRAM
    <3>1. pq' = [pq EXCEPT ![c] = q]
      BY <1>0, <1>6, <2>2, <2>4 DEF PrefetchMiss
    <3> HIDE DEF Quiet
    <3> QED BY <1>2, <2>2, <3>1
  <2>5. CASE lower[c] # DRAM
    <3>1. PICK d : d = lower[c]
      OBVIOUS
    <3>2. /\ Len(pq[d]) < PQ_SIZE[d]
          /\ pq' = [[pq EXCEPT ![c] = q] EXCEPT ![d] = IF ForwardedBelow(c, p.line) THEN @ ELSE PrefetchQueued(@, p)]
      BY <1>6, <2>2, <2>3, <2>5, <3>1 DEF PrefetchMiss
    <3>3. d # c
      <4>1. d \in Cache => d # c
        BY <3>1, UpperIsSide
      <4> QED BY <4>1
    <3>4. CASE d \in Cache
      <4>1. PICK s \in Seq(Packet) : s = pq[d] /\ Quiet(s) /\ Len(s) < PQ_SIZE[d] /\ PQ_SIZE[d] \in Nat
        BY <1>0, <3>2, <3>4, SizesAssumption
      <4>2. Quiet(PrefetchQueued(s, p))
        BY <2>3, <4>1, QueuedUnasked
      <4>3. PICK n : n = (IF ForwardedBelow(c, p.line) THEN s ELSE PrefetchQueued(s, p)) /\ Quiet(n)
        BY <4>1, <4>2
      <4>4. pq' = [pq EXCEPT ![c] = q, ![d] = n]
        BY <1>0, <3>2, <3>3, <3>4, <4>1, <4>3
      <4>5. \A e \in Cache : pq'[e] = IF e = d THEN n ELSE IF e = c THEN q ELSE pq[e]
        BY <1>0, <4>4
      <4> HIDE DEF Quiet
      <4> QED BY <1>0, <2>2, <4>3, <4>5
    <3>5. CASE d \notin Cache
      <4>1. \A e \in Cache : pq'[e] = IF e = c THEN q ELSE pq[e]
        BY <1>0, <3>2, <3>5
      <4> HIDE DEF Quiet
      <4> QED BY <1>0, <2>2, <4>1
    <3> QED BY <3>4, <3>5
  <2> QED BY <2>4, <2>5
<1>7. CASE Core
  <2>1. CASE \E c \in Cache, x \in Line, f \in {1, 2, 4} : Prefetch(c, x, f)
    BY <1>4, <2>1
  <2>2. CASE ~\E c \in Cache, x \in Line, f \in {1, 2, 4} : Prefetch(c, x, f)
    BY <1>3, <1>7, <2>2 DEF Core, CpuComplete, CpuRead, CpuStore, Invalidate
  <2> QED BY <2>1, <2>2
<1>8. ASSUME NEW c \in Cache, Operate(c)  PROVE \A d \in Cache : Quiet(pq'[d])
  <2>1. CASE PrefetchHit(c) \/ PrefetchMerge(c) \/ PrefetchMiss(c)
    BY SMTT(60), <1>5, <1>6, <2>1
  <2>2. CASE (\E x \in Line : HandleFill(c, x)) \/ WritebackHit(c) \/ StoreMiss(c) \/ WritebackMiss(c) \/ ReadHit(c) \/ ReadMiss(c)
    BY <1>3, <2>2 DEF HandleFill, WritebackHit, StoreMiss, WritebackMiss, ReadHit, ReadMiss
  <2> QED BY <1>8, <2>1, <2>2 DEF Operate
<1>9. CASE \/ \E c \in Cache, x \in Line : DramReturn(c, x)
           \/ \E x \in Line : DramWrite(x)
           \/ UNCHANGED vars
  BY <1>3, <1>9 DEF DramReturn, DramWrite, vars
<1> QED BY <1>7, <1>8, <1>9 DEF Next

(* A step that moves requests only of line x in cache c, or none at all.   *)
OnlyReads(c, x) ==
  \A d \in FirstLevel, y \in Line : d # c \/ y # x => AskedIn(rq'[d], y) = AskedIn(rq[d], y)
OnlyMisses(c, x) ==
  \A d \in FirstLevel, y \in Line : d # c \/ y # x => mshr'[d][y].deps = mshr[d][y].deps
SameReads == \A d \in FirstLevel, y \in Line : AskedIn(rq'[d], y) = AskedIn(rq[d], y)
SameMisses == \A d \in FirstLevel, y \in Line : mshr'[d][y].deps = mshr[d][y].deps

(* A step that moves no request into or out of a first-level cache.        *)
LEMMA NothingMoves ==
  ASSUME Conserved, status' = status, processed' = processed, SameReads, SameMisses
  PROVE  Apart' /\ Placed' /\ FinishedOnce'
<1>1. \A d \in FirstLevel, y \in Line : Asking(d, y)' = Asking(d, y) /\ Missing(d, y)' = Missing(d, y)
  BY DEF Asking, Missing, SameReads, SameMisses
<1>2. \A d \in FirstLevel : Finished(d)' = Finished(d)
  BY DEF Finished
<1>3. \A k \in Place : Held(k)' = Held(k)
  <2>1. PICK S : S = {}
    OBVIOUS
  <2>2. \A k \in Place \ S : Held(k)' = Held(k)
    BY <1>1, <1>2, OthersKeep
  <2> QED BY <2>1, <2>2
<1>4. FinishedOnce'
  BY DEF Conserved, FinishedOnce, FirstLevel
<1> QED BY <1>3, <1>4, Unmoved DEF Conserved

(* A request that a cache with room in PROCESSED finishes is there. *)
LEMMA FinishHeld ==
  ASSUME Ends, ProcessedRoom, FinishedOnce, NEW c \in FirstLevel, NEW deps \in SUBSET Req,
         deps \cap Finished(c) = {}, processed' = Finish(c, deps)
  PROVE  /\ Finished(c)' = Finished(c) \cup deps
         /\ \A d \in FirstLevel : d # c => Finished(d)' = Finished(d)
         /\ FinishedOnce'
<1>0. processed \in [FirstLevel -> Seq(SUBSET Req)] /\ OnceIn(processed[c])
  BY DEF Ends, FinishedOnce
<1>1. PICK s \in Seq(SUBSET Req) : s = processed[c]
  BY <1>0
<1>2. Len(processed[c]) < PROCESSED_SIZE
  BY DEF ProcessedRoom
<1>3. PICK n : n = Append(s, deps)
  OBVIOUS
<1>4. processed' = [processed EXCEPT ![c] = n]
  BY <1>1, <1>2, <1>3 DEF Finish
<1>5. processed'[c] = n /\ \A d \in FirstLevel : d # c => processed'[d] = processed[d]
  BY <1>0, <1>4
<1>6. deps \cap DoneIn(s) = {} /\ OnceIn(s)
  BY <1>0, <1>1 DEF Finished
<1>7. DoneIn(n) = DoneIn(s) \cup deps /\ OnceIn(n)
  BY <1>3, <1>6, DoneAppend
<1>8. \A d \in FirstLevel : OnceIn(processed'[d])
  BY <1>5, <1>7 DEF FinishedOnce
<1>9. FinishedOnce'
  BY <1>8 DEF FinishedOnce, FirstLevel
<1> QED BY <1>1, <1>5, <1>7, <1>9 DEF Finished

(* The requests of a read join the miss for its line. *)
LEMMA ReadJoins ==
  ASSUME Conserved, status' = status, processed' = processed, NEW c \in FirstLevel, NEW x \in Line,
         AskedIn(rq'[c], x) = {}, OnlyReads(c, x), OnlyMisses(c, x),
         mshr'[c][x].deps = mshr[c][x].deps \cup AskedIn(rq[c], x)
  PROVE  Apart' /\ Placed' /\ FinishedOnce'
<1>1. PICK a, b : a = <<c, "RQ", x>> /\ b = <<c, "MSHR", x>>
  OBVIOUS
<1>2. a \in Place /\ b \in Place /\ a # b
  BY <1>1, PlaceCases
<1>3. Asking(c, x)' = {} /\ Missing(c, x)' = Missing(c, x) \cup Asking(c, x)
  BY DEF Asking, Missing
<1>4. Held(a) = Asking(c, x) /\ Held(b) = Missing(c, x) /\ Held(a)' = Asking(c, x)' /\ Held(b)' = Missing(c, x)'
  BY <1>1, HeldAt
<1>5. \A d \in FirstLevel, y \in Line :
        /\ <<d, "RQ", y>> \in {a, b} \/ Asking(d, y)' = Asking(d, y)
        /\ <<d, "MSHR", y>> \in {a, b} \/ Missing(d, y)' = Missing(d, y)
  <2> SUFFICES ASSUME NEW d \in FirstLevel, NEW y \in Line
               PROVE  /\ <<d, "RQ", y>> \in {a, b} \/ Asking(d, y)' = Asking(d, y)
                      /\ <<d, "MSHR", y>> \in {a, b} \/ Missing(d, y)' = Missing(d, y)
    OBVIOUS
  <2>1. CASE d = c /\ y = x
    BY <1>1, <2>1
  <2>2. CASE d # c \/ y # x
    BY <2>2 DEF Asking, Missing, OnlyReads, OnlyMisses
  <2> QED BY <2>1, <2>2
<1>6. \A d \in FirstLevel : Finished(d)' = Finished(d)
  BY DEF Finished
<1>7. \A k \in Place \ {a, b} : Held(k)' = Held(k)
  BY <1>5, <1>6, OthersKeep
<1>8. Apart' /\ Placed'
  BY <1>2, <1>3, <1>4, <1>7, Moved DEF Conserved
<1>9. FinishedOnce'
  BY DEF Conserved, FinishedOnce, FirstLevel
<1> QED BY <1>8, <1>9

(* The requests of a read that hits are finished. *)
LEMMA ReadFinishes ==
  ASSUME Ends, ProcessedRoom, Conserved, status' = status, NEW c \in FirstLevel, NEW x \in Line,
         NEW deps \in SUBSET Req, processed' = Finish(c, deps), deps = AskedIn(rq[c], x),
         AskedIn(rq'[c], x) = {}, OnlyReads(c, x), SameMisses
  PROVE  Apart' /\ Placed' /\ FinishedOnce'
<1>1. PICK a, b : a = <<c, "RQ", x>> /\ b = <<c, "PROCESSED", NoLine>>
  OBVIOUS
<1>2. a \in Place /\ b \in Place /\ a # b
  BY <1>1, PlaceCases
<1>3. Held(a) = Asking(c, x) /\ Held(b) = Finished(c) /\ Held(a)' = Asking(c, x)' /\ Held(b)' = Finished(c)'
  BY <1>1, HeldAt
<1>4. deps = Asking(c, x) /\ Asking(c, x)' = {}
  BY DEF Asking
<1>5. deps \cap Finished(c) = {}
  BY <1>2, <1>3, <1>4 DEF Conserved, Apart
<1>6. /\ Finished(c)' = Finished(c) \cup deps
      /\ \A d \in FirstLevel : d # c => Finished(d)' = Finished(d)
      /\ FinishedOnce'
  BY <1>5, FinishHeld DEF Conserved
<1>7. \A d \in FirstLevel, y \in Line :
        /\ <<d, "RQ", y>> \in {a, b} \/ Asking(d, y)' = Asking(d, y)
        /\ <<d, "MSHR", y>> \in {a, b} \/ Missing(d, y)' = Missing(d, y)
  <2> SUFFICES ASSUME NEW d \in FirstLevel, NEW y \in Line
               PROVE  /\ <<d, "RQ", y>> \in {a, b} \/ Asking(d, y)' = Asking(d, y)
                      /\ <<d, "MSHR", y>> \in {a, b} \/ Missing(d, y)' = Missing(d, y)
    OBVIOUS
  <2>1. <<d, "RQ", y>> \in {a, b} \/ Asking(d, y)' = Asking(d, y)
    BY <1>1 DEF Asking, OnlyReads
  <2> QED BY <2>1 DEF Missing, SameMisses
<1>8. \A d \in FirstLevel : <<d, "PROCESSED", NoLine>> \in {a, b} \/ Finished(d)' = Finished(d)
  BY <1>1, <1>6
<1>9. \A k \in Place \ {a, b} : Held(k)' = Held(k)
  BY <1>7, <1>8, OthersKeep
<1> QED BY <1>2, <1>3, <1>4, <1>6, <1>9, Moved DEF Conserved

(* The requests of a miss that is filled are finished. *)
LEMMA MissFinishes ==
  ASSUME Ends, ProcessedRoom, Conserved, status' = status, NEW c \in FirstLevel, NEW x \in Line,
         NEW deps \in SUBSET Req, processed' = Finish(c, deps), deps = mshr[c][x].deps,
         mshr'[c][x].deps = {}, OnlyMisses(c, x), SameReads
  PROVE  Apart' /\ Placed' /\ FinishedOnce'
<1>1. PICK a, b : a = <<c, "MSHR", x>> /\ b = <<c, "PROCESSED", NoLine>>
  OBVIOUS
<1>2. a \in Place /\ b \in Place /\ a # b
  BY <1>1, PlaceCases
<1>3. Held(a) = Missing(c, x) /\ Held(b) = Finished(c) /\ Held(a)' = Missing(c, x)' /\ Held(b)' = Finished(c)'
  BY <1>1, HeldAt
<1>4. deps = Missing(c, x) /\ Missing(c, x)' = {}
  BY DEF Missing
<1>5. deps \cap Finished(c) = {}
  BY <1>2, <1>3, <1>4 DEF Conserved, Apart
<1>6. /\ Finished(c)' = Finished(c) \cup deps
      /\ \A d \in FirstLevel : d # c => Finished(d)' = Finished(d)
      /\ FinishedOnce'
  BY <1>5, FinishHeld DEF Conserved
<1>7. \A d \in FirstLevel, y \in Line :
        /\ <<d, "RQ", y>> \in {a, b} \/ Asking(d, y)' = Asking(d, y)
        /\ <<d, "MSHR", y>> \in {a, b} \/ Missing(d, y)' = Missing(d, y)
  <2> SUFFICES ASSUME NEW d \in FirstLevel, NEW y \in Line
               PROVE  /\ <<d, "RQ", y>> \in {a, b} \/ Asking(d, y)' = Asking(d, y)
                      /\ <<d, "MSHR", y>> \in {a, b} \/ Missing(d, y)' = Missing(d, y)
    OBVIOUS
  <2>1. <<d, "MSHR", y>> \in {a, b} \/ Missing(d, y)' = Missing(d, y)
    BY <1>1 DEF Missing, OnlyMisses
  <2> QED BY <2>1 DEF Asking, SameReads
<1>8. \A d \in FirstLevel : <<d, "PROCESSED", NoLine>> \in {a, b} \/ Finished(d)' = Finished(d)
  BY <1>1, <1>6
<1>9. \A k \in Place \ {a, b} : Held(k)' = Held(k)
  BY <1>7, <1>8, OthersKeep
<1> QED BY <1>2, <1>3, <1>4, <1>6, <1>9, Moved DEF Conserved
-----------------------------------------------------------------------------
(* The steps. *)

(* Nobody waits for a prefetch, after a step that changes only the miss of *)
(* c for x.                                                                *)
LEMMA OthersUnasked ==
  ASSUME Traffic, Conserved, NEW c \in Cache, NEW x \in Line,
         \A d \in Cache, y \in Line : d # c \/ y # x => mshr'[d][y] = mshr[d][y],
         mshr'[c][x].type = "PREFETCH" => mshr'[c][x].deps = {},
         [Next]_vars
  PROVE  PrefetchesUnasked'
<1>1. PrefetchesUnasked
  BY DEF Conserved
<1>2. \A d \in Cache, y \in Line : mshr'[d][y].type = "PREFETCH" => mshr'[d][y].deps = {}
  BY <1>1 DEF PrefetchesUnasked
<1>3. \A d \in Cache, y \in Line : \A p \in At(pq'[d], y) : p.deps = {}
  BY <1>1, PrefetchQueuesStep
<1> QED BY <1>2, <1>3 DEF PrefetchesUnasked

(* The requests of a demand that misses are with its miss. *)
LEMMA DemandJoins ==
  ASSUME Traffic, Conserved, NEW c \in Cache, NEW p \in Packet, p.line \in Line, p.type # "PREFETCH",
         \/ mshr[c][p.line] = Free /\ \E r : NewMiss(c, p, r)
         \/ mshr[c][p.line] # Free /\ mshr' = [mshr EXCEPT ![c][p.line] = Merged(@, p)]
  PROVE  /\ mshr'[c][p.line].deps = mshr[c][p.line].deps \cup p.deps
         /\ mshr'[c][p.line].type # "PREFETCH"
         /\ \A d \in Cache, y \in Line : d # c \/ y # p.line => mshr'[d][y] = mshr[d][y]
<1>1. PICK x \in Line : x = p.line
  OBVIOUS
<1>2. PICK m :
        /\ mshr' = [mshr EXCEPT ![c][x] = m]
        /\ \/ /\ mshr[c][x] = Free \/ mshr[c][x].type = "PREFETCH"
              /\ m.type = p.type /\ m.deps = p.deps
           \/ /\ mshr[c][x] # Free /\ mshr[c][x].type # "PREFETCH"
              /\ m.type = mshr[c][x].type /\ m.deps = mshr[c][x].deps \cup p.deps
  BY SMTT(60), <1>1, DemandEntry
<1>3. /\ mshr'[c][x] = m
      /\ \A d \in Cache, y \in Line : d # c \/ y # x => mshr'[d][y] = mshr[d][y]
  <2>1. mshr' = [mshr EXCEPT ![c][x] = m]
    BY <1>2
  <2> QED BY <2>1 DEF Traffic, Typed
<1>4. mshr[c][x] = Free \/ mshr[c][x].type = "PREFETCH" => mshr[c][x].deps = {}
  BY DEF Conserved, PrefetchesUnasked, Free
<1>5. m.deps = mshr[c][x].deps \cup p.deps /\ m.type # "PREFETCH"
  BY <1>2, <1>4
<1> QED BY <1>1, <1>3, <1>5

(* A miss changes the read queues of the levels below, never those the     *)
(* core fills.                                                             *)
LEMMA NewMissReads ==
  ASSUME Traffic, NEW c \in Cache, NEW p \in Packet, NEW q, NewMiss(c, p, q)
  PROVE  \A d \in FirstLevel : rq'[d] = IF d = c THEN q ELSE rq[d]
<1>0. rq \in [Cache -> Seq(Packet)]
  BY DEF Traffic, Typed
<1>1. CASE lower[c] \notin Cache
  <2>1. rq' = [rq EXCEPT ![c] = q]
    BY <1>1, LevelsAssumption DEF NewMiss
  <2> QED BY <1>0, <2>1 DEF FirstLevel
<1>2. CASE lower[c] \in Cache
  <2>1. PICK e \in Cache : e = lower[c] /\ e \notin FirstLevel /\ e # c
    BY <1>2, Levels, UpperIsSide
  <2>2. PICK n : rq' = [rq EXCEPT ![c] = q, ![e] = n]
    <3>1. PICK n : n = IF ForwardedBelow(c, p.line) THEN rq[e] ELSE Queued(rq[e], p, RQ_SIZE[e])
      OBVIOUS
    <3>2. e # DRAM /\ e # NoCache
      BY LevelsAssumption
    <3>3. rq' = [rq EXCEPT ![c] = q, ![e] = n]
      BY <1>0, <2>1, <3>1, <3>2 DEF NewMiss
    <3> QED BY <3>3
  <2>3. \A d \in Cache : rq'[d] = IF d = e THEN n ELSE IF d = c THEN q ELSE rq[d]
    BY <1>0, <2>1, <2>2
  <2> QED BY <2>1, <2>3 DEF FirstLevel
<1> QED BY <1>1, <1>2

(* A read leaves its queue with its requests. *)
LEMMA HeadLeaves ==
  ASSUME Traffic, NEW c \in FirstLevel, NEW p \in Packet, rq[c] # <<>>, p = Head(rq[c]),
         \A d \in FirstLevel : rq'[d] = IF d = c THEN Tail(rq[c]) ELSE rq[d]
  PROVE  /\ AskedIn(rq[c], p.line) = p.deps /\ AskedIn(rq'[c], p.line) = {}
         /\ OnlyReads(c, p.line)
<1>1. PICK q \in Seq(Packet) : q = rq[c] /\ Distinct(q)
  BY DEF Traffic, Typed, Lawful, FirstLevel
<1>2. /\ AskedIn(q, p.line) = p.deps
      /\ AskedIn(Tail(q), p.line) = {}
      /\ \A x : x # p.line => AskedIn(Tail(q), x) = AskedIn(q, x)
  BY <1>1, AskedTail
<1> QED BY <1>1, <1>2 DEF OnlyReads

(* A step that neither moves a request nor begins or ends a miss.          *)
LEMMA QuietStep ==
  ASSUME Traffic, Conserved, [Next]_vars, status' = status, processed' = processed, SameReads,
         \A d \in Cache, y \in Line :
           mshr'[d][y].deps = mshr[d][y].deps /\ mshr'[d][y].type = mshr[d][y].type
  PROVE  Conserved'
<1>1. SameMisses
  BY DEF SameMisses, FirstLevel
<1>2. Apart' /\ Placed' /\ FinishedOnce'
  BY <1>1, NothingMoves
<1>3. PrefetchesUnasked
  BY DEF Conserved
<1>4. \A d \in Cache, y \in Line : mshr'[d][y].type = "PREFETCH" => mshr'[d][y].deps = {}
  BY <1>3 DEF PrefetchesUnasked
<1>5. \A d \in Cache, y \in Line : \A p \in At(pq'[d], y) : p.deps = {}
  BY <1>3, PrefetchQueuesStep
<1>6. PrefetchesUnasked'
  BY <1>4, <1>5 DEF PrefetchesUnasked
<1> QED BY <1>2, <1>6 DEF Conserved

(* handle_read, miss. *)
LEMMA ReadMissConserves ==
  ASSUME Traffic, Conserved, NEW c \in Cache, ReadMiss(c)
  PROVE  Conserved'
<1>0. [Next]_vars
  BY DEF Next, Operate
<1>1. rq[c] # <<>> /\ status' = status /\ processed' = processed
  BY DEF ReadMiss
<1>2. PICK p \in Packet : p = Head(rq[c]) /\ p.line \in Line /\ p \in At(rq[c], p.line)
  BY <1>1, HeadAt DEF Traffic, Typed
<1>3. p.type # "PREFETCH"
  BY <1>2 DEF Traffic, Lawful, LawfulAt, LawfulRead
<1>4. \/ mshr[c][p.line] = Free /\ NewMiss(c, p, Tail(rq[c]))
      \/ /\ mshr[c][p.line] # Free /\ mshr' = [mshr EXCEPT ![c][p.line] = Merged(@, p)]
         /\ rq' = [rq EXCEPT ![c] = Tail(@)]
  BY SMTT(60), <1>2 DEF ReadMiss
<1>5. /\ mshr'[c][p.line].deps = mshr[c][p.line].deps \cup p.deps
      /\ mshr'[c][p.line].type # "PREFETCH"
      /\ \A d \in Cache, y \in Line : d # c \/ y # p.line => mshr'[d][y] = mshr[d][y]
  BY SMTT(60), <1>2, <1>3, <1>4, DemandJoins
<1>6. \A d \in FirstLevel : rq'[d] = IF d = c THEN Tail(rq[c]) ELSE rq[d]
  <2>1. CASE NewMiss(c, p, Tail(rq[c]))
    BY <2>1, NewMissReads
  <2>2. CASE rq' = [rq EXCEPT ![c] = Tail(@)]
    BY <2>2 DEF Traffic, Typed, FirstLevel
  <2> QED BY <1>4, <2>1, <2>2
<1>7. PrefetchesUnasked'
  BY <1>0, <1>2, <1>5, OthersUnasked
<1>8. CASE c \in FirstLevel
  <2>1. /\ AskedIn(rq[c], p.line) = p.deps /\ AskedIn(rq'[c], p.line) = {}
        /\ OnlyReads(c, p.line)
    BY <1>1, <1>2, <1>6, <1>8, HeadLeaves
  <2>2. OnlyMisses(c, p.line)
    BY <1>5 DEF OnlyMisses, FirstLevel
  <2>3. Apart' /\ Placed' /\ FinishedOnce'
    BY <1>1, <1>2, <1>5, <1>8, <2>1, <2>2, ReadJoins
  <2> QED BY <1>7, <2>3 DEF Conserved
<1>9. CASE c \notin FirstLevel
  <2>1. SameReads /\ SameMisses
    BY <1>5, <1>6, <1>9 DEF SameReads, SameMisses, FirstLevel
  <2>2. Apart' /\ Placed' /\ FinishedOnce'
    BY <1>1, <2>1, NothingMoves
  <2> QED BY <1>7, <2>2 DEF Conserved
<1> QED BY <1>8, <1>9

(* handle_read, hit. *)
LEMMA ReadHitConserves ==
  ASSUME Traffic, Ends, ProcessedRoom, Conserved, NEW c \in Cache, ReadHit(c)
  PROVE  Conserved'
<1>0. [Next]_vars
  BY DEF Next, Operate
<1>1. rq[c] # <<>> /\ status' = status /\ rq' = [rq EXCEPT ![c] = Tail(@)]
  BY DEF ReadHit
<1>2. PICK p \in Packet : p = Head(rq[c]) /\ p.line \in Line
  BY <1>1, HeadAt DEF Traffic, Typed
<1>3. \A d \in Cache, y \in Line :
        mshr'[d][y].deps = mshr[d][y].deps /\ mshr'[d][y].type = mshr[d][y].type
  <2>1. PICK ms \in [Cache -> [Line -> MshrEntry \cup {Free}]] : ms = mshr
    BY DEF Traffic, Typed
  <2>2. mshr' = Returned(ms, c, p)
    BY <1>2, <2>1 DEF ReadHit
  <2> QED BY <1>2, <2>1, <2>2, ReturnedTypes
<1>4. \A d \in FirstLevel : rq'[d] = IF d = c THEN Tail(rq[c]) ELSE rq[d]
  BY <1>1 DEF Traffic, Typed, FirstLevel
<1>5. CASE c \in FirstLevel
  <2>1. /\ AskedIn(rq[c], p.line) = p.deps /\ AskedIn(rq'[c], p.line) = {}
        /\ OnlyReads(c, p.line)
    BY <1>1, <1>2, <1>4, <1>5, HeadLeaves
  <2>2. SameMisses
    BY <1>3 DEF SameMisses, FirstLevel
  <2>3. PICK deps \in SUBSET Req : deps = p.deps
    BY DEF Packet
  <2>4. processed' = Finish(c, deps)
    BY <1>2, <1>5, <2>3 DEF ReadHit
  <2>5. Apart' /\ Placed' /\ FinishedOnce'
    BY <1>1, <1>2, <1>5, <2>1, <2>2, <2>3, <2>4, ReadFinishes
  <2>6. PrefetchesUnasked'
    <3>1. PrefetchesUnasked
      BY DEF Conserved
    <3>2. \A d \in Cache, y \in Line : mshr'[d][y].type = "PREFETCH" => mshr'[d][y].deps = {}
      BY <1>3, <3>1 DEF PrefetchesUnasked
    <3>3. \A d \in Cache, y \in Line : \A r \in At(pq'[d], y) : r.deps = {}
      BY <1>0, <3>1, PrefetchQueuesStep
    <3> QED BY <3>2, <3>3 DEF PrefetchesUnasked
  <2> QED BY <2>5, <2>6 DEF Conserved
<1>6. CASE c \notin FirstLevel
  <2>1. SameReads /\ processed' = processed
    BY <1>4, <1>6 DEF SameReads, ReadHit
  <2> QED BY <1>0, <1>1, <1>3, <2>1, QuietStep
<1> QED BY <1>5, <1>6

(* handle_writeback, miss in the L1D: nobody waits for a store. *)
LEMMA StoreMissConserves ==
  ASSUME Traffic, Writes, Conserved, NEW c \in Cache, StoreMiss(c)
  PROVE  Conserved'
<1>0. [Next]_vars
  BY DEF Next, Operate
<1>1. wq[c] # <<>> /\ status' = status /\ processed' = processed /\ kind[c] = "L1D"
  BY DEF StoreMiss
<1>2. PICK p \in Packet : p = Head(wq[c]) /\ p.line \in Line /\ LawfulWrite(c, p)
  BY <1>1, HeadWrite
<1>3. p.type # "PREFETCH" /\ p.deps = {}
  BY <1>2 DEF LawfulWrite
<1>4. \/ mshr[c][p.line] = Free /\ NewMiss(c, p, rq[c])
      \/ mshr[c][p.line] # Free /\ mshr' = [mshr EXCEPT ![c][p.line] = Merged(@, p)] /\ rq' = rq
  BY SMTT(60), <1>2 DEF StoreMiss
<1>5. /\ mshr'[c][p.line].deps = mshr[c][p.line].deps \cup p.deps
      /\ mshr'[c][p.line].type # "PREFETCH"
      /\ \A d \in Cache, y \in Line : d # c \/ y # p.line => mshr'[d][y] = mshr[d][y]
  BY SMTT(60), <1>2, <1>3, <1>4, DemandJoins
<1>6. \A d \in FirstLevel : rq'[d] = rq[d]
  <2>1. CASE NewMiss(c, p, rq[c])
    BY <2>1, NewMissReads
  <2> QED BY <1>4, <2>1
<1>7. PrefetchesUnasked'
  BY <1>0, <1>2, <1>5, OthersUnasked
<1>8. SameReads /\ SameMisses
  <2>1. \A d \in FirstLevel, y \in Line : mshr'[d][y].deps = mshr[d][y].deps
    BY <1>2, <1>3, <1>5 DEF FirstLevel
  <2> QED BY <1>6, <2>1 DEF SameReads, SameMisses
<1>9. Apart' /\ Placed' /\ FinishedOnce'
  BY <1>1, <1>8, NothingMoves
<1> QED BY <1>7, <1>9 DEF Conserved

(* handle_prefetch: a prefetch that misses asks for nobody, one that hits  *)
(* or finds its line in flight changes no request.                         *)
LEMMA PrefetchConserves ==
  ASSUME Traffic, Conserved, NEW c \in Cache, PrefetchHit(c) \/ PrefetchMiss(c) \/ PrefetchMerge(c)
  PROVE  Conserved'
<1>0. [Next]_vars
  BY SMTT(60) DEF Next, Operate
<1>1. pq[c] # <<>> /\ status' = status /\ processed' = processed /\ rq' = rq
  BY DEF PrefetchHit, PrefetchMiss, PrefetchMerge
<1>2. PICK p \in Packet : p = Head(pq[c]) /\ p.line \in Line /\ p \in At(pq[c], p.line)
  BY <1>1, HeadAt DEF Traffic, Typed
<1>3. PICK ms \in [Cache -> [Line -> MshrEntry \cup {Free}]] : ms = mshr
  BY DEF Traffic, Typed
<1>4. SameReads
  BY <1>1 DEF SameReads
<1>5. CASE PrefetchHit(c)
  <2>1. mshr' = Returned(ms, c, p)
    BY <1>2, <1>3, <1>5 DEF PrefetchHit
  <2>2. \A d \in Cache, y \in Line :
          mshr'[d][y].deps = mshr[d][y].deps /\ mshr'[d][y].type = mshr[d][y].type
    BY <1>2, <1>3, <2>1, ReturnedTypes
  <2> QED BY <1>0, <1>1, <1>4, <2>2, QuietStep
<1>6. CASE PrefetchMerge(c)
  <2>1. PICK e : e = [ms[c][p.line] EXCEPT !.fill = IF p.fill < @ THEN p.fill ELSE @]
    OBVIOUS
  <2>2. ms[c][p.line] \in MshrEntry
    BY <1>2, <1>3, <1>6 DEF PrefetchMerge
  <2>3. e.deps = ms[c][p.line].deps /\ e.type = ms[c][p.line].type
    BY SMTT(60), <2>1, <2>2 DEF MshrEntry
  <2>4. mshr' = [mshr EXCEPT ![c][p.line] = e]
    BY <1>2, <1>3, <1>6, <2>1 DEF PrefetchMerge
  <2>5. /\ mshr'[c][p.line] = e
        /\ \A d \in Cache, y \in Line : d # c \/ y # p.line => mshr'[d][y] = mshr[d][y]
    BY <1>2, <2>4 DEF Traffic, Typed
  <2>6. \A d \in Cache, y \in Line :
          mshr'[d][y].deps = mshr[d][y].deps /\ mshr'[d][y].type = mshr[d][y].type
    BY <1>3, <2>3, <2>5
  <2> QED BY <1>0, <1>1, <1>4, <2>6, QuietStep
<1>7. CASE PrefetchMiss(c)
  <2>1. p.deps = {} /\ mshr[c][p.line] = Free
    BY <1>2, <1>7 DEF Conserved, PrefetchesUnasked, PrefetchMiss
  <2>2. PICK e : e = Entry(p, ForwardedBelow(c, p.line))
    OBVIOUS
  <2>3. e.deps = {}
    BY <2>1, <2>2 DEF Entry
  <2>4. mshr' = mshr \/ mshr' = [mshr EXCEPT ![c][p.line] = e]
    BY <1>2, <1>7, <2>2 DEF PrefetchMiss
  <2>5. /\ mshr'[c][p.line].deps = {}
        /\ \A d \in Cache, y \in Line : d # c \/ y # p.line => mshr'[d][y] = mshr[d][y]
    <3>1. CASE mshr' = mshr
      BY <2>1, <3>1 DEF Free
    <3>2. CASE mshr' = [mshr EXCEPT ![c][p.line] = e]
      BY <1>2, <2>3, <3>2 DEF Traffic, Typed
    <3> QED BY <2>4, <3>1, <3>2
  <2>6. mshr[c][p.line].deps = {}
    BY <2>1 DEF Free
  <2>7. SameMisses
    <3>1. \A d \in FirstLevel, y \in Line : mshr'[d][y].deps = mshr[d][y].deps
      BY <1>2, <2>5, <2>6 DEF FirstLevel
    <3> QED BY <3>1 DEF SameMisses
  <2>8. PrefetchesUnasked'
    BY <1>0, <1>2, <2>5, OthersUnasked
  <2>9. Apart' /\ Placed' /\ FinishedOnce'
    BY <1>1, <1>4, <2>7, NothingMoves
  <2> QED BY <2>8, <2>9 DEF Conserved
<1> QED BY <1>5, <1>6, <1>7

(* The steps that leave reads, misses and finished requests alone. *)
LEMMA StillConserved ==
  ASSUME Traffic, Conserved, [Next]_vars, status' = status, processed' = processed, rq' = rq, mshr' = mshr
  PROVE  Conserved'
<1>1. SameReads
  BY DEF SameReads
<1> QED BY <1>1, QuietStep

(* handle_writeback: a write returns no data. *)
LEMMA WritebackConserves ==
  ASSUME Traffic, Writes, Conserved, NEW c \in Cache, WritebackHit(c) \/ WritebackMiss(c)
  PROVE  Conserved'
<1>0. [Next]_vars
  BY DEF Next, Operate
<1>1. wq[c] # <<>> /\ status' = status /\ processed' = processed /\ rq' = rq
  BY DEF WritebackHit, WritebackMiss
<1>2. mshr' = Returned(mshr, c, Head(wq[c]))
  BY DEF WritebackHit, WritebackMiss
<1>3. mshr' = mshr
  BY <1>1, <1>2, WriteReturnsNothing
<1> QED BY <1>0, <1>1, <1>3, StillConserved

(* DRAM answers a miss. *)
LEMMA DramReturnConserves ==
  ASSUME Traffic, Conserved, NEW c \in Cache, NEW x \in Line, DramReturn(c, x)
  PROVE  Conserved'
<1>0. [Next]_vars
  BY DEF Next
<1>1. status' = status /\ processed' = processed /\ rq' = rq
  BY DEF DramReturn
<1>2. CASE mshr[c][x] = Free
  <2>1. mshr' = mshr
    BY <1>2 DEF DramReturn
  <2> QED BY <1>0, <1>1, <2>1, StillConserved
<1>3. CASE mshr[c][x] # Free
  <2>1. PICK e : e = [mshr[c][x] EXCEPT !.returned = TRUE]
    OBVIOUS
  <2>2. mshr[c][x] \in MshrEntry
    BY <1>3 DEF Traffic, Typed
  <2>3. e.deps = mshr[c][x].deps /\ e.type = mshr[c][x].type
    BY <2>1, <2>2, ReturnedEntry
  <2>4. mshr' = [mshr EXCEPT ![c][x] = e]
    BY <1>3, <2>1 DEF DramReturn
  <2>5. /\ mshr'[c][x] = e
        /\ \A d \in Cache, y \in Line : d # c \/ y # x => mshr'[d][y] = mshr[d][y]
    BY <2>4 DEF Traffic, Typed
  <2>6. \A d \in Cache, y \in Line :
          mshr'[d][y].deps = mshr[d][y].deps /\ mshr'[d][y].type = mshr[d][y].type
    BY <2>3, <2>5
  <2>7. SameReads
    BY <1>1 DEF SameReads
  <2> QED BY <1>0, <1>1, <2>6, <2>7, QuietStep
<1> QED BY <1>2, <1>3

(* handle_fill: the requests that waited for the line are finished.        *)
LEMMA HandleFillConserves ==
  ASSUME Traffic, Ends, ProcessedRoom, Conserved, NEW c \in Cache, NEW x \in Line, HandleFill(c, x)
  PROVE  Conserved'
<1>0. [Next]_vars
  BY DEF Next, Operate
<1>1. /\ status' = status /\ rq' = rq
      /\ mshr[c][x] # Free
      /\ processed' = IF c \in FirstLevel /\ ~(kind[c] = "L1D" /\ mshr[c][x].type = "PREFETCH")
                      THEN Finish(c, mshr[c][x].deps) ELSE processed
  BY DEF HandleFill, ReadyToFill
<1>2. PICK e : e = mshr[c][x]
  OBVIOUS
<1>3. PICK p : p = [line |-> x, type |-> e.type, instr |-> e.instr, fill |-> e.fill, deps |-> e.deps]
  OBVIOUS
<1>4. PICK ms : ms = [mshr EXCEPT ![c][x] = Free]
  OBVIOUS
<1>5. /\ ms \in [Cache -> [Line -> MshrEntry \cup {Free}]] /\ ms[c][x] = Free
      /\ \A d \in Cache, y \in Line : d # c \/ y # x => ms[d][y] = mshr[d][y]
  BY <1>4 DEF Traffic, Typed
<1>6. mshr' = Returned(ms, c, p) /\ p.line \in Line
  BY <1>2, <1>3, <1>4 DEF HandleFill
<1>7. \A d \in Cache, y \in Line :
        mshr'[d][y].deps = ms[d][y].deps /\ mshr'[d][y].type = ms[d][y].type
  BY <1>5, <1>6, ReturnedTypes
<1>8. mshr'[c][x].deps = {} /\ OnlyMisses(c, x)
  BY <1>5, <1>7 DEF OnlyMisses, FirstLevel, Free
<1>9. SameReads
  BY <1>1 DEF SameReads
<1>10. PrefetchesUnasked
  BY DEF Conserved
<1>11. PrefetchesUnasked'
  <2>1. \A d \in Cache, y \in Line : mshr'[d][y].type = "PREFETCH" => mshr'[d][y].deps = {}
    BY <1>5, <1>7, <1>8, <1>10 DEF PrefetchesUnasked
  <2>2. \A d \in Cache, y \in Line : \A r \in At(pq'[d], y) : r.deps = {}
    BY <1>0, <1>10, PrefetchQueuesStep
  <2> QED BY <2>1, <2>2 DEF PrefetchesUnasked
<1>12. CASE c \in FirstLevel /\ ~(kind[c] = "L1D" /\ e.type = "PREFETCH")
  <2>1. PICK deps \in SUBSET Req : deps = mshr[c][x].deps
    <3>1. mshr[c][x] \in MshrEntry
      BY <1>1 DEF Traffic, Typed
    <3> QED BY <3>1 DEF MshrEntry
  <2>2. processed' = Finish(c, deps)
    BY <1>1, <1>2, <1>12, <2>1
  <2>3. Apart' /\ Placed' /\ FinishedOnce'
    BY <1>1, <1>8, <1>9, <1>12, <2>1, <2>2, MissFinishes
  <2> QED BY <1>11, <2>3 DEF Conserved
<1>13. CASE ~(c \in FirstLevel /\ ~(kind[c] = "L1D" /\ e.type = "PREFETCH"))
  <2>1. processed' = processed
    BY <1>1, <1>2, <1>13
  <2>2. c \in FirstLevel => mshr[c][x].deps = {}
    BY <1>2, <1>10, <1>13 DEF PrefetchesUnasked
  <2>3. SameMisses
    <3>1. \A d \in FirstLevel, y \in Line : mshr'[d][y].deps = mshr[d][y].deps
      BY <1>8, <2>2 DEF OnlyMisses
    <3> QED BY <3>1 DEF SameMisses
  <2>4. Apart' /\ Placed' /\ FinishedOnce'
    BY <1>1, <1>9, <2>1, <2>3, NothingMoves
  <2> QED BY <1>11, <2>4 DEF Conserved
<1> QED BY <1>12, <1>13

(* A load or fetch of the core arrives: in the read queue, alone or with   *)
(* one that waits, or at once in PROCESSED, from a waiting store.          *)
LEMMA CpuReadConserves ==
  ASSUME Traffic, Ends, ProcessedRoom, Conserved,
         NEW c \in FirstLevel, NEW r \in Req, NEW x \in Line, CpuRead(c, r, x)
  PROVE  Conserved'
<1>0. [Next]_vars
  BY DEF Next, Core
<1>1. /\ status[r] = "idle" /\ status' = [status EXCEPT ![r] = "waiting"]
      /\ mshr' = mshr
  BY DEF CpuRead
<1>2. SameMisses
  BY <1>1 DEF SameMisses
<1>3. PrefetchesUnasked'
  <2>1. PrefetchesUnasked
    BY DEF Conserved
  <2>2. \A d \in Cache, y \in Line : mshr'[d][y].type = "PREFETCH" => mshr'[d][y].deps = {}
    BY <1>1, <2>1 DEF PrefetchesUnasked
  <2>3. \A d \in Cache, y \in Line : \A p \in At(pq'[d], y) : p.deps = {}
    BY <1>0, <2>1, PrefetchQueuesStep
  <2> QED BY <2>2, <2>3 DEF PrefetchesUnasked
<1>4. status \in [Req -> {"idle", "waiting", "done"}]
  BY DEF Ends
<1>5. CASE processed' = Finish(c, {r}) /\ rq' = rq
  <2>1. PICK b : b = <<c, "PROCESSED", NoLine>>
    OBVIOUS
  <2>2. b \in Place /\ Held(b) = Finished(c) /\ Held(b)' = Finished(c)'
    BY <2>1, PlaceCases, HeldAt
  <2>3. PICK deps \in SUBSET Req : deps = {r}
    OBVIOUS
  <2>4. deps \cap Finished(c) = {}
    <3>1. r \notin Finished(c)
      BY <1>1, <2>2 DEF Conserved, Placed
    <3> QED BY <2>3, <3>1
  <2>5. /\ Finished(c)' = Finished(c) \cup deps
        /\ \A d \in FirstLevel : d # c => Finished(d)' = Finished(d)
        /\ FinishedOnce'
    BY <1>5, <2>3, <2>4, FinishHeld DEF Conserved
  <2>6. \A d \in FirstLevel, y \in Line :
          Asking(d, y)' = Asking(d, y) /\ Missing(d, y)' = Missing(d, y)
    BY <1>1, <1>5 DEF Asking, Missing
  <2>7. \A d \in FirstLevel : <<d, "PROCESSED", NoLine>> \in {b} \/ Finished(d)' = Finished(d)
    BY <2>1, <2>5
  <2>8. \A k \in Place \ {b} : Held(k)' = Held(k)
    BY <2>6, <2>7, OthersKeep
  <2>9. Apart' /\ Placed'
    BY <1>1, <1>4, <2>2, <2>3, <2>5, <2>8, Arrived DEF Conserved
  <2> QED BY <1>3, <2>5, <2>9 DEF Conserved
<1>6. ASSUME processed' = processed, NEW n, rq' = [rq EXCEPT ![c] = n],
             \A y \in Line : AskedIn(n, y) = IF y = x THEN AskedIn(rq[c], y) \cup {r} ELSE AskedIn(rq[c], y)
      PROVE  Conserved'
  <2>1. PICK b : b = <<c, "RQ", x>>
    OBVIOUS
  <2>2. b \in Place /\ Held(b) = Asking(c, x) /\ Held(b)' = Asking(c, x)'
    BY <2>1, PlaceCases, HeldAt
  <2>3. \A d \in FirstLevel : rq'[d] = IF d = c THEN n ELSE rq[d]
    BY <1>6 DEF Traffic, Typed, FirstLevel
  <2>4. Asking(c, x)' = Asking(c, x) \cup {r}
    BY <1>6, <2>3 DEF Asking
  <2>5. \A d \in FirstLevel, y \in Line :
          /\ <<d, "RQ", y>> \in {b} \/ Asking(d, y)' = Asking(d, y)
          /\ Missing(d, y)' = Missing(d, y)
    BY <1>1, <1>6, <2>1, <2>3 DEF Asking, Missing
  <2>6. \A d \in FirstLevel : Finished(d)' = Finished(d)
    BY <1>6 DEF Finished
  <2>7. \A k \in Place \ {b} : Held(k)' = Held(k)
    BY <2>5, <2>6, OthersKeep
  <2>8. Apart' /\ Placed'
    BY <1>1, <1>4, <2>2, <2>4, <2>7, Arrived DEF Conserved
  <2>9. FinishedOnce'
    BY <1>6 DEF Conserved, FinishedOnce, FirstLevel
  <2> QED BY <1>3, <2>8, <2>9 DEF Conserved
<1>7. PICK q \in Seq(Packet) : q = rq[c]
  BY DEF Traffic, Typed, FirstLevel
<1>8. CASE processed' = processed /\ x \in Lines(rq[c]) /\ rq' = [rq EXCEPT ![c] = Joined(@, x, r)]
  <2>1. PICK n : n = Joined(q, x, r)
    OBVIOUS
  <2>2. \A y \in Line : AskedIn(n, y) = IF y = x THEN AskedIn(q, y) \cup {r} ELSE AskedIn(q, y)
    <3>1. x \in Lines(q)
      BY <1>7, <1>8
    <3>2. \A y : AskedIn(Joined(q, x, r), y) = IF y = x THEN AskedIn(q, y) \cup {r} ELSE AskedIn(q, y)
      BY <3>1, AskedJoined
    <3> QED BY <2>1, <3>2
  <2>3. rq' = [rq EXCEPT ![c] = n]
    BY <1>7, <1>8, <2>1
  <2> QED BY <1>6, <1>7, <1>8, <2>2, <2>3
<1>9. PICK p : p = [line |-> x, type |-> "LOAD", instr |-> kind[c] \in {"L1I", "ITLB"},
                    fill |-> 1, deps |-> {r}]
  OBVIOUS
<1>10. CASE processed' = processed /\ rq' = [rq EXCEPT ![c] = Append(@, p)]
  <2>1. p \in Packet /\ p.line = x /\ p.deps = {r}
    BY <1>9 DEF Packet, Types, Fills
  <2>2. PICK n : n = Append(q, p)
    OBVIOUS
  <2>3. \A y \in Line : AskedIn(n, y) = IF y = x THEN AskedIn(q, y) \cup {r} ELSE AskedIn(q, y)
    BY <2>1, <2>2, AskedAppend
  <2>4. rq' = [rq EXCEPT ![c] = n]
    BY <1>7, <1>10, <2>2
  <2> QED BY <1>6, <1>7, <1>10, <2>3, <2>4
<1>11. \/ processed' = Finish(c, {r}) /\ rq' = rq
       \/ processed' = processed /\ x \in Lines(rq[c]) /\ rq' = [rq EXCEPT ![c] = Joined(@, x, r)]
       \/ processed' = processed /\ rq' = [rq EXCEPT ![c] = Append(@, p)]
  BY <1>9 DEF CpuRead
<1> QED BY <1>5, <1>8, <1>10, <1>11

(* The core takes the head of PROCESSED: its requests are done. *)
LEMMA CpuCompleteConserves ==
  ASSUME Traffic, Ends, Conserved, NEW c \in FirstLevel, CpuComplete(c)
  PROVE  Conserved'
<1>0. [Next]_vars
  BY DEF Next, Core
<1>1. /\ processed[c] # <<>> /\ processed' = [processed EXCEPT ![c] = Tail(@)]
      /\ status' = [r \in Req |-> IF r \in Head(processed[c]) THEN "done" ELSE status[r]]
      /\ rq' = rq /\ mshr' = mshr
  BY DEF CpuComplete
<1>2. PICK s \in Seq(SUBSET Req) : s = processed[c] /\ OnceIn(s)
  BY DEF Ends, Conserved, FinishedOnce
<1>3. PICK h : h = Head(s)
  OBVIOUS
<1>4. DoneIn(Tail(s)) = DoneIn(s) \ h /\ h \subseteq DoneIn(s) /\ OnceIn(Tail(s))
  BY <1>1, <1>2, <1>3, DoneTail
<1>5. processed'[c] = Tail(s) /\ \A d \in FirstLevel : d # c => processed'[d] = processed[d]
  BY <1>1, <1>2 DEF Ends
<1>6. PICK a : a = <<c, "PROCESSED", NoLine>>
  OBVIOUS
<1>7. a \in Place /\ Held(a) = Finished(c) /\ Held(a)' = Finished(c)'
  BY <1>6, PlaceCases, HeldAt
<1>8. Held(a)' = Held(a) \ h /\ h \subseteq Held(a)
  BY <1>2, <1>4, <1>5, <1>7 DEF Finished
<1>9. \A k \in Place \ {a} : Held(k)' = Held(k)
  <2>1. \A d \in FirstLevel, y \in Line :
          Asking(d, y)' = Asking(d, y) /\ Missing(d, y)' = Missing(d, y)
    BY <1>1 DEF Asking, Missing
  <2>2. \A d \in FirstLevel : <<d, "PROCESSED", NoLine>> \in {a} \/ Finished(d)' = Finished(d)
    BY <1>5, <1>6 DEF Finished
  <2> QED BY <2>1, <2>2, OthersKeep
<1>10. Apart /\ Placed
  BY DEF Conserved
<1>11. Apart'
  <2> SUFFICES ASSUME NEW k \in Place, NEW l \in Place, k # l  PROVE Held(k)' \cap Held(l)' = {}
    BY DEF Apart, Place, FirstLevel
  <2> QED BY <1>8, <1>9, <1>10 DEF Apart
<1>12. Placed'
  <2>1. \A r \in Req : (\E k \in Place : r \in Held(k)') <=> r \notin h /\ (\E k \in Place : r \in Held(k))
    <3> SUFFICES ASSUME NEW r \in Req
                 PROVE  (\E k \in Place : r \in Held(k)') <=> r \notin h /\ (\E k \in Place : r \in Held(k))
      OBVIOUS
    <3>1. r \in h => \A k \in Place : k # a => r \notin Held(k)
      BY <1>7, <1>8, <1>10 DEF Apart
    <3> QED BY <1>7, <1>8, <1>9, <3>1
  <2>2. \A r \in Req : status'[r] = "waiting" <=> r \notin h /\ status[r] = "waiting"
    BY <1>1, <1>2, <1>3
  <2> QED BY <1>10, <2>1, <2>2 DEF Placed, Place, FirstLevel
<1>13. FinishedOnce'
  BY <1>4, <1>5 DEF Conserved, FinishedOnce, FirstLevel
<1>14. PrefetchesUnasked'
  <2>1. PrefetchesUnasked
    BY DEF Conserved
  <2>2. \A d \in Cache, y \in Line : mshr'[d][y].type = "PREFETCH" => mshr'[d][y].deps = {}
    BY <1>1, <2>1 DEF PrefetchesUnasked
  <2>3. \A d \in Cache, y \in Line : \A p \in At(pq'[d], y) : p.deps = {}
    BY <1>0, <2>1, PrefetchQueuesStep
  <2> QED BY <2>2, <2>3 DEF PrefetchesUnasked
<1> QED BY <1>11, <1>12, <1>13, <1>14 DEF Conserved

(* Every step conserves the requests while PROCESSED has room.             *)
LEMMA ConservedStep ==
  ASSUME IInv, ProcessedRoom, Conserved, [Next]_vars
  PROVE  Conserved'
<1>0. Traffic /\ Writes /\ Ends
  BY DEF IInv
<1>1. ASSUME status' = status, processed' = processed, rq' = rq, mshr' = mshr  PROVE Conserved'
  BY <1>0, <1>1, StillConserved
<1>2. CASE Core
  <2>1. CASE \E c \in FirstLevel, r \in Req, x \in Line : CpuRead(c, r, x)
    BY <1>0, <2>1, CpuReadConserves
  <2>2. CASE \E c \in FirstLevel : CpuComplete(c)
    BY <1>0, <2>2, CpuCompleteConserves
  <2>3. CASE (\E c \in FirstLevel, x \in Line : CpuStore(c, x))
             \/ (\E c \in Cache, x \in Line, f \in {1, 2, 4} : Prefetch(c, x, f))
             \/ (\E x \in Line : Invalidate(x))
    BY <1>1, <2>3 DEF CpuStore, Prefetch, Invalidate
  <2> QED BY <1>2, <2>1, <2>2, <2>3 DEF Core
<1>3. ASSUME NEW c \in Cache, Operate(c)  PROVE Conserved'
  <2>1. CASE \E x \in Line : HandleFill(c, x)
    BY <1>0, <2>1, HandleFillConserves
  <2>2. CASE WritebackHit(c) \/ WritebackMiss(c)
    BY <1>0, <2>2, WritebackConserves
  <2>3. CASE StoreMiss(c)
    BY <1>0, <2>3, StoreMissConserves
  <2>4. CASE ReadHit(c)
    BY <1>0, <2>4, ReadHitConserves
  <2>5. CASE ReadMiss(c)
    BY <1>0, <2>5, ReadMissConserves
  <2>6. CASE PrefetchHit(c) \/ PrefetchMiss(c) \/ PrefetchMerge(c)
    BY <1>0, <2>6, PrefetchConserves
  <2> QED BY <1>3, <2>1, <2>2, <2>3, <2>4, <2>5, <2>6 DEF Operate
<1>4. CASE \E c \in Cache, x \in Line : DramReturn(c, x)
  BY <1>0, <1>4, DramReturnConserves
<1>5. CASE UNCHANGED vars \/ \E x \in Line : DramWrite(x)
  BY <1>1, <1>5 DEF vars, DramWrite
<1> QED BY <1>2, <1>3, <1>4, <1>5 DEF Next
-----------------------------------------------------------------------------
(* Where requests wait, entry by entry. *)
WaitingPlaces(r) == UNION {{<<c, p>> : p \in Places(c, r)} : c \in FirstLevel}

(* The entry q of place k in which request r waits. *)
WaitsIn(k, q, r) ==
  \/ \E c \in FirstLevel : \E i \in DOMAIN rq[c] :
       k = <<c, "RQ", rq[c][i].line>> /\ q = <<c, <<"RQ", i>>>> /\ r \in rq[c][i].deps
  \/ \E c \in FirstLevel, x \in Line :
       k = <<c, "MSHR", x>> /\ q = <<c, <<"MSHR", x>>>> /\ r \in mshr[c][x].deps
  \/ \E c \in FirstLevel : \E i \in DOMAIN processed[c] :
       k = <<c, "PROCESSED", NoLine>> /\ q = <<c, <<"PROCESSED", i>>>> /\ r \in processed[c][i]

(* The waiting places of a request are entries of the places that hold it. *)
LEMMA PlacesOfEntries ==
  ASSUME Traffic, NEW r, NEW q
  PROVE  q \in WaitingPlaces(r) <=> \E k \in Place : WaitsIn(k, q, r)
<1> DEFINE InReads ==
             \E c \in FirstLevel : \E i \in DOMAIN rq[c] : q = <<c, <<"RQ", i>>>> /\ r \in rq[c][i].deps
           InMisses ==
             \E c \in FirstLevel, x \in Line : q = <<c, <<"MSHR", x>>>> /\ r \in mshr[c][x].deps
           InFinished ==
             \E c \in FirstLevel : \E i \in DOMAIN processed[c] :
               q = <<c, <<"PROCESSED", i>>>> /\ r \in processed[c][i]
<1>1. q \in WaitingPlaces(r) <=> InReads \/ InMisses \/ InFinished
  <2>1. q \in WaitingPlaces(r) <=> \E c \in FirstLevel : \E p \in Places(c, r) : q = <<c, p>>
    BY DEF WaitingPlaces
  <2>2. ASSUME NEW c \in FirstLevel, NEW p
        PROVE  p \in Places(c, r) <=>
                 \/ \E i \in DOMAIN rq[c] : p = <<"RQ", i>> /\ r \in rq[c][i].deps
                 \/ \E x \in Line : p = <<"MSHR", x>> /\ r \in mshr[c][x].deps
                 \/ \E i \in DOMAIN processed[c] : p = <<"PROCESSED", i>> /\ r \in processed[c][i]
    BY DEF Places
  <2>3. ASSUME q \in WaitingPlaces(r)  PROVE InReads \/ InMisses \/ InFinished
    <3>1. PICK c \in FirstLevel : \E p \in Places(c, r) : q = <<c, p>>
      BY <2>1, <2>3
    <3>2. PICK p \in Places(c, r) : q = <<c, p>>
      BY <3>1
    <3> QED BY <2>2, <3>2
  <2>4. ASSUME InReads  PROVE q \in WaitingPlaces(r)
    <3>1. PICK c \in FirstLevel : \E i \in DOMAIN rq[c] : q = <<c, <<"RQ", i>>>> /\ r \in rq[c][i].deps
      BY <2>4
    <3> QED BY <2>1, <2>2, <3>1
  <2>5. ASSUME InMisses  PROVE q \in WaitingPlaces(r)
    BY <2>1, <2>2, <2>5
  <2>6. ASSUME InFinished  PROVE q \in WaitingPlaces(r)
    <3>1. PICK c \in FirstLevel :
            \E i \in DOMAIN processed[c] : q = <<c, <<"PROCESSED", i>>>> /\ r \in processed[c][i]
      BY <2>6
    <3> QED BY <2>1, <2>2, <3>1
  <2> HIDE DEF InReads, InMisses, InFinished
  <2> QED BY <2>3, <2>4, <2>5, <2>6
<1>2. \A c \in FirstLevel : \A i \in DOMAIN rq[c] : rq[c][i].line \in Line
  <2> SUFFICES ASSUME NEW c \in FirstLevel, NEW i \in DOMAIN rq[c]  PROVE rq[c][i].line \in Line
    OBVIOUS
  <2>1. PICK s \in Seq(Packet) : s = rq[c]
    BY DEF Traffic, Typed, FirstLevel
  <2>2. s[i] \in Packet
    BY <2>1
  <2> QED BY <2>1, <2>2 DEF Packet
<1>3. \A c \in FirstLevel : \A i \in DOMAIN rq[c] : <<c, "RQ", rq[c][i].line>> \in Place
  BY <1>2, PlaceCases
<1>4. \A c \in FirstLevel, x \in Line : <<c, "MSHR", x>> \in Place
  BY PlaceCases
<1>5. \A c \in FirstLevel : <<c, "PROCESSED", NoLine>> \in Place
  BY PlaceCases
<1>6. (\E k \in Place : WaitsIn(k, q, r)) <=> InReads \/ InMisses \/ InFinished
  BY <1>3, <1>4, <1>5 DEF WaitsIn
<1> QED BY <1>1, <1>6

(* A place holds a request in one of its entries. *)
LEMMA HeldInEntry ==
  ASSUME Traffic, NEW k \in Place, NEW r
  PROVE  r \in Held(k) <=> \E q : WaitsIn(k, q, r)
<1>1. ASSUME NEW c \in FirstLevel, NEW x \in Line, k = <<c, "RQ", x>>
      PROVE  r \in Held(k) <=> \E q : WaitsIn(k, q, r)
  <2>1. PICK s \in Seq(Packet) : s = rq[c]
    BY DEF Traffic, Typed, FirstLevel
  <2>2. r \in Held(k) <=> \E p \in At(s, x) : r \in p.deps
    <3>1. Held(k) = AskedIn(s, x)
      BY <1>1, <2>1, HeldAt DEF Asking
    <3> QED BY <3>1 DEF AskedIn
  <2>3. DOMAIN s = 1 .. Len(s)
    OBVIOUS
  <2>4. (\E p \in At(s, x) : r \in p.deps) <=> \E i \in DOMAIN s : s[i].line = x /\ r \in s[i].deps
    BY <2>3, AtMember
  <2>5. (\E q : WaitsIn(k, q, r)) <=> \E i \in DOMAIN s : s[i].line = x /\ r \in s[i].deps
    BY <1>1, <2>1 DEF WaitsIn
  <2> QED BY <2>2, <2>4, <2>5
<1>2. ASSUME NEW c \in FirstLevel, NEW x \in Line, k = <<c, "MSHR", x>>
      PROVE  r \in Held(k) <=> \E q : WaitsIn(k, q, r)
  <2>1. r \in Held(k) <=> r \in mshr[c][x].deps
    BY <1>2, HeldAt DEF Missing
  <2>2. (\E q : WaitsIn(k, q, r)) <=> r \in mshr[c][x].deps
    BY <1>2 DEF WaitsIn
  <2> QED BY <2>1, <2>2
<1>3. ASSUME NEW c \in FirstLevel, k = <<c, "PROCESSED", NoLine>>
      PROVE  r \in Held(k) <=> \E q : WaitsIn(k, q, r)
  <2>1. r \in Held(k) <=> \E i \in DOMAIN processed[c] : r \in processed[c][i]
    <3>1. Held(k) = DoneIn(processed[c])
      BY <1>3, HeldAt DEF Finished
    <3> QED BY <3>1 DEF DoneIn
  <2>2. (\E q : WaitsIn(k, q, r)) <=> \E i \in DOMAIN processed[c] : r \in processed[c][i]
    BY <1>3 DEF WaitsIn
  <2> QED BY <2>1, <2>2
<1> QED BY <1>1, <1>2, <1>3, PlaceCases

(* No place holds a request in two entries. *)
LEMMA OneEntry ==
  ASSUME Traffic, FinishedOnce, NEW k, NEW q, NEW s, NEW r, WaitsIn(k, q, r), WaitsIn(k, s, r)
  PROVE  q = s
<1>1. CASE \E c \in FirstLevel : \E i \in DOMAIN rq[c] :
             k = <<c, "RQ", rq[c][i].line>> /\ q = <<c, <<"RQ", i>>>>
  <2>1. PICK c \in FirstLevel : \E i \in DOMAIN rq[c] :
               k = <<c, "RQ", rq[c][i].line>> /\ q = <<c, <<"RQ", i>>>>
    BY <1>1
  <2>2. PICK i \in DOMAIN rq[c] : k = <<c, "RQ", rq[c][i].line>> /\ q = <<c, <<"RQ", i>>>>
    BY <2>1
  <2>3. PICK j \in DOMAIN rq[c] : rq[c][j].line = rq[c][i].line /\ s = <<c, <<"RQ", j>>>>
    BY <2>2 DEF WaitsIn
  <2>4. PICK n \in Seq(Packet) : n = rq[c] /\ Distinct(n)
    BY DEF Traffic, Typed, Lawful, FirstLevel
  <2>5. i = j
    BY <2>3, <2>4 DEF Distinct
  <2> QED BY <2>2, <2>3, <2>5
<1>2. CASE \E c \in FirstLevel, x \in Line : k = <<c, "MSHR", x>> /\ q = <<c, <<"MSHR", x>>>>
  BY <1>2 DEF WaitsIn
<1>3. CASE \E c \in FirstLevel : \E i \in DOMAIN processed[c] :
             k = <<c, "PROCESSED", NoLine>> /\ q = <<c, <<"PROCESSED", i>>>> /\ r \in processed[c][i]
  <2>1. PICK c \in FirstLevel : \E i \in DOMAIN processed[c] :
               k = <<c, "PROCESSED", NoLine>> /\ q = <<c, <<"PROCESSED", i>>>> /\ r \in processed[c][i]
    BY <1>3
  <2>2. PICK i \in DOMAIN processed[c] :
               k = <<c, "PROCESSED", NoLine>> /\ q = <<c, <<"PROCESSED", i>>>> /\ r \in processed[c][i]
    BY <2>1
  <2>3. PICK j \in DOMAIN processed[c] : s = <<c, <<"PROCESSED", j>>>> /\ r \in processed[c][j]
    BY <2>2 DEF WaitsIn
  <2>4. i = j
    BY <2>2, <2>3 DEF FinishedOnce, OnceIn
  <2> QED BY <2>2, <2>3, <2>4
<1> QED BY <1>1, <1>2, <1>3 DEF WaitsIn

(* Requests that are conserved wait in exactly one entry. *)
LEMMA ConservedCounts ==
  ASSUME Traffic, Conserved
  PROVE  RequestsConserved
<1> SUFFICES ASSUME NEW r \in Req
             PROVE  Cardinality(WaitingPlaces(r)) = IF status[r] = "waiting" THEN 1 ELSE 0
  BY DEF RequestsConserved, WaitingPlaces
<1>1. \A q \in WaitingPlaces(r) : \E k \in Place : WaitsIn(k, q, r) /\ r \in Held(k)
  BY PlacesOfEntries, HeldInEntry
<1>2. \A q, s \in WaitingPlaces(r) : q = s
  BY <1>1, OneEntry DEF Conserved, Apart
<1>3. status[r] = "waiting" <=> WaitingPlaces(r) # {}
  BY PlacesOfEntries, HeldInEntry DEF Conserved, Placed
<1>4. CASE WaitingPlaces(r) = {}
  BY <1>3, <1>4, FS_EmptySet
<1>5. CASE WaitingPlaces(r) # {}
  <2>1. PICK q : WaitingPlaces(r) = {q}
    BY <1>2, <1>5
  <2> QED BY <1>3, <1>5, <2>1, FS_Singleton
<1> QED BY <1>4, <1>5

(* Nobody has asked for anything yet. *)
LEMMA ConservedInit ==
  ASSUME Init
  PROVE  Conserved
<1>1. \A c \in Cache, x \in Line :
        At(rq[c], x) = {} /\ At(pq[c], x) = {} /\ mshr[c][x] = Free
  BY DEF Init, At
<1>2. \A c \in FirstLevel : processed[c] = <<>>
  BY DEF Init
<1>3. \A c \in FirstLevel : DoneIn(processed[c]) = {} /\ OnceIn(processed[c])
  BY <1>2 DEF DoneIn, OnceIn
<1>4. \A k \in Place : Held(k) = {}
  <2>1. \A c \in FirstLevel, x \in Line : Asking(c, x) = {} /\ Missing(c, x) = {}
    BY <1>1 DEF Asking, AskedIn, Missing, Free, FirstLevel
  <2>2. \A c \in FirstLevel : Finished(c) = {}
    BY <1>3 DEF Finished
  <2> SUFFICES ASSUME NEW k \in Place  PROVE Held(k) = {}
    OBVIOUS
  <2>3. CASE \E c \in FirstLevel, x \in Line : k = <<c, "RQ", x>> \/ k = <<c, "MSHR", x>>
    BY ZenonT(60), <2>1, <2>3, HeldAt
  <2>4. CASE \E c \in FirstLevel : k = <<c, "PROCESSED", NoLine>>
    BY <2>2, <2>4, HeldAt
  <2> QED BY <2>3, <2>4, PlaceCases
<1>5. Apart
  BY <1>4 DEF Apart
<1>6. Placed
  BY <1>4 DEF Placed, Init
<1>7. FinishedOnce
  BY <1>3 DEF FinishedOnce
<1>8. PrefetchesUnasked
  BY <1>1 DEF PrefetchesUnasked, Free
<1> QED BY <1>5, <1>6, <1>7, <1>8 DEF Conserved

(* A request of the core waits in exactly one place of its first-level     *)
(* cache, from add_rq until the core takes it from PROCESSED, as long as   *)
(* the core does not let PROCESSED fill up.                                *)
THEOREM RequestsWaitOnce ==
  CodeAndDataApart => (Spec /\ []ProcessedRoom => []RequestsConserved)
<1> SUFFICES ASSUME CodeAndDataApart  PROVE Spec /\ []ProcessedRoom => []RequestsConserved
  OBVIOUS
<1>1. Init => Conserved
  BY ConservedInit
<1>2. IInv /\ ProcessedRoom /\ Conserved /\ [Next]_vars => Conserved'
  BY ConservedStep
<1>3. IInv /\ Conserved => RequestsConserved
  BY ConservedCounts DEF IInv
<1>4. Spec => []IInv
  BY InvariantAlways
<1> QED BY <1>1, <1>2, <1>3, <1>4, PTL DEF Spec
=============================================================================
