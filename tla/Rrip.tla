-------------------------------- MODULE Rrip --------------------------------
(***************************************************************************)
(* The other replacement policies the LLC can be built with, for one set:  *)
(* SRRIP, DRRIP and SHiP (replacement/*.llc_repl).  Each way has a         *)
(* re-reference value, and llc_find_victim ages a set until a way has the  *)
(* greatest one, whatever is valid.  handle_fill searches again in every   *)
(* cycle in which the victim's write back does not fit.  DRRIP duels with  *)
(* the misses of leader sets; SHiP's sampler has a copy of the set's tags  *)
(* under LRU and trains a counter for each ip.  One core.                  *)
(***************************************************************************)
EXTENDS Integers

CONSTANTS LLC_WAY, Tag, Ip, PSEL_MAX, BIP_MAX, SHCT_MAX

VARIABLE s

maxRRPV == 3
Way == 0 .. LLC_WAY - 1
Cold == -1   \* never filled
Gone == -2   \* invalidated
Leader == {"BIP", "SRRIP", "none"}
Unsampled == [valid |-> FALSE, tag |-> Cold, ip |-> Cold, used |-> FALSE]

(* `leader` is the role of this set under DRRIP; under SHiP it is sampled.  *)
Init ==
  \E p \in {"srrip", "drrip", "ship"}, l \in Leader :
    /\ p # "drrip" => l = "none"
    /\ s = [policy |-> p, leader |-> l, line |-> [w \in Way |-> Cold],
            rrpv |-> [w \in Way |-> maxRRPV], psel |-> 0, bip |-> 0,
            sampler |-> [w \in Way |-> Unsampled], lru |-> [w \in Way |-> w],
            shct |-> [i \in Ip |-> 0]]

(* llc_find_victim: the set aged until a way is at the maximum, and the    *)
(* first such way.                                                         *)
Ages(rrpv) == {k \in 0 .. maxRRPV : \E w \in Way : rrpv[w] + k = maxRRPV}
Aged(rrpv) ==
  LET k == CHOOSE k \in Ages(rrpv) : \A j \in Ages(rrpv) : k <= j
  IN [w \in Way |-> rrpv[w] + k]
Victim(rrpv) ==
  CHOOSE w \in Way : rrpv[w] = maxRRPV /\ \A v \in Way : rrpv[v] = maxRRPV => w <= v

(* DRRIP: the policy a miss follows, and what it leaves in the duel.       *)
Follows(t, l) ==
  IF l = "none" THEN IF t.psel > PSEL_MAX \div 2 THEN "BIP" ELSE "SRRIP" ELSE l
NextBip(t) == (t.bip + 1) % BIP_MAX
Dueled(t, l) ==
  [t EXCEPT !.psel = CASE l = "BIP" /\ @ > 0          -> @ - 1
                       [] l = "SRRIP" /\ @ < PSEL_MAX -> @ + 1
                       [] OTHER                       -> @,
            !.bip = IF Follows(t, l) = "BIP" THEN NextBip(t) ELSE @]
drrip_fill(t) ==
  IF Follows(t, t.leader) = "BIP" /\ NextBip(t) # 0 THEN maxRRPV ELSE maxRRPV - 1

(* update_sampler: a sampled tag was used again, or it takes an invalid    *)
(* way, or the oldest, whose ip is blamed if it was never used.            *)
LruMovedAll(lru, w) ==   \* mutant: every other way ages
  [x \in Way |-> IF x = w THEN 0 ELSE lru[x] + 1]
LruMoved(lru, w) ==
  [x \in Way |-> IF x = w THEN 0 ELSE IF lru[x] < lru[w] THEN lru[x] + 1 ELSE lru[x]]
First(W) == CHOOSE w \in W : \A v \in W : w <= v
Matches(t, tag) == {w \in Way : t.sampler[w].valid /\ t.sampler[w].tag = tag}
Empty(t) == {w \in Way : ~t.sampler[w].valid}
Oldest(t) == {w \in Way : t.lru[w] = LLC_WAY - 1}

SamplerHit(t, tag) ==
  LET w == First(Matches(t, tag)) IN
  [t EXCEPT !.sampler[w].used = TRUE, !.lru = LruMoved(@, w),
            !.shct[t.sampler[w].ip] = IF @ > 0 THEN @ - 1 ELSE @]

SamplerPut(t, w, tag, ip) ==
  [t EXCEPT !.sampler[w] = [valid |-> TRUE, tag |-> tag, ip |-> ip, used |-> FALSE],
            !.lru = LruMoved(@, w)]

Blamed(t, e) ==
  IF e.used THEN t ELSE [t EXCEPT !.shct[e.ip] = IF @ < SHCT_MAX THEN @ + 1 ELSE @]

update_sampler(t, tag, ip) ==
  IF Matches(t, tag) # {} THEN SamplerHit(t, tag)
  ELSE IF Empty(t) # {} THEN SamplerPut(t, First(Empty(t)), tag, ip)
  ELSE LET w == First(Oldest(t)) IN SamplerPut(Blamed(t, t.sampler[w]), w, tag, ip)

-----------------------------------------------------------------------------
(* llc_update_replacement_state of way w.                                  *)
At(t, w, value) == [t EXCEPT !.rrpv[w] = value]

srrip_update(t, w, hit) == At(t, w, IF hit THEN 0 ELSE maxRRPV - 1)

drrip_update(t, w, type, hit) ==
  CASE type = "WRITEBACK" -> At(t, w, maxRRPV - 1)
    [] type # "WRITEBACK" /\ hit  -> At(t, w, 0)
    [] type # "WRITEBACK" /\ ~hit -> Dueled(At(t, w, drrip_fill(t)), t.leader)

ship_update(t, w, tag, type, ip, hit) ==
  LET u == update_sampler(t, tag, ip)
  IN CASE type = "WRITEBACK" /\ hit  -> t
       [] type = "WRITEBACK" /\ ~hit -> At(t, w, maxRRPV - 1)
       [] type # "WRITEBACK" /\ hit  -> At(u, w, 0)
       [] type # "WRITEBACK" /\ ~hit ->
            At(u, w, IF u.shct[ip] = SHCT_MAX THEN maxRRPV ELSE maxRRPV - 1)

llc_update_replacement_state(t, w, tag, type, ip, hit) ==
  CASE t.policy = "srrip" -> srrip_update(t, w, hit)
    [] t.policy = "drrip" -> drrip_update(t, w, type, hit)
    [] t.policy = "ship"  -> ship_update(t, w, tag, type, ip, hit)

Type == {"LOAD", "WRITEBACK"}

Hit(w, type, ip) ==
  /\ s.line[w] \in Tag
  /\ s' = llc_update_replacement_state(s, w, s.line[w], type, ip, TRUE)

(* The victim cannot be written back yet; the ages stay as searched.       *)
FillStalls == s' = [s EXCEPT !.rrpv = Aged(@)]

Fill(tag, type, ip) ==
  /\ \A w \in Way : s.line[w] # tag
  /\ LET aged == [s EXCEPT !.rrpv = Aged(@)]  w == Victim(aged.rrpv)
     IN s' = llc_update_replacement_state([aged EXCEPT !.line[w] = tag], w, tag, type, ip, FALSE)

invalidate_entry(w) == s.line[w] \in Tag /\ s' = [s EXCEPT !.line[w] = Gone]

(* A miss in another set, or a sampled hit, which shares duel and counters. *)
MissElsewhere ==
  \/ \E l \in Leader : s.policy = "drrip" /\ s' = Dueled(s, l)
  \/ \E i \in Ip, d \in {-1, 1} :
       /\ s.policy = "ship" /\ s.shct[i] + d \in 0 .. SHCT_MAX
       /\ s' = [s EXCEPT !.shct[i] = @ + d]

Next ==
  \/ \E w \in Way, type \in Type, ip \in Ip : Hit(w, type, ip)
  \/ \E tag \in Tag, type \in Type, ip \in Ip : Fill(tag, type, ip)
  \/ \E w \in Way : invalidate_entry(w)
  \/ FillStalls \/ MissElsewhere

Spec == Init /\ [][Next]_s

-----------------------------------------------------------------------------
(* The search for a victim ends: no age ever passes the maximum it looks   *)
(* for.  A fill that stalls and searches again finds the same way.  SRRIP  *)
(* takes the ways that were never filled first, although it does not look  *)
(* at them; the other two may not.                                         *)
SearchEnds ==
  LET v == Victim(Aged(s.rrpv)) IN
  /\ \A w \in Way : s.rrpv[w] \in 0 .. maxRRPV
  /\ Aged(Aged(s.rrpv)) = Aged(s.rrpv)
  /\ s.policy = "srrip" /\ (\E w \in Way : s.line[w] = Cold) => s.line[v] = Cold

(* The sampler has a way for every miss (its search would run past the end *)
(* of the array), holds a tag once, and the duel, the bimodal counter and  *)
(* the counters of the ips stay in their ranges.                           *)
SamplerFindsAWay ==
  /\ \A a \in Way : \E w \in Way : s.lru[w] = a
  /\ \A w, v \in Way : s.sampler[w].valid /\ s.sampler[v].valid
                         /\ s.sampler[w].tag = s.sampler[v].tag => w = v
  /\ s.psel \in 0 .. PSEL_MAX /\ s.bip \in 0 .. BIP_MAX - 1
  /\ \A i \in Ip : s.shct[i] \in 0 .. SHCT_MAX
=============================================================================
