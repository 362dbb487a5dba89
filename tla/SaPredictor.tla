---------------------------- MODULE SaPredictor ----------------------------
(***************************************************************************)
(* One entry of SAPredictor (predictor/sapredictor.cc): a two-bit machine  *)
(* with exchangeable transition tables (Bimodal, sapredictor_helper.cc)    *)
(* and the four ways to choose a table from the history of accesses.       *)
(* Nothing in src/ calls the predictor: outcomes and histories come from   *)
(* outside.  A trie only ever gets words, so a node is a prefix of one.    *)
(***************************************************************************)
EXTENDS Integers, Sequences, FiniteSets, SequencesExt

VARIABLE s

(* strongmiss, weakmiss, weakhit, stronghit.                               *)
State == 1 .. 4
Table(hit, miss) == [Hit |-> hit, Miss |-> miss]

(* The state after a hit and after a miss, from each of the four states.   *)
fastTransferA == Table(<<3, 3, 4, 4>>, <<1, 1, 2, 2>>)
fastTransferB == Table(<<3, 4, 4, 4>>, <<1, 1, 1, 2>>)
TrueUnfairStuck == Table(<<1, 3, 4, 4>>, <<1, 1, 1, 2>>)   \* mutant: strongmiss does not move on a hit
True_unfair_TransferA == Table(<<2, 3, 4, 4>>, <<1, 1, 1, 2>>)
True_unfair_TransferB == Table(<<2, 3, 4, 4>>, <<1, 1, 2, 2>>)
False_unfair_TransferA == Table(<<3, 4, 4, 4>>, <<1, 1, 2, 3>>)
False_unfair_TransferB == Table(<<3, 3, 4, 4>>, <<1, 1, 2, 3>>)
slowTransferA == Table(<<2, 3, 4, 4>>, <<1, 1, 2, 3>>)
slowTransferB == Table(<<2, 4, 4, 4>>, <<1, 1, 1, 3>>)
slowTransfer == Table(<<2, 3, 4, 4>>, <<1, 1, 2, 3>>)
fastTransfer == Table(<<2, 4, 4, 4>>, <<1, 1, 1, 3>>)
unfairTransfer == Table(<<3, 4, 4, 4>>, <<1, 1, 2, 3>>)
randTransferA == Table(<<4, 1, 2, 2>>, <<3, 3, 4, 4>>)
randTransferB == Table(<<3, 4, 1, 2>>, <<3, 4, 1, 2>>)

Learning ==
  [fast |-> fastTransfer, slow |-> slowTransfer, unfair |-> unfairTransfer,
   fastA |-> fastTransferA, fastB |-> fastTransferB,
   true_unfairA |-> True_unfair_TransferA, true_unfairB |-> True_unfair_TransferB,
   false_unfairA |-> False_unfair_TransferA, false_unfairB |-> False_unfair_TransferB,
   slowA |-> slowTransferA, slowB |-> slowTransferB]

(* stateTransform has no case for `adaptive`: that machine stands still.   *)
stateTransform(q, t, action) ==
  IF t \in DOMAIN Learning THEN Learning[t][action][q]
  ELSE IF t = "rand_transferA" THEN randTransferA[action][q]
  ELSE IF t = "rand_transferB" THEN randTransferB[action][q]
  ELSE q

predict(q) == q \in {3, 4}

(* The last n outcomes as bits, the newest in bit 0 (1 is a hit).          *)
Bits == 10
Low(h, n) == SubSeq(h, 1, n)
Ones(w) == Cardinality({i \in DOMAIN w : w[i] = 1})

adaptive_transfer1(h, t) ==
  LET low == Low(h, 3) IN
  IF Ones(low) \in {0, 3} THEN "fastA"
  ELSE IF low \in {<<0, 0, 1>>, <<1, 0, 0>>} THEN "true_unfairA"
  ELSE IF low \in {<<0, 1, 1>>, <<1, 1, 0>>} \/ Low(h, 4) = <<0, 1, 0, 1>> THEN "false_unfairA"
  ELSE "rand_transferB"

adaptive_transfer2(h, t) ==
  LET low == Low(h, 5) IN
  IF Ones(low) = 1 THEN "true_unfairA"
  ELSE IF Ones(low) = 5 THEN "false_unfairA"
  ELSE IF low = <<1, 0, 1, 0, 1>> THEN "rand_transferA"
  ELSE "fastA"

(* The words in the order of their insertion: the first word through a     *)
(* node gives it its table.                                                *)
Words ==
  << <<1, 0, 1, 0>>, <<0, 1, 0, 1>>, <<1, 1, 0, 0>>, <<0, 0, 1, 1>>,
     <<1, 1, 0, 0, 0>>, <<0, 0, 0, 1, 1>>, <<1, 0, 0>>, <<0, 0, 1>>,
     <<1, 1, 0>>, <<0, 1, 1>>, <<1, 0, 0, 0>>, <<0, 0, 0, 1>>,
     <<1, 1, 1, 0>>, <<0, 1, 1, 1>> >>
WordTable ==
  <<"rand_transferA", "rand_transferA", "fastA", "fastA", "fastA", "fastA",
    "true_unfairA", "true_unfairA", "false_unfairA", "false_unfairA",
    "true_unfairA", "true_unfairA", "false_unfairA", "false_unfairA">>
Found(key) == {i \in DOMAIN Words : IsPrefix(key, Words[i])}
NodeTable(key) == WordTable[CHOOSE i \in Found(key) : \A j \in Found(key) : i <= j]

Agree(h, n) ==
  LET one == SubSeq(h, 1, n)  two == SubSeq(h, n + 1, 2 * n)
  IN Found(one) # {} /\ Found(two) # {} /\ NodeTable(one) = NodeTable(two)

adaptive_transfer3(h, t) ==
  IF Agree(h, 5) THEN NodeTable(Low(h, 5))
  ELSE IF Agree(h, 4) THEN NodeTable(Low(h, 4))
  ELSE IF Agree(h, 3) THEN NodeTable(Low(h, 3))
  ELSE t

(* max_p starts as -1 in an unsigned: no replay beats it, the first of the *)
(* four tables is taken whatever the replays say.                          *)
adaptive_transfer4(h, t) == "fastA"

(* `sane` counts the outcomes in a row that a learning machine has seen.   *)
Init ==
  \E t \in DOMAIN Learning \cup {"rand_transferA", "rand_transferB", "adaptive"} :
    s = [cur |-> 1, transfer |-> t, history |-> [i \in 1 .. Bits |-> 0], sane |-> 0]

(* An access to the line, or its eviction, which counts as a miss.         *)
Update(action) ==
  s' = [s EXCEPT !.cur = stateTransform(@, s.transfer, action),
                 !.history = <<IF action = "Hit" THEN 1 ELSE 0>> \o SubSeq(@, 1, Bits - 1),
                 !.sane = IF s.transfer \notin DOMAIN Learning THEN 0 ELSE IF @ < 2 THEN @ + 1 ELSE 2]

Adapt ==
  \E t \in {adaptive_transfer1(s.history, s.transfer), adaptive_transfer2(s.history, s.transfer),
            adaptive_transfer3(s.history, s.transfer), adaptive_transfer4(s.history, s.transfer)} :
    s' = [s EXCEPT !.transfer = t]

Next == Update("Hit") \/ Update("Miss") \/ Adapt
Spec == Init /\ [][Next]_s

(* Two equal outcomes in a row are believed, whichever of the learning     *)
(* tables saw them and even when the table was exchanged in between.       *)
BelievesTwoInARow ==
  (s.sane = 2 /\ s.history[1] = s.history[2]) => (predict(s.cur) <=> s.history[1] = 1)
=============================================================================
