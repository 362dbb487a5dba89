------------------------------- MODULE Power7 -------------------------------
(***************************************************************************)
(* The POWER7 prefetcher (prefetcher/pref_power7.cc): a streamer and a     *)
(* stride prefetcher whose degrees it tunes.  It runs every configuration  *)
(* for ExploreEpoch demands, measures the cycles, and exploits the fastest *)
(* for ExploitEpoch demands.  The degrees are two knobs of the process:    *)
(* every core's prefetcher writes them and every core's streamer reads     *)
(* them.  `ran` records, for each core, the cycles measured since its      *)
(* exploration began, `won` the ones of its last exploration.              *)
(***************************************************************************)
EXTENDS Streams

CONSTANTS Core, Pc, Line,
          ExploreEpoch, ExploitEpoch, DefaultDegree,
          MaxStep,                \* bound: cycles between two demands
          MaxCycle                \* bound on the clock

VARIABLE s

Config == <<"Default", "Off", "Shallowest", "S_Shallowest", "Shallow", "S_Shallow",
            "Medium", "S_Medium", "Deep", "S_Deep", "Deeper", "S_Deeper",
            "Deepest", "S_Deepest">>
Default == 1
Deepest == Len(Config)

(* The configurations come in pairs, without and with the stride           *)
(* prefetcher, of rising streamer degree.                                  *)
get_streamer_degree(config) ==
  IF config = Default THEN DefaultDegree
  ELSE IF config = 2 THEN 0 ELSE 2 + (config - 3) \div 2
get_stride_degree(config) == IF config > 2 /\ config % 2 = 0 THEN 4 ELSE 0

Params(config) == <<get_streamer_degree(config), get_stride_degree(config)>>

Cleared == [c \in DOMAIN Config |-> 0]

(* What the winner would be if the comparison were the other way round.    *)
SlowestConfig(cycles) ==
  Max({c \in DOMAIN Config : \A d \in DOMAIN Config : cycles[c] >= cycles[d]})

(* The winner is the last of the configurations with the fewest cycles.    *)
get_winner_config(cycles) ==
  Max({c \in DOMAIN Config : \A d \in DOMAIN Config : cycles[c] <= cycles[d]})

Init ==
  s = [core |-> [c \in Core |-> [mode |-> "Exploit", config |-> Default, accesses |-> 0,
                                 stamp |-> 0, cycles |-> Cleared, streams |-> <<>>,
                                 strides |-> <<>>, issued |-> <<>>, won |-> Cleared]],
       knobs |-> Params(Default), clock |-> 0]

Started(p, config, mode, clock) ==
  [p EXCEPT !.mode = mode, !.config = config, !.accesses = 0, !.stamp = clock]

(* The state machine of invoke_prefetcher, after the demand is counted.    *)
Tuned(p, clock) ==
  LET measured == [p.cycles EXCEPT ![p.config] = clock - p.stamp]
  IN IF p.mode = "Exploit"
     THEN IF p.accesses < ExploitEpoch THEN p ELSE
          [Started(p, Default, "Explore", clock) EXCEPT !.cycles = Cleared]
     ELSE IF p.accesses < ExploreEpoch THEN p
     ELSE IF p.config = Deepest
     THEN [Started(p, get_winner_config(measured), "Exploit", clock)
             EXCEPT !.cycles = Cleared, !.won = measured]
     ELSE [Started(p, p.config + 1, "Explore", clock) EXCEPT !.cycles = measured]

(* set_params is called when the configuration is set anew.                *)
invoke_prefetcher(c, pc, line, cycles) ==
  LET clock == s.clock + cycles
      p == Tuned([s.core[c] EXCEPT !.accesses = @ + 1], clock)
      knobs == IF p.accesses = 0 THEN Params(p.config) ELSE s.knobs
      streamed == Streamed(p.streams, line, knobs[1])
      strided == Strided(p.strides, pc, line, knobs[2])
  IN /\ clock <= MaxCycle
     /\ s' = [s EXCEPT
          !.clock = clock, !.knobs = knobs,
          !.core[c] = [p EXCEPT !.streams = streamed.trackers, !.strides = strided.trackers,
                                !.issued = streamed.issued \o strided.issued]]

Next ==
  \E c \in Core, pc \in Pc, line \in Line, cycles \in 1 .. MaxStep :
    invoke_prefetcher(c, pc, line, cycles)

Spec == Init /\ [][Next]_s

-----------------------------------------------------------------------------
(* An exploration has measured every configuration before the current one  *)
(* (which the code means to assert, in a loop whose condition compares a   *)
(* variable with itself) and none after it; and the one exploited after it *)
(* took the fewest cycles of all.                                          *)
FastestExploited ==
  \A c \in Core :
    LET p == s.core[c]
    IN /\ p.mode = "Explore" => \A d \in DOMAIN Config : (p.cycles[d] # 0) <=> (d < p.config)
       /\ p.mode = "Exploit" /\ p.won # Cleared =>
            \A d \in DOMAIN Config : 0 < p.won[p.config] /\ p.won[p.config] <= p.won[d]
       /\ TrackedOnce(p.streams, StreamTrackers) /\ TrackedOnce(p.strides, StrideTrackers)

(* A core prefetches with the degrees of the configuration it measures, and *)
(* no more lines than these allow: with one core.  With two, one core runs  *)
(* with the degrees the other has set last.                                *)
DegreesFollowConfig ==
  \A c \in Core :
    LET degrees == Params(s.core[c].config)
    IN s.knobs = degrees /\ Len(s.core[c].issued) <= degrees[1] + degrees[2]
=============================================================================
