------------------------------ MODULE MCParts ------------------------------
(***************************************************************************)
(* The sequential parts of the simulator, each on a small instance of its  *)
(* own, in one state space: `part` says whose turn it is for the whole     *)
(* run, and s is the state of that part.  A property speaks of the parts   *)
(* it is about.                                                            *)
(***************************************************************************)
EXTENDS Integers, Sequences, FiniteSets

VARIABLES part, s

Nothing == 99

PageTables == INSTANCE PageTable WITH
  Cpu <- 0 .. 1, VPage <- 1 .. 2, DRAM_PAGES <- 2, MaxDraw <- 1, MaxRun <- 1, WORD <- 16

FastSet == INSTANCE FastSet WITH
  SMALL_SIZE <- 4, SMALLER_SIZE <- 2, WordBits <- 2, Top <- 5

Ages == INSTANCE Lru WITH NUM_WAY <- 4

Rrip == INSTANCE Rrip WITH
  LLC_WAY <- 2, Tag <- 1 .. 3, Ip <- 1 .. 2, PSEL_MAX <- 3, BIP_MAX <- 2, SHCT_MAX <- 1

DramCache == INSTANCE DramCache WITH
  Block <- 0 .. 3, NoTag <- Nothing, Sets <- 2, Ways <- 2, Algorithm <- "LRU", MaxTick <- 5

Hits == INSTANCE HitPredictors WITH
  Block <- 0 .. 3, NoTag <- Nothing, Sets <- 1, Ways <- 2, Algorithm <- "FIFO", MaxTick <- 4,
  Segment <- 2, Maxlength <- 1, Length <- 4, CountMax <- 3

States == INSTANCE SaPredictor

Nvm == INSTANCE NvmController WITH
  Addr <- 1 .. 3, NoAddr <- 0, Bank <- 1 .. 2, bank_of <- <<1, 1, 2>>, row_of <- <<1, 2, 1>>,
  NoRow <- 0, RQ_SIZE <- 2, WQ_SIZE <- 2, tRP <- 2, tRCD <- 2, tCAS <- 2, RETURN_TIME <- 1,
  TURN_AROUND_TIME <- 1, MaxReads <- 2, MaxWrites <- 2, MaxIdle <- 1, MaxLate <- 0,
  Horizon <- 40

Hybrid == INSTANCE HybridController WITH
  Addr <- 1 .. 2, NoAddr <- 0, Bank <- 1 .. 2, bank_of <- <<1, 1>>, row_of <- <<1, 2>>,
  NoRow <- 0, RQ_SIZE <- 2, WQ_SIZE <- 2, tRP <- 2, tRCD <- 2, tCAS <- 2, RETURN_TIME <- 1,
  TURN_AROUND_TIME <- 1, MaxReads <- 2, MaxWrites <- 1, MaxIdle <- 0, MaxLate <- 0,
  Horizon <- 40

Scooby == INSTANCE Scooby WITH
  Page <- 1 .. 2, Blocks <- 3, Actions <- {0, 1}, PtSize <- 2, StSize <- 1,
  ActionTrackerSize <- 2, Thresholds <- <<0>>, Degrees <- <<1, 2>>, TrackMultiple <- FALSE,
  RewardAll <- FALSE, RewardOutOfBounds <- TRUE, RewardTrackerHit <- TRUE, MaxActions <- 5

Cbp == INSTANCE Cbp WITH
  Lines <- 3, Blocks <- 2, State <- {0}, PtSize <- 2, StSize <- 1, HstSize <- 1,
  ActionTrackerSize <- 2, PrefDegree <- 2, TrackMultiple <- FALSE, RewardAll <- FALSE,
  MaxActions <- 5

Rlp == INSTANCE Rlp WITH
  Pages <- 1, Blocks <- 3, State <- {0}, Actions <- {0, 1}, QueueSize <- 2, StSize <- 1,
  HsqSize <- 1, ActionTrackerSize <- 2, IrSets <- 1, IrWay <- 2, IrDegree <- 2,
  Thresholds <- <<0>>, Degrees <- <<1, 2>>, TrackMultiple <- FALSE, RewardAll <- FALSE,
  MaxActions <- 5

Sms == INSTANCE Sms WITH
  Region <- 1 .. 3, Pc <- {0}, Blocks <- 2, FtSize <- 1, AtSize <- 2, PhtSets <- 1,
  PhtAssoc <- 2, Degree <- 1, BufferSize <- 1, MaxAccesses <- 8

Bingo == INSTANCE Bingo WITH
  Region <- 0 .. 2, Pc <- {0}, Len1 <- 2, FtSets <- 1, FtWays <- 1, AtSets <- 1, AtWays <- 2,
  PhtSets <- 1, PhtWays <- 2, PfSets <- 1, PfWays <- 1, Percent <- 50, MaxRoom <- 1,
  MaxAccesses <- 6

Bop == INSTANCE Bop WITH
  Pages <- 2, Blocks <- 3, Candidates <- <<1, 2, -1>>, MaxRounds <- 5, MaxScore <- 2,
  TopN <- 2, RrSize <- 2, BufferOn <- TRUE, BufferSize <- 2, PrefDegree <- 1

Sandbox == INSTANCE Sandbox WITH
  Reach <- 1, Blocks <- 4, PhaseLen <- 2, NumCycle <- 1, PrefDegree <- 1, StreamOn <- TRUE,
  StreamLength <- 1, MaxDemands <- 9

Power7 == INSTANCE Power7 WITH
  Core <- {0}, Pc <- {0}, Line <- {0, 1}, Blocks <- 2, StreamTrackers <- 1,
  StrideTrackers <- 1, ExploreEpoch <- 1, ExploitEpoch <- 1, DefaultDegree <- 4,
  MaxStep <- 2, MaxCycle <- 17

Ampm == INSTANCE Ampm WITH
  Page <- 0 .. 2, Blocks <- 3, PbSize <- 2, MaxDelta <- 1, PredDegree <- 2, BufferOn <- TRUE,
  BufferSize <- 2, PrefDegree <- 1, MaxDemands <- 6

NextLine == INSTANCE NextLine WITH
  Pages <- 1, Blocks <- 3, Deltas <- {1, -1}, PtSize <- 1, PrefDegree <- 2, MaxSteps <- 5

Init ==
  \/ part = "page" /\ PageTables!Init
  \/ part = "fastset" /\ FastSet!Init
  \/ part = "ages" /\ Ages!Init
  \/ part = "rrip" /\ Rrip!Init
  \/ part = "dram_cache" /\ (\E c \in DramCache!EmptyCaches : s = c)
  \/ part = "hits" /\ Hits!Init
  \/ part = "states" /\ States!Init
  \/ part = "nvm" /\ Nvm!Init
  \/ part = "hybrid" /\ Hybrid!Init
  \/ part = "scooby" /\ Scooby!Init
  \/ part = "cbp" /\ Cbp!Init
  \/ part = "rlp" /\ Rlp!Init
  \/ part = "sms" /\ Sms!Init
  \/ part = "bingo" /\ Bingo!Init
  \/ part = "bop" /\ Bop!Init
  \/ part = "sandbox" /\ Sandbox!Init
  \/ part = "power7" /\ Power7!Init
  \/ part = "ampm" /\ Ampm!Init
  \/ part = "next_line" /\ NextLine!Init

Next ==
  /\ UNCHANGED part
  /\ \/ part = "page" /\ PageTables!Next
     \/ part = "fastset" /\ FastSet!Next
     \/ part = "ages" /\ Ages!Next
     \/ part = "rrip" /\ Rrip!Next
     \/ part = "dram_cache" /\ DramCache!Next
     \/ part = "hits" /\ Hits!Next
     \/ part = "states" /\ States!Next
     \/ part = "nvm" /\ Nvm!Next
     \/ part = "hybrid" /\ Hybrid!Next
     \/ part = "scooby" /\ Scooby!Next
     \/ part = "cbp" /\ Cbp!Next
     \/ part = "rlp" /\ Rlp!Next
     \/ part = "sms" /\ Sms!Next
     \/ part = "bingo" /\ Bingo!Next
     \/ part = "bop" /\ Bop!Next
     \/ part = "sandbox" /\ Sandbox!Next
     \/ part = "power7" /\ Power7!Next
     \/ part = "ampm" /\ Ampm!Next
     \/ part = "next_line" /\ NextLine!Next

Spec == Init /\ [][Next]_<<part, s>>

-----------------------------------------------------------------------------
(* va_to_pa keeps the page table, its inverse and the page queue in step    *)
(* through every swap, and num_adjacent_page never wraps.                  *)
PageTablesAgree == part = "page" => PageTables!TablesAgree

(* fastset answers like a set on both sides of its change of representation.*)
FastSetIsASet == part = "fastset" => FastSet!IsASet

(* The caches' ways: LRU ages are the order of use and always give a        *)
(* victim, and so do the re-reference values of the other policies; the     *)
(* DRAM cache fills its free lines first, holds a block once and counts     *)
(* every operation, hit, miss and write back.                              *)
WaysAndCountsAgree ==
  /\ part = "ages" => Ages!AgesAreRecency /\ Ages!VictimFound
  /\ part = "rrip" => Rrip!SearchEnds /\ Rrip!SamplerFindsAWay
  /\ part = "dram_cache" => DramCache!LinesAndCountsAgree

(* The Bloom filter denies no block that is in the DRAM cache, MissMap has   *)
(* at most Maxlength segments and only blocks it was told of (and so may    *)
(* deny a cached one), the counters of MAP-G and MAP-I stay in their range, *)
(* and the state machines of the SA predictor believe two equal outcomes.   *)
PredictorsBelieve ==
  /\ part = "hits" => Hits!CachedIsPredicted /\ Hits!PredictorsBounded
  /\ part = "states" => States!BelievesTwoInARow

(* The NVM and hybrid controllers' banks serve the requests scheduled on    *)
(* them, and the cached next request is the earliest of its queue.         *)
BanksAndQueuesAgree ==
  /\ part = "nvm" => Nvm!BanksAndQueuesAgree
  /\ part = "hybrid" => Hybrid!BanksAndQueuesAgree

(* Each action of Scooby and CBP is taught to its engine once, in order,    *)
(* with the reward it was given.                                           *)
LearnsFromEachActionOnce ==
  /\ part = "scooby" => Scooby!LearnsFromEachActionOnce
  /\ part = "cbp" => Cbp!LearnsFromEachActionOnce

(* RLP rewards each action of its regular engine once, rightly, and hands   *)
(* them on in order, but to ir_train: the regular engine is taught nothing, *)
(* and the irregular one enters nothing of theirs and has none of its own.  *)
RlpEnginesUntaught == part = "rlp" => Rlp!HandedOverOnce /\ Rlp!IrregularEngineSilent

(* SMS and Bingo hold one generation of a region, with exactly the blocks   *)
(* touched since it was opened, in tables whose maps agree.                *)
GenerationsTracked ==
  /\ part = "sms" => Sms!GenerationsTracked /\ Sms!PatternsKeptOnce
  /\ part = "bingo" => Bingo!GenerationsTracked

(* The page histories and trackers hold a page or a line once, the ones    *)
(* used last, and account for every line they gave up.                     *)
TrackedOnce ==
  /\ part = "scooby" => Scooby!PagesTrackedOnce
  /\ part = "cbp" => Cbp!PagesTrackedOnce
  /\ part = "rlp" => Rlp!PagesTrackedOnce
  /\ part = "ampm" => Ampm!PagesTrackedOnce
  /\ part = "next_line" => NextLine!VerdictsAccounted

(* What a prefetcher chooses at the end of a phase, round or exploration is *)
(* the best of what it measured, and nothing measured is lost.             *)
BestChosen ==
  /\ part = "bop" => Bop!BestOffsetsUsed
  /\ part = "sandbox" => Sandbox!OffsetsConserved
  /\ part = "power7" => Power7!FastestExploited /\ Power7!DegreesFollowConfig
=============================================================================
