------------------------------ MODULE MCMining ------------------------------
(* Instances of what a node does to mine: its miner (Miner), the numbers a    *)
(* block is judged by (ChainRules) and the transactions a template takes      *)
(* (BlockTemplate).  A behaviour is one of the parts; the variables of the    *)
(* others stay as they are.                                                   *)
(*                                                                            *)
(*   miner     the threads of the miner, both callers of start()              *)
(*   progress  the same with the operator alone and templates that succeed,   *)
(*             for what must eventually happen                                *)
(*   rules     two block times, an alternative chain from every height        *)
(*   emission  four block sizes around the penalty and a supply that runs out *)
(*   words     the double-word arithmetic over every pair of words            *)
(*   template  two branches on the genesis block: o1 appears in both, at      *)
(*             different heights, o2 later; t1 and t3 spend the same image,   *)
(*             t2 needs both outputs, t1 is in the last block of one branch   *)
EXTENDS Miner

VARIABLES
  part,
  main, alt, split, limit,
  tip, txd, bl, built_on,
  op, in     \* the arithmetic operation and its operands

rulesVars == <<main, alt, split, limit>>
templateVars == <<tip, txd, bl, built_on>>
vars == <<part, minerVars, rulesVars, templateVars, op, in>>

Parts == {"miner", "progress", "rules", "emission", "words", "template"}

Progress == INSTANCE Miner WITH Starters <- {"rpc"}, TemplatesMayFail <- FALSE

Rules == INSTANCE ChainRules WITH
  Half <- 16, DIFFICULTY_WINDOW <- 4, DIFFICULTY_LAG <- 1, DIFFICULTY_CUT <- 1,
  DIFFICULTY_TARGET <- 2, TimestampWindow <- 3, RewardWindow <- 3, RewardZone <- 4,
  MONEY_SUPPLY <- 63, SpeedDivisor <- 8, FinalSubsidy <- 2, Times <- {0, 2}, Sizes <- {1},
  MaxMain <- 7, MaxAlt <- 6

Emission == INSTANCE ChainRules WITH
  Half <- 16, DIFFICULTY_WINDOW <- 4, DIFFICULTY_LAG <- 1, DIFFICULTY_CUT <- 1,
  DIFFICULTY_TARGET <- 2, TimestampWindow <- 3, RewardWindow <- 3, RewardZone <- 4,
  MONEY_SUPPLY <- 15, SpeedDivisor <- 4, FinalSubsidy <- 2, Times <- {1},
  Sizes <- {2, 5, 8, 10}, MaxMain <- 7, MaxAlt <- 1

Arithmetic == INSTANCE ChainRules WITH
  Half <- 4, DIFFICULTY_WINDOW <- 4, DIFFICULTY_LAG <- 1, DIFFICULTY_CUT <- 1,
  DIFFICULTY_TARGET <- 2, TimestampWindow <- 3, RewardWindow <- 3, RewardZone <- 4,
  MONEY_SUPPLY <- 63, SpeedDivisor <- 8, FinalSubsidy <- 2, Times <- {0, 2}, Sizes <- {1},
  MaxMain <- 7, MaxAlt <- 6

TreePrevId == "a1" :> "g" @@ "a2" :> "a1" @@ "b1" :> "g" @@ "b2" :> "b1" @@ "b3" :> "b2" @@ "g" :> "g"
TreeGives == "g" :> {} @@ "a1" :> {"o1"} @@ "a2" :> {"o2"} @@ "b1" :> {} @@ "b2" :> {"o1"} @@ "b3" :> {"o2"}
TreeTxHashes == "b3" :> {"t1"} @@ [x \in {"g", "a1", "a2", "b1", "b2"} |-> {}]
TxNeeds == "t1" :> {"o1"} @@ "t2" :> {"o1", "o2"} @@ "t3" :> {"o1"}
TxImages == "t1" :> {"k1"} @@ "t2" :> {"k2"} @@ "t3" :> {"k1"}
TxBlobSize == "t1" :> 2 @@ "t2" :> 2 @@ "t3" :> 3

Filling == INSTANCE BlockTemplate WITH
  Blocks <- {"g", "a1", "a2", "b1", "b2", "b3"}, Genesis <- "g", PrevId <- TreePrevId,
  Gives <- TreeGives, TxHashes <- TreeTxHashes, Txs <- {"t1", "t2", "t3"}, Needs <- TxNeeds,
  Images <- TxImages, BlobSize <- TxBlobSize, NullHash <- "null",
  MedianSize <- 2, MaxTotalSize <- 4, MaxTemplateSize <- 5

Words == 0 .. 15
Operands ==
  \/ op = "mul"  /\ in \in [1 .. 2 -> Words]
  \/ op = "div"  /\ in \in {s \in [1 .. 3 -> Words] : s[3] \in 1 .. 3}
  \/ op = "hash" /\ in \in [1 .. 5 -> {0, 1, 2, 4, 14, 15}]

Init ==
    /\ part \in Parts
    /\ MinerInit
    /\ Rules!Init
    /\ Filling!Init
    /\ IF part = "words" THEN Operands ELSE op = "none" /\ in = <<>>

MinerPart == part = "miner" /\ UNCHANGED <<part, rulesVars, templateVars, op, in>>
ProgressPart == part = "progress" /\ UNCHANGED <<part, rulesVars, templateVars, op, in>>
RulesPart == part = "rules" /\ UNCHANGED <<part, minerVars, templateVars, op, in>>
EmissionPart == part = "emission" /\ UNCHANGED <<part, minerVars, templateVars, op, in>>
TemplatePart == part = "template" /\ UNCHANGED <<part, minerVars, rulesVars, op, in>>

(* An operand stands for itself. *)
Computed == part = "words" /\ UNCHANGED vars

Next ==
  \/ MinerPart /\ MinerNext
  \/ ProgressPart /\ Progress!MinerNext
  \/ RulesPart /\ Rules!Next
  \/ EmissionPart /\ Emission!Next
  \/ TemplatePart /\ Filling!Next
  \/ Computed

(* Every thread goes on with what it has begun, and the timer keeps        *)
(* ticking; nobody has to call start(), stop() or to send a block.         *)
Fair(i) ==
  /\ ProgressPart
  /\ CASE i = 1 -> Progress!on_idle
       [] i = 2 -> Progress!P2p
       [] i = 3 -> Progress!stop_locked
       [] i = 4 -> Progress!stop_join
       [] i = 5 -> Progress!StartSteps("rpc")
       [] i = 6 -> Progress!StartSteps("p2p")
       [] i = 7 -> Progress!TemplateSteps("rpc")
       [] i = 8 -> Progress!TemplateSteps("p2p")
       [] i = 9 -> Progress!TemplateSteps("idle")
       [] i = 10 -> \E w \in Workers : Progress!TemplateSteps(w)
       [] i = 11 -> \E w \in Workers : Progress!Worker(w)

Spec == Init /\ [][Next]_vars /\ \A i \in 1 .. 11 : WF_vars(Fair(i))

-----------------------------------------------------------------------------
(* A block is judged the same along every path of the code.  The           *)
(* difficulty and the timestamp rule an alternative block was checked with *)
(* are those the main chain will ask of it at a switch; the size limit     *)
(* kept for the next block is where the reward rule stops; the generated   *)
(* coins never fall; and the products, quotients and hash comparisons of   *)
(* the two-word arithmetic behind them are exact.                          *)
BlocksJudgedAlike ==
  /\ part = "rules" => Rules!AltDifficultyAgrees /\ Rules!AltTimestampAgrees
  /\ part = "emission" => Emission!LimitIsRewardLimit /\ Emission!EmissionNeverRestarts
  /\ part = "words" =>
       CASE op = "mul"  -> Arithmetic!MulExact(in[1], in[2])
         [] op = "div"  -> Arithmetic!DivExact(in[1], in[2], in[3])
         [] op = "hash" -> Arithmetic!HashCheckExact(in, in[5])

(* A template holds only transactions that the chain it was filled on      *)
(* accepts together, whatever the pool remembers of checks on other        *)
(* branches, and no more bytes than the limits allow.                      *)
TemplateSound ==
  part = "template" => Filling!TemplateValid /\ Filling!TemplateBounded

(* stop() does not wait for ever for a worker that is busy or paused; and  *)
(* a miner that keeps mining ends up on a template for the last block of   *)
(* the main chain, whichever thread's template was installed last.         *)
MinerProgress ==
  part = "progress" =>
    /\ []<>(pc["rpc"] \notin {"stop", "join"})
    /\ <>[]is_mining => <>[](m_template.prev = tail)
=============================================================================
