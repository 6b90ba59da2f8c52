---------------------------- MODULE MCBlockchain ----------------------------
(***************************************************************************)
(* BlockchainStorage on three block trees.                                 *)
(*                                                                         *)
(* Reorg: a double spend across branches.                                  *)
(*                                                                         *)
(*      g -- b1{t1} -- b2          t1 and t2 spend the same key image      *)
(*       |-- c1{t2} -- c2 -- c3{t1}      c3 has wrong inputs on its chain  *)
(*       |               \-- d3{t3}      t3 spends the output of t2        *)
(*       \-- e1{t1}                      e1 claims too much reward         *)
(*                                                                         *)
(* c2 is at first too far in the future.  b1, c3 and d3 have twice the     *)
(* difficulty, so that the heaviest chain need not be the longest.         *)
(*                                                                         *)
(* Point: checkpoints are published while the node runs.                   *)
(*                                                                         *)
(*      g -- b1{t1} -- b2 -- b3          points 2 -> c2 and 3 -> c3        *)
(*       \-- c1 ------ c2 -- c3{t1}      c2 has twice the difficulty       *)
(*                                                                         *)
(* Race: a transaction arrives while blocks that contain it come and go.   *)
(*                                                                         *)
(*      g -- b1{t1}              c1 and d2 have twice the difficulty, so   *)
(*       \-- c1 -- c2{t1}        each of them alone causes a switch        *)
(*             \-- d2                                                      *)
(***************************************************************************)
EXTENDS BlockchainStorage, TLC

CONSTANTS g, b1, b2, b3, c1, c2, c3, d2, d3, e1, t1, t2, t3, k1, k2

\* The fields of the blocks of a tree
HeightsIn(tree, prev) ==
    LET height[b \in tree] == IF b = g THEN 0 ELSE height[prev[b]] + 1 IN height
MinersIn(tree) == [b \in tree |-> <<"miner_tx", b>>]
UnlocksIn(tree, prev, txs) ==
    LET miners == {<<"miner_tx", b>> : b \in tree} IN
    [t \in miners \cup txs |-> IF t \in miners THEN HeightsIn(tree, prev)[t[2]] + 1 ELSE 0]
GensIn(tree, prev) ==
    [t \in {<<"miner_tx", b>> : b \in tree} |-> HeightsIn(tree, prev)[t[2]]]
HeavyIn(tree, heavy) == [b \in tree |-> IF b \in heavy THEN 2 ELSE 1]
NoPoints == [h \in {} |-> g]

ReorgBlock == {g, b1, b2, c1, c2, c3, d3, e1}
ReorgPrevId == b1 :> g @@ b2 :> b1 @@ c1 :> g @@ c2 :> c1 @@ c3 :> c2 @@ d3 :> c2
               @@ e1 :> g
ReorgTxHashes ==
    [b \in ReorgBlock |-> CASE b \in {b1, c3, e1} -> <<t1>> [] b = c1 -> <<t2>>
                            [] b = d3 -> <<t3>> [] OTHER -> <<>>]
ReorgMinerTx == MinersIn(ReorgBlock)
ReorgDifficulty == HeavyIn(ReorgBlock, {b1, c3, d3})
ReorgVin == t1 :> <<k1>> @@ t2 :> <<k1>> @@ t3 :> <<k2>>
ReorgRing == t1 :> {<<1, ReorgMinerTx[g]>>} @@ t2 :> {<<1, ReorgMinerTx[g]>>} @@ t3 :> {<<3, t2>>}
ReorgUnlockTime == UnlocksIn(ReorgBlock, ReorgPrevId, {t1, t2, t3})
ReorgGenHeight == GensIn(ReorgBlock, ReorgPrevId)

PointBlock == {g, b1, b2, b3, c1, c2, c3}
PointPrevId == b1 :> g @@ b2 :> b1 @@ b3 :> b2 @@ c1 :> g @@ c2 :> c1 @@ c3 :> c2
PointTxHashes == [b \in PointBlock |-> IF b \in {b1, c3} THEN <<t1>> ELSE <<>>]
PointMinerTx == MinersIn(PointBlock)
PointDifficulty == HeavyIn(PointBlock, {c2})
PointUnlockTime == UnlocksIn(PointBlock, PointPrevId, {t1})
PointGenHeight == GensIn(PointBlock, PointPrevId)
HighPoints == 2 :> c2 @@ 3 :> c3
LowPoints == 1 :> c1

RaceBlock == {g, b1, c1, c2, d2}
RacePrevId == b1 :> g @@ c1 :> g @@ c2 :> c1 @@ d2 :> c1
RaceTxHashes == [b \in RaceBlock |-> IF b \in {b1, c2} THEN <<t1>> ELSE <<>>]
RaceMinerTx == MinersIn(RaceBlock)
RaceDifficulty == HeavyIn(RaceBlock, {c1, d2})
RaceUnlockTime == UnlocksIn(RaceBlock, RacePrevId, {t1})
RaceGenHeight == GensIn(RaceBlock, RacePrevId)

\* One transaction that spends an output of the genesis block
OneVin == t1 :> <<k1>>
OneRing == t1 :> {<<1, <<"miner_tx", g>>>>}
=============================================================================
