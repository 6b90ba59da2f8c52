--------------------------- MODULE BlockTemplate ---------------------------
(***************************************************************************)
(* The transactions a block template takes from the pool                   *)
(* (tx_memory_pool::fill_block_template) while the chain moves between     *)
(* branches: what is_transaction_ready_to_go remembers of earlier checks   *)
(* must not outlive the chain it was found on.                             *)
(*                                                                         *)
(* The blocks form a constant tree; the main chain is the path to tip.  A  *)
(* block brings outputs and contains transactions, a transaction needs     *)
(* outputs (the members of its rings) and has key images.  Every chain     *)
(* operation holds the lock of the pool, as add_new_block does, so each    *)
(* action here is one step.                                                *)
(***************************************************************************)
EXTENDS Integers, FiniteSets, Sequences, SequencesExt

CONSTANTS Blocks, Genesis, PrevId,   \* the tree of blocks
          Gives,                     \* outputs a block brings
          TxHashes,                  \* transactions a block contains
          Txs, Needs, Images, BlobSize,
          NullHash,
          MedianSize,                \* penalty free size of a block
          MaxTotalSize,              \* 130% of it less the reserve for the coinbase
          MaxTemplateSize            \* CRYPTONOTE_GETBLOCKTEMPLATE_MAX_BLOCK_SIZE

VARIABLES tip,      \* last block of the main chain
          txd,      \* the pool: details of every transaction in it
          bl,       \* the transactions of the last template
          built_on  \* the tip that template was filled on

vars == <<tip, txd, bl, built_on>>

PathTo(b) ==
  LET Path[x \in Blocks] == IF x = Genesis THEN <<x>> ELSE Append(Path[PrevId[x]], x) IN Path[b]

(* m_blocks, counted from height 0.                                        *)
Chain == PathTo(tip)
get_current_blockchain_height == Len(Chain)
get_block_id_by_height(h) == IF h < Len(Chain) THEN Chain[h + 1] ELSE NullHash

HeightsOf(c, outs) == {h \in 0 .. Len(c) - 1 : Gives[c[h + 1]] \cap outs # {}}
MaxOf(S) == IF S = {} THEN 0 ELSE CHOOSE x \in S : \A y \in S : y <= x

InChain(c, t) == \E i \in 1 .. Len(c) : t \in TxHashes[c[i]]
SpentOn(c) == UNION {Images[t] : t \in {u \in Txs : InChain(c, u)}}

(* What check_tx_inputs() answers on chain c, and the highest block that   *)
(* holds an output it used.                                                *)
InputsFound(c, t) ==
  /\ Needs[t] \subseteq UNION {Gives[c[i]] : i \in 1 .. Len(c)}
  /\ Images[t] \cap SpentOn(c) = {}
max_used_block_height(c, t) == MaxOf(HeightsOf(c, Needs[t]))

-----------------------------------------------------------------------------
(* add_tx(): the details of a transaction that enters the pool.            *)
NewDetails(c, t) ==
  IF InputsFound(c, t)
  THEN [max_used_block_height |-> max_used_block_height(c, t),
        max_used_block_id |-> c[max_used_block_height(c, t) + 1],
        last_failed_height |-> 0, last_failed_id |-> NullHash]
  ELSE [max_used_block_height |-> 0, max_used_block_id |-> NullHash,
        last_failed_height |-> 0, last_failed_id |-> NullHash]

(* The second check: it succeeds and renews the highest block used, or it  *)
(* notes the tail it failed on.  A failing check leaves the height it got  *)
(* to, which no later test relies on.                                      *)
Recheck(d, t) ==
  IF InputsFound(Chain, t)
  THEN [ok |-> TRUE,
        d |-> [d EXCEPT !.max_used_block_height = max_used_block_height(Chain, t),
                        !.max_used_block_id = Chain[max_used_block_height(Chain, t) + 1]]]
  ELSE [ok |-> FALSE,
        d |-> [d EXCEPT !.last_failed_height = get_current_blockchain_height - 1,
                        !.last_failed_id = tip,
                        !.max_used_block_height = max_used_block_height(Chain, t)]]

BrokenForThisHeight(d) ==
  /\ d.last_failed_id # NullHash
  /\ get_current_blockchain_height > d.last_failed_height
  /\ d.last_failed_id = get_block_id_by_height(d.last_failed_height)

(* The answer to "were the inputs checked on this chain", with the details *)
(* as it leaves them.                                                      *)
CheckedInputs(d, t) ==
  IF d.max_used_block_id = NullHash
  THEN IF BrokenForThisHeight(d) THEN [ok |-> FALSE, d |-> d] ELSE Recheck(d, t)
  ELSE IF d.max_used_block_height >= get_current_blockchain_height
       THEN [ok |-> FALSE, d |-> d]
       ELSE IF get_block_id_by_height(d.max_used_block_height) = d.max_used_block_id
            THEN [ok |-> TRUE, d |-> d]
            ELSE IF d.last_failed_id = get_block_id_by_height(d.last_failed_height)
                 THEN [ok |-> FALSE, d |-> d]
                 ELSE Recheck(d, t)

(* Variant: a transaction that was checked once is trusted by its height.  *)
is_transaction_ready_trusting(d, t) ==
  IF d.max_used_block_id = NullHash THEN CheckedInputs(d, t)
  ELSE [ok |-> d.max_used_block_height < get_current_blockchain_height
                 /\ Images[t] \cap SpentOn(Chain) = {}, d |-> d]

is_transaction_ready_to_go(d, t) ==
  LET r == CheckedInputs(d, t)
  IN  [r EXCEPT !.ok = @ /\ Images[t] \cap SpentOn(Chain) = {}]

(* One turn of the loop of fill_block_template(): s holds the pool, what   *)
(* was taken so far, and whether the loop has ended.                       *)
FillOne(s, t) ==
  LET total == s.size + BlobSize[t]
      r     == is_transaction_ready_to_go(s.txd[t], t)
  IN  CASE s.full \/ MaxTotalSize < total \/ total > MaxTemplateSize -> s
        [] s.size > MedianSize -> [s EXCEPT !.full = TRUE]
        [] OTHER ->
           LET t2 == [s EXCEPT !.txd[t] = r.d]
           IN  IF ~r.ok \/ Images[t] \cap s.images # {} THEN t2
               ELSE [t2 EXCEPT !.txs = Append(@, t), !.size = total,
                               !.images = @ \cup Images[t]]

fill_block_template ==
  \E order \in SetToAllKPermutations(DOMAIN txd) :
    /\ Len(order) = Cardinality(DOMAIN txd)
    /\ LET s == FoldLeft(FillOne,
                         [txd |-> txd, txs |-> <<>>, size |-> 0, images |-> {}, full |-> FALSE],
                         order)
       IN  txd' = s.txd /\ bl' = s.txs
    /\ built_on' = tip
    /\ UNCHANGED tip

(* A transaction enters the pool: from the network with its inputs found   *)
(* and its images unused, or with a block that brought it, in any case.    *)
add_tx(t, kept_by_block) ==
  /\ t \notin DOMAIN txd /\ ~InChain(Chain, t)
  /\ \/ kept_by_block
     \/ InputsFound(Chain, t) /\ \A u \in DOMAIN txd : Images[u] \cap Images[t] = {}
  /\ txd' = [u \in DOMAIN txd \cup {t} |-> IF u = t THEN NewDetails(Chain, t) ELSE txd[u]]
  /\ UNCHANGED <<tip, bl, built_on>>

(* The chain grows, shrinks or is reorganised: transactions of blocks that *)
(* leave come back to the pool, checked on what lies below their block;    *)
(* those of blocks that join are taken out.                                *)
switch_to(b) ==
  LET old  == Range(Chain) \ Range(PathTo(b))
      back == UNION {TxHashes[x] : x \in old}
      home == [t \in back |-> CHOOSE x \in old : t \in TxHashes[x]]
      pool == {t \in DOMAIN txd \cup back : ~InChain(PathTo(b), t)}
  IN  /\ b # tip
      /\ tip' = b
      /\ txd' = [t \in pool |-> IF t \in back THEN NewDetails(PathTo(PrevId[home[t]]), t)
                                ELSE txd[t]]
      /\ UNCHANGED <<bl, built_on>>

Init ==
  /\ tip = Genesis /\ txd = [t \in {} |-> 0]
  /\ bl = <<>> /\ built_on = Genesis

Next ==
  \/ \E t \in Txs, kept_by_block \in BOOLEAN : add_tx(t, kept_by_block)
  \/ \E b \in Blocks : switch_to(b)
  \/ fill_block_template

-----------------------------------------------------------------------------
(* While the chain is the one a template was filled on, a block of its     *)
(* transactions would be accepted: all their inputs are found, no image is *)
(* spent, and no two transactions spend the same image, whatever chains    *)
(* the cached checks of is_transaction_ready_to_go() were made on.         *)
TemplateValid ==
  built_on = tip =>
    /\ \A i \in 1 .. Len(bl) : ~InChain(Chain, bl[i]) => InputsFound(Chain, bl[i])
    /\ \A i, j \in 1 .. Len(bl) : i # j => Images[bl[i]] \cap Images[bl[j]] = {}

SizeOf(txs) == FoldLeft(LAMBDA n, t : n + BlobSize[t], 0, txs)

(* The template never exceeds the limits of the block size, and all of it  *)
(* but the last transaction lies in the penalty free zone.                 *)
TemplateBounded ==
  /\ SizeOf(bl) <= MaxTotalSize /\ SizeOf(bl) <= MaxTemplateSize
  /\ Len(bl) > 0 => SizeOf(Front(bl)) <= MedianSize
=============================================================================
