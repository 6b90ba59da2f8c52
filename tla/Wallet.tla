------------------------------- MODULE Wallet -------------------------------
(* wallet2 against a daemon whose chain grows and reorganizes while the wallet is in the middle of a        *)
(* refresh: blocks are pulled in pieces from the last common block, each transaction that pays the wallet   *)
(* costs another call, calls fail, the wallet is stored and reloaded, and it sends transactions of its own. *)
(* A transaction lists what it pays the wallet (0: an output of somebody else) and which of the wallet's    *)
(* outputs it spends; the key image of an output is the pair of its transaction and its position.           *)
EXTENDS Integers, Sequences, FiniteSets, FiniteSetsExt

CONSTANTS Incoming,        \* sequence of transactions of others
          SpendableAge,    \* DEFAULT_TX_SPENDABLE_AGE
          MaxCount,        \* blocks in one answer
          MaxBlocks,       \* blocks ever mined
          MaxReorg,        \* depth of a reorganization
          MaxPerBlock,     \* transactions in a block
          MaxMade,         \* transactions the wallet makes
          MaxFails,        \* calls that fail because the daemon is busy
          MaxTries,        \* retries of pull_blocks
          LostCalls,       \* whether a call that sends a transaction can be interrupted
          Needs            \* amounts the user wants to send, fee included

VARIABLES mined,     \* transactions of every block ever mined; a block's number is its id
          chain,     \* the daemon's chain, ids
          txs,       \* all transactions: those of others and those the wallet made
          pool,      \* the wallet's transactions that the daemon has accepted
          w,         \* the wallet
          disk,      \* the wallet as stored
          phase, resp, at, added, tries, fails, sent

vars == <<mined, chain, txs, pool, w, disk, phase, resp, at, added, tries, fails, sent>>

Outs(t) == DOMAIN txs[t].outs
Ours(t) == {<<t, o>> : o \in {p \in Outs(t) : txs[t].outs[p] > 0}}
AmountOf(x) == txs[x[1]].outs[x[2]]
SumOf(S) == FoldSet(LAMBDA x, y : AmountOf(x) + y, 0, S)

TxsOf(c) == UNION {{mined[c[h]][k] : k \in DOMAIN mined[c[h]]} : h \in DOMAIN c}
OursOn(c) == UNION {Ours(t) : t \in TxsOf(c)}
SpentOn(c) == UNION {txs[t].ins : t \in TxsOf(c)}

(* The daemon's index of an output: how many of the same amount came before it on its chain. *)
Positions(c) == {<<h, k, o>> : h \in DOMAIN c, k \in 1..MaxPerBlock, o \in 1..2}
GlobalIndex(c, x) ==
  LET real(p) == p[2] <= Len(mined[c[p[1]]]) /\ p[3] \in Outs(mined[c[p[1]]][p[2]])
      output(p) == <<mined[c[p[1]]][p[2]], p[3]>>
      before(p, q) == p[1] < q[1] \/ (p[1] = q[1] /\ (p[2] < q[2] \/ (p[2] = q[2] /\ p[3] < q[3])))
      mine == CHOOSE p \in Positions(c) : real(p) /\ output(p) = x
  IN Cardinality({p \in Positions(c) : real(p) /\ before(p, mine) /\ AmountOf(output(p)) = AmountOf(x)})

-----------------------------------------------------------------------------
(* The daemon. *)
Valid(c, s) == \A k \in DOMAIN s : s[k] \notin TxsOf(c) /\ txs[s[k]].ins \subseteq (OursOn(c) \ SpentOn(c))
                 /\ (\A n \in DOMAIN s : n # k => s[n] # s[k] /\ txs[s[n]].ins \cap txs[s[k]].ins = {})
Candidates == (1..Len(Incoming)) \cup pool
BlockTxs == UNION {[1..n -> Candidates] : n \in 0..MaxPerBlock}

MineBlock ==
  /\ Len(mined) < MaxBlocks
  /\ \E s \in BlockTxs : Valid(chain, s) /\ mined' = Append(mined, s) /\ chain' = Append(chain, Len(mined) + 1)
  /\ UNCHANGED <<txs, pool, w, disk, phase, resp, at, added, tries, fails, sent>>

(* The last k blocks give way to k + 1 others, the first of which has some of the transactions. *)
Reorganize ==
  \E k \in 1..MaxReorg :
    /\ k < Len(chain) /\ Len(mined) + k + 1 <= MaxBlocks
    /\ LET kept == SubSeq(chain, 1, Len(chain) - k) IN
       /\ \E s \in BlockTxs : Valid(kept, s) /\ mined' = Append(mined, s) \o [n \in 1..k |-> <<>>]
       /\ chain' = kept \o [n \in 1..(k + 1) |-> Len(mined) + n]
    /\ UNCHANGED <<txs, pool, w, disk, phase, resp, at, added, tries, fails, sent>>

-----------------------------------------------------------------------------

(* One output of a transaction that is ours: a transfer and the key image that will spend it. *)
Receive(v, x, height) ==
  [v EXCEPT !.transfers = Append(@, [out |-> x, height |-> height, gidx |-> GlobalIndex(chain, x), spent |-> FALSE]),
            !.images = [i \in DOMAIN @ \cup {x} |-> IF i = x THEN Len(v.transfers) + 1 ELSE @[i]]]

ReceiveAll(v, t, height) ==
  LET got[o \in 0..2] == IF o = 0 THEN v
        ELSE LET was == got[o - 1] IN IF <<t, o>> \in Ours(t) THEN Receive(was, <<t, o>>, height) ELSE was
  IN got[2]

process_unconfirmed(v, t) == [v EXCEPT !.unconfirmed = {u \in @ : u.tx # t}]

(* process_new_transaction after the call for the indexes has succeeded, or was not needed. *)
process_new_transaction(v, t, height) ==
  LET got == ReceiveAll(process_unconfirmed(v, t), t, height)
      spentHere == txs[t].ins \cap DOMAIN got.images
      marked == [got EXCEPT !.transfers = [n \in DOMAIN @ |-> IF \E x \in spentHere : got.images[x] = n THEN [@[n] EXCEPT !.spent = TRUE] ELSE @[n]]]
      in == SumOf(spentHere)
      out == SumOf(Ours(t))
  IN IF in < out THEN [marked EXCEPT !.payments = @ \cup {[tx |-> t, amount |-> out - in, height |-> height]}] ELSE marked

ProcessTxs(v, s, n, height) ==
  LET done[k \in 0..n] == IF k = 0 THEN v ELSE LET was == done[k - 1] IN process_new_transaction(was, s[k], height)
  IN done[n]

(* process_new_blockchain_entry: the transactions, then the block's id. *)
process_new_blockchain_entry(v, b, height) == [ProcessTxs(v, mined[b], Len(mined[b]), height) EXCEPT !.chain = Append(@, b)]

(* Variant: transfers of the block at the height itself stay. *)
detach_blockchain_above(v, height) ==
  LET stay == {n \in DOMAIN v.transfers : v.transfers[n].height <= height}
      keep == IF stay = DOMAIN v.transfers THEN Len(v.transfers) ELSE (CHOOSE n \in DOMAIN v.transfers \ stay : \A k \in DOMAIN v.transfers \ stay : n <= k) - 1
      gone == {v.transfers[n].out : n \in (keep + 1)..Len(v.transfers)}
  IN [v EXCEPT !.transfers = SubSeq(@, 1, keep), !.images = [i \in DOMAIN @ \ gone |-> @[i]],
               !.chain = SubSeq(@, 1, height), !.payments = {p \in @ : p.height < height}]

(* detach_blockchain: from the first transfer at or above the height on, all transfers and their key images go. *)
detach_blockchain(v, height) ==
  LET stay == {n \in DOMAIN v.transfers : v.transfers[n].height < height}
      keep == IF stay = DOMAIN v.transfers THEN Len(v.transfers) ELSE (CHOOSE n \in DOMAIN v.transfers \ stay : \A k \in DOMAIN v.transfers \ stay : n <= k) - 1
      gone == {v.transfers[n].out : n \in (keep + 1)..Len(v.transfers)}
  IN [v EXCEPT !.transfers = SubSeq(@, 1, keep), !.images = [i \in DOMAIN @ \ gone |-> @[i]],
               !.chain = SubSeq(@, 1, height), !.payments = {p \in @ : p.height < height}]

-----------------------------------------------------------------------------
(* refresh: pull until an answer adds nothing. *)
refresh ==
  /\ phase = "idle" /\ phase' = "pull" /\ tries' = 0
  /\ UNCHANGED <<mined, chain, txs, pool, w, disk, resp, at, added, fails, sent>>

(* The catch block of refresh. *)
Catch == IF tries < MaxTries THEN tries' = tries + 1 /\ phase' = "pull" ELSE phase' = "idle" /\ UNCHANGED tries

(* get_short_chain_history sends the wallet's ids; the daemon answers from the last one it knows. *)
CommonHeight == CHOOSE h \in 1..Len(w.chain) :
  /\ h <= Len(chain) /\ SubSeq(w.chain, 1, h) = SubSeq(chain, 1, h)
  /\ ~(h < Len(w.chain) /\ h < Len(chain) /\ w.chain[h + 1] = chain[h + 1])

pull_blocks ==
  /\ phase = "pull"
  /\ \/ /\ fails < MaxFails /\ fails' = fails + 1
        /\ Catch /\ UNCHANGED <<resp, at, added>>
     \/ /\ LET last == IF CommonHeight + MaxCount - 1 < Len(chain) THEN CommonHeight + MaxCount - 1 ELSE Len(chain) IN
           resp' = SubSeq(chain, CommonHeight, last)
        /\ at' = CommonHeight - 1 /\ added' = 0 /\ phase' = "blocks" /\ UNCHANGED <<tries, fails>>
  /\ UNCHANGED <<mined, chain, txs, pool, w, disk, sent>>

(* get_output_indexes is called for a transaction that pays the wallet; it fails when the daemon's chain no longer has it. *)
CallNeeded(t) == Ours(t) # {}
Refused(s) == {k \in DOMAIN s : CallNeeded(s[k]) /\ s[k] \notin TxsOf(chain)}

(* The transactions before number k are processed, then the call fails and the block is left. *)
Abort(v, s, k) ==
  /\ w' = process_unconfirmed(ProcessTxs(v, s, k - 1, at), s[k])
  /\ Catch /\ UNCHANGED <<resp, at, added>>

(* One block of the answer: new, known, or the start of another branch. *)
ProcessEntry ==
  /\ phase = "blocks" /\ resp # <<>>
  /\ LET b == resp[1]
         s == mined[b]
         known == at < Len(w.chain) /\ w.chain[at + 1] = b
         v == IF at < Len(w.chain) THEN detach_blockchain(w, at) ELSE w
     IN \/ /\ known
           /\ resp' = Tail(resp) /\ at' = at + 1 /\ UNCHANGED <<w, added, phase, tries, fails>>
        \/ /\ ~known /\ Refused(s) = {}
           /\ w' = process_new_blockchain_entry(v, b, at)
           /\ added' = added + (IF at < Len(w.chain) THEN 0 ELSE 1)
           /\ resp' = Tail(resp) /\ at' = at + 1 /\ UNCHANGED <<phase, tries, fails>>
        \/ /\ ~known /\ Refused(s) # {}
           /\ Abort(v, s, Min(Refused(s))) /\ UNCHANGED fails
        \/ /\ ~known /\ fails < MaxFails /\ fails' = fails + 1
           /\ \E k \in DOMAIN s : CallNeeded(s[k]) /\ (\A n \in 1..(k - 1) : n \notin Refused(s)) /\ Abort(v, s, k)
  /\ UNCHANGED <<mined, chain, txs, pool, disk, sent>>

(* The answer is used up: refresh asks again unless it added nothing. *)
PullDone ==
  /\ phase = "blocks" /\ resp = <<>>
  /\ phase' = IF added = 0 THEN "idle" ELSE "pull"
  /\ UNCHANGED <<mined, chain, txs, pool, w, disk, resp, at, added, tries, fails, sent>>

-----------------------------------------------------------------------------
(* store and load; the program may end at any moment. *)
store == phase = "idle" /\ disk' = w /\ UNCHANGED <<mined, chain, txs, pool, w, phase, resp, at, added, tries, fails, sent>>

load ==
  /\ w' = disk /\ phase' = "idle" /\ resp' = <<>> /\ at' = 0 /\ added' = 0 /\ tries' = 0
  /\ UNCHANGED <<mined, chain, txs, pool, disk, fails, sent>>

is_transfer_unlocked(td) == td.height + SpendableAge <= Len(w.chain)

(* select_transfers: taken at random until there is enough. *)
Selections(needed) ==
  LET usable == {n \in DOMAIN w.transfers : ~w.transfers[n].spent /\ is_transfer_unlocked(w.transfers[n])}
      sum(S) == FoldSet(LAMBDA n, y : AmountOf(w.transfers[n].out) + y, 0, S)
  IN {S \in SUBSET usable : sum(S) >= needed /\ \E n \in S : sum(S \ {n}) < needed}

(* create_transactions and commit_tx: the daemon accepts, refuses or is busy; a call that is interrupted counts as sent. *)
transfer ==
  /\ phase = "idle" /\ Len(txs) < Len(Incoming) + MaxMade
  /\ \E needed \in Needs : \E S \in Selections(needed) :
       LET ins == {w.transfers[n].out : n \in S}
           change == SumOf(ins) - needed
           t == Len(txs) + 1
           accepted == ins \cap (SpentOn(chain) \cup UNION {txs[p].ins : p \in pool}) = {} /\ ins \subseteq OursOn(chain)
           marked == [w EXCEPT !.unconfirmed = @ \cup {[tx |-> t, change |-> change]},
                               !.transfers = [n \in DOMAIN @ |-> IF n \in S THEN [@[n] EXCEPT !.spent = TRUE] ELSE @[n]]]
       IN /\ txs' = Append(txs, [outs |-> <<change>>, ins |-> ins])
          /\ \/ accepted /\ pool' = pool \cup {t} /\ w' = marked /\ sent' = sent \cup {t}
             \/ ~accepted /\ UNCHANGED <<pool, w, sent>>
             \/ LostCalls /\ w' = marked /\ sent' = sent \cup {t} /\ UNCHANGED pool
  /\ UNCHANGED <<mined, chain, disk, phase, resp, at, added, tries, fails>>

-----------------------------------------------------------------------------
Empty == [chain |-> <<1>>, transfers |-> <<>>, images |-> [i \in {} |-> 0], unconfirmed |-> {}, payments |-> {}]

Init ==
  /\ mined = << <<>> >> /\ chain = <<1>> /\ txs = Incoming /\ pool = {}
  /\ w = Empty /\ disk = Empty
  /\ phase = "idle" /\ resp = <<>> /\ at = 0 /\ added = 0 /\ tries = 0 /\ fails = 0 /\ sent = {}

Next == MineBlock \/ Reorganize \/ refresh \/ pull_blocks \/ ProcessEntry \/ PullDone \/ store \/ load \/ transfer

-----------------------------------------------------------------------------
(* The key images index the transfers, each transfer its own: m_key_images and m_transfers stay consistent over detaching and reloading. *)
KeyImagesIndex ==
  /\ DOMAIN w.images = {w.transfers[n].out : n \in DOMAIN w.transfers}
  /\ \A x \in DOMAIN w.images : w.images[x] \in DOMAIN w.transfers /\ w.transfers[w.images[x]].out = x

(* The transfers are exactly the outputs that the wallet's own chain pays it, each once and at the height of its block, whatever reorganizations and failed calls came before. *)
TransfersMatchChain ==
  LET listed == {w.transfers[n].out : n \in DOMAIN w.transfers} IN
  /\ listed = OursOn(w.chain) /\ Cardinality(listed) = Len(w.transfers)
  /\ \A n \in DOMAIN w.transfers : w.transfers[n].out[1] \in {mined[w.chain[w.transfers[n].height + 1]][k] : k \in DOMAIN mined[w.chain[w.transfers[n].height + 1]]}

(* An output that the wallet's chain spends is marked as spent, so that it is not offered again. *)
SpentIsMarked == \A n \in DOMAIN w.transfers : w.transfers[n].out \in SpentOn(w.chain) => w.transfers[n].spent

(* balance() never shows more than the wallet's chain gives it: change of unconfirmed transactions is counted only while the outputs they spend are not. *)
BalanceNotOverstated ==
  LET unspent == {n \in DOMAIN w.transfers : ~w.transfers[n].spent}
      balance == FoldSet(LAMBDA n, y : AmountOf(w.transfers[n].out) + y, 0, unspent) + FoldSet(LAMBDA u, y : u.change + y, 0, w.unconfirmed)
  IN balance <= SumOf(OursOn(w.chain) \ SpentOn(w.chain))

(* The payments of the wallet are those of its chain: none of a block that was detached stays. *)
PaymentsMatchChain == \A p \in w.payments : p.tx \in TxsOf(w.chain)

(* Once the wallet's chain is the daemon's, the stored global indexes are the daemon's, though they were asked for one by one while the chain moved. *)
IndexesCurrent == w.chain = chain => \A n \in DOMAIN w.transfers : w.transfers[n].gidx = GlobalIndex(chain, w.transfers[n].out)
=============================================================================
