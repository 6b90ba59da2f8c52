----------------------------- MODULE WalletSpend -----------------------------
(***************************************************************************)
(* A transfer command of the wallet from its arguments to the transactions *)
(* it sends (simplewallet.cpp transfer, wallet2 create_transactions,       *)
(* transfer, select_transfers and commit_tx, construct_tx). The wallet     *)
(* splits the request over more and more transactions until each fits,     *)
(* raises each one's fee until it pays for the transaction's size, picks   *)
(* inputs at random every time, and asks the daemon for outputs to hide    *)
(* them among; any of these steps can throw.                               *)
(***************************************************************************)
EXTENDS Integers, Sequences, FiniteSets, SequencesExt

CONSTANTS Transfers,     \* the wallet's outputs: [amount, height, unlock_time, index]
          Commands,      \* transfer commands: [mixin, payment_id, dsts]
          ChainSize,     \* blocks the wallet knows
          Now,           \* the clock; unlock times from MaxBlockNumber on are times
          MaxBlockNumber, SpendableAge, DeltaBlocks, DeltaSeconds,
          DefaultMix,    \* DEFAULT_MIX
          OutsPerAmount, \* outputs of each amount on the daemon's chain
          MaxSplit,      \* MAX_SPLIT_ATTEMPTS
          Dust, FeePerKB, KB, BaseSize, InSize, RingSize, OutSize,
          SizeLimit,     \* m_upper_transaction_size_limit
          Modulus        \* 2^64 in the code

VARIABLES pc, cmd, dsts, mixin,
          attempt, parts, part,     \* split attempt, its destination vectors, the one being made
          fee, sel, dustFirst,      \* of the transfer() in progress
          outs,                     \* what the daemon answered, per selected input
          ptxs,                     \* pending transactions
          spent,                    \* m_spent of each of the wallet's outputs
          sent,                     \* transactions the daemon has taken
          error

vars == <<pc, cmd, dsts, mixin, attempt, parts, part, fee, sel, dustFirst, outs, ptxs, spent, sent, error>>

(* The splitting of amounts is that of module Money. *)
M == INSTANCE Money WITH Modulus <- Modulus, Decimals <- 0, MaxAmount <- Modulus - 1, Thresholds <- {Dust}

Ids == 1 .. Len(Transfers)
Amount(i) == Transfers[i].amount
SumOf(s) == M!Total([k \in 1 .. Len(s) |-> Amount(s[k])])
InputsOf(txs) == UNION {ToSet(txs[k].inputs) : k \in 1 .. Len(txs)}

-----------------------------------------------------------------------------
is_tx_spendtime_unlocked(unlock_time) ==
  IF unlock_time < MaxBlockNumber THEN ChainSize - 1 + DeltaBlocks >= unlock_time
                                  ELSE Now + DeltaSeconds >= unlock_time

is_transfer_unlocked(i) ==
  /\ is_tx_spendtime_unlocked(Transfers[i].unlock_time)
  /\ Transfers[i].height + SpendableAge <= ChainSize

Usable == {i \in Ids : ~spent[i] /\ is_transfer_unlocked(i)} \ ToSet(sel)
UsableDust == {i \in Usable : Amount(i) <= Dust}

needed_money == (fee + M!Total(parts[part])) % Modulus

(* An error leaves the command: every pending transaction is dropped and   *)
(* its inputs are unmarked first.                                          *)
Unmarked == [i \in Ids |-> spent[i] /\ i \notin InputsOf(ptxs)]

(* Variant: the pending transactions keep their inputs. *)
Throw_marked(e) ==
  /\ error' = e /\ pc' = "end" /\ ptxs' = <<>>
  /\ UNCHANGED <<cmd, dsts, mixin, attempt, parts, part, fee, sel, dustFirst, outs, spent, sent>>

Throw(e) ==
  /\ error' = e /\ pc' = "end" /\ spent' = Unmarked /\ ptxs' = <<>>
  /\ UNCHANGED <<cmd, dsts, mixin, attempt, parts, part, fee, sel, dustFirst, outs, sent>>

-----------------------------------------------------------------------------
(* simple_wallet::transfer: the arguments. A destination is an address or  *)
(* a name whose record holds some addresses; one address is shown to the   *)
(* user, several are reported and the address stays empty.                 *)
Resolved(d) == CASE d.to = "address" -> {"address"}
                 [] d.to = "url"     -> {"confirmed", "cancelled"}
                 [] d.to = "several" -> {"empty"}
                 [] OTHER            -> {"wrong"}

TransferArgs ==
  /\ pc = "args"
  /\ \/ error' = "no connection" /\ pc' = "end" /\ UNCHANGED <<dsts, mixin>>
     \/ /\ cmd.dsts = <<>> \/ cmd.payment_id = "bad"
        /\ error' = "arguments" /\ pc' = "end" /\ UNCHANGED <<dsts, mixin>>
     \/ /\ cmd.dsts # <<>> /\ cmd.payment_id # "bad"
        /\ \E to \in [1 .. Len(cmd.dsts) -> UNION {Resolved(cmd.dsts[k]) : k \in 1 .. Len(cmd.dsts)}] :
             /\ \A k \in 1 .. Len(cmd.dsts) : to[k] \in Resolved(cmd.dsts[k])
             /\ IF \E k \in 1 .. Len(cmd.dsts) : to[k] \in {"wrong", "cancelled"} \/ cmd.dsts[k].amount <= 0
                THEN error' = "arguments" /\ pc' = "end" /\ UNCHANGED <<dsts, mixin>>
                ELSE /\ dsts' = [k \in 1 .. Len(cmd.dsts) |-> [to |-> to[k], amount |-> cmd.dsts[k].amount]]
                     /\ mixin' = IF cmd.mixin = -1 THEN DefaultMix ELSE cmd.mixin
                     /\ pc' = "split" /\ UNCHANGED error
  /\ UNCHANGED <<cmd, attempt, parts, part, fee, sel, dustFirst, outs, ptxs, spent, sent>>

(* create_transactions: one attempt. *)
Attempt ==
  /\ pc = "split"
  /\ parts' = M!split_amounts([k \in 1 .. Len(dsts) |-> dsts[k].amount], attempt)
  /\ part' = 1 /\ fee' = 0 /\ pc' = "transfer"
  /\ UNCHANGED <<cmd, dsts, mixin, attempt, sel, dustFirst, outs, ptxs, spent, sent, error>>

(* transfer(): what is needed. *)
TransferStart ==
  /\ pc = "transfer"
  /\ IF \E k \in 1 .. Len(parts[part]) : parts[part][k] = 0 THEN Throw("zero_destination")
     ELSE IF fee + M!Total(parts[part]) >= Modulus THEN Throw("tx_sum_overflow")
     ELSE /\ pc' = "select" /\ sel' = <<>>
          /\ dustFirst' = (mixin = 0 /\ \E i \in Ids : ~spent[i] /\ is_transfer_unlocked(i) /\ Amount(i) <= Dust)
          /\ UNCHANGED <<cmd, dsts, mixin, attempt, parts, part, fee, outs, ptxs, spent, sent, error>>

(* select_transfers: one turn of its loop. *)
SelectOne ==
  /\ pc = "select" /\ SumOf(sel) < needed_money /\ Usable # {}
  /\ \E i \in IF dustFirst THEN UsableDust ELSE IF Usable # UsableDust THEN Usable \ UsableDust ELSE UsableDust :
       sel' = Append(sel, i)
  /\ dustFirst' = FALSE
  /\ UNCHANGED <<pc, cmd, dsts, mixin, attempt, parts, part, fee, outs, ptxs, spent, sent, error>>

Selected ==
  /\ pc = "select" /\ (SumOf(sel) >= needed_money \/ Usable = {})
  /\ IF SumOf(sel) < needed_money THEN Throw("not_enough_money")
     ELSE /\ pc' = IF mixin > 0 THEN "outs" ELSE "build"
          /\ outs' = [k \in 1 .. Len(sel) |-> {}]
          /\ UNCHANGED <<cmd, dsts, mixin, attempt, parts, part, fee, sel, dustFirst, ptxs, spent, sent, error>>

(* The daemon's answer: up to mixin + 1 outputs of each amount. *)
RandomOuts ==
  /\ pc = "outs"
  /\ \/ \E e \in {"no_connection_to_daemon", "daemon_busy", "get_random_outs_error"} : Throw(e)
     \/ /\ outs' \in [1 .. Len(sel) -> {S \in SUBSET (0 .. OutsPerAmount - 1) : Cardinality(S) <= mixin + 1}]
        /\ IF \E k \in 1 .. Len(sel) : Cardinality(outs'[k]) < mixin
           THEN /\ error' = "not_enough_outs_to_mix" /\ pc' = "end" /\ spent' = Unmarked /\ ptxs' = <<>>
                /\ UNCHANGED <<cmd, dsts, mixin, attempt, parts, part, fee, sel, dustFirst, sent>>
           ELSE /\ pc' = "build"
                /\ UNCHANGED <<cmd, dsts, mixin, attempt, parts, part, fee, sel, dustFirst, ptxs, spent, sent, error>>

-----------------------------------------------------------------------------
Sorted(S) == SetToSortSeq(S, <)

(* The ring of an input: the lowest mixin of the daemon's outputs other    *)
(* than its own, and its own before the first that is not below it.        *)
Ring(k) ==
  LET own == Transfers[sel[k]].index
      all == Sorted(outs[k] \ {own})
      mix == SubSeq(all, 1, IF Len(all) < mixin THEN Len(all) ELSE mixin)
      below == SelectSeq(mix, LAMBDA x : x < own)
  IN [offsets |-> below \o <<own>> \o SubSeq(mix, Len(below) + 1, Len(mix)), real |-> Len(below) + 1]

Change == SumOf(sel) - needed_money

(* construct_tx refuses zero amounts and outputs that exceed the inputs. *)
construct_tx(rings, o) ==
  [ok |-> (\A k \in 1 .. Len(o) : o[k] > 0) /\ M!Total(o) <= SumOf(sel),
   size |-> BaseSize + M!Total([k \in 1 .. Len(rings) |-> InSize + RingSize * Len(rings[k].offsets)]) + OutSize * Len(o)]

NeededFee(size) == (size \div KB + (IF size % KB # 0 THEN 1 ELSE 0)) * FeePerKB

(* The transaction is kept, its inputs are marked, and the next is begun. *)
Keep(ptx) ==
  /\ ptxs' = Append(ptxs, ptx)
  /\ spent' = [i \in Ids |-> spent[i] \/ i \in ToSet(ptx.inputs)]
  /\ fee' = 0
  /\ IF part < Len(parts) THEN part' = part + 1 /\ pc' = "transfer" ELSE pc' = "created" /\ UNCHANGED part

(* Variant: every turn begins without a fee. *)
PayMore_none(needed) == fee' = 0 /\ pc' = "transfer"
PayMore(needed) == fee' = needed /\ pc' = "transfer"

SplitOuts == M!digit_split_strategy(parts[part], Change, Dust)

Build ==
  /\ pc = "build"
  /\ LET rings == [k \in 1 .. Len(sel) |-> Ring(k)]
         split == SplitOuts
         tx    == construct_tx(rings, split.outs)
     IN IF split.dust > Dust THEN Throw("wallet_internal_error")
        ELSE IF ~tx.ok THEN Throw("tx_not_constructed")
        ELSE IF SizeLimit <= tx.size THEN
          IF attempt >= MaxSplit THEN Throw("tx_too_big")
          ELSE /\ attempt' = attempt + 1 /\ pc' = "split" /\ spent' = Unmarked /\ ptxs' = <<>>
               /\ UNCHANGED <<cmd, dsts, mixin, parts, part, fee, sel, dustFirst, outs, sent, error>>
        ELSE /\ IF fee < NeededFee(tx.size)
                THEN PayMore(NeededFee(tx.size)) /\ UNCHANGED <<part, ptxs, spent>>
                ELSE Keep([inputs |-> sel, rings |-> rings, outs |-> split.outs, fee |-> fee,
                           dust |-> split.dust, change |-> Change, size |-> tx.size])
             /\ UNCHANGED <<cmd, dsts, mixin, attempt, parts, sel, dustFirst, outs, sent, error>>

(* All are made: the marks are taken back until the daemon has them. *)
Created ==
  /\ pc = "created"
  /\ spent' = Unmarked
  /\ pc' = "confirm"
  /\ UNCHANGED <<cmd, dsts, mixin, attempt, parts, part, fee, sel, dustFirst, outs, ptxs, sent, error>>

(* More than one transaction needs the user's consent. *)
Confirm ==
  /\ pc = "confirm"
  /\ \/ pc' = "commit" /\ UNCHANGED <<error, ptxs>>
     \/ Len(ptxs) > 1 /\ pc' = "end" /\ error' = "cancelled" /\ ptxs' = <<>>
  /\ UNCHANGED <<cmd, dsts, mixin, attempt, parts, part, fee, sel, dustFirst, outs, spent, sent>>

-----------------------------------------------------------------------------
(* The last pending transaction is sent, then dropped; an error leaves the *)
(* loop with the others unsent.                                            *)
commit_tx ==
  /\ pc = "commit" /\ ptxs # <<>>
  /\ LET ptx == ptxs[Len(ptxs)]
     IN \/ /\ sent' = Append(sent, ptx)
           /\ spent' = [i \in Ids |-> spent[i] \/ i \in ToSet(ptx.inputs)]
           /\ ptxs' = SubSeq(ptxs, 1, Len(ptxs) - 1)
           /\ UNCHANGED <<pc, error>>
        \/ /\ \E e \in {"no_connection_to_daemon", "daemon_busy", "tx_rejected"} : error' = e
           /\ pc' = "end" /\ ptxs' = <<>>
           /\ UNCHANGED <<sent, spent>>
  /\ UNCHANGED <<cmd, dsts, mixin, attempt, parts, part, fee, sel, dustFirst, outs>>

Committed ==
  /\ pc = "commit" /\ ptxs = <<>>
  /\ pc' = "end"
  /\ UNCHANGED <<cmd, dsts, mixin, attempt, parts, part, fee, sel, dustFirst, outs, ptxs, spent, sent, error>>

Init ==
  /\ pc = "args" /\ cmd \in Commands /\ dsts = <<>> /\ mixin = 0
  /\ attempt = 1 /\ parts = <<>> /\ part = 1 /\ fee = 0 /\ sel = <<>> /\ dustFirst = FALSE /\ outs = <<>>
  /\ ptxs = <<>> /\ sent = <<>> /\ error = "none"
  /\ spent = [i \in Ids |-> FALSE]

Ended == pc = "end" /\ UNCHANGED vars

Step == TransferArgs \/ Attempt \/ TransferStart \/ SelectOne \/ Selected \/ RandomOuts \/ Build \/ Created
        \/ Confirm \/ commit_tx \/ Committed

Next == Step \/ Ended

-----------------------------------------------------------------------------
Made == ptxs \o sent

(* Money is neither made nor lost: the inputs of every transaction that    *)
(* create_transactions makes are its outputs, its fee and the dust that is *)
(* left to the miner.                                                      *)
MoneyConserved ==
  \A k \in 1 .. Len(Made) : LET t == Made[k] IN SumOf(t.inputs) = M!Total(t.outs) + t.fee + t.dust

(* Two transactions made for one command never share an input, and none    *)
(* uses an output that was spent, although each picks at random.           *)
NoSharedInput ==
  \A k \in 1 .. Len(Made) :
    /\ Cardinality(ToSet(Made[k].inputs)) = Len(Made[k].inputs)
    /\ \A n \in 1 .. Len(Made) : n # k => ToSet(Made[n].inputs) \cap ToSet(Made[k].inputs) = {}

(* Outside of create_transactions exactly the inputs of the transactions   *)
(* that the daemon took are marked as spent, whichever way a command ends. *)
MarksRestored ==
  pc \in {"confirm", "commit", "end"} => {i \in Ids : spent[i]} = InputsOf(sent)

(* The ring of every input rises strictly, so that its differences encode  *)
(* it, and holds the wallet's own output where the signature expects it.   *)
RingSound ==
  \A k \in 1 .. Len(Made) : \A n \in 1 .. Len(Made[k].inputs) :
    LET g == Made[k].rings[n]
    IN /\ \A j \in 1 .. Len(g.offsets) - 1 : g.offsets[j] < g.offsets[j + 1]
       /\ g.offsets[g.real] = Transfers[Made[k].inputs[n]].index

(* Every transaction pays for each kilobyte it has begun, as the pool of   *)
(* the daemon asks (tx_pool.cpp).                                          *)
FeeMet == \A k \in 1 .. Len(Made) : Made[k].fee * KB >= Made[k].size * FeePerKB

(* Once everything is made, the transactions together pay exactly what was *)
(* asked for, apart from the change.                                       *)
EverythingPaid ==
  pc = "confirm" =>
    /\ Len(ptxs) = attempt
    /\ M!Total([k \in 1 .. Len(ptxs) |-> M!Total(ptxs[k].outs) + ptxs[k].dust - ptxs[k].change])
         = M!Total([k \in 1 .. Len(dsts) |-> dsts[k].amount])
=============================================================================
