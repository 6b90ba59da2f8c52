----------------------------- MODULE ChainRules -----------------------------
(***************************************************************************)
(* The numbers a block is judged by: difficulty, timestamp median, reward  *)
(* and size limit (difficulty.cpp, get_block_reward, and the callers in    *)
(* blockchain_storage.cpp). A main chain grows, and an alternative chain   *)
(* grows from one of its blocks; the code computes the same numbers along  *)
(* two different paths, and a switch is only possible if they agree.       *)
(***************************************************************************)
EXTENDS Integers, Sequences, FiniteSets

CONSTANTS Half,              \* base of a half word
          DIFFICULTY_WINDOW, DIFFICULTY_LAG, DIFFICULTY_CUT, DIFFICULTY_TARGET,
          TimestampWindow,   \* BLOCKCHAIN_TIMESTAMP_CHECK_WINDOW
          RewardWindow,      \* CRYPTONOTE_REWARD_BLOCKS_WINDOW
          RewardZone,        \* CRYPTONOTE_BLOCK_GRANTED_FULL_REWARD_ZONE
          MONEY_SUPPLY, SpeedDivisor, FinalSubsidy,
          Times, Sizes, MaxMain, MaxAlt

VARIABLES main,    \* m_blocks without the genesis block's special cases: the first is genesis
          alt,     \* the blocks of the alternative chain
          split,   \* the height of its first block, 0 when there is none
          limit    \* m_current_block_cumul_sz_limit

chainVars == <<main, alt, split, limit>>

-----------------------------------------------------------------------------
(* The double-word arithmetic behind the difficulty check and the block    *)
(* reward: mul and check_hash of difficulty.cpp, mul128 and div128_32 of   *)
(* int-util.h. A word is two half words of base Half (2^32 in the code);   *)
(* every operation wraps at a word.                                        *)
Word == Half * Half
W(x) == x % Word
hi_dword(x) == x \div Half
lo_dword(x) == x % Half

-----------------------------------------------------------------------------

(* The portable product of difficulty.cpp: four half products and three    *)
(* carries.                                                                *)
mul(a, b) ==
  LET r0 == W(lo_dword(a) * lo_dword(b))
      r1 == W(hi_dword(a) * lo_dword(b) + hi_dword(r0))
      r2 == W(lo_dword(a) * hi_dword(b))
      r3 == W(hi_dword(a) * hi_dword(b) + hi_dword(r2))
      s1 == lo_dword(r1) + lo_dword(r2)
      s2 == hi_dword(r1) + lo_dword(r3) + hi_dword(s1)
      s3 == W(hi_dword(r3) + hi_dword(s2))
  IN [low  |-> W(s1 * Half) + lo_dword(r0),
      high |-> lo_dword(s2) + W(s3 * Half)]

(* The product of int-util.h: the carries are found by comparing. *)
mul128(m, n) ==
  LET ad == W(hi_dword(m) * lo_dword(n))
      bc == W(lo_dword(m) * hi_dword(n))
      bd == W(lo_dword(m) * lo_dword(n))
      adbc == W(ad + bc)
      carry == IF adbc < ad THEN Half ELSE 0
      lo == W(bd + adbc * Half)
  IN [low |-> lo,
      high |-> W(hi_dword(m) * hi_dword(n) + hi_dword(adbc) + carry
                   + (IF lo < bd THEN 1 ELSE 0))]

(* One digit of the long division: the remainder so far goes in front. *)
div_with_reminder(dividend, divisor, remainder) ==
  LET d == dividend + remainder * Half
  IN [q |-> W(d) \div divisor, r |-> W(d) % divisor]

(* Long division of two words by a half word. *)
div128_32(hi, lo, divisor) ==
  LET q3 == div_with_reminder(hi_dword(hi), divisor, 0)
      q2 == div_with_reminder(lo_dword(hi), divisor, q3.r)
      q1 == div_with_reminder(hi_dword(lo), divisor, q2.r)
      q0 == div_with_reminder(lo_dword(lo), divisor, q1.r)
  IN [high |-> W(q3.q * Half) + q2.q, low |-> W(q1.q * Half) + q0.q, rem |-> q0.r]

cadd(a, b) == W(a + b) < a

cadc(a, b, c) == W(a + b) < a \/ (c /\ W(a + b) = Word - 1)

(* The hash, four words with the lowest first, times the difficulty must   *)
(* fit in four words. Only the carries are computed.                       *)
check_hash(hash, difficulty) ==
  LET t == mul(hash[4], difficulty)
      p1 == mul(hash[1], difficulty)
      p2 == mul(hash[2], difficulty)
      p3 == mul(hash[3], difficulty)
      c1 == cadd(p1.high, p2.low)
      c2 == cadc(p2.high, p3.low, c1)
      c3 == cadc(p3.high, t.low, c2)
  IN t.high = 0 /\ ~c3

-----------------------------------------------------------------------------
DIFFICULTY_BLOCKS_COUNT == DIFFICULTY_WINDOW + DIFFICULTY_LAG

MinOf(a, b) == IF a < b THEN a ELSE b
MaxOf(a, b) == IF a > b THEN a ELSE b
Tail2(s, n) == SubSeq(s, MaxOf(Len(s) - n, 0) + 1, Len(s))
Field(s, f) == [i \in 1 .. Len(s) |-> s[i][f]]

(* s in ascending order: the i-th smallest has fewer than i below it. *)
Sorted(s) ==
  [i \in 1 .. Len(s) |->
     CHOOSE x \in {s[j] : j \in 1 .. Len(s)} :
       /\ Cardinality({j \in 1 .. Len(s) : s[j] < x}) < i
       /\ Cardinality({j \in 1 .. Len(s) : s[j] <= x}) >= i]

(* epee::misc_utils::median *)
median(s) ==
  LET t == Sorted(s)
      n == Len(s) \div 2
  IN IF s = <<>> THEN 0
     ELSE IF Len(s) % 2 = 1 THEN t[n + 1] ELSE (t[n] + t[n + 1]) \div 2

-----------------------------------------------------------------------------
(* The oldest Window blocks given, sorted and cut at both ends; the work   *)
(* between them over the time between them. 0 stands for an overflow.      *)
next_difficulty(timestamps, cumulative) ==
  LET n == MinOf(Len(timestamps), DIFFICULTY_WINDOW)
      ts == Sorted(SubSeq(timestamps, 1, n))
      kept == DIFFICULTY_WINDOW - 2 * DIFFICULTY_CUT
      cut_begin == IF n <= kept THEN 0 ELSE (n - kept + 1) \div 2
      cut_end == IF n <= kept THEN n ELSE cut_begin + kept
      time_span == MaxOf(ts[cut_end] - ts[cut_begin + 1], 1)
      p == mul(cumulative[cut_end] - cumulative[cut_begin + 1], DIFFICULTY_TARGET)
  IN IF n <= 1 THEN 1
     ELSE IF p.high # 0 \/ W(p.low + time_span - 1) < p.low THEN 0
     ELSE (p.low + time_span - 1) \div time_span

(* The last Count blocks of the chain, never the genesis block. *)
get_difficulty_for_next_block(chain) ==
  LET offset == Len(chain) - MinOf(Len(chain), DIFFICULTY_BLOCKS_COUNT)
      b == SubSeq(chain, IF offset = 0 THEN 2 ELSE offset + 1, Len(chain))
  IN next_difficulty(Field(b, "ts"), Field(b, "cum"))

(* Variant: the genesis block is counted when the chain is short. *)
get_next_difficulty_for_alternative_chain_genesis(alt_chain, height) ==
  LET stop == height - Len(alt_chain)
      count == MinOf(DIFFICULTY_BLOCKS_COUNT - MinOf(DIFFICULTY_BLOCKS_COUNT, Len(alt_chain)), stop)
      b == IF Len(alt_chain) < DIFFICULTY_BLOCKS_COUNT
           THEN SubSeq(main, stop - count + 1, stop) \o alt_chain
           ELSE Tail2(alt_chain, DIFFICULTY_BLOCKS_COUNT)
  IN next_difficulty(Field(b, "ts"), Field(b, "cum"))

(* The blocks of the main chain below the split, as many as are missing,   *)
(* and the alternative blocks; the last Count of these when they suffice.  *)
get_next_difficulty_for_alternative_chain(alt_chain, height) ==
  LET stop == height - Len(alt_chain)
      count == MinOf(DIFFICULTY_BLOCKS_COUNT - MinOf(DIFFICULTY_BLOCKS_COUNT, Len(alt_chain)), stop)
      start == IF stop = count THEN 1 ELSE stop - count
      b == IF Len(alt_chain) < DIFFICULTY_BLOCKS_COUNT
           THEN SubSeq(main, start + 1, stop) \o alt_chain
           ELSE Tail2(alt_chain, DIFFICULTY_BLOCKS_COUNT)
  IN next_difficulty(Field(b, "ts"), Field(b, "cum"))

-----------------------------------------------------------------------------
(* No rule before there are enough blocks; then not before their median.   *)
check_block_timestamp(timestamps, ts) ==
  Len(timestamps) < TimestampWindow \/ ts >= median(timestamps)

check_block_timestamp_main(chain, ts) ==
  check_block_timestamp(Field(Tail2(chain, TimestampWindow), "ts"), ts)

(* Fills up from the block at height top downwards. The loop ends when it  *)
(* has come down to the stop height: the genesis block is only taken when  *)
(* it is the top itself.                                                   *)
complete_timestamps_vector(top, timestamps) ==
  LET need == TimestampWindow - Len(timestamps)
      stop == IF top > need THEN top - need ELSE 0
      low == IF top = 0 THEN 0 ELSE stop + 1
  IN IF need <= 0 THEN timestamps
     ELSE timestamps \o [i \in 1 .. top - low + 1 |-> main[top - i + 2].ts]

(* The timestamps an alternative block is compared with: all those of the  *)
(* alternative chain, the newest first, filled up from the main chain.     *)
AltTimestamps(alt_chain, height) ==
  complete_timestamps_vector(height - Len(alt_chain) - 1,
    [i \in 1 .. Len(alt_chain) |-> alt_chain[Len(alt_chain) - i + 1].ts])

-----------------------------------------------------------------------------
(* base * size * (2m - size) / m / m in two words. *)
Penalised(base, size, m) ==
  LET p == mul128(base, size * (2 * m - size))
      q == div128_32(p.high, p.low, m)
  IN div128_32(q.high, q.low, m).low

(* The subsidy of what is left to generate, and the penalty for a block    *)
(* above the median. -1: a block above twice the median.                   *)
get_block_reward(median_size, size, coins) ==
  LET base == MaxOf((MONEY_SUPPLY - coins) \div SpeedDivisor, FinalSubsidy)
      m == MaxOf(median_size, RewardZone)
  IN IF size <= m THEN base
     ELSE IF size > 2 * m THEN -1
     ELSE Penalised(base, size, m)

get_last_n_blocks_sizes(chain, n) == Field(Tail2(chain, n), "size")

(* The reward validate_miner_transaction holds the coinbase against. *)
validate_miner_transaction(chain, size) ==
  get_block_reward(median(get_last_n_blocks_sizes(chain, RewardWindow)), size,
                   chain[Len(chain)].coins)

update_next_comulative_size_limit(chain) ==
  2 * MaxOf(median(get_last_n_blocks_sizes(chain, RewardWindow)), RewardZone)

(* The coins generated so far stop at the supply, where the tail subsidy   *)
(* goes on.                                                                *)
Generated(coins, reward) ==
  IF reward < MONEY_SUPPLY - coins THEN coins + reward ELSE MONEY_SUPPLY

-----------------------------------------------------------------------------
Init ==
  /\ main = <<[ts |-> 0, size |-> 1, cum |-> 1, coins |-> FinalSubsidy]>>
  /\ alt = <<>>
  /\ split = 0
  /\ limit = 2 * RewardZone

(* handle_block_to_main_chain, as far as these numbers go. *)
AddMain(ts, size) ==
  LET d == get_difficulty_for_next_block(main)
      reward == validate_miner_transaction(main, size)
  IN /\ Len(main) < MaxMain /\ alt = <<>>
     /\ check_block_timestamp_main(main, ts)
     /\ d # 0 /\ reward >= 0
     /\ main' = Append(main, [ts |-> ts, size |-> size, cum |-> main[Len(main)].cum + d,
                              coins |-> Generated(main[Len(main)].coins, reward)])
     /\ limit' = update_next_comulative_size_limit(main')
     /\ UNCHANGED <<alt, split>>

(* handle_alternative_block for a block on top of the alternative chain,   *)
(* or for the first block of one, at height h.                             *)
AddAlt(h, ts) ==
  LET d == get_next_difficulty_for_alternative_chain(alt, h)
      prev == IF alt = <<>> THEN main[h].cum ELSE alt[Len(alt)].cum
  IN /\ h = IF alt = <<>> THEN h ELSE split + Len(alt)
     /\ Len(alt) < MaxAlt
     /\ h - Len(alt) < Len(main)
     /\ check_block_timestamp(AltTimestamps(alt, h), ts)
     /\ d # 0
     /\ alt' = Append(alt, [ts |-> ts, size |-> 1, cum |-> prev + d, coins |-> 0])
     /\ split' = h - Len(alt)
     /\ UNCHANGED <<main, limit>>

(* The bounds of the instance are reached. *)
Done ==
  /\ Len(main) = MaxMain \/ alt # <<>>
  /\ UNCHANGED chainVars

Next ==
  \/ \E ts \in Times, size \in Sizes : AddMain(ts, size)
  \/ \E h \in 1 .. MaxMain + MaxAlt, ts \in Times : AddAlt(h, ts)
  \/ Done

-----------------------------------------------------------------------------
(* The chain a switch to the alternative would leave, without its newest.  *)
Prefix(n) == SubSeq(main, 1, split) \o SubSeq(alt, 1, n)

(* The difficulty an alternative block was checked with is the one the     *)
(* main chain will ask of it when the node switches: otherwise a chain     *)
(* with enough work could fail half way through the switch.                *)
AltDifficultyAgrees ==
  \A n \in 1 .. Len(alt) :
    get_difficulty_for_next_block(Prefix(n - 1))
      = alt[n].cum - (IF n = 1 THEN main[split].cum ELSE alt[n - 1].cum)

(* An alternative block passes the timestamp rule exactly when it would    *)
(* pass it on the main chain, while the alternative chain is not longer    *)
(* than the window and the window does not reach down to the genesis block *)
(* (which check_block_timestamp_main counts and complete_timestamps_vector *)
(* does not).                                                              *)
AltTimestampAgrees ==
  (Len(alt) \in 1 .. TimestampWindow /\ split + Len(alt) > TimestampWindow) =>
    \A ts \in Times :
      check_block_timestamp(AltTimestamps(alt, split + Len(alt)), ts)
        <=> check_block_timestamp_main(Prefix(Len(alt)), ts)

(* The size limit kept for the next block is the size up to which the      *)
(* reward rule accepts one: neither refuses what the other lets through.   *)
LimitIsRewardLimit ==
  \A size \in 1 .. 4 * RewardZone :
    validate_miner_transaction(main, size) >= 0 <=> size <= limit

(* The generated coins never fall, however long the tail goes on: a wrap   *)
(* would restart the emission.                                             *)
EmissionNeverRestarts ==
  \A i \in 1 .. Len(main) - 1 : main[i].coins <= main[i + 1].coins

(* mul and mul128 are the double-word product: no carry is lost between    *)
(* the halves.                                                             *)
MulExact(a, b) ==
  \A p \in {mul(a, b), mul128(a, b)} : p.high * Word + p.low = a * b

(* div128_32 is the division of the two words taken together: the reward   *)
(* penalty is computed without losing the upper word's remainder.          *)
DivExact(hi, lo, divisor) ==
  LET n == hi * Word + lo
      q == div128_32(hi, lo, divisor)
  IN q.high * Word + q.low = n \div divisor /\ q.rem = n % divisor

(* check_hash accepts a hash exactly when the hash times the difficulty is *)
(* below two to the width of the hash, carries through words of ones and   *)
(* all.                                                                    *)
HashCheckExact(hash, difficulty) ==
  LET n == ((hash[4] * Word + hash[3]) * Word + hash[2]) * Word + hash[1]
  IN check_hash(hash, difficulty) <=> n * difficulty < Word ^ 4
=============================================================================
