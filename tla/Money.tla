------------------------------- MODULE Money -------------------------------
(***************************************************************************)
(* Amounts: how they are read and printed, cut into digits and dust, split *)
(* over transactions, summed and checked for overflow, and how the outputs *)
(* of a ring are written as differences (cryptonote_format_utils.cpp and   *)
(* .h, wallet2.cpp and .h). Amounts wrap at Modulus; the decimal point has *)
(* Decimals digits behind it.                                              *)
(***************************************************************************)
EXTENDS Integers, Sequences, FiniteSets

CONSTANTS Modulus,      \* 2^64 in the code
          Decimals,     \* CRYPTONOTE_DISPLAY_DECIMAL_POINT
          MaxAmount,    \* the largest amount enumerated
          Thresholds    \* dust thresholds

Total(s) ==
  LET f[i \in 0 .. Len(s)] == IF i = 0 THEN 0 ELSE f[i - 1] + s[i] IN f[Len(s)]
Amounts(s) == [i \in 1 .. Len(s) |-> s[i].amount]
Most(a, b) == IF a > b THEN a ELSE b

-----------------------------------------------------------------------------

(* The digits from the lowest up: they gather into dust while they stay    *)
(* within the threshold, then each non-zero digit is a chunk of its own.   *)
decompose_amount_into_digits(amount, threshold) ==
  LET go[a \in 0 .. MaxAmount, order \in Nat, dust \in Nat, handled \in BOOLEAN] ==
        LET chunk == (a % 10) * order
            here  == IF ~handled /\ dust # 0 THEN <<[amount |-> dust, dust |-> TRUE]>> ELSE <<>>
            piece == IF chunk # 0 THEN <<[amount |-> chunk, dust |-> FALSE]>> ELSE <<>>
        IN IF a = 0 THEN here
           ELSE IF dust + chunk <= threshold
           THEN go[a \div 10, 10 * order, dust + chunk, handled]
           ELSE here \o piece \o go[a \div 10, 10 * order, dust, handled \/ dust # 0]
  IN go[amount, 1, 0, FALSE]

(* The outputs of construct_miner_tx: from the end, the amounts are added  *)
(* together until at most max_outs are left.                               *)
MergedOuts(amounts, max_outs) ==
  IF Len(amounts) <= max_outs THEN amounts
  ELSE [i \in 1 .. max_outs |->
          IF i < max_outs THEN amounts[i]
          ELSE Total(SubSeq(amounts, max_outs, Len(amounts)))]

construct_miner_tx(reward, max_outs, threshold) ==
  MergedOuts(Amounts(decompose_amount_into_digits(reward, threshold)), max_outs)

-----------------------------------------------------------------------------
(* A decimal number as text: digits, with a point after the first point of *)
(* them, or none when point is -1.                                         *)
TextNumber(ds) ==
  LET f[i \in 0 .. Len(ds)] == IF i = 0 THEN 0 ELSE 10 * f[i - 1] + ds[i] IN f[Len(ds)]

(* Zeros beyond the last decimal are cut off, a longer fraction is refused, *)
(* missing decimals are filled in; an amount that does not fit is refused.  *)
parse_amount(t) ==
  LET fraction == IF t.point >= 0 THEN Len(t.digits) - t.point ELSE 0
      extra == Most(fraction - Decimals, 0)
      cut == SubSeq(t.digits, 1, Len(t.digits) - extra)
      n == TextNumber(cut) * 10 ^ Most(Decimals - fraction, 0)
  IN IF \/ \E i \in Len(cut) + 1 .. Len(t.digits) : t.digits[i] # 0
        \/ t.digits = <<>>
        \/ n >= Modulus
     THEN -1 ELSE n

(* The digits of the amount, at least one before the point. *)
print_money(amount) ==
  LET n == Most(Decimals + 1, CHOOSE k \in 1 .. 9 : amount < 10 ^ k /\ (k = 1 \/ amount >= 10 ^ (k - 1)))
  IN [digits |-> [i \in 1 .. n |-> (amount \div 10 ^ (n - i)) % 10], point |-> n - Decimals]

-----------------------------------------------------------------------------

(* Sum by sum, the wrapped sum must not be below the one before. The code  *)
(* for the inputs is the same.                                             *)
check_outs_overflow(s) ==
  LET sum[i \in 0 .. Len(s)] == IF i = 0 THEN 0 ELSE (sum[i - 1] + s[i]) % Modulus
  IN \A i \in 1 .. Len(s) : sum[i - 1] <= (s[i] + sum[i - 1]) % Modulus

get_outs_money_amount(s) == Total(s) % Modulus

(* 0 as well when the outputs are worth more than the inputs. *)
get_tx_fee(inputs, outs) ==
  LET in == get_outs_money_amount(inputs)
      out == get_outs_money_amount(outs)
  IN IF in >= out THEN in - out ELSE 0

-----------------------------------------------------------------------------
SortedSeq(s) ==
  [i \in 1 .. Len(s) |->
     CHOOSE x \in {s[j] : j \in 1 .. Len(s)} :
       /\ Cardinality({j \in 1 .. Len(s) : s[j] < x}) < i
       /\ Cardinality({j \in 1 .. Len(s) : s[j] <= x}) >= i]

absolute_output_offsets_to_relative(off) ==
  LET s == SortedSeq(off)
  IN [i \in 1 .. Len(s) |-> IF i = 1 THEN s[1] ELSE s[i] - s[i - 1]]

relative_output_offsets_to_absolute(off) ==
  [i \in 1 .. Len(off) |-> Total(SubSeq(off, 1, i)) % Modulus]

-----------------------------------------------------------------------------

(* Every destination's amount in n equal parts, the remainder in the last. *)
split_amounts(dsts, n) ==
  IF n <= 1 THEN <<dsts>>
  ELSE [i \in 1 .. n |->
          [j \in 1 .. Len(dsts) |-> dsts[j] \div n + (IF i = n THEN dsts[j] % n ELSE 0)]]

(* The outputs paid, destination by destination and the change last, and   *)
(* the dust of the change; the dust of a destination is paid to it.        *)
digit_split_strategy(dsts, change, threshold) ==
  LET paid[i \in 0 .. Len(dsts)] ==
        IF i = 0 THEN <<>>
        ELSE paid[i - 1] \o Amounts(decompose_amount_into_digits(dsts[i], threshold))
      c == decompose_amount_into_digits(change, threshold)
  IN [outs |-> paid[Len(dsts)] \o Amounts(SelectSeq(c, LAMBDA p : ~p.dust)),
      dust |-> Total(Amounts(SelectSeq(c, LAMBDA p : p.dust)))]

(* The destinations as they are, and the change without its lowest digits, *)
(* as many as stay within the threshold.                                   *)
null_split_strategy(dsts, change, threshold) ==
  LET go[order \in Nat, dust \in Nat] ==
        IF order > 10 * threshold \/ change % order > threshold THEN dust
        ELSE go[10 * order, change % order]
      dust == IF threshold = 0 THEN 0 ELSE go[10, 0]
  IN [outs |-> dsts \o (IF change # dust THEN <<change - dust>> ELSE <<>>), dust |-> dust]

-----------------------------------------------------------------------------
(* No money is made or lost by the cut into digits: the pieces add up to   *)
(* the amount, at most one of them is dust, within the threshold, and each *)
(* other one is a digit followed by zeros.                                 *)
DecomposeConserves(amount, threshold) ==
  LET p == decompose_amount_into_digits(amount, threshold)
      dust == {i \in 1 .. Len(p) : p[i].dust}
  IN /\ Total(Amounts(p)) = amount
     /\ Cardinality(dust) <= 1 /\ \A i \in dust : p[i].amount <= threshold
     /\ \A i \in 1 .. Len(p) \ dust :
          \E d \in 1 .. 9, e \in 0 .. 4 : p[i].amount = d * 10 ^ e

(* The miner transaction pays the whole reward whatever the number of      *)
(* outputs it may have, and no output is empty.                            *)
MinerPaidInFull(reward, threshold) ==
  \A n \in 1 .. 3 :
    LET outs == construct_miner_tx(reward, n, threshold)
    IN /\ Total(outs) = reward /\ Len(outs) <= n
       /\ \A i \in 1 .. Len(outs) : outs[i] > 0

(* What print_money prints is read back as the same amount.                *)
PrintParse(amount) == parse_amount(print_money(amount)) = amount

(* parse_amount computes the value of the text: it refuses only what is    *)
(* empty, too precise or too large.                                        *)
ParseExact(text) ==
  LET fraction == IF text.point >= 0 THEN Len(text.digits) - text.point ELSE 0
      scaled == TextNumber(text.digits) * 10 ^ Decimals
      fits == /\ text.digits # <<>> /\ scaled % 10 ^ fraction = 0
              /\ scaled \div 10 ^ fraction < Modulus
  IN parse_amount(text) = IF fits THEN scaled \div 10 ^ fraction ELSE -1

(* The overflow check passes exactly when the true sum fits, so the fee    *)
(* computed from wrapped sums is then the true fee.                        *)
OverflowExact(amounts) ==
  /\ check_outs_overflow(amounts) <=> Total(amounts) < Modulus
  /\ check_outs_overflow(amounts) => get_tx_fee(amounts, <<1>>) = Most(Total(amounts) - 1, 0)

(* The ring survives being written as differences, whatever its order; the *)
(* differences are never negative.                                         *)
OffsetsRoundTrip(offsets) ==
  LET rel == absolute_output_offsets_to_relative(offsets)
  IN /\ \A i \in 1 .. Len(rel) : rel[i] >= 0 /\ rel[i] < Modulus
     /\ relative_output_offsets_to_absolute(rel) = SortedSeq(offsets)

(* Split over several transactions, every destination is paid what was     *)
(* asked for, in total.                                                    *)
SplitConserves(amounts, n) ==
  LET parts == split_amounts(amounts, n)
  IN /\ Len(parts) = n
     /\ \A j \in 1 .. Len(amounts) : Total([i \in 1 .. n |-> parts[i][j]]) = amounts[j]

(* Both ways to lay out the outputs account for every coin: outputs and    *)
(* dust are the destinations and the change, and the dust is within the    *)
(* threshold (the exception "invalid dust value" is never thrown).         *)
StrategiesConserve(amounts) ==
  \A change \in {0, 5, 10, 105, 249}, t \in Thresholds :
    \A s \in {digit_split_strategy(amounts, change, t), null_split_strategy(amounts, change, t)} :
      Total(s.outs) + s.dust = Total(amounts) + change /\ s.dust <= t
=============================================================================
