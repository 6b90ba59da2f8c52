----------------------------- MODULE HttpTokens -----------------------------
(***************************************************************************)
(* The bytes of an HTTP connection as a sequence of tokens <<kind, value>>: *)
(* the text of a request or status line, of a header field, a hexadecimal  *)
(* digit of a chunk head, one byte of a body, a carriage return or a line  *)
(* feed.                                                                   *)
(***************************************************************************)
EXTENDS Naturals, Sequences, SequencesExt

CR == <<"cr", 0>>
LF == <<"lf", 0>>
CRLF == <<CR, LF>>

\* The value of a length field that is no number.
BadLength == 99

Has(seq, t) == \E i \in DOMAIN seq : seq[i] = t

\* Index of the first occurrence of sub in seq, 0 when there is none.
Find(seq, sub) ==
  LET Text == Seq(STRING \X Nat)
      first[s \in Text, u \in Text] ==
        LET Here(i) == \A k \in DOMAIN u : s[i + k - 1] = u[k]
            ends == Len(s) - Len(u) + 1
        IN IF \A i \in 1..ends : ~Here(i) THEN 0
           ELSE CHOOSE i \in 1..ends : Here(i) /\ \A j \in 1..(i - 1) : ~Here(j)
  IN first[seq, sub]

\* The fields of a header area, one per line, and the blank line behind them.
Fields(fields) ==
  FlattenSeq([i \in DOMAIN fields |-> <<fields[i]>> \o CRLF]) \o CRLF

\* The value of the last field of that name, <<>> when there is none.
field(head, name) ==
  LET at == {i \in DOMAIN head : head[i][1] = name}
  IN IF at = {} THEN <<>> ELSE <<head[CHOOSE i \in at : \A j \in at : i >= j][2]>>
=============================================================================
