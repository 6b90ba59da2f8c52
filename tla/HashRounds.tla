----------------------------- MODULE HashRounds -----------------------------
(***************************************************************************)
(* The round functions of the hash and cipher code (src/crypto and epee's  *)
(* MD5), against the specifications of the algorithms.  The code unrolls   *)
(* the rounds, works in place and replaces the permutation of the words by *)
(* a table of register names; the specifications permute after every       *)
(* round.  Words are scaled down to 4 bits: the tables of indices, which   *)
(* are what can be wrong, keep their values.                               *)
(***************************************************************************)
EXTENDS Integers, Sequences, FiniteSets

CONSTANTS Seeds, \* the inputs: each seed gives one starting value of the words
          JhLog  \* a JH word has 2^JhLog bits (64 in the code)

VARIABLES alg, r, code, ref

vars == <<alg, r, code, ref>>

Word == 0..15

BitOf(x, i) == (x \div 2^i) % 2

XorTable == [a \in Word, b \in Word |->
  LET bit(i) == ((BitOf(a, i) + BitOf(b, i)) % 2) * 2^i IN bit(0) + bit(1) + bit(2) + bit(3)]

AndTable == [a \in Word, b \in Word |->
  LET bit(i) == BitOf(a, i) * BitOf(b, i) * 2^i IN bit(0) + bit(1) + bit(2) + bit(3)]

Xor(a, b) == XorTable[a, b]
And(a, b) == AndTable[a, b]
Or(a, b) == a + b - AndTable[a, b]
Not(a) == 15 - a
Add(a, b) == (a + b) % 16

RotL(x, n) == ((x * 2^(n % 4)) % 16) + (x \div 2^(4 - (n % 4)))

RotR(x, n) == RotL(x, 4 - (n % 4))

Sample(n, seed) == [i \in 0..(n - 1) |-> (seed * i * i + 3 * i + 5 * seed) % 16]

-----------------------------------------------------------------------------
(* Threefish, the block cipher of Skein. *)

Width == [threefish256 |-> 4, threefish512 |-> 8, threefish1024 |-> 16]

(* The registers each of four consecutive rounds names, R256 .. R1024. *)
R256 == << <<0,1,2,3>>, <<0,3,2,1>>, <<0,1,2,3>>, <<0,3,2,1>> >>

R512 == << <<0,1,2,3,4,5,6,7>>, <<2,1,4,7,6,5,0,3>>, <<4,1,6,3,0,5,2,7>>, <<6,1,0,7,2,5,4,3>> >>

R1024 == << <<0,1,2,3,4,5,6,7,8,9,10,11,12,13,14,15>>, <<0,9,2,13,6,11,4,15,10,7,12,3,14,5,8,1>>,
            <<0,7,2,5,4,3,6,1,12,15,14,13,8,11,10,9>>, <<0,15,2,11,6,13,4,9,14,1,8,5,10,3,12,7>> >>

Row(a, d) == (CASE a = "threefish256" -> R256 [] a = "threefish512" -> R512 [] OTHER -> R1024)[(d % 4) + 1]

(* The rotation constants, one row per round of eight, one entry per pair. *)
Rotations == [threefish256 |-> << <<14,16>>, <<52,57>>, <<23,40>>, <<5,37>>, <<25,33>>, <<46,12>>, <<58,22>>, <<32,32>> >>,
  threefish512 |-> << <<46,36,19,37>>, <<33,27,14,42>>, <<17,49,36,39>>, <<44,9,54,56>>,
                      <<39,30,34,24>>, <<13,50,10,17>>, <<25,29,39,43>>, <<8,35,56,22>> >>,
  threefish1024 |-> << <<24,13,8,47,8,17,22,37>>, <<38,19,10,55,49,18,23,52>>, <<33,4,51,13,34,41,59,17>>, <<5,20,48,41,47,28,16,25>>,
                       <<41,9,37,31,12,47,44,30>>, <<16,34,56,51,4,53,42,41>>, <<31,44,47,46,19,42,44,25>>, <<9,48,35,52,23,31,37,20>> >>]

(* One round: X##p0 += X##p1; X##p1 = RotL(X##p1); X##p1 ^= X##p0 and so on, in the registers the row names. *)
Round(a, d, x) ==
  LET p == Row(a, d)
      rot == Rotations[a][(d % 8) + 1]
      pair(i) == CHOOSE j \in 1..(Width[a] \div 2) : i \in {p[2 * j - 1], p[2 * j]}
      sum(j) == Add(x[p[2 * j - 1]], x[p[2 * j]])
  IN [i \in DOMAIN x |-> IF i = p[2 * pair(i) - 1] THEN sum(pair(i)) ELSE Xor(RotL(x[i], rot[pair(i)]), sum(pair(i)))]

(* The words of the key schedule: the chaining words and their parity, the two tweak words and theirs. *)
KeyWords(a, seed) ==
  LET k == Sample(Width[a], seed + 1)
      parity[n \in 0..Width[a]] == IF n = 0 THEN 2 ELSE Xor(parity[n - 1], k[n - 1])
  IN [ks |-> [i \in 0..Width[a] |-> IF i = Width[a] THEN parity[Width[a]] ELSE k[i]],
      ts |-> <<seed % 16, (seed + 7) % 16, Xor(seed % 16, (seed + 7) % 16)>>]

(* I256, I512: the fully unrolled injection after round 4 * (R + 1). *)
InjectUnrolled(a, R, x, k) ==
  LET W == Width[a]
      tweak(i) == IF i = W - 3 THEN k.ts[((R + 1) % 3) + 1] ELSE IF i = W - 2 THEN k.ts[((R + 2) % 3) + 1] ELSE IF i = W - 1 THEN R + 1 ELSE 0
  IN [i \in 0..(W - 1) |-> (x[i] + k.ks[(R + 1 + i) % (W + 1)] + tweak(i)) % 16]

(* I1024: the looping injection, which appends the words it has used up to the schedule; s is r + R. *)
InjectLooping(a, s, x, k) ==
  LET W == Width[a]
      tweak(i) == IF i = W - 3 THEN k.ts[s + 1] ELSE IF i = W - 2 THEN k.ts[s + 2] ELSE IF i = W - 1 THEN s ELSE 0
  IN [x |-> [i \in 0..(W - 1) |-> (x[i] + k.ks[s + i] + tweak(i)) % 16],
      k |-> [ks |-> [i \in 0..(s + W) |-> IF i = s + W THEN k.ks[s - 1] ELSE k.ks[i]], ts |-> Append(k.ts, k.ts[s])]]

(* The first full key injection. *)
InjectFirst(a, x, k) ==
  LET W == Width[a] IN
  [i \in 0..(W - 1) |-> (x[i] + k.ks[i] + (IF i = W - 3 THEN k.ts[1] ELSE IF i = W - 2 THEN k.ts[2] ELSE 0)) % 16]

(* R256_8_rounds, R512_8_rounds, R1024_8_rounds: an injection after every fourth round. *)
ThreefishCode(d, c) ==
  LET x == Round(alg, d, c.x)
      s == (d + 1) \div 4
  IN IF (d + 1) % 4 # 0 THEN [c EXCEPT !.x = x]
     ELSE IF alg = "threefish1024" THEN LET n == InjectLooping(alg, s, x, c.k) IN [c EXCEPT !.x = n.x, !.k = n.k]
     ELSE [c EXCEPT !.x = InjectUnrolled(alg, s - 1, x, c.k)]

(* Reference: MIX the pairs in place, permute the words, add the subkey every four rounds. *)
Pi == [threefish256 |-> <<0,3,2,1>>, threefish512 |-> <<2,1,4,7,6,5,0,3>>, threefish1024 |-> <<0,9,2,13,6,11,4,15,10,7,12,3,14,5,8,1>>]

ThreefishRef(d, c) ==
  LET W == Width[alg]
      mix == [i \in 0..(W - 1) |->
        LET j == i \div 2
            sum == Add(c.x[2 * j], c.x[2 * j + 1])
        IN IF i % 2 = 0 THEN sum ELSE Xor(RotL(c.x[i], Rotations[alg][(d % 8) + 1][j + 1]), sum)]
      moved == [i \in 0..(W - 1) |-> mix[Pi[alg][i + 1]]]
      s == (d + 1) \div 4
      tweak(i) == IF i = W - 3 THEN c.k.ts[(s % 3) + 1] ELSE IF i = W - 2 THEN c.k.ts[((s + 1) % 3) + 1] ELSE IF i = W - 1 THEN s ELSE 0
  IN [c EXCEPT !.x = IF (d + 1) % 4 # 0 THEN moved ELSE [i \in 0..(W - 1) |-> (moved[i] + c.k.ks[(s + i) % (W + 1)] + tweak(i)) % 16]]

-----------------------------------------------------------------------------
(* MD5Transform. *)

(* FF (a, b, c, d, ...), FF (d, a, b, c, ...), FF (c, d, a, b, ...), FF (b, c, d, a, ...). *)
MD5Registers == << <<0,1,2,3>>, <<3,0,1,2>>, <<2,3,0,1>>, <<1,2,3,0>> >>

(* The message words x[ ] of the four rounds. *)
MD5Input == << <<0,1,2,3,4,5,6,7,8,9,10,11,12,13,14,15>>, <<1,6,11,0,5,10,15,4,9,14,3,8,13,2,7,12>>,
               <<5,8,11,14,1,4,7,10,13,0,3,6,9,12,15,2>>, <<0,7,14,5,12,3,10,1,8,15,6,13,4,11,2,9>> >>

(* S11 .. S44. *)
MD5Shifts == << <<7,12,17,22>>, <<5,9,14,20>>, <<4,11,16,23>>, <<6,10,15,21>> >>

(* MD5_M_F, MD5_M_G, MD5_M_H, MD5_M_I. *)
MD5_M(round, x, y, z) ==
  CASE round = 0 -> Or(And(x, y), And(Not(x), z))
    [] round = 1 -> Or(And(x, z), And(y, Not(z)))
    [] round = 2 -> Xor(Xor(x, y), z)
    [] OTHER -> Xor(y, Or(x, Not(z)))

MD5Constant(i) == (7 * i + 3) % 16

(* One FF, GG, HH or II line. *)
MD5Code(i, c) ==
  LET g == MD5Registers[(i % 4) + 1]
      round == i \div 16
      sum == (c.x[g[1]] + MD5_M(round, c.x[g[2]], c.x[g[3]], c.x[g[4]]) + c.m[MD5Input[round + 1][(i % 16) + 1]] + MD5Constant(i)) % 16
  IN [c EXCEPT !.x[g[1]] = Add(RotL(sum, MD5Shifts[round + 1][(i % 4) + 1]), c.x[g[2]])]

(* Reference: the word index is i, 5i+1, 3i+5, 7i modulo 16 and the registers move on by one. *)
MD5Ref(i, c) ==
  LET round == i \div 16
      index == (CASE round = 0 -> i [] round = 1 -> 5 * i + 1 [] round = 2 -> 3 * i + 5 [] OTHER -> 7 * i) % 16
      choose(x, y, z) == Or(And(x, y), And(Not(x), z))
      f == CASE round = 0 -> choose(c.x[1], c.x[2], c.x[3]) [] round = 1 -> choose(c.x[3], c.x[1], c.x[2])
             [] round = 2 -> Xor(c.x[1], Xor(c.x[2], c.x[3])) [] OTHER -> Xor(c.x[2], Or(c.x[1], Not(c.x[3])))
      turned == RotL((c.x[0] + f + c.m[index] + MD5Constant(i)) % 16, MD5Shifts[round + 1][(i % 4) + 1])
  IN [c EXCEPT !.x = [j \in 0..3 |-> CASE j = 0 -> c.x[3] [] j = 1 -> Add(c.x[1], turned) [] j = 2 -> c.x[1] [] OTHER -> c.x[2]]]

-----------------------------------------------------------------------------
(* BLAKE-256 and ChaCha: a column step and a diagonal step on a 4 x 4 matrix. *)

(* sigma[14][16]: the rows 10 to 13 repeat the first ones. *)
sigma == << <<0,1,2,3,4,5,6,7,8,9,10,11,12,13,14,15>>, <<14,10,4,8,9,15,13,6,1,12,0,2,11,7,5,3>>,
  <<11,8,12,0,5,2,15,13,10,14,3,6,7,1,9,4>>, <<7,9,3,1,13,12,11,14,2,6,5,10,4,0,15,8>>, <<9,0,5,7,2,4,10,15,14,1,11,12,6,8,3,13>>,
  <<2,12,6,10,0,11,8,3,4,13,7,5,15,14,1,9>>, <<12,5,1,15,14,13,4,10,0,7,6,3,9,2,8,11>>, <<13,11,7,14,12,1,3,9,5,0,15,4,8,6,2,10>>,
  <<6,15,14,9,11,3,0,8,12,2,13,7,1,4,10,5>>, <<10,2,8,4,7,6,1,5,15,11,9,14,3,12,13,0>>, <<0,1,2,3,4,5,6,7,8,9,10,11,12,13,14,15>>,
  <<14,10,4,8,9,15,13,6,1,12,0,2,11,7,5,3>>, <<11,8,12,0,5,2,15,13,10,14,3,6,7,1,9,4>>, <<7,9,3,1,13,12,11,14,2,6,5,10,4,0,15,8>> >>

cst == [i \in 0..15 |-> (11 * i + 2) % 16]

(* G(a,b,c,d,e) of blake256_compress, in round i. *)
G(i, v, m, a, b, c, d, e) ==
  LET s(k) == sigma[i + 1][k + 1]
      a1 == (v[a] + Xor(m[s(e)], cst[s(e + 1)]) + v[b]) % 16
      d1 == RotR(Xor(v[d], a1), 16)
      c1 == Add(v[c], d1)
      b1 == RotR(Xor(v[b], c1), 12)
      a2 == (a1 + Xor(m[s(e + 1)], cst[s(e)]) + b1) % 16
      d2 == RotR(Xor(d1, a2), 8)
      c2 == Add(c1, d2)
      b2 == RotR(Xor(b1, c2), 7)
  IN [v EXCEPT ![a] = a2, ![b] = b2, ![c] = c2, ![d] = d2]

(* The eight calls of a round. *)
BlakeCalls == << <<0,4,8,12,0>>, <<1,5,9,13,2>>, <<2,6,10,14,4>>, <<3,7,11,15,6>>,
                 <<3,4,9,14,14>>, <<2,7,8,13,12>>, <<0,5,10,15,8>>, <<1,6,11,12,10>> >>

BlakeCode(i, c) ==
  LET after[n \in 0..8] == IF n = 0 THEN c.x ELSE LET g == BlakeCalls[n] IN G(i, after[n - 1], c.m, g[1], g[2], g[3], g[4], g[5])
  IN [c EXCEPT !.x = after[8]]

(* Reference: call k of the step with diagonals shifted by s uses the words 2k and 2k+1 of row i modulo ten. *)
BlakeRef(i, c) ==
  LET cell(row, k, s) == 4 * row + ((k + s * row) % 4)
      call(v, k, s) == G(i % 10, v, c.m, cell(0, k, s), cell(1, k, s), cell(2, k, s), cell(3, k, s), 2 * (4 * s + k))
      after[n \in 0..8] == IF n = 0 THEN c.x ELSE call(after[n - 1], (n - 1) % 4, (n - 1) \div 4)
  IN [c EXCEPT !.x = after[8]]

QUARTERROUND(v, a, b, c, d) ==
  LET a1 == Add(v[a], v[b]) 
      d1 == RotL(Xor(v[d], a1), 16)
      c1 == Add(v[c], d1)
      b1 == RotL(Xor(v[b], c1), 12)
      a2 == Add(a1, b1)
      d2 == RotL(Xor(d1, a2), 8)
      c2 == Add(c1, d2)
  IN [v EXCEPT ![a] = a2, ![b] = RotL(Xor(b1, c2), 7), ![c] = c2, ![d] = d2]

ChaChaCalls == << <<0,4,8,12>>, <<1,5,9,13>>, <<2,6,10,14>>, <<3,7,11,15>>, <<0,5,10,15>>, <<1,6,11,12>>, <<2,7,8,13>>, <<3,4,9,14>> >>

(* One pass of the loop of chacha8, two rounds. *)
ChaChaCode(c) ==
  LET after[n \in 0..8] == IF n = 0 THEN c.x ELSE LET g == ChaChaCalls[n] IN QUARTERROUND(after[n - 1], g[1], g[2], g[3], g[4])
  IN [c EXCEPT !.x = after[8]]

ChaChaRef(c) ==
  LET cell(row, k, s) == 4 * row + ((k + s * row) % 4)
      call(v, k, s) == QUARTERROUND(v, cell(0, k, s), cell(1, k, s), cell(2, k, s), cell(3, k, s))
      after[n \in 0..8] == IF n = 0 THEN c.x ELSE call(after[n - 1], (n - 1) % 4, (n - 1) \div 4)
  IN [c EXCEPT !.x = after[8]]

-----------------------------------------------------------------------------
(* keccakf: 25 lanes, lane x + 5 * y. *)

keccakf_rotc == <<1,3,6,10,15,21,28,36,45,55,2,14,27,41,56,8,25,43,62,18,39,61,20,44>>

keccakf_piln == <<10,7,11,17,18,3,5,16,8,21,24,4,15,23,19,13,12,2,20,14,22,9,6,1>>

keccakf_rndc(i) == (5 * i + 1) % 16

(* Both the code and the specification start with this step. *)
Theta(st) ==
  LET bc == [i \in 0..4 |-> Xor(Xor(Xor(st[i], st[i + 5]), Xor(st[i + 10], st[i + 15])), st[i + 20])]
  IN [i \in 0..24 |-> Xor(st[i], Xor(bc[(i + 4) % 5], RotL(bc[(i + 1) % 5], 1)))]

(* The 24 moves in place: t holds the lane that is carried to the next position. *)
RhoPi(st) ==
  LET move[n \in 0..24] == IF n = 0 THEN [st |-> st, t |-> st[1]]
        ELSE LET j == keccakf_piln[n]
                 was == move[n - 1]
             IN [st |-> [was.st EXCEPT ![j] = RotL(was.t, keccakf_rotc[n])], t |-> was.st[j]]
  IN move[24].st

(* A row of five is saved in bc before it is overwritten. *)
Chi(st) == [i \in 0..24 |-> LET y == 5 * (i \div 5) IN Xor(st[i], And(Not(st[y + ((i + 1) % 5)]), st[y + ((i + 2) % 5)]))]

KeccakCode(round, c) ==
  LET st == Chi(RhoPi(Theta(c.x))) IN [c EXCEPT !.x = [st EXCEPT ![0] = Xor(@, keccakf_rndc(round))]]

(* Reference: lane (x, y) goes to (y, 2x + 3y), rotated by the triangular number of its place in the walk that starts at (1, 0). *)
Walk == LET at[t \in 0..23] == IF t = 0 THEN <<1, 0>> ELSE LET p == at[t - 1] IN <<p[2], (2 * p[1] + 3 * p[2]) % 5>> IN at

KeccakRef(round, c) ==
  LET st == Theta(c.x)
      offset(x, y) == IF <<x, y>> = <<0, 0>> THEN 0 ELSE LET t == CHOOSE n \in 0..23 : Walk[n] = <<x, y>> IN ((t + 1) * (t + 2)) \div 2
      from(i) == CHOOSE p \in (0..4) \X (0..4) : p[2] = i % 5 /\ (2 * p[1] + 3 * p[2]) % 5 = i \div 5
      moved == [i \in 0..24 |-> LET p == from(i) IN RotL(st[p[1] + 5 * p[2]], offset(p[1], p[2]))]
      row(x, y) == moved[(x % 5) + 5 * y]
  IN [c EXCEPT !.x = [i \in 0..24 |->
       LET x == i % 5 
           y == i \div 5
           chi == Xor(row(x, y), And(Not(row(x + 1, y)), row(x + 2, y)))
       IN IF i = 0 THEN Xor(chi, keccakf_rndc(round)) ELSE chi]]

-----------------------------------------------------------------------------
(* Groestl: a column of the new state is eight table columns, turned down and xored.  The 32-bit word   *)
(* c of the state holds four bytes of column c \div 2: its rows 0 to 3 when c is even, 4 to 7 when odd. *)

RND512P == << <<0,2,4,6,9,11,13,15>>, <<2,4,6,8,11,13,15,1>>, <<4,6,8,10,13,15,1,3>>, <<6,8,10,12,15,1,3,5>>,
              <<8,10,12,14,1,3,5,7>>, <<10,12,14,0,3,5,7,9>>, <<12,14,0,2,5,7,9,11>>, <<14,0,2,4,7,9,11,13>> >>

RND512Q == << <<2,6,10,14,1,5,9,13>>, <<4,8,12,0,3,7,11,15>>, <<6,10,14,2,5,9,13,1>>, <<8,12,0,4,7,11,15,3>>,
              <<10,14,2,6,9,13,1,5>>, <<12,0,4,8,11,15,3,7>>, <<14,2,6,10,13,1,5,9>>, <<0,4,8,12,15,3,7,11>> >>

(* COLUMN(x,y,i,c0..c7): the bytes it takes, as <<column, row, how far its table column is turned down>>;            *)
(* ROTATE_COLUMN_DOWN turns by 0 to 3, and the second four exchange the upper and the lower word, a turn by four more. *)
COLUMN(c) == {<<c[k + 1] \div 2, 4 * (c[k + 1] % 2) + (k % 4), (k % 4) + 4 * (k \div 4)>> : k \in 0..7}

GroestlShift == [P |-> <<0,1,2,3,4,5,6,7>>, Q |-> <<1,3,5,7,0,2,4,6>>]

GroestlCode(j) == [P |-> COLUMN(RND512P[j + 1]), Q |-> COLUMN(RND512Q[j + 1])]

(* Reference: ShiftBytes moves row k by its shift, MixBytes turns the column of row k by k. *)
GroestlRef(j) == [p \in {"P", "Q"} |-> {<<(j + GroestlShift[p][k + 1]) % 8, k, k>> : k \in 0..7}]

-----------------------------------------------------------------------------
(* Ten rounds in alternating buffers: each step is <<destination, source, round>>.  A buffer holds the rounds applied to its input. *)

F512Q == << <<"y","z",0>>, <<"z","y",1>>, <<"y","z",2>>, <<"z","y",3>>, <<"y","z",4>>, <<"z","y",5>>, <<"y","z",6>>, <<"z","y",7>>, <<"y","z",8>>, <<"Qtmp","y",9>> >>

F512P == << <<"y","Ptmp",0>>, <<"z","y",1>>, <<"y","z",2>>, <<"z","y",3>>, <<"y","z",4>>, <<"z","y",5>>, <<"y","z",6>>, <<"z","y",7>>, <<"y","z",8>>, <<"Ptmp","y",9>> >>

OutputTransformation == << <<"y","temp",0>>, <<"z","y",1>>, <<"y","z",2>>, <<"z","y",3>>, <<"y","z",4>>, <<"z","y",5>>, <<"y","z",6>>, <<"z","y",7>>, <<"y","z",8>>, <<"temp","y",9>> >>

aesb_pseudo_round == << <<"b1","b0",0>>, <<"b0","b1",1>>, <<"b1","b0",2>>, <<"b0","b1",3>>, <<"b1","b0",4>>, <<"b0","b1",5>>, <<"b1","b0",6>>, <<"b0","b1",7>>, <<"b1","b0",8>>, <<"b0","b1",9>> >>

(* The four schedules with the buffer that holds the input and the one read at the end.  F512 runs Q and then P over the same scratch buffers. *)
Schedules == [groestl |-> [steps |-> F512Q \o F512P, in |-> [z |-> <<"m">>, Ptmp |-> <<"h+m">>, y |-> <<>>, Qtmp |-> <<>>],
                           out |-> [Qtmp |-> <<"m">>, Ptmp |-> <<"h+m">>]],
              output |-> [steps |-> OutputTransformation, in |-> [temp |-> <<"h">>, y |-> <<>>, z |-> <<>>], out |-> [temp |-> <<"h">>]],
              aes |-> [steps |-> aesb_pseudo_round, in |-> [b0 |-> <<"in">>, b1 |-> <<>>], out |-> [b0 |-> <<"in">>]]]

Numeral == <<"0","1","2","3","4","5","6","7","8","9">>

ScheduleStep(n, c) == LET s == Schedules[alg].steps[n + 1] IN [c EXCEPT ![s[1]] = Append(c[s[2]], Numeral[s[3] + 1])]

-----------------------------------------------------------------------------
(* aesb_single_round: column c of the output, as <<row of the output, factor, row and column of the input byte>>. *)

(* u0 .. u3: the bytes of the table words, in the order of bytes2word. *)
t_fn == << <<2,1,1,3>>, <<3,2,1,1>>, <<1,3,2,1>>, <<1,1,3,2>> >>

fwd_var(row, c) == (c + row) % 4

AesCode(c) == {<<i, t_fn[row + 1][i + 1], row, fwd_var(row, c)>> : i \in 0..3, row \in 0..3}

(* Reference: ShiftRows by the row, then the circulant matrix 2 3 1 1. *)
AesRef(c) == {<<i, <<2, 3, 1, 1>>[((row - i + 4) % 4) + 1], row, (c + row) % 4>> : i \in 0..3, row \in 0..3}

-----------------------------------------------------------------------------
(* JH: the bitsliced layers of E8. *)

X(a, b) == (a + b) % 2
N(a) == 1 - a

(* SS for one S-box: four bits and the bit of the round constant. *)
SS(m, cc) ==
  LET a3 == N(m[4])
      a0 == X(m[1], N(m[3]) * cc)
      temp == X(cc, a0 * m[2])
      b0 == X(a0, m[3] * a3)
      b3 == X(a3, N(m[2]) * m[3])
      b1 == X(m[2], b0 * m[3])
      b2 == X(m[3], b0 * N(b3))
      c0 == X(b0, b1 + b3 - b1 * b3)
      c3 == X(b3, b1 * b2)
      c1 == X(b1, temp * c0)
  IN <<c0, c1, X(b2, temp), c3>>

(* L: the first four bits are one nibble, the last four the other. *)
L(a, b) ==
  LET b4 == X(b[1], a[2])
      b5 == X(b[2], a[3])
      b6 == X(b[3], X(a[1], a[4]))
      b7 == X(b[4], a[1])
  IN << <<X(a[1], b5), X(a[2], b6), X(a[3], X(b4, b7)), X(a[4], b4)>>, <<b4, b5, b6, b7>> >>

Nibble(n) == <<BitOf(n, 3), BitOf(n, 2), BitOf(n, 1), BitOf(n, 0)>>
Value(m) == 8 * m[1] + 4 * m[2] + 2 * m[3] + m[4]

(* The S-boxes and the doubling in the field of 16 elements of the specification. *)
JhSbox == << <<9,0,4,11,13,12,3,15,1,10,2,6,7,5,8,14>>, <<3,12,6,13,5,7,1,9,15,2,0,4,11,10,14,8>> >>
Double(n) == IF n < 8 THEN 2 * n ELSE Xor((2 * n) % 16, 3)

JhCode(n) == [ss |-> <<Value(SS(Nibble(n % 16), 0)), Value(SS(Nibble(n % 16), 1))>>,
              l |-> LET p == L(Nibble(n % 16), Nibble(n \div 16)) IN <<Value(p[1]), Value(p[2])>>]

JhRef(n) == LET d == Xor(n \div 16, Double(n % 16))
            IN [ss |-> <<JhSbox[1][(n % 16) + 1], JhSbox[2][(n % 16) + 1]>>, l |-> <<Xor(n % 16, Double(d)), d>>]

(* SWAP1 .. SWAP32 on the odd rows: bits whose mask is clear move up, the others down; the last round of seven exchanges the two words. *)
Swap(round, odd) ==
  LET w == 2^JhLog
      k == 2^(round % (JhLog + 1))
  IN [i \in 0..(2 * w - 1) |-> IF round % (JhLog + 1) = JhLog THEN odd[(i + w) % (2 * w)]
        ELSE IF BitOf(i, round % (JhLog + 1)) = 1 THEN odd[i - k] ELSE odd[i + k]]

(* E8: what each bit position of the even and of the odd rows depends on after the layers of a round. *)
E8(round, c) ==
  LET mixed == [i \in DOMAIN c.even |-> c.even[i] \cup c.odd[i]] IN [even |-> mixed, odd |-> Swap(round, mixed)]

-----------------------------------------------------------------------------
(* The block cipher three times: oaes_lib.c with byte tables, aesb.c with word tables, and the AES           *)
(* instructions slow-hash.c uses when the processor has them.  Bytes are the 16 elements of a smaller field  *)
(* of characteristic two; the inverse of the column matrix does not depend on the polynomial, and any        *)
(* permutation can be the S-box.                                                                             *)

XorAll(s, t) == [k \in DOMAIN s |-> Xor(s[k], t[k])]

oaes_sub_byte_value == <<6, 11, 5, 4, 2, 14, 7, 10, 9, 13, 15, 12, 3, 1, 0, 8>>
oaes_sub_byte(x) == oaes_sub_byte_value[x + 1]
oaes_inv_sub_byte(x) == CHOOSE y \in Word : oaes_sub_byte(y) = x

(* The product as the tables list it: 2, 3, 9, b, d, e; any other factor returns its argument. *)
gf_mul_table == [x \in Word, y \in {1, 2, 3, 9, 11, 13, 14} |->
  LET x2 == Double(x)
      x4 == Double(x2)
      x8 == Double(x4)
  IN CASE y = 2 -> x2 [] y = 3 -> Xor(x2, x) [] y = 9 -> Xor(x8, x) [] y = 11 -> Xor(Xor(x8, x2), x) [] y = 13 -> Xor(Xor(x8, x4), x)
       [] y = 14 -> Xor(Xor(x8, x4), x2) [] OTHER -> x]

oaes_gf_mul(x, y) == gf_mul_table[x, y]

(* oaes_gf_8: the powers of two. *)
oaes_gf_8 == <<1, 2, 4, 8, 3, 6, 12, 11, 5, 10>>

oaes_word_rot_left(w) == <<w[2], w[3], w[4], w[1]>>

SubWord(w) == [k \in DOMAIN w |-> oaes_sub_byte(w[k])]

oaes_shift_rows(b) == LET from == <<0,5,10,15, 4,9,14,3, 8,13,2,7, 12,1,6,11>> IN [k \in 1..16 |-> b[from[k] + 1]]

oaes_inv_shift_rows(b) == LET from == <<0,13,10,7, 4,1,14,11, 8,5,2,15, 12,9,6,3>> IN [k \in 1..16 |-> b[from[k] + 1]]

Combine(w, f) == Xor(Xor(oaes_gf_mul(w[1], f[1]), oaes_gf_mul(w[2], f[2])), Xor(oaes_gf_mul(w[3], f[3]), oaes_gf_mul(w[4], f[4])))

oaes_mix_cols(w) == <<Combine(w, <<2, 3, 1, 1>>), Combine(w, <<1, 2, 3, 1>>), Combine(w, <<1, 1, 2, 3>>), Combine(w, <<3, 1, 1, 2>>)>>

oaes_inv_mix_cols(w) == <<Combine(w, <<14, 11, 13, 9>>), Combine(w, <<9, 14, 11, 13>>), Combine(w, <<13, 9, 14, 11>>), Combine(w, <<11, 13, 9, 14>>)>>

Columns(f(_), b) == f(SubSeq(b, 1, 4)) \o f(SubSeq(b, 5, 8)) \o f(SubSeq(b, 9, 12)) \o f(SubSeq(b, 13, 16))

num_keys(base) == base + 7

(* oaes_key_expand, column i (counted from 0) from the columns before it. *)
oaes_key_expand(base, i, exp) ==
  LET last == exp[i]
      temp == IF i % base = 0 THEN LET w == SubWord(oaes_word_rot_left(last)) IN [w EXCEPT ![1] = Xor(@, oaes_gf_8[i \div base])]
              ELSE IF base > 6 /\ i % base = 4 THEN SubWord(last) ELSE last
  IN XorAll(exp[i - base + 1], temp)

(* Round key n: four columns. *)
RoundKey(exp, n) == exp[4 * n + 1] \o exp[4 * n + 2] \o exp[4 * n + 3] \o exp[4 * n + 4]

(* What is done with round key n. *)
oaes_encrypt_block(base, exp, n, b) ==
  LET shifted == oaes_shift_rows(SubWord(b)) IN
  IF n = 0 THEN XorAll(b, RoundKey(exp, 0))
  ELSE XorAll(IF n < num_keys(base) - 1 THEN Columns(oaes_mix_cols, shifted) ELSE shifted, RoundKey(exp, n))

oaes_decrypt_block(base, exp, n, b) ==
  LET back(x) == LET s == oaes_inv_shift_rows(x) IN [k \in 1..16 |-> oaes_inv_sub_byte(s[k])] IN
  IF n = num_keys(base) - 1 THEN XorAll(b, RoundKey(exp, n))
  ELSE IF n > 0 THEN Columns(oaes_inv_mix_cols, XorAll(back(b), RoundKey(exp, n)))
  ELSE XorAll(back(b), RoundKey(exp, 0))

(* oaes_encryption_round: the key comes last. *)
oaes_encryption_round(k, b) == XorAll(Columns(oaes_mix_cols, oaes_shift_rows(SubWord(b))), k)

Table(row, x) == LET s == oaes_sub_byte(x)
                     f == << <<2,1,1,3>>, <<3,2,1,1>>, <<1,3,2,1>>, <<1,1,3,2>> >>[row + 1]
                 IN [k \in 1..4 |-> oaes_gf_mul(s, f[k])]

aesb_single_round(k, b) ==
  LET at(row, col) == b[4 * ((col + row) % 4) + row + 1]
      column(col) == XorAll(XorAll(Table(0, at(0, col)), Table(1, at(1, col))), XorAll(Table(2, at(2, col)), Table(3, at(3, col))))
  IN XorAll(column(0) \o column(1) \o column(2) \o column(3), k)

(* The instructions: aesenc shifts, substitutes, mixes and adds; aeskeygenassist substitutes columns 1 and 3. *)
aesenc(k, b) == XorAll(Columns(oaes_mix_cols, SubWord(oaes_shift_rows(b))), k)

aeskeygenassist(x, rcon) ==
  LET turned(w) == LET t == oaes_word_rot_left(SubWord(w)) IN [t EXCEPT ![1] = Xor(@, rcon)]
  IN <<SubWord(x[2]), turned(x[2]), SubWord(x[4]), turned(x[4])>>

(* Each column gains all the columns before it, then the word that is broadcast. *)
Prefix(t, w) ==
  LET p2 == XorAll(t[1], t[2])
      p3 == XorAll(p2, t[3])
  IN <<XorAll(t[1], w), XorAll(p2, w), XorAll(p3, w), XorAll(XorAll(p3, t[4]), w)>>

aes_256_assist1(t1, t2) == Prefix(t1, t2[4])

aes_256_assist2(t1, t3) == Prefix(t3, aeskeygenassist(t1, 0)[3])

(* aes_expand_key: two round keys at a time, the constants 1, 2, 4, 8 and 0x10 as elements of the scaled field. *)
aes_expand_key(key) ==
  LET pair[n \in 0..5] == IF n = 0 THEN [t1 |-> SubSeq(key, 1, 4), t3 |-> SubSeq(key, 5, 8)]
        ELSE LET was == pair[n - 1]
                 t1 == aes_256_assist1(was.t1, aeskeygenassist(was.t3, oaes_gf_8[n]))
             IN [t1 |-> t1, t3 |-> aes_256_assist2(t1, was.t3)]
      flat(t) == t[1] \o t[2] \o t[3] \o t[4]
  IN [n \in 0..10 |-> IF n % 2 = 0 THEN flat(pair[n \div 2].t1) ELSE flat(pair[n \div 2].t3)]

KeyBase == [aes128 |-> 4, aes192 |-> 6, aes256 |-> 8]
CipherSample(n, s) == [k \in 1..n |-> (s * k * k + 3 * k + 7 * s) % 16]

(* The steps of a key length end, in this order, with the key expanded, the block encrypted, decrypted again, and after ten pseudo rounds. *)
Ends(base) == LET columns == 4 * num_keys(base) - base
                  n == num_keys(base)
              IN <<columns, columns + n, columns + 2 * n, columns + 2 * n + 10>>

(* One column of the key, one round of the block, or a round of oaes_pseudo_encrypt_ecb, aesb_pseudo_round and aes_pseudo_round side by side. *)
CipherCode(d, c) ==
  LET base == KeyBase[alg]
      end == Ends(base)
      k == d - end[3]
      key == IF base = 8 THEN aes_expand_key(SubSeq(c.exp, 1, 8))[k] ELSE RoundKey(c.exp, k)
  IN CASE d < end[1] -> [c EXCEPT !.exp = Append(@, oaes_key_expand(base, base + d, @))]
       [] d \in end[1]..(end[2] - 1) -> [c EXCEPT !.x = oaes_encrypt_block(base, c.exp, d - end[1], @)]
       [] d \in end[2]..(end[3] - 1) -> [c EXCEPT !.x = oaes_decrypt_block(base, c.exp, end[3] - 1 - d, @)]
       [] OTHER -> [c EXCEPT !.x = oaes_encryption_round(RoundKey(c.exp, k), @),
                             !.tables = aesb_single_round(RoundKey(c.exp, k), @), !.instructions = aesenc(key, @)]

-----------------------------------------------------------------------------
Threefish == {"threefish256", "threefish512", "threefish1024"}

Rounds(a) == CASE a \in {"threefish256", "threefish512"} -> 72 [] a = "threefish1024" -> 80 [] a = "md5" -> 64 [] a = "blake" -> 14 [] a = "chacha" -> 4
               [] a = "keccak" -> 24 [] a \in DOMAIN Schedules -> Len(Schedules[a].steps) [] a = "columns" -> 8 [] a = "aesround" -> 4 [] a = "jhlayers" -> 256 [] a \in DOMAIN KeyBase -> Ends(KeyBase[a])[4]
               [] OTHER -> 2 * (JhLog + 1)

Start(a, seed) ==
  CASE a \in Threefish -> LET k == KeyWords(a, seed) IN [x |-> InjectFirst(a, Sample(Width[a], seed), k), k |-> k]
    [] a = "md5" -> [x |-> Sample(4, seed), m |-> Sample(16, seed + 2)]
    [] a \in {"blake", "chacha"} -> [x |-> Sample(16, seed), m |-> Sample(16, seed + 2)]
    [] a = "keccak" -> [x |-> Sample(25, seed)]
    [] a \in DOMAIN KeyBase -> LET text == CipherSample(16, seed + 4) IN
         [exp |-> [k \in 1..KeyBase[a] |-> CipherSample(4, seed + k)], x |-> text, tables |-> text, instructions |-> text]
    [] a \in DOMAIN Schedules -> Schedules[a].in
    [] a = "e8" -> [even |-> [i \in 0..(2^(JhLog + 1) - 1) |-> {2 * i}], odd |-> [i \in 0..(2^(JhLog + 1) - 1) |-> {2 * i + 1}]]
    [] OTHER -> <<>>

Init ==
  /\ alg \in Threefish \cup {"md5", "blake", "chacha", "keccak", "columns", "aesround", "jhlayers", "e8"} \cup DOMAIN KeyBase \cup DOMAIN Schedules
  /\ r = 0
  /\ \E seed \in Seeds : code = Start(alg, seed)
  /\ ref = code

Step(algs, c, f) == alg \in algs /\ r < Rounds(alg) /\ r' = r + 1 /\ code' = c /\ ref' = f /\ UNCHANGED alg

Next ==
  \/ Step(Threefish, ThreefishCode(r, code), ThreefishRef(r, ref))
  \/ Step({"md5"}, MD5Code(r, code), MD5Ref(r, ref))
  \/ Step({"blake"}, BlakeCode(r, code), BlakeRef(r, ref))
  \/ Step({"chacha"}, ChaChaCode(code), ChaChaRef(ref))
  \/ Step({"keccak"}, KeccakCode(r, code), KeccakRef(r, ref))
  \/ Step(DOMAIN Schedules, ScheduleStep(r, code), ref)
  \/ Step({"columns"}, GroestlCode(r), GroestlRef(r))
  \/ Step({"aesround"}, AesCode(r), AesRef(r))
  \/ Step({"jhlayers"}, JhCode(r), JhRef(r))
  \/ Step({"e8"}, E8(r, code), ref)
  \/ Step(DOMAIN KeyBase, CipherCode(r, code), ref)
  \/ r = Rounds(alg) /\ UNCHANGED vars

Spec == Init /\ [][Next]_vars

-----------------------------------------------------------------------------
(* Skein_256_Process_Block, Skein_512_Process_Block and Skein1024_Process_Block compute Threefish: after every round the    *)
(* registers, read in the order the next round names them, are the words of the specification, injections included.         *)
ThreefishMatches == alg \in Threefish => \A i \in 0..(Width[alg] - 1) : code.x[Row(alg, r)[i + 1]] = ref.x[i]

(* MD5Transform: the 64 unrolled lines name the registers and the message words the specification's rotation and index formulas give. *)
MD5Matches == alg = "md5" => \A i \in 0..3 : code.x[MD5Registers[(r % 4) + 1][i + 1]] = ref.x[i]

(* blake256_compress: the eight calls of a round, whatever their order, are the columns and the diagonals with their message words. *)
BlakeMatches == alg = "blake" => code.x = ref.x

(* chacha8: the calls of a double round are the columns and the diagonals of the matrix. *)
ChaChaMatches == alg = "chacha" => code.x = ref.x

(* keccakf: moving the lanes in place along one cycle is the parallel permutation and rotation of the specification. *)
KeccakMatches == alg = "keccak" => code.x = ref.x

(* RND512P, RND512Q: the columns take the bytes ShiftBytes brings there, each turned as MixBytes wants it. *)
ColumnsMatch == alg = "columns" => code = ref

(* F512, OutputTransformation and aesb_pseudo_round: although every round overwrites a scratch buffer, the buffer read at the end holds the input after rounds 0 to 9 in order. *)
BuffersAlternate ==
  (alg \in DOMAIN Schedules /\ r = Rounds(alg)) =>
    \A b \in DOMAIN Schedules[alg].out : code[b] = Schedules[alg].out[b] \o Numeral

(* aesb_single_round: the four tables give ShiftRows and MixColumns. *)
AesRoundMatches == alg = "aesround" => code = ref

(* SS and L are the S-boxes and the maximum distance separable map of JH. *)
JhLayersMatch == alg = "jhlayers" => code = ref

(* E8: the swapping layers join every position with every other, so that after one cycle of rounds and one more every bit depends on all of the state. *)
FullDiffusion ==
  (alg = "e8" /\ r >= JhLog + 2) => \A i \in DOMAIN code.even : code.even[i] = 0..(2^(JhLog + 2) - 1)

(* oaes_decrypt_block undoes oaes_encrypt_block for all three key lengths; oaes_key_expand and aes_expand_key, which uses the key assist instruction, give the same round keys; and *)
(* the three implementations of the pseudo rounds, which must agree for all nodes to agree on a proof of work, give the same block. *)
CipherMatches ==
  alg \in DOMAIN KeyBase =>
    LET end == Ends(KeyBase[alg]) IN
    /\ (r = end[1] /\ alg = "aes256") => \A n \in 0..10 : aes_expand_key(SubSeq(code.exp, 1, 8))[n] = RoundKey(code.exp, n)
    /\ r = end[3] => code.x = ref.x
    /\ r > end[3] => code.x = code.tables /\ code.tables = code.instructions
=============================================================================
