----------------------------- MODULE SyncProofs -----------------------------
(***************************************************************************)
(* Proofs about the chain synchronisation, for every block tree, every     *)
(* number of peers and connections, and every interleaving of their        *)
(* handlers: a connection always knows what it is waiting for, and no      *)
(* block that is downloaded from an honest peer is an orphan.              *)
(***************************************************************************)
EXTENDS CryptonoteProtocol, FiniteSetTheorems, WellFoundedInduction, TLAPS

-----------------------------------------------------------------------------
(* What a download relies on.                                              *)

\* The blocks of s can be added one after the other to a core that knows B.
Ready(s, B) ==
    \A i \in DOMAIN s :
        s[i] \in B \/ Parent[s[i]] \in B \/ \E h \in 1 .. (i - 1) : s[h] = Parent[s[i]]

Answers == {"chain_entry", "objects"}
NoAnswer(q) == \A i \in DOMAIN q : q[i].type \notin Answers
OnlyAnswer(q, i) == i \in DOMAIN q /\ \A h \in DOMAIN q : h # i => q[h].type \notin Answers

\* What a peer sends.
Received ==
    [type : {"sync_data"}, top : Blocks, height : Nat, initial : BOOLEAN]
      \cup [type : {"new_block"}, block : Blocks]
      \cup [type : {"chain_entry"}, ids : Seq(Blocks), start : Nat, total : Nat]
      \cup [type : {"objects"}, blocks : Seq(Blocks), height : Nat]

\* The requests and answers of honest nodes.  The id of the genesis block ends a
\* chain request; the ids of a chain entry follow one another.
ChainRequestOk(m) ==
    /\ m.type = "request_chain"
    /\ Len(m.ids) \in Nat \ {0} /\ m.ids[Len(m.ids)] = Genesis
ChainEntryOk(m) ==
    /\ m.type = "chain_entry" /\ m.ids # <<>> /\ m.start + Len(m.ids) <= m.total
    /\ \A i \in 2 .. Len(m.ids) : Parent[m.ids[i]] = m.ids[i - 1]
ObjectRequestOk(m) == m.type = "request_objects" /\ m.ids \in Seq(Blocks)

\* The stages of a download, for a connection with context x, the requests out and
\* the messages in on their way, a handler that runs or not and has the blocks of
\* todo to add, when the core knows K and the peer has h blocks.
AtRest(x, out, in, run) ==
    /\ out = <<>> /\ NoAnswer(in) /\ ~run
    /\ x.callbacks = 0 /\ x.needed = <<>> /\ x.requested = {}
    /\ x.state = "synchronizing" => ~OnlyLonger
CallbackDue(x, out, in, run) ==
    /\ out = <<>> /\ NoAnswer(in) /\ ~run
    /\ x.callbacks = 1 /\ x.needed = <<>> /\ x.requested = {} /\ x.state = "synchronizing"
ChainAsked(x, out, in, run) ==
    /\ out # <<>> /\ out = <<out[1]>> /\ ChainRequestOk(out[1]) /\ NoAnswer(in) /\ ~run
    /\ x.callbacks = 0 /\ x.needed = <<>> /\ x.requested = {} /\ x.state = "synchronizing"
ChainTold(x, out, in, run, h) ==
    /\ out = <<>> /\ ~run
    /\ \E i \in DOMAIN in :
          OnlyAnswer(in, i) /\ ChainEntryOk(in[i]) /\ (OnlyLonger => in[i].total <= h)
    /\ x.callbacks = 0 /\ x.needed = <<>> /\ x.requested = {} /\ x.state = "synchronizing"
BlocksAsked(x, out, in, run, K, h) ==
    /\ out # <<>> /\ out = <<out[1]>> /\ ObjectRequestOk(out[1]) /\ NoAnswer(in) /\ ~run
    /\ Range(out[1].ids) = x.requested /\ Ready(out[1].ids, K) /\ Ready(x.needed, K \cup x.requested)
    /\ OnlyLonger => x.last < h
    /\ x.callbacks = 0 /\ x.state = "synchronizing"
BlocksTold(x, out, in, run, K, h) ==
    /\ out = <<>> /\ ~run
    /\ \E i \in DOMAIN in :
          /\ OnlyAnswer(in, i) /\ in[i].type = "objects"
          /\ Range(in[i].blocks) \subseteq x.requested
          /\ Range(in[i].blocks) = x.requested => Ready(in[i].blocks, K)
          /\ OnlyLonger => x.last < in[i].height /\ in[i].height <= h
    /\ Ready(x.needed, K \cup x.requested)
    /\ x.callbacks = 0 /\ x.state = "synchronizing"
Adding(x, out, in, run, todo, K, h) ==
    /\ out = <<>> /\ NoAnswer(in) /\ run
    /\ Ready(todo, K) /\ Ready(x.needed, K \cup Range(todo))
    /\ OnlyLonger => x.last < x.remote /\ x.remote <= h
    /\ x.callbacks = 0 /\ x.requested = {} /\ x.state = "synchronizing"
Stage(x, out, in, run, todo, K, h) ==
    \/ AtRest(x, out, in, run) \/ CallbackDue(x, out, in, run)
    \/ ChainAsked(x, out, in, run) \/ ChainTold(x, out, in, run, h)
    \/ BlocksAsked(x, out, in, run, K, h) \/ BlocksTold(x, out, in, run, K, h)
    \/ Adding(x, out, in, run, todo, K, h)

Context ==
    [open : {TRUE}, state : {"befor_handshake", "synchronizing", "idle", "normal"},
     needed : Seq(Blocks), requested : SUBSET Blocks, remote : Int, last : Int, callbacks : Nat]

\* The state of one connection.
Sound(x, out, in, run, todo, K, h) ==
    /\ run \in BOOLEAN /\ todo \in Seq(Blocks) /\ (~run => todo = <<>>)
    /\ in \in Seq(Received)
    /\ \/ x \in Context /\ Stage(x, out, in, run, todo, K, h)
       \/ x = Closed /\ out = <<>> /\ in = <<>> /\ Ready(todo, K)

PeerHeight(c) == Height(peerTip[PeerOf[c]])
SoundAt(c) == Sound(conn[c], toPeer[c], fromPeer[c], running[c], job[c], known, PeerHeight(c))

SyncInv ==
    /\ known \subseteq Blocks /\ tip \in Blocks
    /\ peerTip \in [Peers -> Blocks]
    /\ DOMAIN conn = Conns /\ DOMAIN toPeer = Conns /\ DOMAIN fromPeer = Conns
    /\ DOMAIN job = Conns /\ DOMAIN running = Conns
    /\ \A c \in Conns : SoundAt(c)
    /\ OnlyLonger => ~finalFailed

-----------------------------------------------------------------------------
(* Induction over the naturals, from the library's theorem that < is well  *)
(* founded, and what it says about chains and about the loops that copy    *)
(* a list.                                                                 *)

\* A set of naturals that is not empty has a least element.
LEMMA LeastElement ==
    ASSUME NEW S, S \subseteq Nat, S # {}
    PROVE  \E x \in S : \A y \in S : x <= y
  <1>. DEFINE R == OpToRel(<, Nat)
  <1>1. IsWellFoundedOn(R, Nat)
    BY NatLessThanWellFounded, Zenon
  <1>2. PICK x \in S : \A y \in S : ~(<<y, x>> \in R)
    <2>. HIDE DEF R
    <2>. QED  BY <1>1, WFMin, Zenon
  <1>3. \A y \in S : <<y, x>> \in R <=> y < x
    BY Zenon DEF OpToRel
  <1>. HIDE DEF R
  <1>4. \A y \in S : ~(y < x)
    BY <1>2, <1>3, Zenon
  <1>5. x \in Nat /\ \A y \in S : y \in Nat
    OBVIOUS
  <1>6. \A y \in S : x <= y
    BY <1>4, <1>5
  <1>. QED  BY <1>6, Zenon

\* Induction up to n, for a property given as the set of the numbers that have it.
LEMMA InductionUpTo ==
    ASSUME NEW S, NEW n \in Nat, 0 \in S, \A i \in 0 .. n : i \in S /\ i < n => i + 1 \in S
    PROVE  \A i \in 0 .. n : i \in S
  <1>. SUFFICES ASSUME NEW i \in 0 .. n, i \notin S PROVE FALSE
    OBVIOUS
  <1>. DEFINE Without == {x \in 0 .. n : x \notin S}
  <1>1. Without \subseteq Nat /\ Without # {}
    OBVIOUS
  <1>2. PICK x \in Without : \A y \in Without : x <= y
    <2>. HIDE DEF Without
    <2>. QED  BY <1>1, LeastElement, Zenon
  <1>3. x \in 1 .. n /\ x - 1 \in 0 .. n /\ x - 1 \notin Without
    BY <1>2
  <1>. QED  BY <1>3

\* The chain of a block starts at the genesis block, ends at the block, and each
\* block of it is the parent of the next.
LEMMA ChainLinks ==
    ASSUME NEW b \in Blocks
    PROVE  /\ Chain[b] \in Seq(Blocks) /\ Len(Chain[b]) \in Nat /\ Len(Chain[b]) >= 1
           /\ Chain[b][1] = Genesis
           /\ Chain[b][Len(Chain[b])] = b
           /\ \A i \in 2 .. Len(Chain[b]) : Parent[Chain[b][i]] = Chain[b][i - 1]
  <1>. DEFINE Linked(x) ==
           /\ Len(Chain[x]) >= 1 /\ Chain[x][1] = Genesis /\ Chain[x][Len(Chain[x])] = x
           /\ \A i \in 2 .. Len(Chain[x]) : Parent[Chain[x][i]] = Chain[x][i - 1]
              Bad == {x \in Blocks : ~Linked(x)}
              Lengths == {Len(Chain[x]) : x \in Bad}
  <1>0. \A x \in Blocks : Chain[x] \in Seq(Blocks) /\ Len(Chain[x]) \in Nat
    BY TreeAssumption
  <1>1. Linked(Genesis)
    <2>1. Chain[Genesis] = <<Genesis>>
      BY TreeAssumption, Zenon
    <2>. QED  BY <2>1
  <1>2. ASSUME NEW x \in Blocks, x # Genesis, Linked(Parent[x]) PROVE Linked(x)
    <2>1. Parent[x] \in Blocks /\ Chain[x] = Append(Chain[Parent[x]], x)
      BY <1>2, TreeAssumption, Zenon
    <2>. DEFINE p == Chain[Parent[x]]
    <2>2. /\ p \in Seq(Blocks) /\ Len(p) \in Nat /\ Len(p) >= 1 /\ p[1] = Genesis
          /\ p[Len(p)] = Parent[x] /\ \A i \in 2 .. Len(p) : Parent[p[i]] = p[i - 1]
      BY <1>0, <1>2, <2>1, Zenon
    <2>3. Chain[x] = Append(p, x)
      BY <2>1, Zenon
    <2>. HIDE DEF p
    <2>4. /\ Len(Chain[x]) = Len(p) + 1 /\ Chain[x][Len(p) + 1] = x
          /\ \A i \in 1 .. Len(p) : Chain[x][i] = p[i]
      BY <2>2, <2>3
    <2>5. ASSUME NEW i \in 2 .. Len(Chain[x]) PROVE Parent[Chain[x][i]] = Chain[x][i - 1]
      <3>1. CASE i = Len(p) + 1
        BY <2>2, <2>4, <3>1
      <3>2. CASE i # Len(p) + 1
        <4>1. i \in 2 .. Len(p) /\ i \in 1 .. Len(p) /\ i - 1 \in 1 .. Len(p)
          BY <2>2, <2>4, <3>2
        <4>. QED  BY <2>2, <2>4, <4>1, Zenon
      <3>. QED  BY <3>1, <3>2, Zenon
    <2>6. Len(Chain[x]) >= 1 /\ Chain[x][1] = Genesis /\ Chain[x][Len(Chain[x])] = x
      BY <2>2, <2>4
    <2>. QED  BY <2>5, <2>6, Zenon
  <1>3. Bad = {}
    <2>. SUFFICES ASSUME Bad # {} PROVE FALSE
      OBVIOUS
    <2>1. Lengths \subseteq Nat /\ Lengths # {}
      BY <1>0, Zenon
    <2>2. PICK n \in Lengths : \A m \in Lengths : n <= m
      <3>. HIDE DEF Lengths
      <3>. QED  BY <2>1, LeastElement, Zenon
    <2>3. PICK x \in Bad : n = Len(Chain[x])
      BY Zenon
    <2>4. x \in Blocks /\ x # Genesis
      BY <1>1, Zenon
    <2>5. Parent[x] \in Blocks /\ Chain[x] = Append(Chain[Parent[x]], x)
      BY <2>4, TreeAssumption, Zenon
    <2>6. Len(Chain[x]) = Len(Chain[Parent[x]]) + 1 /\ Len(Chain[Parent[x]]) \in Nat
      BY <1>0, <2>4, <2>5
    <2>7. ~Linked(x) /\ Parent[x] \in Bad
      <3>. HIDE DEF Linked
      <3>. QED  BY <1>2, <2>4, <2>5, Zenon
    <2>8. Len(Chain[Parent[x]]) \in Lengths
      BY <2>7, Zenon
    <2>. QED  BY <2>2, <2>3, <2>6, <2>8
  <1>4. Linked(b)
    <2>. HIDE DEF Linked
    <2>. QED  BY <1>3, Zenon
  <1>. QED  BY <1>0, <1>4, Zenon

\* A block may follow blocks of which one is its parent.
LEMMA AppendReady ==
    ASSUME NEW q \in Seq(Blocks), NEW x \in Blocks, NEW B, Ready(q, B),
           x \in B \/ Parent[x] \in B \/ Parent[x] \in Range(q)
    PROVE  /\ Append(q, x) \in Seq(Blocks) /\ Range(Append(q, x)) = Range(q) \cup {x}
           /\ Ready(Append(q, x), B)
  <1>. DEFINE a == Append(q, x)
  <1>1. /\ a \in Seq(Blocks) /\ Len(a) = Len(q) + 1 /\ a[Len(q) + 1] = x /\ Len(q) \in Nat
        /\ \A i \in 1 .. Len(q) : a[i] = q[i]
        /\ DOMAIN a = 1 .. (Len(q) + 1) /\ DOMAIN q = 1 .. Len(q)
    OBVIOUS
  <1>. HIDE DEF a
  <1>2. Range(a) = Range(q) \cup {x}
    <2>1. ASSUME NEW y \in Range(a) PROVE y \in Range(q) \cup {x}
      <3>1. PICK i \in 1 .. (Len(q) + 1) : y = a[i]
        BY <1>1, <2>1, Zenon DEF Range
      <3>2. i = Len(q) + 1 \/ i \in 1 .. Len(q)
        BY <1>1
      <3>. QED  BY <1>1, <3>1, <3>2, Zenon DEF Range
    <2>2. x \in Range(a)
      <3>1. Len(q) + 1 \in DOMAIN a
        BY <1>1
      <3>. QED  BY <1>1, <3>1, Zenon DEF Range
    <2>3. ASSUME NEW i \in DOMAIN q PROVE q[i] \in Range(a)
      <3>1. i \in DOMAIN a /\ a[i] = q[i]
        BY <1>1
      <3>. QED  BY <3>1, Zenon DEF Range
    <2>. QED  BY <2>1, <2>2, <2>3, Zenon DEF Range
  <1>3. ASSUME NEW i \in 1 .. (Len(q) + 1)
        PROVE  a[i] \in B \/ Parent[a[i]] \in B \/ \E h \in 1 .. (i - 1) : a[h] = Parent[a[i]]
    <2>1. CASE i = Len(q) + 1
      <3>1. i - 1 = Len(q) /\ a[i] = x
        BY <1>1, <2>1
      <3>2. CASE Parent[x] \in Range(q)
        <4>1. PICK h \in 1 .. Len(q) : q[h] = Parent[x]
          BY <1>1, <3>2, Zenon DEF Range
        <4>2. h \in 1 .. (i - 1) /\ a[h] = Parent[a[i]]
          BY <1>1, <3>1, <4>1, Zenon
        <4>. QED  BY <4>2, Zenon
      <3>. QED  BY <3>1, <3>2, Zenon
    <2>2. CASE i \in 1 .. Len(q)
      <3>1. q[i] \in B \/ Parent[q[i]] \in B \/ \E h \in 1 .. (i - 1) : q[h] = Parent[q[i]]
        BY <1>1, <2>2, Zenon DEF Ready
      <3>2. a[i] = q[i] /\ \A h \in 1 .. (i - 1) : a[h] = q[h]
        BY <1>1, <2>2
      <3>. QED  BY <3>1, <3>2, Zenon
    <2>. QED  BY <1>1, <2>1, <2>2
  <1>4. Ready(a, B)
    BY <1>1, <1>3, Zenon DEF Ready
  <1>. QED  BY <1>1, <1>2, <1>4, Zenon DEF a

\* The loops that copy a list copy the ids that are wanted and no others, and what
\* is left out does no harm when the core knows it.
LEMMA OnlyKeeps ==
    ASSUME NEW ids \in Seq(Blocks), NEW S
    PROVE  /\ Only(ids, S) \in Seq(Blocks)
           /\ Range(Only(ids, S)) = Range(ids) \cap S
           /\ \A B : Ready(ids, B) /\ Range(ids) \ S \subseteq B => Ready(Only(ids, S), B)
  <1>. DEFINE N == Len(ids)
              Step(q, i) == IF ids[i] \in S THEN Append(q, ids[i]) ELSE q
              Loop(f) == [i \in 0 .. N |-> IF i = 0 THEN <<>> ELSE Step(f[i - 1], i)]
              Upto(m) == {f \in [0 .. m -> Seq(Blocks)] :
                            f[0] = <<>> /\ \A i \in 1 .. m : f[i] = Step(f[i - 1], i)}
  <1>1. N \in Nat /\ \A i \in 1 .. N : ids[i] \in Blocks
    OBVIOUS
  <1>2. ASSUME NEW q \in Seq(Blocks), NEW i \in 1 .. N PROVE Step(q, i) \in Seq(Blocks)
    BY <1>1
  <1>3. \A m \in 0 .. N : Upto(m) # {}
    <2>. DEFINE M == {m \in 0 .. N : Upto(m) # {}}
    <2>1. 0 \in M
      <3>1. [i \in 0 .. 0 |-> <<>>] \in Upto(0)
        OBVIOUS
      <3>2. 0 \in 0 .. N
        BY <1>1
      <3>. HIDE DEF Upto
      <3>. QED  BY <3>1, <3>2, Zenon
    <2>2. ASSUME NEW m \in 0 .. N, m \in M, m < N PROVE m + 1 \in M
      <3>1. PICK f \in Upto(m) : TRUE
        BY <2>2, Zenon
      <3>2. f \in [0 .. m -> Seq(Blocks)] /\ f[0] = <<>> /\ \A i \in 1 .. m : f[i] = Step(f[i - 1], i)
        BY <3>1, Zenon
      <3>. DEFINE g == [i \in 0 .. (m + 1) |-> IF i = m + 1 THEN Step(f[m], m + 1) ELSE f[i]]
      <3>3. Step(f[m], m + 1) \in Seq(Blocks)
        BY <1>1, <1>2, <2>2, <3>2
      <3>. HIDE DEF Step
      <3>4. g \in [0 .. (m + 1) -> Seq(Blocks)] /\ g[0] = <<>>
        BY <2>2, <3>2, <3>3
      <3>5. ASSUME NEW i \in 1 .. (m + 1) PROVE g[i] = Step(g[i - 1], i)
        <4>1. CASE i = m + 1
          <5>1. g[i] = Step(f[m], m + 1) /\ i - 1 = m /\ g[m] = f[m]
            BY <2>2, <4>1
          <5>. QED  BY <4>1, <5>1, Zenon
        <4>2. CASE i # m + 1
          <5>1. i \in 1 .. m /\ i - 1 \in 0 .. m /\ g[i] = f[i] /\ g[i - 1] = f[i - 1]
            BY <2>2, <4>2
          <5>. QED  BY <3>2, <5>1, Zenon
        <4>. QED  BY <4>1, <4>2, Zenon
      <3>6. g \in Upto(m + 1)
        BY <3>4, <3>5, Zenon
      <3>7. m + 1 \in 0 .. N
        BY <1>1, <2>2
      <3>. QED  BY <3>6, <3>7, Zenon
    <2>. HIDE DEF M
    <2>3. \A m \in 0 .. N : m \in M
      BY <1>1, <2>1, <2>2, InductionUpTo, Zenon
    <2>. QED  BY <2>3, Zenon DEF M
  <1>4. PICK f \in Upto(N) : TRUE
    <2>1. N \in 0 .. N
      BY <1>1
    <2>. HIDE DEF Upto
    <2>. QED  BY <1>3, <2>1, Zenon
  <1>5. f = Loop(f)
    <2>1. f \in [0 .. N -> Seq(Blocks)] /\ f[0] = <<>> /\ \A i \in 1 .. N : f[i] = Step(f[i - 1], i)
      BY <1>4, Zenon
    <2>. HIDE DEF Step
    <2>. QED  BY <1>1, <2>1
  <1>. DEFINE upTo[i \in 0 .. N] ==
                  IF i = 0 THEN <<>>
                  ELSE IF ids[i] \in S THEN Append(upTo[i - 1], ids[i]) ELSE upTo[i - 1]
  <1>6. upTo = CHOOSE g : g = Loop(g)
    BY Zenon
  <1>7. Only(ids, S) = upTo[N]
    BY Zenon DEF Only
  <1>. HIDE DEF upTo
  <1>8. upTo = Loop(upTo)
    <2>. HIDE DEF Loop
    <2>. QED  BY <1>5, <1>6, Zenon
  <1>9. upTo[0] = <<>> /\ \A i \in 0 .. N : i < N => upTo[i + 1] = Step(upTo[i], i + 1)
    <2>. HIDE DEF Step
    <2>1. upTo[0] = <<>>
      BY <1>1, <1>8
    <2>2. ASSUME NEW i \in 0 .. N, i < N PROVE upTo[i + 1] = Step(upTo[i], i + 1)
      <3>1. i + 1 \in 0 .. N /\ i + 1 # 0 /\ (i + 1) - 1 = i
        BY <1>1, <2>2
      <3>. QED  BY <1>8, <3>1, Zenon
    <2>. QED  BY <2>1, <2>2, Zenon
  <1>. DEFINE Copied(i) == {ids[h] : h \in 1 .. i} \cap S
              Good == {i \in 0 .. N : upTo[i] \in Seq(Blocks) /\ Range(upTo[i]) = Copied(i)}
  <1>10. \A i \in 0 .. N : i \in Good
    <2>1. 0 \in Good
      <3>1. Range(<<>>) = {} /\ Copied(0) = {} /\ <<>> \in Seq(Blocks)
        BY DEF Range
      <3>. QED  BY <1>1, <1>9, <3>1
    <2>2. ASSUME NEW i \in 0 .. N, i \in Good, i < N PROVE i + 1 \in Good
      <3>1. i + 1 \in 1 .. N /\ i + 1 \in 0 .. N /\ ids[i + 1] \in Blocks
        BY <1>1, <2>2
      <3>2. {ids[h] : h \in 1 .. (i + 1)} = {ids[h] : h \in 1 .. i} \cup {ids[i + 1]}
        <4>1. 1 .. (i + 1) = (1 .. i) \cup {i + 1}
          OBVIOUS
        <4>. QED  BY <4>1, Zenon
      <3>3. CASE ids[i + 1] \in S
        <4>1. upTo[i + 1] = Append(upTo[i], ids[i + 1])
          BY <1>9, <2>2, <3>3, Zenon
        <4>2. Append(upTo[i], ids[i + 1]) \in Seq(Blocks)
          BY <2>2, <3>1
        <4>3. Range(upTo[i + 1]) = Range(upTo[i]) \cup {ids[i + 1]}
          <5>1. Ready(upTo[i], Blocks) /\ ids[i + 1] \in Blocks
            <6>1. \A h \in DOMAIN upTo[i] : upTo[i][h] \in Blocks
              BY <2>2
            <6>. QED  BY <3>1, <6>1, Zenon DEF Ready
          <5>. QED  BY <2>2, <4>1, <5>1, AppendReady, Zenon
        <4>. QED  BY <2>2, <3>1, <3>2, <3>3, <4>1, <4>2, <4>3, Zenon
      <3>4. CASE ids[i + 1] \notin S
        <4>1. upTo[i + 1] = upTo[i]
          BY <1>9, <2>2, <3>4, Zenon
        <4>. QED  BY <2>2, <3>1, <3>2, <3>4, <4>1, Zenon
      <3>. QED  BY <3>3, <3>4, Zenon
    <2>. HIDE DEF Good
    <2>. QED  BY <1>1, <2>1, <2>2, InductionUpTo, Zenon
  <1>11. upTo[N] \in Seq(Blocks) /\ Range(upTo[N]) = Range(ids) \cap S
    <2>1. N \in 0 .. N /\ 1 .. N = DOMAIN ids
      BY <1>1
    <2>2. upTo[N] \in Seq(Blocks) /\ Range(upTo[N]) = Copied(N)
      BY <1>10, <2>1, Zenon
    <2>3. {ids[h] : h \in 1 .. N} = Range(ids)
      BY <2>1, Zenon DEF Range
    <2>. QED  BY <2>2, <2>3, Zenon
  <1>12. ASSUME NEW B, Ready(ids, B), Range(ids) \ S \subseteq B PROVE Ready(upTo[N], B)
    <2>. DEFINE Ok == {i \in 0 .. N : Ready(upTo[i], B)}
    <2>1. 0 \in Ok
      BY <1>1, <1>9 DEF Ready
    <2>2. ASSUME NEW i \in 0 .. N, i \in Ok, i < N PROVE i + 1 \in Ok
      <3>1. i + 1 \in 1 .. N /\ i + 1 \in 0 .. N /\ i + 1 \in DOMAIN ids /\ (i + 1) - 1 = i
        BY <1>1, <2>2
      <3>2. upTo[i] \in Seq(Blocks) /\ Range(upTo[i]) = Copied(i) /\ ids[i + 1] \in Blocks
        BY <1>1, <1>10, <3>1, Zenon
      <3>3. CASE ids[i + 1] \in S
        <4>1. upTo[i + 1] = Append(upTo[i], ids[i + 1])
          BY <1>9, <2>2, <3>3, Zenon
        <4>. DEFINE x == ids[i + 1]
        <4>2. x \in B \/ Parent[x] \in B \/ \E h \in 1 .. i : ids[h] = Parent[x]
          BY <1>12, <3>1, Zenon DEF Ready
        <4>3. ASSUME NEW h \in 1 .. i, ids[h] = Parent[x]
              PROVE  Parent[x] \in B \/ Parent[x] \in Range(upTo[i])
          <5>1. h \in DOMAIN ids
            BY <1>1
          <5>2. ids[h] \in Range(ids)
            BY <5>1, Zenon DEF Range
          <5>. QED  BY <1>12, <3>2, <4>3, <5>2, Zenon
        <4>4. x \in B \/ Parent[x] \in B \/ Parent[x] \in Range(upTo[i])
          BY <4>2, <4>3, Zenon
        <4>5. Ready(upTo[i], B)
          BY <2>2, Zenon
        <4>. HIDE DEF x
        <4>6. Ready(Append(upTo[i], x), B)
          <5>1. x \in Blocks
            BY <3>2, Zenon DEF x
          <5>. QED  BY <3>2, <4>4, <4>5, <5>1, AppendReady, Zenon
        <4>. QED  BY <3>1, <4>1, <4>6, Zenon DEF x
      <3>4. CASE ids[i + 1] \notin S
        <4>1. upTo[i + 1] = upTo[i]
          BY <1>9, <2>2, <3>4, Zenon
        <4>. QED  BY <2>2, <3>1, <4>1, Zenon
      <3>. QED  BY <3>3, <3>4, Zenon
    <2>. HIDE DEF Ok
    <2>3. \A i \in 0 .. N : i \in Ok
      BY <1>1, <2>1, <2>2, InductionUpTo, Zenon
    <2>4. N \in Ok
      BY <1>1, <2>3
    <2>. QED  BY <2>4, Zenon DEF Ok
  <1>. QED  BY <1>7, <1>11, <1>12, Zenon

-----------------------------------------------------------------------------
(* Lists of blocks.                                                        *)

\* What can be added to a core can be added to one that knows more.
LEMMA ReadyGrows ==
    ASSUME NEW s, NEW B, NEW C, Ready(s, B), B \subseteq C
    PROVE  Ready(s, C)
  BY Zenon DEF Ready

\* Adding the first block of a list leaves a list that can be added.
LEMMA ReadyTail ==
    ASSUME NEW s \in Seq(Blocks), s # <<>>, NEW B, Ready(s, B), NEW C, B \subseteq C, s[1] \in C
    PROVE  /\ s[1] \in Blocks /\ Head(s) = s[1] /\ (s[1] \in B \/ Parent[s[1]] \in B)
           /\ Tail(s) \in Seq(Blocks) /\ Ready(Tail(s), C)
           /\ Range(s) \subseteq C \cup Range(Tail(s))
  <1>. DEFINE t == Tail(s)
  <1>1. /\ Len(s) \in Nat /\ Len(s) >= 1 /\ DOMAIN s = 1 .. Len(s) /\ s[1] \in Blocks /\ Head(s) = s[1]
        /\ t \in Seq(Blocks) /\ Len(t) = Len(s) - 1 /\ DOMAIN t = 1 .. (Len(s) - 1)
        /\ \A i \in 1 .. (Len(s) - 1) : t[i] = s[i + 1]
    OBVIOUS
  <1>. HIDE DEF t
  <1>2. s[1] \in B \/ Parent[s[1]] \in B
    <2>1. 1 \in DOMAIN s /\ 1 .. (1 - 1) = {}
      BY <1>1
    <2>. QED  BY <2>1, Zenon DEF Ready
  <1>3. ASSUME NEW i \in DOMAIN t
        PROVE  t[i] \in C \/ Parent[t[i]] \in C \/ \E h \in 1 .. (i - 1) : t[h] = Parent[t[i]]
    <2>1. i + 1 \in DOMAIN s /\ t[i] = s[i + 1] /\ (i + 1) - 1 = i /\ i \in Nat
      BY <1>1
    <2>2. s[i + 1] \in B \/ Parent[s[i + 1]] \in B \/ \E h \in 1 .. i : s[h] = Parent[s[i + 1]]
      BY <2>1, Zenon DEF Ready
    <2>3. ASSUME NEW h \in 1 .. i, s[h] = Parent[s[i + 1]]
          PROVE  Parent[t[i]] \in C \/ \E g \in 1 .. (i - 1) : t[g] = Parent[t[i]]
      <3>1. CASE h = 1
        BY <2>1, <2>3, <3>1, Zenon
      <3>2. CASE h # 1
        <4>1. h - 1 \in 1 .. (i - 1) /\ t[h - 1] = s[h]
          BY <1>1, <2>1, <3>2
        <4>2. t[h - 1] = Parent[t[i]]
          BY <2>1, <2>3, <4>1, Zenon
        <4>. QED  BY <4>1, <4>2, Zenon
      <3>. QED  BY <3>1, <3>2, Zenon
    <2>. QED  BY <2>1, <2>2, <2>3, Zenon
  <1>4. Ready(t, C)
    BY <1>3, Zenon DEF Ready
  <1>5. ASSUME NEW i \in DOMAIN s PROVE s[i] \in C \cup Range(t)
    <2>1. CASE i # 1
      <3>1. i - 1 \in DOMAIN t /\ t[i - 1] = s[i]
        BY <1>1, <2>1
      <3>. QED  BY <3>1, Zenon DEF Range
    <2>. QED  BY <2>1, Zenon
  <1>6. Range(s) \subseteq C \cup Range(t)
    BY <1>5, Zenon DEF Range
  <1>. QED  BY <1>1, <1>2, <1>4, <1>6, Zenon DEF t

\* A list is requested piece by piece: the rest can follow the first n blocks.
LEMMA ReadySplit ==
    ASSUME NEW s \in Seq(Blocks), NEW n \in 0 .. Len(s), NEW B, Ready(s, B)
    PROVE  /\ SubSeq(s, 1, n) \in Seq(Blocks) /\ Ready(SubSeq(s, 1, n), B)
           /\ SubSeq(s, n + 1, Len(s)) \in Seq(Blocks)
           /\ \A C : B \cup Range(SubSeq(s, 1, n)) \subseteq C => Ready(SubSeq(s, n + 1, Len(s)), C)
  <1>. DEFINE p == SubSeq(s, 1, n)
              r == SubSeq(s, n + 1, Len(s))
  <1>1. Len(s) \in Nat /\ n \in Nat /\ n <= Len(s) /\ DOMAIN s = 1 .. Len(s)
    OBVIOUS
  <1>2. /\ p \in Seq(Blocks) /\ DOMAIN p = 1 .. n /\ \A i \in 1 .. n : p[i] = s[i]
    BY <1>1
  <1>3. /\ r \in Seq(Blocks) /\ DOMAIN r = 1 .. (Len(s) - n)
        /\ \A i \in 1 .. (Len(s) - n) : r[i] = s[n + i]
    BY <1>1
  <1>. HIDE DEF p, r
  <1>4. ASSUME NEW i \in DOMAIN p
        PROVE  p[i] \in B \/ Parent[p[i]] \in B \/ \E h \in 1 .. (i - 1) : p[h] = Parent[p[i]]
    <2>1. i \in DOMAIN s /\ p[i] = s[i] /\ \A h \in 1 .. (i - 1) : p[h] = s[h]
      BY <1>1, <1>2
    <2>2. s[i] \in B \/ Parent[s[i]] \in B \/ \E h \in 1 .. (i - 1) : s[h] = Parent[s[i]]
      BY <2>1, Zenon DEF Ready
    <2>. QED  BY <2>1, <2>2, Zenon
  <1>5. ASSUME NEW C, B \cup Range(p) \subseteq C, NEW i \in DOMAIN r
        PROVE  r[i] \in C \/ Parent[r[i]] \in C \/ \E h \in 1 .. (i - 1) : r[h] = Parent[r[i]]
    <2>1. n + i \in DOMAIN s /\ r[i] = s[n + i] /\ i \in 1 .. (Len(s) - n)
      BY <1>1, <1>3
    <2>2. \/ s[n + i] \in B \/ Parent[s[n + i]] \in B
          \/ \E h \in 1 .. ((n + i) - 1) : s[h] = Parent[s[n + i]]
      BY <2>1, Zenon DEF Ready
    <2>3. ASSUME NEW h \in 1 .. ((n + i) - 1), s[h] = Parent[s[n + i]]
          PROVE  Parent[r[i]] \in C \/ \E g \in 1 .. (i - 1) : r[g] = Parent[r[i]]
      <3>1. CASE h <= n
        <4>1. h \in DOMAIN p /\ p[h] = s[h]
          BY <1>1, <1>2, <2>1, <3>1
        <4>2. p[h] \in Range(p)
          BY <4>1, Zenon DEF Range
        <4>. QED  BY <1>5, <2>1, <2>3, <4>1, <4>2, Zenon
      <3>2. CASE ~(h <= n)
        <4>1. h - n \in 1 .. (i - 1) /\ h - n \in 1 .. (Len(s) - n) /\ n + (h - n) = h
          BY <1>1, <2>1, <3>2
        <4>2. r[h - n] = Parent[r[i]]
          BY <1>3, <2>1, <2>3, <4>1, Zenon
        <4>. QED  BY <4>1, <4>2, Zenon
      <3>. QED  BY <3>1, <3>2, Zenon
    <2>. QED  BY <1>5, <2>1, <2>2, <2>3, Zenon
  <1>6. Ready(p, B) /\ \A C : B \cup Range(p) \subseteq C => Ready(r, C)
    BY <1>4, <1>5, Zenon DEF Ready
  <1>. QED  BY <1>2, <1>3, <1>6, Zenon DEF p, r

\* The loop of request_missing_objects stops within the list.
LEMMA PrefixExists ==
    ASSUME NEW s \in Seq(Blocks), NEW check \in BOOLEAN
    PROVE  WantedPrefix(s, check) \in 0 .. Len(s)
  <1>. DEFINE N == Len(s)
              count(n) == Cardinality({i \in 1 .. n : s[i] \in Wanted(check)})
              over(n) == n = Len(s) \/ count(n) >= BlocksCount
              Stops == {n \in 0 .. N : over(n)}
  <1>1. N \in Nat
    OBVIOUS
  <1>. HIDE DEF count
  <1>2. Stops \subseteq Nat /\ N \in Stops
    BY <1>1
  <1>3. PICK n \in Stops : \A m \in Stops : n <= m
    <2>. HIDE DEF Stops
    <2>. QED  BY <1>2, LeastElement, Zenon
  <1>4. n \in 0 .. N /\ over(n)
    BY <1>3, Zenon
  <1>5. ASSUME NEW m \in 0 .. (n - 1) PROVE ~over(m)
    <2>1. m \in 0 .. N /\ ~(n <= m)
      BY <1>1, <1>4
    <2>2. m \notin Stops
      BY <1>3, <2>1, Zenon
    <2>. HIDE DEF over
    <2>. QED  BY <2>1, <2>2, Zenon
  <1>. HIDE DEF over
  <1>6. \E k \in 0 .. N : over(k) /\ \A m \in 0 .. k - 1 : ~over(m)
    BY <1>4, <1>5, Zenon
  <1>7. WantedPrefix(s, check) = CHOOSE k \in 0 .. N : over(k) /\ \A m \in 0 .. k - 1 : ~over(m)
    BY Zenon DEF WantedPrefix, over, count
  <1>. HIDE DEF N
  <1>8. WantedPrefix(s, check) \in 0 .. N
    BY <1>6, <1>7, Zenon
  <1>. QED  BY <1>8, Zenon DEF N

-----------------------------------------------------------------------------
(* Messages.                                                               *)

\* A message has the fields its handler reads.
LEMMA ReceivedIs ==
    ASSUME NEW m \in Received
    PROVE  /\ m.type = "sync_data" => m.height \in Nat
           /\ m.type = "new_block" => m.block \in Blocks
           /\ m.type = "chain_entry" => m.ids \in Seq(Blocks) /\ m.start \in Nat /\ m.total \in Nat
           /\ m.type = "objects" => m.blocks \in Seq(Blocks) /\ m.height \in Nat
  BY Zenon DEF Received

\* A handler that takes the first message leaves the answers behind it in their order.
LEMMA TakeMessage ==
    ASSUME NEW q \in Seq(Received), q # <<>>
    PROVE  /\ Tail(q) \in Seq(Received) /\ Head(q) = q[1] /\ q[1] \in Received
           /\ NoAnswer(q) => q[1].type \notin Answers /\ NoAnswer(Tail(q))
           /\ \A i \in DOMAIN q : OnlyAnswer(q, i) =>
                 \/ i = 1 /\ NoAnswer(Tail(q))
                 \/ /\ q[1].type \notin Answers
                    /\ i - 1 \in DOMAIN Tail(q) /\ OnlyAnswer(Tail(q), i - 1) /\ Tail(q)[i - 1] = q[i]
  <1>. DEFINE t == Tail(q)
  <1>1. /\ Len(q) \in Nat /\ Len(q) >= 1 /\ DOMAIN q = 1 .. Len(q) /\ q[1] \in Received
        /\ Head(q) = q[1] /\ t \in Seq(Received) /\ DOMAIN t = 1 .. (Len(q) - 1)
        /\ \A i \in 1 .. (Len(q) - 1) : t[i] = q[i + 1]
    OBVIOUS
  <1>. HIDE DEF t
  <1>2. 1 \in DOMAIN q
    BY <1>1
  <1>3. \A h \in DOMAIN t : h + 1 \in DOMAIN q /\ h + 1 # 1 /\ t[h] = q[h + 1] /\ (h + 1) - 1 = h
    BY <1>1
  <1>4. NoAnswer(q) => q[1].type \notin Answers /\ NoAnswer(t)
    BY <1>2, <1>3, Zenon DEF NoAnswer
  <1>5. ASSUME NEW i \in DOMAIN q, OnlyAnswer(q, i)
        PROVE  \/ i = 1 /\ NoAnswer(t)
               \/ /\ q[1].type \notin Answers
                  /\ i - 1 \in DOMAIN t /\ OnlyAnswer(t, i - 1) /\ t[i - 1] = q[i]
    <2>1. CASE i = 1
      BY <1>3, <1>5, <2>1, Zenon DEF NoAnswer, OnlyAnswer
    <2>2. CASE i # 1
      <3>1. i - 1 \in DOMAIN t /\ t[i - 1] = q[i]
        BY <1>1, <2>2
      <3>2. \A h \in DOMAIN t : h # i - 1 => h + 1 # i
        BY <1>1
      <3>3. OnlyAnswer(t, i - 1)
        BY <1>3, <1>5, <3>1, <3>2, Zenon DEF OnlyAnswer
      <3>4. q[1].type \notin Answers
        BY <1>2, <1>5, <2>2, Zenon DEF OnlyAnswer
      <3>. QED  BY <3>1, <3>3, <3>4, Zenon
    <2>. QED  BY <2>1, <2>2, Zenon
  <1>. QED  BY <1>1, <1>4, <1>5, Zenon DEF t

\* A message that arrives leaves the answers before it as they are.
LEMMA PostMessage ==
    ASSUME NEW q \in Seq(Received), NEW m \in Received
    PROVE  /\ Append(q, m) \in Seq(Received)
           /\ m.type \notin Answers /\ NoAnswer(q) => NoAnswer(Append(q, m))
           /\ m.type \notin Answers => \A i \in DOMAIN q : OnlyAnswer(q, i) =>
                 i \in DOMAIN Append(q, m) /\ OnlyAnswer(Append(q, m), i) /\ Append(q, m)[i] = q[i]
           /\ NoAnswer(q) => \E i \in DOMAIN Append(q, m) :
                 OnlyAnswer(Append(q, m), i) /\ Append(q, m)[i] = m
  <1>. DEFINE a == Append(q, m)
              N == Len(q)
  <1>1. /\ N \in Nat /\ DOMAIN q = 1 .. N /\ DOMAIN a = 1 .. (N + 1) /\ a[N + 1] = m
        /\ a \in Seq(Received) /\ \A i \in 1 .. N : a[i] = q[i]
    OBVIOUS
  <1>. HIDE DEF a, N
  <1>2. /\ N + 1 \in DOMAIN a
        /\ \A i \in DOMAIN a : i # N + 1 => i \in DOMAIN q /\ a[i] = q[i]
        /\ \A i \in DOMAIN q : i \in DOMAIN a /\ i # N + 1 /\ a[i] = q[i]
    BY <1>1
  <1>3. m.type \notin Answers /\ NoAnswer(q) => NoAnswer(a)
    BY <1>1, <1>2, Zenon DEF NoAnswer
  <1>4. m.type \notin Answers => \A i \in DOMAIN q : OnlyAnswer(q, i) =>
            i \in DOMAIN a /\ OnlyAnswer(a, i) /\ a[i] = q[i]
    BY <1>1, <1>2, Zenon DEF OnlyAnswer
  <1>5. NoAnswer(q) => OnlyAnswer(a, N + 1)
    BY <1>2, Zenon DEF NoAnswer, OnlyAnswer
  <1>6. NoAnswer(q) => \E i \in DOMAIN a : OnlyAnswer(a, i) /\ a[i] = m
    BY <1>1, <1>2, <1>5, Zenon
  <1>. QED  BY <1>1, <1>3, <1>4, <1>6, Zenon DEF a

\* The request for a chain ends with the id of the genesis block.
LEMMA ChainRequestIsOk ==
    ASSUME NEW b \in Blocks
    PROVE  ChainRequestOk(ChainRequest(b))
  <1>. DEFINE c == Chain[b]
              n == Cardinality({i \in 0 .. Len(c) : BackOffset(i) < Len(c)})
              id(i) == c[Len(c) - BackOffset(i - 1) + 1]
              Recent == [i \in 1 .. n |-> id(i)]
              All == {id(i) : i \in 1 .. n} \cup {Genesis}
  <1>1. n \in Nat
    <2>. DEFINE D == 0 .. Len(c)
                E == {i \in 0 .. Len(c) : BackOffset(i) < Len(c)}
    <2>1. Len(c) \in Nat
      BY ChainLinks, Zenon
    <2>2. IsFiniteSet(D)
      BY <2>1, FS_Interval
    <2>3. E \subseteq D
      OBVIOUS
    <2>. HIDE DEF D, E
    <2>4. Cardinality(E) \in Nat
      BY <2>2, <2>3, FS_Subset, FS_CardinalityType, Zenon
    <2>. QED  BY <2>4, Zenon DEF E
  <1>. HIDE DEF n
  <1>2. get_short_chain_history(b) = Recent \o <<Genesis>>
    BY Zenon DEF get_short_chain_history, n
  <1>. HIDE DEF id
  <1>3. Recent \in [1 .. n -> All] /\ Genesis \in All
    OBVIOUS
  <1>. HIDE DEF Recent, All
  <1>4. Recent \in Seq(All) /\ Len(Recent) = n /\ <<Genesis>> \in Seq(All)
    BY <1>1, <1>3
  <1>5. Len(Recent \o <<Genesis>>) = n + 1 /\ (Recent \o <<Genesis>>)[n + 1] = Genesis
    BY <1>1, <1>4
  <1>. QED  BY <1>1, <1>2, <1>5 DEF ChainRequestOk, ChainRequest

\* A peer answers such a request with a piece of its chain.
LEMMA ChainAnswerIsOk ==
    ASSUME NEW ids, Len(ids) \in Nat \ {0}, ids[Len(ids)] = Genesis, NEW b \in Blocks
    PROVE  /\ find_blockchain_supplement(ids, b) \in Received
           /\ ChainEntryOk(find_blockchain_supplement(ids, b))
           /\ find_blockchain_supplement(ids, b).total = Height(b)
  <1>. DEFINE c == Chain[b]
              N == Len(ids)
              first(i) == /\ ids[i] \in Range(c)
                          /\ \A j \in 1 .. i - 1 : ids[j] \notin Range(c)
              split == CHOOSE i \in 1 .. N : first(i)
              start == CHOOSE h \in 1 .. Len(c) : c[h] = ids[split]
              last == IF start + IdsCount - 1 < Len(c) THEN start + IdsCount - 1 ELSE Len(c)
              entry == [type |-> "chain_entry", ids |-> SubSeq(c, start, last),
                        start |-> start - 1, total |-> Len(c)]
  <1>1. /\ c \in Seq(Blocks) /\ Len(c) \in Nat /\ Len(c) >= 1 /\ c[1] = Genesis
        /\ DOMAIN c = 1 .. Len(c)
        /\ \A i \in 2 .. Len(c) : Parent[c[i]] = c[i - 1]
    BY ChainLinks
  <1>0. find_blockchain_supplement(ids, b) = entry
    BY Zenon DEF find_blockchain_supplement
  <1>. HIDE DEF c, N
  <1>2. N \in Nat /\ N >= 1 /\ ids[N] = Genesis
    BY DEF N
  <1>3. \E i \in 1 .. N : first(i)
    <2>. DEFINE Known == {i \in 1 .. N : ids[i] \in Range(c)}
    <2>1. N \in Known /\ Known \subseteq Nat
      BY <1>1, <1>2 DEF Range
    <2>2. PICK i \in Known : \A j \in Known : i <= j
      <3>. HIDE DEF Known
      <3>. QED  BY <2>1, LeastElement, Zenon
    <2>3. \A j \in 1 .. i - 1 : j \notin Known /\ j \in 1 .. N
      BY <1>2, <2>2
    <2>4. first(i)
      BY <2>2, <2>3, Zenon
    <2>. QED  BY <2>2, <2>4, Zenon
  <1>4. split \in 1 .. N /\ ids[split] \in Range(c)
    BY <1>3, Zenon
  <1>. HIDE DEF split
  <1>5. start \in 1 .. Len(c)
    <2>1. \E h \in 1 .. Len(c) : c[h] = ids[split]
      BY <1>1, <1>4, Zenon DEF Range
    <2>. QED  BY <2>1, Zenon
  <1>. HIDE DEF start
  <1>6. last \in start .. Len(c)
    BY <1>1, <1>5, PeersAssumption
  <1>. HIDE DEF last
  <1>. DEFINE r == SubSeq(c, start, last)
  <1>7. /\ r \in Seq(Blocks) /\ Len(r) = (last - start) + 1
        /\ \A i \in 1 .. Len(r) : r[i] = c[(start + i) - 1]
    BY <1>1, <1>5, <1>6
  <1>8. entry.type = "chain_entry" /\ entry.ids = r /\ entry.start = start - 1 /\ entry.total = Len(c)
    OBVIOUS
  <1>9. entry \in [type : {"chain_entry"}, ids : Seq(Blocks), start : Nat, total : Nat]
    BY <1>1, <1>5, <1>7
  <1>. HIDE DEF r, entry
  <1>10. r # <<>> /\ (start - 1) + Len(r) <= Len(c)
    BY <1>1, <1>5, <1>6, <1>7
  <1>11. ASSUME NEW i \in 2 .. Len(r) PROVE Parent[r[i]] = r[i - 1]
    <2>1. /\ i \in 1 .. Len(r) /\ i - 1 \in 1 .. Len(r) /\ (start + i) - 1 \in 2 .. Len(c)
          /\ ((start + i) - 1) - 1 = (start + (i - 1)) - 1
      BY <1>1, <1>5, <1>6, <1>7
    <2>. QED  BY <1>1, <1>7, <2>1, Zenon
  <1>. QED  BY <1>0, <1>8, <1>9, <1>10, <1>11, Zenon DEF ChainEntryOk, Received, Height, c

-----------------------------------------------------------------------------
(* The state of one connection.                                            *)

\* What another connection adds to the core, and what the peer adds to its chain,
\* leaves a connection sound.
LEMMA SoundGrows ==
    ASSUME NEW x, NEW out, NEW in, NEW run, NEW todo, NEW K, NEW h \in Nat,
           Sound(x, out, in, run, todo, K, h),
           NEW L, K \subseteq L, NEW g \in Nat, OnlyLonger => h <= g
    PROVE  Sound(x, out, in, run, todo, L, g)
  <1>1. CASE x = Closed /\ out = <<>> /\ in = <<>> /\ Ready(todo, K)
    <2>1. Ready(todo, L)
      BY <1>1, ReadyGrows, Zenon
    <2>. QED  BY <1>1, <2>1, Zenon DEF Sound
  <1>2. CASE x \in Context /\ Stage(x, out, in, run, todo, K, h)
    <2>0. in \in Seq(Received) /\ \A i \in DOMAIN in : in[i] \in Received
      BY DEF Sound
    <2>. SUFFICES Stage(x, out, in, run, todo, L, g)
      BY <1>2, Zenon DEF Sound
    <2>1. CASE AtRest(x, out, in, run) \/ CallbackDue(x, out, in, run) \/ ChainAsked(x, out, in, run)
      BY <2>1, Zenon DEF Stage
    <2>2. CASE ChainTold(x, out, in, run, h)
      <3>1. PICK i \in DOMAIN in :
                OnlyAnswer(in, i) /\ ChainEntryOk(in[i]) /\ (OnlyLonger => in[i].total <= h)
        BY <2>2, Zenon DEF ChainTold
      <3>2. in[i].total \in Nat
        BY <2>0, <3>1, ReceivedIs, Zenon DEF ChainEntryOk
      <3>3. OnlyLonger => in[i].total <= g
        BY <3>1, <3>2
      <3>. QED  BY <2>2, <3>1, <3>3, Zenon DEF ChainTold, Stage
    <2>3. CASE BlocksAsked(x, out, in, run, K, h)
      <3>1. Ready(out[1].ids, L) /\ Ready(x.needed, L \cup x.requested)
        <4>1. K \cup x.requested \subseteq L \cup x.requested
          OBVIOUS
        <4>. QED  BY <2>3, <4>1, ReadyGrows, Zenon DEF BlocksAsked
      <3>2. OnlyLonger => x.last < g
        <4>1. x.last \in Int
          BY <1>2, Zenon DEF Context
        <4>2. OnlyLonger => x.last < h
          BY <2>3, Zenon DEF BlocksAsked
        <4>. QED  BY <4>1, <4>2
      <3>. QED  BY <2>3, <3>1, <3>2, Zenon DEF BlocksAsked, Stage
    <2>4. CASE BlocksTold(x, out, in, run, K, h)
      <3>1. PICK i \in DOMAIN in :
                /\ OnlyAnswer(in, i) /\ in[i].type = "objects"
                /\ Range(in[i].blocks) \subseteq x.requested
                /\ Range(in[i].blocks) = x.requested => Ready(in[i].blocks, K)
                /\ OnlyLonger => x.last < in[i].height /\ in[i].height <= h
        BY <2>4, Zenon DEF BlocksTold
      <3>2. in[i].height \in Nat
        BY <2>0, <3>1, ReceivedIs, Zenon
      <3>3. OnlyLonger => in[i].height <= g
        BY <3>1, <3>2
      <3>4. Range(in[i].blocks) = x.requested => Ready(in[i].blocks, L)
        BY <3>1, ReadyGrows, Zenon
      <3>5. Ready(x.needed, L \cup x.requested)
        <4>1. K \cup x.requested \subseteq L \cup x.requested
          OBVIOUS
        <4>. QED  BY <2>4, <4>1, ReadyGrows, Zenon DEF BlocksTold
      <3>. QED  BY <2>4, <3>1, <3>3, <3>4, <3>5, Zenon DEF BlocksTold, Stage
    <2>5. CASE Adding(x, out, in, run, todo, K, h)
      <3>1. Ready(todo, L) /\ Ready(x.needed, L \cup Range(todo))
        <4>1. K \cup Range(todo) \subseteq L \cup Range(todo)
          OBVIOUS
        <4>. QED  BY <2>5, <4>1, ReadyGrows, Zenon DEF Adding
      <3>2. OnlyLonger => x.remote <= g
        <4>1. x.remote \in Int
          BY <1>2, Zenon DEF Context
        <4>2. OnlyLonger => x.remote <= h
          BY <2>5, Zenon DEF Adding
        <4>. QED  BY <4>1, <4>2
      <3>. QED  BY <2>5, <3>1, <3>2, Zenon DEF Adding, Stage
    <2>. QED  BY <1>2, <2>1, <2>2, <2>3, <2>4, <2>5, Zenon DEF Stage
  <1>. QED  BY <1>1, <1>2, Zenon DEF Sound

\* So does a notification of the peer that arrives.
LEMMA SoundArrives ==
    ASSUME NEW x \in Context, NEW out, NEW in, NEW run, NEW todo, NEW K, NEW h,
           Sound(x, out, in, run, todo, K, h),
           NEW m \in Received, m.type \notin Answers
    PROVE  Sound(x, out, Append(in, m), run, todo, K, h)
  <1>. DEFINE a == Append(in, m)
  <1>0. in \in Seq(Received) /\ (Stage(x, out, in, run, todo, K, h) \/ x = Closed)
    BY Zenon DEF Sound
  <1>1. x # Closed
    <2>1. x.open = TRUE /\ Closed.open = FALSE
      BY Zenon DEF Context, Closed
    <2>. QED  BY <2>1, Zenon
  <1>2. a \in Seq(Received) /\ (NoAnswer(in) => NoAnswer(a))
        /\ \A i \in DOMAIN in : OnlyAnswer(in, i) => i \in DOMAIN a /\ OnlyAnswer(a, i) /\ a[i] = in[i]
    BY <1>0, PostMessage, Zenon
  <1>. HIDE DEF a
  <1>3. Stage(x, out, a, run, todo, K, h)
    <2>1. CASE AtRest(x, out, in, run) \/ CallbackDue(x, out, in, run) \/ ChainAsked(x, out, in, run)
      BY <1>2, <2>1, Zenon DEF Stage, AtRest, CallbackDue, ChainAsked
    <2>2. CASE ChainTold(x, out, in, run, h)
      BY <1>2, <2>2, Zenon DEF Stage, ChainTold
    <2>3. CASE BlocksAsked(x, out, in, run, K, h)
      BY <1>2, <2>3, Zenon DEF Stage, BlocksAsked
    <2>4. CASE BlocksTold(x, out, in, run, K, h)
      BY <1>2, <2>4, Zenon DEF Stage, BlocksTold
    <2>5. CASE Adding(x, out, in, run, todo, K, h)
      BY <1>2, <2>5, Zenon DEF Stage, Adding
    <2>. QED  BY <1>0, <1>1, <2>1, <2>2, <2>3, <2>4, <2>5, Zenon DEF Stage
  <1>4. Sound(x, out, a, run, todo, K, h)
    BY <1>2, <1>3, Zenon DEF Sound
  <1>. QED  BY <1>4, Zenon DEF a

\* And a notification that its handler only takes off.
LEMMA SoundSkips ==
    ASSUME NEW x \in Context, NEW out, NEW in, NEW run, NEW todo, NEW K, NEW h,
           Sound(x, out, in, run, todo, K, h), in # <<>>, in[1].type \notin Answers
    PROVE  Sound(x, out, Tail(in), run, todo, K, h)
  <1>. DEFINE t == Tail(in)
  <1>0. in \in Seq(Received) /\ (Stage(x, out, in, run, todo, K, h) \/ x = Closed)
    BY Zenon DEF Sound
  <1>1. x # Closed
    <2>1. x.open = TRUE /\ Closed.open = FALSE
      BY Zenon DEF Context, Closed
    <2>. QED  BY <2>1, Zenon
  <1>2. t \in Seq(Received) /\ (NoAnswer(in) => NoAnswer(t))
        /\ \A i \in DOMAIN in : OnlyAnswer(in, i) =>
              i = 1 \/ (i - 1 \in DOMAIN t /\ OnlyAnswer(t, i - 1) /\ t[i - 1] = in[i])
    BY <1>0, TakeMessage, Zenon
  <1>. HIDE DEF t
  <1>3. Stage(x, out, t, run, todo, K, h)
    <2>1. CASE AtRest(x, out, in, run) \/ CallbackDue(x, out, in, run) \/ ChainAsked(x, out, in, run)
      BY <1>2, <2>1, Zenon DEF Stage, AtRest, CallbackDue, ChainAsked
    <2>2. CASE ChainTold(x, out, in, run, h)
      <3>1. PICK i \in DOMAIN in :
                OnlyAnswer(in, i) /\ ChainEntryOk(in[i]) /\ (OnlyLonger => in[i].total <= h)
        BY <2>2, Zenon DEF ChainTold
      <3>2. i # 1
        BY <3>1, Zenon DEF ChainEntryOk, Answers
      <3>. QED  BY <1>2, <2>2, <3>1, <3>2, Zenon DEF Stage, ChainTold
    <2>3. CASE BlocksAsked(x, out, in, run, K, h)
      BY <1>2, <2>3, Zenon DEF Stage, BlocksAsked
    <2>4. CASE BlocksTold(x, out, in, run, K, h)
      <3>1. PICK i \in DOMAIN in :
                /\ OnlyAnswer(in, i) /\ in[i].type = "objects"
                /\ Range(in[i].blocks) \subseteq x.requested
                /\ Range(in[i].blocks) = x.requested => Ready(in[i].blocks, K)
                /\ OnlyLonger => x.last < in[i].height /\ in[i].height <= h
        BY <2>4, Zenon DEF BlocksTold
      <3>2. in[i].type = "objects"
        BY <3>1, Zenon
      <3>3. i # 1
        BY <3>2, Zenon DEF Answers
      <3>4. i - 1 \in DOMAIN t /\ OnlyAnswer(t, i - 1) /\ t[i - 1] = in[i]
        BY <1>2, <3>1, <3>3, Zenon
      <3>5. BlocksTold(x, out, t, run, K, h)
        BY <2>4, <3>1, <3>4, Zenon DEF BlocksTold
      <3>. QED  BY <3>5, Zenon DEF Stage
    <2>5. CASE Adding(x, out, in, run, todo, K, h)
      BY <1>2, <2>5, Zenon DEF Stage, Adding
    <2>. QED  BY <1>0, <1>1, <2>1, <2>2, <2>3, <2>4, <2>5, Zenon DEF Stage
  <1>4. Sound(x, out, t, run, todo, K, h)
    BY <1>2, <1>3, Zenon DEF Sound
  <1>. QED  BY <1>4, Zenon DEF t

\* A connection that is dropped is forgotten, but for the blocks its handler adds.
LEMMA SoundDropped ==
    ASSUME NEW x, NEW out, NEW in, NEW run, NEW todo, NEW K, NEW h,
           Sound(x, out, in, run, todo, K, h)
    PROVE  Sound(Closed, <<>>, <<>>, run, todo, K, h)
  <1>1. run => Ready(todo, K)
    BY Zenon DEF Sound, Stage, AtRest, CallbackDue, ChainAsked, ChainTold, BlocksAsked, BlocksTold, Adding
  <1>2. ~run => Ready(todo, K)
    BY DEF Sound, Ready
  <1>3. <<>> \in Seq(Received)
    OBVIOUS
  <1>. QED  BY <1>1, <1>2, <1>3, Zenon DEF Sound

\* request_missing_objects, called when every answer has been dealt with: it asks for
\* blocks that can be added, asks for the next part of the chain, or ends the download.
LEMMA RequestMissing ==
    ASSUME known \subseteq Blocks, tip \in Blocks, NEW x \in Context, NEW check \in BOOLEAN,
           x.requested = {}, x.callbacks = 0, x.state = "synchronizing", Ready(x.needed, known),
           NEW in \in Seq(Received), NoAnswer(in), NEW h \in Nat,
           OnlyLonger => x.last < x.remote /\ x.remote <= h
    PROVE  /\ Sound(request_missing_objects(x, check).ctx,
                    request_missing_objects(x, check).msgs, in, FALSE, <<>>, known, h)
           /\ OnlyLonger => FinalCondition(x)
  <1>. DEFINE r == request_missing_objects(x, check)
  <1>0. x.needed \in Seq(Blocks) /\ x.last \in Int /\ x.remote \in Int /\ <<>> \in Seq(Blocks)
    <2>1. x.needed \in Seq(Blocks) /\ x.last \in Int /\ x.remote \in Int
      BY Zenon DEF Context
    <2>. QED  BY <2>1
  <1>1. ASSUME OnlyLonger PROVE FinalCondition(x)
    <2>1. x.last < x.remote
      BY <1>1, Zenon
    <2>2. x.last >= x.remote - 1 => x.last = x.remote - 1
      BY <1>0, <2>1
    <2>. QED  BY <2>2, Zenon DEF FinalCondition
  <1>2. CASE x.needed # <<>>
    <2>. DEFINE n == WantedPrefix(x.needed, check)
                p == SubSeq(x.needed, 1, n)
                rest == SubSeq(x.needed, n + 1, Len(x.needed))
                req == Only(p, Wanted(check))
                y == [x EXCEPT !.needed = SubSeq(@, n + 1, Len(@)), !.requested = @ \cup Range(req)]
                m == [type |-> "request_objects", ids |-> req]
    <2>1. r.ctx = y /\ r.msgs = <<m>>
      BY <1>2, Zenon DEF request_missing_objects
    <2>2. n \in 0 .. Len(x.needed)
      BY <1>0, PrefixExists, Zenon
    <2>. HIDE DEF n
    <2>3. /\ p \in Seq(Blocks) /\ Ready(p, known) /\ rest \in Seq(Blocks)
          /\ \A C : known \cup Range(p) \subseteq C => Ready(rest, C)
      BY <1>0, <2>2, ReadySplit, Zenon
    <2>4. Range(p) \ Wanted(check) \subseteq known
      <3>1. Range(p) \subseteq Blocks
        BY <2>3 DEF Range
      <3>. HIDE DEF p
      <3>. QED  BY <3>1, Zenon DEF Wanted
    <2>. HIDE DEF p
    <2>5. req \in Seq(Blocks) /\ Range(req) = Range(p) \cap Wanted(check) /\ Ready(req, known)
      BY <2>3, <2>4, OnlyKeeps, Zenon
    <2>. HIDE DEF req
    <2>6. Ready(rest, known \cup Range(req))
      <3>1. known \cup Range(p) \subseteq known \cup Range(req)
        BY <2>4, <2>5, Zenon
      <3>. HIDE DEF rest
      <3>. QED  BY <2>3, <3>1, Zenon
    <2>7. Range(req) \subseteq Blocks
      BY <2>5 DEF Range
    <2>8. /\ y \in Context /\ y.needed = rest /\ y.requested = Range(req) /\ y.last = x.last
          /\ y.callbacks = 0 /\ y.state = "synchronizing"
      <3>. HIDE DEF rest
      <3>1. y = [x EXCEPT !.needed = rest, !.requested = Range(req)]
        BY Zenon DEF rest
      <3>. HIDE DEF y
      <3>. QED  BY <2>3, <2>7, <3>1, Zenon DEF Context
    <2>. HIDE DEF y, rest
    <2>9. /\ <<m>> # <<>> /\ <<m>>[1] = m /\ m.type = "request_objects" /\ m.ids = req
      OBVIOUS
    <2>. HIDE DEF m
    <2>10. OnlyLonger => y.last < h
      BY <1>0, <2>8
    <2>11. BlocksAsked(y, <<m>>, in, FALSE, known, h)
      BY <2>5, <2>6, <2>8, <2>9, <2>10, Zenon DEF BlocksAsked, ObjectRequestOk
    <2>12. Sound(y, <<m>>, in, FALSE, <<>>, known, h)
      BY <1>0, <2>8, <2>11, Zenon DEF Sound, Stage
    <2>. HIDE DEF r
    <2>. QED  BY <1>1, <2>1, <2>12, Zenon DEF r
  <1>3. CASE x.needed = <<>> /\ x.last < x.remote - 1
    <2>1. r.ctx = x /\ r.msgs = <<ChainRequest(tip)>>
      BY <1>3, Zenon DEF request_missing_objects
    <2>. DEFINE m == ChainRequest(tip)
    <2>2. <<m>> # <<>> /\ <<m>>[1] = m
      OBVIOUS
    <2>3. ChainRequestOk(m)
      BY ChainRequestIsOk, Zenon
    <2>. HIDE DEF m
    <2>4. ChainAsked(x, <<m>>, in, FALSE)
      BY <1>3, <2>2, <2>3, Zenon DEF ChainAsked
    <2>5. Sound(x, <<m>>, in, FALSE, <<>>, known, h)
      BY <1>0, <2>4, Zenon DEF Sound, Stage
    <2>. HIDE DEF r
    <2>. QED  BY <1>1, <2>1, <2>5, Zenon DEF r, m
  <1>4. CASE x.needed = <<>> /\ ~(x.last < x.remote - 1) /\ x.last = x.remote - 1
    <2>. DEFINE y == [x EXCEPT !.state = "normal"]
    <2>1. r.ctx = y /\ r.msgs = <<>>
      BY <1>4, Zenon DEF request_missing_objects
    <2>2. /\ y \in Context /\ y.needed = <<>> /\ y.requested = {} /\ y.callbacks = 0 /\ y.state = "normal"
      BY <1>4, Zenon DEF Context
    <2>. HIDE DEF y, r
    <2>3. AtRest(y, <<>>, in, FALSE)
      BY <2>2, Zenon DEF AtRest
    <2>4. Sound(y, <<>>, in, FALSE, <<>>, known, h)
      BY <1>0, <2>2, <2>3, Zenon DEF Sound, Stage
    <2>. QED  BY <1>1, <2>1, <2>4, Zenon DEF r
  <1>5. CASE x.needed = <<>> /\ ~(x.last < x.remote - 1) /\ x.last # x.remote - 1
    <2>1. r.ctx = x /\ r.msgs = <<>>
      BY <1>5, Zenon DEF request_missing_objects
    <2>2. ~OnlyLonger
      BY <1>0, <1>5
    <2>. HIDE DEF r
    <2>3. AtRest(x, <<>>, in, FALSE)
      BY <1>5, <2>2, Zenon DEF AtRest
    <2>4. Sound(x, <<>>, in, FALSE, <<>>, known, h)
      BY <1>0, <2>3, Zenon DEF Sound, Stage
    <2>. QED  BY <1>1, <2>1, <2>4, Zenon DEF r
  <1>. QED  BY <1>2, <1>3, <1>4, <1>5, Zenon

-----------------------------------------------------------------------------
(* The steps.                                                              *)

\* g is f with v at c.
At(f, g, c, v) == DOMAIN g = Conns /\ g[c] = v /\ \A d \in Conns \ {c} : g[d] = f[d]

\* The updates of the handlers are of this form.
LEMMA AtUpdate ==
    ASSUME NEW f, DOMAIN f = Conns, NEW c \in Conns, NEW v
    PROVE  At(f, [f EXCEPT ![c] = v], c, v) /\ At(f, f, c, f[c])
  BY Zenon DEF At

\* A handler that read a message moves the queues of its own connection only.
LEMMA ReplyIs ==
    ASSUME SyncInv, NEW c \in Conns, NEW y, NEW msgs, Reply(c, y, msgs)
    PROVE  /\ At(conn, conn', c, y) /\ At(toPeer, toPeer', c, toPeer[c] \o msgs)
           /\ At(fromPeer, fromPeer', c, Tail(fromPeer[c]))
  BY AtUpdate, Zenon DEF Reply, SyncInv

\* So does a handler that drops its connection (drop_connection), which loses
\* what is in flight.
LEMMA DropIs ==
    ASSUME SyncInv, NEW c \in Conns, Drop(c)
    PROVE  /\ At(conn, conn', c, Closed) /\ At(toPeer, toPeer', c, <<>>)
           /\ At(fromPeer, fromPeer', c, <<>>)
  BY AtUpdate, Zenon DEF Drop, SyncInv

\* The handlers that leave the blocks to add alone.
LEMMA JobKept ==
    ASSUME SyncInv, NEW c \in Conns, running' = running, job' = job
    PROVE  At(running, running', c, running[c]) /\ At(job, job', c, job[c])
  BY AtUpdate, Zenon DEF SyncInv

\* The height of a peer's chain is a natural number.
LEMMA PeerHeightType ==
    ASSUME NEW p \in [Peers -> Blocks], NEW c \in Conns
    PROVE  Height(p[PeerOf[c]]) \in Nat
  <1>1. p[PeerOf[c]] \in Blocks
    BY PeersAssumption, Zenon
  <1>. QED  BY <1>1, ChainLinks, Zenon DEF Height

\* A handler works on its own connection: the others stay sound.
LEMMA OneConnection ==
    ASSUME SyncInv, NEW c \in Conns, NEW x, NEW out, NEW in, NEW run, NEW todo,
           At(conn, conn', c, x), At(toPeer, toPeer', c, out), At(fromPeer, fromPeer', c, in),
           At(running, running', c, run), At(job, job', c, todo),
           peerTip' = peerTip, known \subseteq known', known' \subseteq Blocks, tip' \in Blocks,
           OnlyLonger => ~finalFailed',
           Sound(x, out, in, run, todo, known', PeerHeight(c))
    PROVE  SyncInv'
  <1>1. \A d \in Conns : PeerHeight(d)' = PeerHeight(d) /\ PeerHeight(d) \in Nat
    BY PeerHeightType, Zenon DEF PeerHeight, SyncInv
  <1>2. SoundAt(c)'
    BY <1>1, Zenon DEF SoundAt, At
  <1>3. ASSUME NEW d \in Conns \ {c} PROVE SoundAt(d)'
    <2>1. Sound(conn[d], toPeer[d], fromPeer[d], running[d], job[d], known, PeerHeight(d))
      BY Zenon DEF SyncInv, SoundAt
    <2>2. PeerHeight(d) \in Nat /\ PeerHeight(d) <= PeerHeight(d)
      BY <1>1
    <2>3. Sound(conn[d], toPeer[d], fromPeer[d], running[d], job[d], known', PeerHeight(d))
      BY <2>1, <2>2, SoundGrows, Zenon
    <2>. QED  BY <1>1, <2>3, Zenon DEF SoundAt, At
  <1>4. \A d \in Conns : SoundAt(d)'
    BY <1>2, <1>3, Zenon
  <1>. QED  BY <1>4, Zenon DEF SyncInv, At

\* What the invariant says of one connection.
LEMMA OfConnection ==
    ASSUME SyncInv, NEW c \in Conns
    PROVE  /\ Sound(conn[c], toPeer[c], fromPeer[c], running[c], job[c], known, PeerHeight(c))
           /\ IsOpen(c) => /\ conn[c] \in Context
                           /\ Stage(conn[c], toPeer[c], fromPeer[c], running[c], job[c], known, PeerHeight(c))
           /\ ~IsOpen(c) => conn[c] = Closed /\ toPeer[c] = <<>> /\ fromPeer[c] = <<>> /\ Ready(job[c], known)
           /\ ~running[c] => job[c] = <<>>
           /\ fromPeer[c] \in Seq(Received) /\ job[c] \in Seq(Blocks) /\ running[c] \in BOOLEAN
           /\ PeerHeight(c) \in Nat /\ peerTip[PeerOf[c]] \in Blocks
           /\ toPeer[c] \o <<>> = toPeer[c]
  <1>1. Sound(conn[c], toPeer[c], fromPeer[c], running[c], job[c], known, PeerHeight(c))
    BY Zenon DEF SyncInv, SoundAt
  <1>2. conn[c] \in Context => conn[c].open
    BY Zenon DEF Context
  <1>3. conn[c] = Closed => ~conn[c].open
    BY DEF Closed
  <1>4. PeerHeight(c) \in Nat /\ peerTip[PeerOf[c]] \in Blocks
    <2>1. peerTip \in [Peers -> Blocks]
      BY Zenon DEF SyncInv
    <2>. QED  BY <2>1, PeerHeightType, PeersAssumption, Zenon DEF PeerHeight
  <1>5. toPeer[c] \o <<>> = toPeer[c]
    <2>1. toPeer[c] = <<>> \/ toPeer[c] = <<toPeer[c][1]>>
      BY <1>1, Zenon DEF Sound, Stage, AtRest, CallbackDue, ChainAsked, ChainTold, BlocksAsked, BlocksTold, Adding
    <2>2. ASSUME NEW m PROVE <<m>> \o <<>> = <<m>>
      OBVIOUS
    <2>3. <<>> \o <<>> = <<>>
      OBVIOUS
    <2>. QED  BY <2>1, <2>2, <2>3, Zenon
  <1>. QED  BY <1>1, <1>2, <1>3, <1>4, <1>5, Zenon DEF Sound, IsOpen

\* The notifications of a peer.
LEMMA Notifications ==
    ASSUME NEW b \in Blocks
    PROVE  /\ \A initial \in BOOLEAN :
                 SyncData(b, initial) \in Received /\ SyncData(b, initial).type \notin Answers
           /\ [type |-> "new_block", block |-> b] \in Received
           /\ [type |-> "new_block", block |-> b].type \notin Answers
  <1>1. Height(b) \in Nat
    BY ChainLinks, Zenon DEF Height
  <1>2. ASSUME NEW initial \in BOOLEAN
        PROVE  SyncData(b, initial) \in [type : {"sync_data"}, top : Blocks, height : Nat, initial : BOOLEAN]
    BY <1>1, Zenon DEF SyncData
  <1>3. ASSUME NEW initial \in BOOLEAN PROVE SyncData(b, initial).type = "sync_data"
    BY Zenon DEF SyncData
  <1>4. [type |-> "new_block", block |-> b] \in [type : {"new_block"}, block : Blocks]
    OBVIOUS
  <1>5. "sync_data" \notin Answers /\ "new_block" \notin Answers
    BY Zenon DEF Answers
  <1>. QED  BY <1>2, <1>3, <1>4, <1>5, Zenon DEF Received

\* A new connection has the sync data of the handshake before it.
LEMMA ConnectStep ==
    ASSUME SyncInv, NEW c \in Conns, Connect(c)
    PROVE  SyncInv'
  <1>. DEFINE m == SyncData(peerTip[PeerOf[c]], TRUE)
  <1>1. /\ toPeer[c] = <<>> /\ ~running[c] /\ running[c] = FALSE /\ job[c] = <<>> /\ PeerHeight(c) \in Nat
    BY OfConnection, Zenon DEF Connect
  <1>2. m \in Received /\ m.type \notin Answers
    BY OfConnection, Notifications, Zenon
  <1>. HIDE DEF m
  <1>3. <<m>> \in Seq(Received) /\ NoAnswer(<<m>>) /\ <<>> \in Seq(Blocks)
    BY <1>2 DEF NoAnswer
  <1>4. /\ NewContext \in Context /\ NewContext.callbacks = 0 /\ NewContext.needed = <<>>
        /\ NewContext.requested = {} /\ NewContext.state = "befor_handshake"
    BY DEF NewContext, Context
  <1>5. AtRest(NewContext, <<>>, <<m>>, FALSE)
    BY <1>3, <1>4, Zenon DEF AtRest
  <1>6. Sound(NewContext, <<>>, <<m>>, FALSE, <<>>, known, PeerHeight(c))
    BY <1>3, <1>4, <1>5, Zenon DEF Sound, Stage
  <1>7. /\ At(conn, conn', c, NewContext) /\ At(toPeer, toPeer', c, <<>>) /\ At(fromPeer, fromPeer', c, <<m>>)
        /\ At(running, running', c, FALSE) /\ At(job, job', c, <<>>)
    BY <1>1, AtUpdate, Zenon DEF Connect, SyncInv, m
  <1>8. /\ peerTip' = peerTip /\ known' = known /\ tip' = tip /\ finalFailed' = finalFailed
    BY Zenon DEF Connect, core
  <1>. QED  BY <1>6, <1>7, <1>8, OneConnection, Zenon DEF SyncInv

\* A connection that fails.
LEMMA DisconnectStep ==
    ASSUME SyncInv, NEW c \in Conns, Disconnect(c)
    PROVE  SyncInv'
  <1>1. Sound(Closed, <<>>, <<>>, running[c], job[c], known, PeerHeight(c))
    BY OfConnection, SoundDropped, Zenon
  <1>2. /\ At(conn, conn', c, Closed) /\ At(toPeer, toPeer', c, <<>>) /\ At(fromPeer, fromPeer', c, <<>>)
        /\ At(running, running', c, running[c]) /\ At(job, job', c, job[c])
    BY AtUpdate, Zenon DEF Disconnect, Drop, SyncInv
  <1>3. /\ peerTip' = peerTip /\ known' = known /\ tip' = tip /\ finalFailed' = finalFailed
    BY Zenon DEF Disconnect, core
  <1>. QED  BY <1>1, <1>2, <1>3, OneConnection, Zenon DEF SyncInv

\* The periodic sync data of the peer.
LEMMA TimedSyncStep ==
    ASSUME SyncInv, NEW c \in Conns, TimedSync(c)
    PROVE  SyncInv'
  <1>. DEFINE m == SyncData(peerTip[PeerOf[c]], FALSE)
  <1>1. m \in Received /\ m.type \notin Answers
    BY OfConnection, Notifications, Zenon
  <1>2. conn[c] \in Context
    BY OfConnection, Zenon DEF TimedSync
  <1>. HIDE DEF m
  <1>3. Sound(conn[c], toPeer[c], Append(fromPeer[c], m), running[c], job[c], known, PeerHeight(c))
    BY <1>1, <1>2, OfConnection, SoundArrives, Zenon
  <1>4. /\ At(conn, conn', c, conn[c]) /\ At(toPeer, toPeer', c, toPeer[c])
        /\ At(fromPeer, fromPeer', c, Append(fromPeer[c], m))
        /\ At(running, running', c, running[c]) /\ At(job, job', c, job[c])
    BY AtUpdate, Zenon DEF TimedSync, SyncInv, m
  <1>5. /\ peerTip' = peerTip /\ known' = known /\ tip' = tip /\ finalFailed' = finalFailed
    BY Zenon DEF TimedSync, core
  <1>. QED  BY <1>3, <1>4, <1>5, OneConnection, Zenon DEF SyncInv

\* A peer that adopts a longer chain, and announces it or not.
LEMMA PeerAdvanceStep ==
    ASSUME SyncInv, NEW p \in Peers, PeerAdvance(p)
    PROVE  SyncInv'
  <1>1. PICK b \in PeerTips[p], announce \in BOOLEAN :
            /\ OnlyLonger => Height(b) > Height(peerTip[p])
            /\ peerTip' = [peerTip EXCEPT ![p] = b]
            /\ fromPeer' = [c \in Conns |->
                  IF announce /\ PeerOf[c] = p /\ IsOpen(c)
                  THEN Append(fromPeer[c], [type |-> "new_block", block |-> b])
                  ELSE fromPeer[c]]
    BY Zenon DEF PeerAdvance
  <1>2. UNCHANGED <<known, tip, conn, toPeer, job, running, finalFailed>>
    BY Zenon DEF PeerAdvance, core
  <1>3. b \in Blocks /\ peerTip \in [Peers -> Blocks] /\ peerTip' \in [Peers -> Blocks]
    BY <1>1, PeersAssumption, Zenon DEF SyncInv
  <1>. DEFINE m == [type |-> "new_block", block |-> b]
  <1>4. m \in Received /\ m.type \notin Answers
    BY <1>3, Notifications, Zenon
  <1>5. \A c \in Conns : fromPeer'[c] = IF announce /\ PeerOf[c] = p /\ IsOpen(c)
                                        THEN Append(fromPeer[c], m) ELSE fromPeer[c]
    BY <1>1, Zenon
  <1>. HIDE DEF m
  <1>6. ASSUME NEW c \in Conns PROVE SoundAt(c)'
    <2>1. PeerHeight(c) \in Nat /\ PeerHeight(c)' \in Nat /\ (OnlyLonger => PeerHeight(c) <= PeerHeight(c)')
      <3>1. PeerHeight(c) \in Nat /\ PeerHeight(c)' \in Nat
        BY <1>3, PeerHeightType, Zenon DEF PeerHeight
      <3>2. CASE PeerOf[c] = p
        <4>1. PeerHeight(c) = Height(peerTip[p]) /\ PeerHeight(c)' = Height(b)
          BY <1>1, <1>3, <3>2, Zenon DEF PeerHeight
        <4>. QED  BY <1>1, <3>1, <4>1
      <3>3. CASE PeerOf[c] # p
        <4>1. peerTip'[PeerOf[c]] = peerTip[PeerOf[c]]
          BY <1>1, <1>3, <3>3, PeersAssumption, Zenon
        <4>2. PeerHeight(c)' = PeerHeight(c)
          BY <4>1, Zenon DEF PeerHeight
        <4>. QED  BY <3>1, <4>2
      <3>. QED  BY <3>2, <3>3, Zenon
    <2>2. Sound(conn[c], toPeer[c], fromPeer[c], running[c], job[c], known, PeerHeight(c)')
      <3>1. known \subseteq known
        OBVIOUS
      <3>. QED  BY <2>1, <3>1, OfConnection, SoundGrows, Zenon
    <2>3. CASE announce /\ PeerOf[c] = p /\ IsOpen(c)
      <3>1. fromPeer'[c] = Append(fromPeer[c], m) /\ conn[c] \in Context
        BY <1>5, <2>3, OfConnection, Zenon
      <3>2. Sound(conn[c], toPeer[c], Append(fromPeer[c], m), running[c], job[c], known, PeerHeight(c)')
        BY <1>4, <2>2, <3>1, SoundArrives, Zenon
      <3>. QED  BY <1>2, <3>1, <3>2, Zenon DEF SoundAt
    <2>4. CASE ~(announce /\ PeerOf[c] = p /\ IsOpen(c))
      <3>1. fromPeer'[c] = fromPeer[c]
        BY <1>5, <2>4, Zenon
      <3>. QED  BY <1>2, <2>2, <3>1, Zenon DEF SoundAt
    <2>. QED  BY <2>3, <2>4, Zenon
  <1>7. DOMAIN fromPeer' = Conns
    BY <1>1, Zenon
  <1>. QED  BY <1>2, <1>3, <1>6, <1>7, Zenon DEF SyncInv

\* The peer's answer to the request for a chain.
LEMMA RequestChainStep ==
    ASSUME SyncInv, NEW c \in Conns, handle_request_chain(c)
    PROVE  SyncInv'
  <1>. DEFINE q == toPeer[c][1]
              m == find_blockchain_supplement(q.ids, peerTip[PeerOf[c]])
              x == conn[c]
              in == fromPeer[c]
              h == PeerHeight(c)
  <1>1. toPeer[c] # <<>> /\ Head(toPeer[c]).type = "request_chain"
    BY Zenon DEF handle_request_chain, PeerAnswers
  <1>2. /\ x \in Context /\ Stage(x, toPeer[c], in, running[c], job[c], known, h)
        /\ in \in Seq(Received) /\ job[c] \in Seq(Blocks) /\ (~running[c] => job[c] = <<>>)
    BY <1>1, OfConnection, Zenon
  <1>3. toPeer[c] = <<q>>
    BY <1>1, <1>2, Zenon DEF Stage, AtRest, CallbackDue, ChainAsked, ChainTold, BlocksAsked, BlocksTold, Adding
  <1>4. Head(toPeer[c]) = q /\ Tail(toPeer[c]) = <<>>
    <2>. HIDE DEF q
    <2>. QED  BY <1>3
  <1>5. q.type = "request_chain"
    BY <1>1, <1>4, Zenon
  <1>6. ChainAsked(x, toPeer[c], in, running[c])
    <2>1. ~BlocksAsked(x, toPeer[c], in, running[c], known, h)
      BY <1>5, Zenon DEF BlocksAsked, ObjectRequestOk
    <2>. QED  BY <1>1, <1>2, <2>1, Zenon DEF Stage, AtRest, CallbackDue, ChainTold, BlocksTold, Adding
  <1>7. m \in Received /\ ChainEntryOk(m) /\ m.total = h
    <2>1. Len(q.ids) \in Nat \ {0} /\ q.ids[Len(q.ids)] = Genesis
      BY <1>6, Zenon DEF ChainAsked, ChainRequestOk
    <2>2. peerTip[PeerOf[c]] \in Blocks
      BY OfConnection, Zenon
    <2>. HIDE DEF q
    <2>. QED  BY <2>1, <2>2, ChainAnswerIsOk, Zenon DEF PeerHeight
  <1>8. /\ At(conn, conn', c, x) /\ At(toPeer, toPeer', c, <<>>) /\ At(fromPeer, fromPeer', c, Append(in, m))
        /\ At(running, running', c, running[c]) /\ At(job, job', c, job[c])
    BY <1>4, AtUpdate, Zenon DEF handle_request_chain, PeerAnswers, SyncInv
  <1>. HIDE DEF q, m, x, h
  <1>9. Append(in, m) \in Seq(Received)
        /\ \E i \in DOMAIN Append(in, m) : OnlyAnswer(Append(in, m), i) /\ Append(in, m)[i] = m
    BY <1>2, <1>6, <1>7, PostMessage, Zenon DEF ChainAsked
  <1>. HIDE DEF in
  <1>10. m.total <= h
    <2>1. h \in Nat
      BY OfConnection, Zenon DEF h
    <2>. QED  BY <1>7, <2>1
  <1>11. ChainTold(x, <<>>, Append(in, m), running[c], h)
    BY <1>6, <1>7, <1>9, <1>10, Zenon DEF ChainAsked, ChainTold
  <1>12. Sound(x, <<>>, Append(in, m), running[c], job[c], known, h)
    <2>1. running[c] \in BOOLEAN
      BY OfConnection, Zenon
    <2>. QED  BY <1>2, <1>9, <1>11, <2>1, Zenon DEF Sound, Stage
  <1>13. /\ peerTip' = peerTip /\ known' = known /\ tip' = tip /\ finalFailed' = finalFailed
    BY Zenon DEF handle_request_chain, PeerAnswers, core
  <1>. QED  BY <1>8, <1>12, <1>13, OneConnection, Zenon DEF SyncInv, h

\* The peer's answer to the request for blocks: those of its main chain.
LEMMA RequestObjectsStep ==
    ASSUME SyncInv, NEW c \in Conns, handle_request_get_objects(c)
    PROVE  SyncInv'
  <1>. DEFINE q == toPeer[c][1]
              b == peerTip[PeerOf[c]]
              m == handle_get_objects(q.ids, b)
              x == conn[c]
              in == fromPeer[c]
              h == PeerHeight(c)
  <1>1. toPeer[c] # <<>> /\ Head(toPeer[c]).type = "request_objects"
    BY Zenon DEF handle_request_get_objects, PeerAnswers
  <1>2. /\ x \in Context /\ Stage(x, toPeer[c], in, running[c], job[c], known, h)
        /\ in \in Seq(Received) /\ job[c] \in Seq(Blocks) /\ (~running[c] => job[c] = <<>>)
        /\ running[c] \in BOOLEAN /\ h \in Nat
    BY <1>1, OfConnection, Zenon
  <1>3. toPeer[c] = <<q>>
    BY <1>1, <1>2, Zenon DEF Stage, AtRest, CallbackDue, ChainAsked, ChainTold, BlocksAsked, BlocksTold, Adding
  <1>4. Head(toPeer[c]) = q /\ Tail(toPeer[c]) = <<>>
    <2>. HIDE DEF q
    <2>. QED  BY <1>3
  <1>5. q.type = "request_objects"
    BY <1>1, <1>4, Zenon
  <1>6. BlocksAsked(x, toPeer[c], in, running[c], known, h)
    <2>1. ~ChainAsked(x, toPeer[c], in, running[c])
      BY <1>5, Zenon DEF ChainAsked, ChainRequestOk
    <2>. QED  BY <1>1, <1>2, <2>1, Zenon DEF Stage, AtRest, CallbackDue, ChainTold, BlocksTold, Adding
  <1>7. q.ids \in Seq(Blocks) /\ Range(q.ids) = x.requested /\ Ready(q.ids, known)
    BY <1>6, Zenon DEF BlocksAsked, ObjectRequestOk
  <1>8. /\ At(conn, conn', c, x) /\ At(toPeer, toPeer', c, <<>>) /\ At(fromPeer, fromPeer', c, Append(in, m))
        /\ At(running, running', c, running[c]) /\ At(job, job', c, job[c])
    BY <1>4, AtUpdate, Zenon DEF handle_request_get_objects, PeerAnswers, SyncInv
  <1>. DEFINE found == Only(q.ids, Range(Chain[b]))
  <1>9. /\ found \in Seq(Blocks) /\ Range(found) \subseteq x.requested
        /\ Range(found) = x.requested => Ready(found, known)
    <2>. HIDE DEF q, x
    <2>1. /\ found \in Seq(Blocks) /\ Range(found) = Range(q.ids) \cap Range(Chain[b])
          /\ \A B : Ready(q.ids, B) /\ Range(q.ids) \ Range(Chain[b]) \subseteq B => Ready(found, B)
      BY <1>7, OnlyKeeps, Zenon
    <2>. HIDE DEF found
    <2>2. Range(found) = x.requested => Range(q.ids) \ Range(Chain[b]) \subseteq known
      BY <1>7, <2>1, Zenon
    <2>. QED  BY <1>7, <2>1, <2>2, Zenon
  <1>10. m.type = "objects" /\ m.blocks = found /\ m.height = h
    BY Zenon DEF handle_get_objects, PeerHeight
  <1>11. m \in Received
    <2>1. m \in [type : {"objects"}, blocks : Seq(Blocks), height : Nat]
      <3>1. m = [type |-> "objects", blocks |-> found, height |-> h]
        BY Zenon DEF handle_get_objects, PeerHeight
      <3>. HIDE DEF m, found, h
      <3>. QED  BY <1>2, <1>9, <3>1, Zenon
    <2>. QED  BY <2>1, Zenon DEF Received
  <1>. HIDE DEF q, m, x, h, found
  <1>12. Append(in, m) \in Seq(Received)
        /\ \E i \in DOMAIN Append(in, m) : OnlyAnswer(Append(in, m), i) /\ Append(in, m)[i] = m
    BY <1>2, <1>6, <1>11, PostMessage, Zenon DEF BlocksAsked
  <1>. HIDE DEF in
  <1>13. m.height <= h
    BY <1>2, <1>10
  <1>14. BlocksTold(x, <<>>, Append(in, m), running[c], known, h)
    BY <1>6, <1>9, <1>10, <1>12, <1>13, Zenon DEF BlocksAsked, BlocksTold
  <1>15. Sound(x, <<>>, Append(in, m), running[c], job[c], known, h)
    BY <1>2, <1>12, <1>14, Zenon DEF Sound, Stage
  <1>16. /\ peerTip' = peerTip /\ known' = known /\ tip' = tip /\ finalFailed' = finalFailed
    BY Zenon DEF handle_request_get_objects, PeerAnswers, core
  <1>. QED  BY <1>8, <1>15, <1>16, OneConnection, Zenon DEF SyncInv, h

\* The sync data of the peer start a download only on a connection that has none.
LEMMA SyncDataStep ==
    ASSUME SyncInv, NEW c \in Conns, process_payload_sync_data(c)
    PROVE  SyncInv'
  <1>. DEFINE x == conn[c]
              in == fromPeer[c]
              m == Head(in)
              h == PeerHeight(c)
  <1>1. IsOpen(c) /\ ~running[c] /\ in # <<>> /\ m.type = "sync_data"
    BY Zenon DEF process_payload_sync_data, Receives
  <1>2. /\ x \in Context /\ Stage(x, toPeer[c], in, running[c], job[c], known, h)
        /\ Sound(x, toPeer[c], in, running[c], job[c], known, h)
        /\ in \in Seq(Received) /\ job[c] = <<>> /\ running[c] = FALSE /\ toPeer[c] \o <<>> = toPeer[c]
    BY <1>1, OfConnection, Zenon
  <1>3. m = in[1] /\ m \in Received /\ m.type \notin Answers /\ m.height \in Nat
        /\ Tail(in) \in Seq(Received) /\ (NoAnswer(in) => NoAnswer(Tail(in)))
    <2>1. m = in[1] /\ m \in Received /\ Tail(in) \in Seq(Received) /\ (NoAnswer(in) => NoAnswer(Tail(in)))
      BY <1>1, <1>2, TakeMessage, Zenon
    <2>2. m.height \in Nat
      <3>. HIDE DEF m
      <3>. QED  BY <1>1, <2>1, ReceivedIs, Zenon
    <2>3. m.type \notin Answers
      BY <1>1, Zenon DEF Answers
    <2>. QED  BY <2>1, <2>2, <2>3, Zenon
  <1>4. /\ peerTip' = peerTip /\ known' = known /\ tip' = tip /\ finalFailed' = finalFailed
        /\ running' = running /\ job' = job
    BY Zenon DEF process_payload_sync_data, core
  <1>5. PICK y : /\ Reply(c, y, <<>>)
                 /\ \/ y = x
                    \/ y = [x EXCEPT !.state = "normal"] /\ x.state # "synchronizing"
                    \/ /\ y = [x EXCEPT !.state = "synchronizing", !.remote = m.height, !.callbacks = @ + 1]
                       /\ x.state # "synchronizing"
    <2>1. CASE x.state = "synchronizing" \/ (x.state = "befor_handshake" /\ ~m.initial)
      <3>1. Reply(c, x, <<>>)
        BY <2>1, Zenon DEF process_payload_sync_data
      <3>. QED  BY <3>1, Zenon
    <2>2. CASE ~(x.state = "synchronizing" \/ (x.state = "befor_handshake" /\ ~m.initial)) /\ m.top \in known
      <3>1. Reply(c, [x EXCEPT !.state = "normal"], <<>>)
        BY <2>2, Zenon DEF process_payload_sync_data
      <3>. QED  BY <2>2, <3>1, Zenon
    <2>3. CASE ~(x.state = "synchronizing" \/ (x.state = "befor_handshake" /\ ~m.initial)) /\ m.top \notin known
      <3>1. Reply(c, [x EXCEPT !.state = "synchronizing", !.remote = m.height, !.callbacks = @ + 1], <<>>)
        BY <2>3, Zenon DEF process_payload_sync_data
      <3>. QED  BY <2>3, <3>1, Zenon
    <2>. QED  BY <2>1, <2>2, <2>3, Zenon
  <1>6. /\ At(conn, conn', c, y) /\ At(toPeer, toPeer', c, toPeer[c]) /\ At(fromPeer, fromPeer', c, Tail(in))
        /\ At(running, running', c, FALSE) /\ At(job, job', c, <<>>)
    <2>1. At(running, running', c, FALSE) /\ At(job, job', c, <<>>)
      BY <1>2, <1>4, JobKept, Zenon
    <2>2. At(conn, conn', c, y) /\ At(toPeer, toPeer', c, toPeer[c] \o <<>>) /\ At(fromPeer, fromPeer', c, Tail(in))
      BY <1>5, ReplyIs, Zenon
    <2>3. toPeer[c] \o <<>> = toPeer[c]
      BY <1>2, Zenon
    <2>. QED  BY <2>1, <2>2, <2>3, Zenon
  <1>. HIDE DEF m, x, h, in
  <1>7. Sound(y, toPeer[c], Tail(in), FALSE, <<>>, known, h)
    <2>1. CASE y = x
      BY <1>1, <1>2, <1>3, <2>1, SoundSkips, Zenon
    <2>2. CASE x.state # "synchronizing" /\ y # x
      <3>1. /\ toPeer[c] = <<>> /\ NoAnswer(Tail(in)) /\ x.callbacks = 0 /\ x.needed = <<>> /\ x.requested = {}
        BY <1>2, <1>3, <2>2, Zenon
           DEF Stage, AtRest, CallbackDue, ChainAsked, ChainTold, BlocksAsked, BlocksTold, Adding
      <3>2. CASE y = [x EXCEPT !.state = "normal"]
        <4>1. /\ y \in Context /\ y.callbacks = 0 /\ y.needed = <<>> /\ y.requested = {} /\ y.state = "normal"
          BY <1>2, <3>1, <3>2, Zenon DEF Context
        <4>2. AtRest(y, toPeer[c], Tail(in), FALSE)
          BY <3>1, <4>1, Zenon DEF AtRest
        <4>. QED  BY <1>2, <1>3, <4>1, <4>2, Zenon DEF Sound, Stage
      <3>3. CASE y = [x EXCEPT !.state = "synchronizing", !.remote = m.height, !.callbacks = @ + 1]
        <4>1. /\ y \in Context /\ y.callbacks = 1 /\ y.needed = <<>> /\ y.requested = {}
              /\ y.state = "synchronizing"
          <5>1. x \in Context /\ m.height \in Int /\ x.callbacks + 1 = 1
            BY <1>2, <1>3, <3>1
          <5>2. y = [x EXCEPT !.state = "synchronizing", !.remote = m.height, !.callbacks = 1]
            BY <3>3, <5>1, Zenon
          <5>3. y \in Context
            BY <5>1, <5>2, Zenon DEF Context
          <5>. QED  BY <3>1, <5>1, <5>2, Zenon DEF Context
        <4>2. CallbackDue(y, toPeer[c], Tail(in), FALSE)
          BY <3>1, <4>1, Zenon DEF CallbackDue
        <4>. QED  BY <1>2, <1>3, <4>1, <4>2, Zenon DEF Sound, Stage
      <3>. QED  BY <1>5, <2>2, <3>2, <3>3, Zenon
    <2>. QED  BY <1>5, <2>1, <2>2, Zenon
  <1>. QED  BY <1>4, <1>6, <1>7, OneConnection, Zenon DEF SyncInv, h

\* The callback that asks for the chain.
LEMMA CallbackStep ==
    ASSUME SyncInv, NEW c \in Conns, on_callback(c)
    PROVE  SyncInv'
  <1>. DEFINE x == conn[c]
              in == fromPeer[c]
              h == PeerHeight(c)
              y == [x EXCEPT !.callbacks = @ - 1]
              m == ChainRequest(tip)
  <1>1. IsOpen(c) /\ ~running[c] /\ x.callbacks > 0
    BY Zenon DEF on_callback
  <1>2. /\ x \in Context /\ Stage(x, toPeer[c], in, running[c], job[c], known, h)
        /\ in \in Seq(Received) /\ job[c] = <<>> /\ running[c] = FALSE
    BY <1>1, OfConnection, Zenon
  <1>3. x.callbacks # 0
    BY <1>1
  <1>4. CallbackDue(x, toPeer[c], in, running[c])
    BY <1>2, <1>3, Zenon DEF Stage, AtRest, ChainAsked, ChainTold, BlocksAsked, BlocksTold, Adding
  <1>5. /\ toPeer[c] = <<>> /\ NoAnswer(in) /\ x.callbacks = 1 /\ x.needed = <<>> /\ x.requested = {}
        /\ x.state = "synchronizing"
    BY <1>4, Zenon DEF CallbackDue
  <1>6. /\ At(conn, conn', c, y) /\ At(toPeer, toPeer', c, <<m>>) /\ At(fromPeer, fromPeer', c, in)
        /\ At(running, running', c, FALSE) /\ At(job, job', c, <<>>)
    <2>1. conn' = [conn EXCEPT ![c] = y] /\ DOMAIN conn = Conns
      BY Zenon DEF on_callback, SyncInv
    <2>2. toPeer' = [toPeer EXCEPT ![c] = Append(toPeer[c], m)] /\ DOMAIN toPeer = Conns
      BY <1>5, Zenon DEF on_callback, SyncInv
    <2>3. Append(toPeer[c], m) = <<m>>
      BY <1>5
    <2>4. fromPeer' = fromPeer /\ running' = running /\ job' = job /\ DOMAIN fromPeer = Conns
      BY Zenon DEF on_callback, SyncInv
    <2>. HIDE DEF m, y, in
    <2>5. At(conn, conn', c, y) /\ At(toPeer, toPeer', c, <<m>>)
      BY <2>1, <2>2, <2>3, AtUpdate, Zenon
    <2>6. At(fromPeer, fromPeer', c, in) /\ At(running, running', c, FALSE) /\ At(job, job', c, <<>>)
      BY <1>2, <2>4, AtUpdate, JobKept, Zenon DEF in
    <2>. QED  BY <2>5, <2>6, Zenon
  <1>7. /\ y \in Context /\ y.callbacks = 0 /\ y.needed = <<>> /\ y.requested = {} /\ y.state = "synchronizing"
    <2>1. x.callbacks - 1 = 0
      BY <1>5
    <2>2. y = [x EXCEPT !.callbacks = 0]
      BY <2>1, Zenon
    <2>. HIDE DEF y
    <2>. QED  BY <1>2, <1>5, <2>2, Zenon DEF Context
  <1>8. ChainRequestOk(m)
    BY ChainRequestIsOk, Zenon DEF SyncInv
  <1>. HIDE DEF m, y, x, in, h
  <1>9. <<m>> # <<>> /\ <<m>>[1] = m /\ <<>> \in Seq(Blocks)
    OBVIOUS
  <1>10. ChainAsked(y, <<m>>, in, FALSE)
    BY <1>5, <1>7, <1>8, <1>9, Zenon DEF ChainAsked
  <1>11. Sound(y, <<m>>, in, FALSE, <<>>, known, h)
    BY <1>2, <1>7, <1>9, <1>10, Zenon DEF Sound, Stage
  <1>12. /\ peerTip' = peerTip /\ known' = known /\ tip' = tip /\ finalFailed' = finalFailed
    BY Zenon DEF on_callback, core
  <1>. QED  BY <1>6, <1>11, <1>12, OneConnection, Zenon DEF SyncInv, h

\* A block that has a parent is added to the core.
LEMMA AddBlockIs ==
    ASSUME known \subseteq Blocks, tip \in Blocks, NEW b \in Blocks, AddBlock(b)
    PROVE  /\ known \subseteq known' /\ known' \subseteq Blocks /\ tip' \in Blocks
           /\ ~IsOrphan(b) => b \in known'
  <1>1. CASE b \in known \/ IsOrphan(b)
    BY <1>1, Zenon DEF AddBlock, core
  <1>2. CASE ~(b \in known \/ IsOrphan(b))
    <2>1. known' = known \cup {b} /\ (tip' = b \/ tip' = tip)
      BY <1>2, Zenon DEF AddBlock
    <2>. QED  BY <2>1, Zenon
  <1>. QED  BY <1>1, <1>2, Zenon

\* A block that is announced is added, or starts a download when its parent is unknown.
LEMMA NewBlockStep ==
    ASSUME SyncInv, NEW c \in Conns, handle_notify_new_block(c)
    PROVE  SyncInv'
  <1>. DEFINE x == conn[c]
              in == fromPeer[c]
              b == Head(in).block
              h == PeerHeight(c)
              y == [x EXCEPT !.state = "synchronizing"]
              m == ChainRequest(tip)
  <1>1. IsOpen(c) /\ ~running[c] /\ in # <<>> /\ Head(in).type = "new_block"
    BY Zenon DEF handle_notify_new_block, Receives
  <1>2. /\ x \in Context /\ Stage(x, toPeer[c], in, running[c], job[c], known, h)
        /\ Sound(x, toPeer[c], in, running[c], job[c], known, h) /\ h \in Nat
        /\ in \in Seq(Received) /\ job[c] = <<>> /\ running[c] = FALSE /\ toPeer[c] \o <<>> = toPeer[c]
    BY <1>1, OfConnection, Zenon
  <1>3. /\ Head(in) = in[1] /\ Head(in) \in Received /\ in[1].type \notin Answers
        /\ Tail(in) \in Seq(Received) /\ (NoAnswer(in) => NoAnswer(Tail(in)))
    <2>1. /\ Head(in) = in[1] /\ Head(in) \in Received /\ Tail(in) \in Seq(Received)
          /\ (NoAnswer(in) => NoAnswer(Tail(in)))
      BY <1>1, <1>2, TakeMessage, Zenon
    <2>2. Head(in).type \notin Answers
      BY <1>1, Zenon DEF Answers
    <2>. QED  BY <2>1, <2>2, Zenon
  <1>4. b \in Blocks
    BY <1>1, <1>3, ReceivedIs, Zenon
  <1>5. peerTip' = peerTip /\ finalFailed' = finalFailed /\ running' = running /\ job' = job
    BY Zenon DEF handle_notify_new_block
  <1>6. /\ known \subseteq known' /\ known' \subseteq Blocks /\ tip' \in Blocks
    <2>1. AddBlock(b) \/ UNCHANGED core
      BY Zenon DEF handle_notify_new_block
    <2>2. CASE UNCHANGED core
      BY <2>2, Zenon DEF core, SyncInv
    <2>3. CASE AddBlock(b)
      BY <1>4, <2>3, AddBlockIs, Zenon DEF SyncInv
    <2>. QED  BY <2>1, <2>2, <2>3, Zenon
  <1>7. At(running, running', c, FALSE) /\ At(job, job', c, <<>>)
    BY <1>2, <1>5, JobKept, Zenon
  <1>8. CASE Reply(c, x, <<>>)
    <2>1. /\ At(conn, conn', c, x) /\ At(toPeer, toPeer', c, toPeer[c]) /\ At(fromPeer, fromPeer', c, Tail(in))
      BY <1>2, <1>8, ReplyIs, Zenon
    <2>. HIDE DEF x, in, h
    <2>2. Sound(x, toPeer[c], Tail(in), FALSE, <<>>, known, h)
      BY <1>1, <1>2, <1>3, SoundSkips, Zenon
    <2>3. h <= h
      BY <1>2
    <2>4. Sound(x, toPeer[c], Tail(in), FALSE, <<>>, known', h)
      BY <1>2, <1>6, <2>2, <2>3, SoundGrows, Zenon
    <2>. QED  BY <1>5, <1>6, <1>7, <2>1, <2>4, OneConnection, Zenon DEF SyncInv, h
  <1>9. CASE x.state = "normal" /\ Reply(c, y, <<m>>)
    <2>1. /\ toPeer[c] = <<>> /\ NoAnswer(Tail(in)) /\ x.callbacks = 0 /\ x.needed = <<>> /\ x.requested = {}
      <3>1. x.state # "synchronizing"
        BY <1>9, Zenon
      <3>. QED  BY <1>2, <1>3, <3>1, Zenon
             DEF Stage, AtRest, CallbackDue, ChainAsked, ChainTold, BlocksAsked, BlocksTold, Adding
    <2>2. /\ At(conn, conn', c, y) /\ At(toPeer, toPeer', c, <<m>>) /\ At(fromPeer, fromPeer', c, Tail(in))
      <3>1. <<>> \o <<m>> = <<m>>
        OBVIOUS
      <3>. QED  BY <1>9, <2>1, <3>1, ReplyIs, Zenon
    <2>3. /\ y \in Context /\ y.callbacks = 0 /\ y.needed = <<>> /\ y.requested = {}
          /\ y.state = "synchronizing"
      <3>1. x \in Context
        BY <1>2, Zenon
      <3>. HIDE DEF x
      <3>. QED  BY <2>1, <3>1, Zenon DEF Context
    <2>4. ChainRequestOk(m)
      BY ChainRequestIsOk, Zenon DEF SyncInv
    <2>. HIDE DEF m, y, x, in, h
    <2>5. <<m>> # <<>> /\ <<m>>[1] = m /\ <<>> \in Seq(Blocks)
      OBVIOUS
    <2>6. ChainAsked(y, <<m>>, Tail(in), FALSE)
      BY <2>1, <2>3, <2>4, <2>5, Zenon DEF ChainAsked
    <2>7. Sound(y, <<m>>, Tail(in), FALSE, <<>>, known', h)
      BY <1>3, <2>3, <2>5, <2>6, Zenon DEF Sound, Stage
    <2>. QED  BY <1>5, <1>6, <1>7, <2>2, <2>7, OneConnection, Zenon DEF SyncInv, h
  <1>10. Reply(c, x, <<>>) \/ (x.state = "normal" /\ Reply(c, y, <<m>>))
    BY Zenon DEF handle_notify_new_block
  <1>. QED  BY <1>8, <1>9, <1>10, Zenon

\* At most one request is on its way.
LEMMA SoundOut ==
    ASSUME NEW x, NEW out, NEW in, NEW run, NEW todo, NEW K, NEW h,
           Sound(x, out, in, run, todo, K, h)
    PROVE  <<>> \o out = out
  <1>1. out = <<>> \/ out = <<out[1]>>
    BY Zenon DEF Sound, Stage, AtRest, CallbackDue, ChainAsked, ChainTold, BlocksAsked, BlocksTold, Adding
  <1>2. ASSUME NEW m PROVE <<>> \o <<m>> = <<m>>
    OBVIOUS
  <1>3. <<>> \o <<>> = <<>>
    OBVIOUS
  <1>. QED  BY <1>1, <1>2, <1>3, Zenon

\* What a handler finds when the first message is an answer.
EntryDue(x, out, in, run, h) ==
    /\ out = <<>> /\ ~run /\ ChainEntryOk(in[1]) /\ (OnlyLonger => in[1].total <= h)
    /\ x.callbacks = 0 /\ x.needed = <<>> /\ x.requested = {} /\ x.state = "synchronizing"
    /\ NoAnswer(Tail(in))
ObjectsDue(x, out, in, run, K, h) ==
    /\ out = <<>> /\ ~run /\ Range(in[1].blocks) \subseteq x.requested
    /\ Range(in[1].blocks) = x.requested => Ready(in[1].blocks, K)
    /\ OnlyLonger => x.last < in[1].height /\ in[1].height <= h
    /\ Ready(x.needed, K \cup x.requested)
    /\ x.callbacks = 0 /\ x.state = "synchronizing" /\ NoAnswer(Tail(in))

\* An answer that a handler reads is the one the connection waits for.
LEMMA AnswerIs ==
    ASSUME NEW x, NEW out, NEW in \in Seq(Received), NEW run, NEW todo, NEW K, NEW h,
           Stage(x, out, in, run, todo, K, h), in # <<>>
    PROVE  /\ in[1].type = "chain_entry" => EntryDue(x, out, in, run, h)
           /\ in[1].type = "objects" => ObjectsDue(x, out, in, run, K, h)
  <1>1. "chain_entry" \in Answers /\ "objects" \in Answers /\ "chain_entry" # "objects"
    BY Zenon DEF Answers
  <1>2. /\ NoAnswer(in) => in[1].type \notin Answers
        /\ \A i \in DOMAIN in : OnlyAnswer(in, i) =>
              (i = 1 /\ NoAnswer(Tail(in))) \/ in[1].type \notin Answers
    BY TakeMessage, Zenon
  <1>3. CASE in[1].type \notin Answers
    BY <1>1, <1>3, Zenon
  <1>4. CASE in[1].type \in Answers /\ ChainTold(x, out, in, run, h)
    <2>1. PICK i \in DOMAIN in :
              OnlyAnswer(in, i) /\ ChainEntryOk(in[i]) /\ (OnlyLonger => in[i].total <= h)
      BY <1>4, Zenon DEF ChainTold
    <2>2. i = 1 /\ NoAnswer(Tail(in))
      BY <1>2, <1>4, <2>1, Zenon
    <2>3. in[1].type = "chain_entry"
      BY <2>1, <2>2, Zenon DEF ChainEntryOk
    <2>. QED  BY <1>1, <1>4, <2>1, <2>2, <2>3, Zenon DEF ChainTold, EntryDue
  <1>5. CASE in[1].type \in Answers /\ BlocksTold(x, out, in, run, K, h)
    <2>1. PICK i \in DOMAIN in :
              /\ OnlyAnswer(in, i) /\ in[i].type = "objects"
              /\ Range(in[i].blocks) \subseteq x.requested
              /\ Range(in[i].blocks) = x.requested => Ready(in[i].blocks, K)
              /\ OnlyLonger => x.last < in[i].height /\ in[i].height <= h
      BY <1>5, Zenon DEF BlocksTold
    <2>2. i = 1 /\ NoAnswer(Tail(in))
      BY <1>2, <1>5, <2>1, Zenon
    <2>. QED  BY <1>1, <1>5, <2>1, <2>2, Zenon DEF BlocksTold, ObjectsDue
  <1>. QED  BY <1>2, <1>3, <1>4, <1>5, Zenon
         DEF Stage, AtRest, CallbackDue, ChainAsked, BlocksAsked, Adding

\* The ids of the chain entry that the core lacks can be added one after the other.
LEMMA EntryReady ==
    ASSUME known \subseteq Blocks, NEW ids \in Seq(Blocks), ids # <<>>, ids[1] \in known,
           \A i \in 2 .. Len(ids) : Parent[ids[i]] = ids[i - 1]
    PROVE  Only(ids, Blocks \ known) \in Seq(Blocks) /\ Ready(Only(ids, Blocks \ known), known)
  <1>1. DOMAIN ids = 1 .. Len(ids) /\ Len(ids) \in Nat
    OBVIOUS
  <1>2. ASSUME NEW i \in DOMAIN ids
        PROVE  ids[i] \in known \/ Parent[ids[i]] \in known \/ \E g \in 1 .. (i - 1) : ids[g] = Parent[ids[i]]
    <2>1. CASE i = 1
      BY <2>1, Zenon
    <2>2. CASE i # 1
      <3>1. i - 1 \in 1 .. (i - 1) /\ i \in 2 .. Len(ids)
        BY <1>1, <2>2
      <3>2. ids[i - 1] = Parent[ids[i]]
        BY <3>1, Zenon
      <3>. QED  BY <3>1, <3>2, Zenon
    <2>. QED  BY <2>1, <2>2, Zenon
  <1>3. Ready(ids, known)
    BY <1>2, Zenon DEF Ready
  <1>4. Range(ids) \ (Blocks \ known) \subseteq known
    <2>1. Range(ids) \subseteq Blocks
      BY <1>1 DEF Range
    <2>. QED  BY <2>1, Zenon
  <1>. QED  BY <1>3, <1>4, OnlyKeeps, Zenon

\* The answer to the request for a chain: the next request, or the end of the download.
LEMMA ChainEntryStep ==
    ASSUME SyncInv, NEW c \in Conns, handle_response_chain_entry(c)
    PROVE  SyncInv'
  <1>. DEFINE in == fromPeer[c]
              m == Head(in)
              h == PeerHeight(c)
              last == m.start + Len(m.ids) - 1
              x == [conn[c] EXCEPT !.remote = m.total, !.last = last,
                       !.needed = @ \o Only(m.ids, Blocks \ known)]
              r == request_missing_objects(x, FALSE)
  <1>1. IsOpen(c) /\ ~running[c] /\ in # <<>> /\ m.type = "chain_entry"
    BY Zenon DEF handle_response_chain_entry, Receives
  <1>2. /\ conn[c] \in Context /\ Stage(conn[c], toPeer[c], in, running[c], job[c], known, h)
        /\ in \in Seq(Received) /\ job[c] = <<>> /\ running[c] = FALSE /\ h \in Nat
    BY <1>1, OfConnection, Zenon
  <1>3. m = in[1] /\ m \in Received /\ Tail(in) \in Seq(Received)
    BY <1>1, <1>2, TakeMessage, Zenon
  <1>4. /\ toPeer[c] = <<>> /\ ChainEntryOk(m) /\ (OnlyLonger => m.total <= h) /\ NoAnswer(Tail(in))
        /\ conn[c].callbacks = 0 /\ conn[c].needed = <<>> /\ conn[c].requested = {}
        /\ conn[c].state = "synchronizing"
    <2>1. in[1].type = "chain_entry"
      BY <1>1, <1>3, Zenon
    <2>2. /\ toPeer[c] = <<>> /\ ChainEntryOk(in[1]) /\ (OnlyLonger => in[1].total <= h) /\ NoAnswer(Tail(in))
          /\ conn[c].callbacks = 0 /\ conn[c].needed = <<>> /\ conn[c].requested = {}
          /\ conn[c].state = "synchronizing"
      <3>1. /\ in \in Seq(Received) /\ in # <<>>
            /\ Stage(conn[c], toPeer[c], in, running[c], job[c], known, h)
        BY <1>1, <1>2, Zenon
      <3>. HIDE DEF h, in
      <3>2. EntryDue(conn[c], toPeer[c], in, running[c], h)
        BY <2>1, <3>1, AnswerIs, Zenon
      <3>. QED  BY <3>2, Zenon DEF EntryDue
    <2>. QED  BY <1>3, <2>2, Zenon
  <1>5. peerTip' = peerTip /\ known' = known /\ tip' = tip /\ running' = running /\ job' = job
    BY Zenon DEF handle_response_chain_entry, core
  <1>6. At(running, running', c, FALSE) /\ At(job, job', c, <<>>)
    BY <1>2, <1>5, JobKept, Zenon
  <1>7. CASE Drop(c) /\ finalFailed' = finalFailed
    <2>1. Sound(Closed, <<>>, <<>>, FALSE, <<>>, known, h)
      BY <1>2, OfConnection, SoundDropped, Zenon
    <2>2. /\ At(conn, conn', c, Closed) /\ At(toPeer, toPeer', c, <<>>) /\ At(fromPeer, fromPeer', c, <<>>)
      BY <1>7, DropIs, Zenon
    <2>. QED  BY <1>5, <1>6, <1>7, <2>1, <2>2, OneConnection, Zenon DEF SyncInv
  <1>8. CASE /\ m.ids[1] \in known /\ Reply(c, r.ctx, r.msgs)
             /\ finalFailed' = (finalFailed \/ ~FinalCondition(x))
    <2>1. /\ m.ids \in Seq(Blocks) /\ m.start \in Nat /\ m.total \in Nat
      BY <1>1, <1>3, ReceivedIs, Zenon
    <2>2. m.ids # <<>> /\ m.start + Len(m.ids) <= m.total
          /\ \A i \in 2 .. Len(m.ids) : Parent[m.ids[i]] = m.ids[i - 1]
      BY <1>4, Zenon DEF ChainEntryOk
    <2>. DEFINE s == Only(m.ids, Blocks \ known)
    <2>3. s \in Seq(Blocks) /\ Ready(s, known)
      <3>. HIDE DEF m
      <3>. QED  BY <1>8, <2>1, <2>2, EntryReady, Zenon DEF SyncInv
    <2>. HIDE DEF s
    <2>4. last \in Int /\ last < m.total
      <3>. HIDE DEF m
      <3>. QED  BY <2>1, <2>2
    <2>5. <<>> \o s = s
      BY <2>3
    <2>6. x = [conn[c] EXCEPT !.remote = m.total, !.last = last, !.needed = s]
      BY <1>4, <2>5, Zenon DEF s
    <2>7. /\ x \in Context /\ x.needed = s /\ x.requested = {} /\ x.callbacks = 0 /\ x.state = "synchronizing"
          /\ x.last = last /\ x.remote = m.total
      <3>1. m.total \in Int /\ last \in Int /\ conn[c] \in Context
        BY <1>2, <2>1, <2>4
      <3>. HIDE DEF x, m, last
      <3>. QED  BY <1>4, <2>3, <2>6, <3>1, Zenon DEF Context
    <2>8. /\ At(conn, conn', c, r.ctx) /\ At(toPeer, toPeer', c, <<>> \o r.msgs)
          /\ At(fromPeer, fromPeer', c, Tail(in))
      <3>. HIDE DEF r
      <3>. QED  BY <1>4, <1>8, ReplyIs, Zenon
    <2>. HIDE DEF x, m, last, in, h
    <2>9. OnlyLonger => x.last < x.remote /\ x.remote <= h
      BY <1>4, <2>4, <2>7, Zenon
    <2>10. Sound(r.ctx, r.msgs, Tail(in), FALSE, <<>>, known, h) /\ (OnlyLonger => FinalCondition(x))
      <3>1. known \subseteq Blocks /\ tip \in Blocks
        BY Zenon DEF SyncInv
      <3>. QED  BY <1>2, <1>3, <1>4, <2>3, <2>7, <2>9, <3>1, RequestMissing, Zenon
    <2>. HIDE DEF r
    <2>11. At(toPeer, toPeer', c, r.msgs)
      BY <2>8, <2>10, SoundOut, Zenon
    <2>12. OnlyLonger => ~finalFailed'
      BY <1>8, <2>10, Zenon DEF SyncInv
    <2>. QED  BY <1>5, <1>6, <2>8, <2>10, <2>11, <2>12, OneConnection, Zenon DEF SyncInv, h
  <1>9. \/ Drop(c) /\ finalFailed' = finalFailed
        \/ m.ids[1] \in known /\ Reply(c, r.ctx, r.msgs) /\ finalFailed' = (finalFailed \/ ~FinalCondition(x))
    <2>1. CASE m.ids = <<>> \/ m.ids[1] \notin known \/ last > m.total
      BY <2>1, Zenon DEF handle_response_chain_entry
    <2>2. CASE ~(m.ids = <<>> \/ m.ids[1] \notin known \/ last > m.total)
      BY <2>2, Zenon DEF handle_response_chain_entry
    <2>. QED  BY <2>1, <2>2, Zenon
  <1>. QED  BY <1>7, <1>8, <1>9, Zenon

\* The blocks that were asked for arrive: the handler starts to add them, suspends the
\* download when another connection has them, or drops a peer that lacks some.
LEMMA ObjectsStep ==
    ASSUME SyncInv, NEW c \in Conns, handle_response_get_objects(c)
    PROVE  SyncInv'
  <1>. DEFINE in == fromPeer[c]
              m == Head(in)
              h == PeerHeight(c)
              x == [conn[c] EXCEPT !.remote = m.height]
              idle == [x EXCEPT !.state = "idle", !.needed = <<>>, !.requested = {}]
              y == [x EXCEPT !.requested = {}]
  <1>1. IsOpen(c) /\ ~running[c] /\ in # <<>> /\ m.type = "objects"
    BY Zenon DEF handle_response_get_objects, Receives
  <1>2. /\ conn[c] \in Context /\ Stage(conn[c], toPeer[c], in, running[c], job[c], known, h)
        /\ in \in Seq(Received) /\ job[c] = <<>> /\ running[c] = FALSE /\ h \in Nat
    BY <1>1, OfConnection, Zenon
  <1>3. m = in[1] /\ m \in Received /\ Tail(in) \in Seq(Received)
    BY <1>1, <1>2, TakeMessage, Zenon
  <1>4. m.blocks \in Seq(Blocks) /\ m.height \in Nat
    BY <1>1, <1>3, ReceivedIs, Zenon
  <1>5. /\ toPeer[c] = <<>> /\ (Range(m.blocks) = conn[c].requested => Ready(m.blocks, known))
        /\ OnlyLonger => conn[c].last < m.height /\ m.height <= h
        /\ Ready(conn[c].needed, known \cup conn[c].requested)
        /\ conn[c].callbacks = 0 /\ conn[c].state = "synchronizing" /\ NoAnswer(Tail(in))
    <2>1. in[1].type = "objects"
      BY <1>1, <1>3, Zenon
    <2>2. /\ toPeer[c] = <<>> /\ (Range(in[1].blocks) = conn[c].requested => Ready(in[1].blocks, known))
          /\ OnlyLonger => conn[c].last < in[1].height /\ in[1].height <= h
          /\ Ready(conn[c].needed, known \cup conn[c].requested)
          /\ conn[c].callbacks = 0 /\ conn[c].state = "synchronizing" /\ NoAnswer(Tail(in))
      <3>1. /\ in \in Seq(Received) /\ in # <<>>
            /\ Stage(conn[c], toPeer[c], in, running[c], job[c], known, h)
        BY <1>1, <1>2, Zenon
      <3>. HIDE DEF h, in
      <3>2. ObjectsDue(conn[c], toPeer[c], in, running[c], known, h)
        BY <2>1, <3>1, AnswerIs, Zenon
      <3>. QED  BY <3>2, Zenon DEF ObjectsDue
    <2>. QED  BY <1>3, <2>2, Zenon
  <1>6. peerTip' = peerTip /\ known' = known /\ tip' = tip /\ finalFailed' = finalFailed
    BY Zenon DEF handle_response_get_objects, core
  <1>7. CASE Drop(c) /\ UNCHANGED <<job, running>>
    <2>1. Sound(Closed, <<>>, <<>>, running[c], job[c], known, h)
      BY OfConnection, SoundDropped, Zenon
    <2>2. /\ At(conn, conn', c, Closed) /\ At(toPeer, toPeer', c, <<>>) /\ At(fromPeer, fromPeer', c, <<>>)
      BY <1>7, DropIs, Zenon
    <2>3. At(running, running', c, running[c]) /\ At(job, job', c, job[c])
      BY <1>7, JobKept, Zenon
    <2>. QED  BY <1>6, <2>1, <2>2, <2>3, OneConnection, Zenon DEF SyncInv
  <1>8. CASE Reply(c, idle, <<>>) /\ UNCHANGED <<job, running>>
    <2>1. idle = [conn[c] EXCEPT !.remote = m.height, !.state = "idle", !.needed = <<>>, !.requested = {}]
      <3>. HIDE DEF m
      <3>. QED  BY <1>2, Zenon DEF Context
    <2>2. /\ idle \in Context /\ idle.needed = <<>> /\ idle.requested = {} /\ idle.callbacks = 0
          /\ idle.state = "idle"
      <3>1. m.height \in Int /\ conn[c] \in Context
        BY <1>2, <1>4
      <3>. HIDE DEF m, idle
      <3>2. idle \in Context
        <4>1. <<>> \in Seq(Blocks)
          OBVIOUS
        <4>. QED  BY <2>1, <3>1, <4>1, Zenon DEF Context
      <3>3. idle.needed = <<>> /\ idle.requested = {} /\ idle.callbacks = conn[c].callbacks /\ idle.state = "idle"
        BY <2>1, <3>1, Zenon DEF Context
      <3>. QED  BY <1>5, <3>2, <3>3, Zenon
    <2>3. /\ At(conn, conn', c, idle) /\ At(toPeer, toPeer', c, <<>> \o <<>>) /\ At(fromPeer, fromPeer', c, Tail(in))
      <3>. HIDE DEF idle
      <3>1. /\ At(conn, conn', c, idle) /\ At(toPeer, toPeer', c, toPeer[c] \o <<>>)
            /\ At(fromPeer, fromPeer', c, Tail(in))
        BY <1>8, ReplyIs, Zenon
      <3>. QED  BY <1>5, <3>1, Zenon
    <2>. HIDE DEF idle, m, h, in
    <2>4. <<>> \o <<>> = <<>> /\ <<>> \in Seq(Blocks)
      OBVIOUS
    <2>5. AtRest(idle, <<>>, Tail(in), FALSE)
      BY <1>5, <2>2, Zenon DEF AtRest
    <2>6. Sound(idle, <<>>, Tail(in), FALSE, <<>>, known, h)
      BY <1>3, <2>2, <2>4, <2>5, Zenon DEF Sound, Stage
    <2>7. At(running, running', c, FALSE) /\ At(job, job', c, <<>>) /\ At(toPeer, toPeer', c, <<>>)
      BY <1>2, <1>8, <2>3, <2>4, JobKept, Zenon
    <2>. QED  BY <1>6, <2>3, <2>6, <2>7, OneConnection, Zenon DEF SyncInv, h
  <1>9. CASE /\ Range(m.blocks) = x.requested /\ Reply(c, y, <<>>)
             /\ job' = [job EXCEPT ![c] = m.blocks] /\ running' = [running EXCEPT ![c] = TRUE]
    <2>1. x.requested = conn[c].requested
      <3>. HIDE DEF m
      <3>. QED  BY <1>2, Zenon DEF Context
    <2>2. /\ y \in Context /\ y.needed = conn[c].needed /\ y.requested = {} /\ y.callbacks = 0
          /\ y.state = "synchronizing" /\ y.last = conn[c].last /\ y.remote = m.height
      <3>1. m.height \in Int /\ conn[c] \in Context
        BY <1>2, <1>4
      <3>2. y = [conn[c] EXCEPT !.remote = m.height, !.requested = {}]
        <4>. HIDE DEF m
        <4>. QED  BY <1>2, Zenon DEF Context
      <3>. HIDE DEF m, y
      <3>. QED  BY <1>5, <3>1, <3>2, Zenon DEF Context
    <2>3. /\ At(conn, conn', c, y) /\ At(toPeer, toPeer', c, <<>> \o <<>>) /\ At(fromPeer, fromPeer', c, Tail(in))
      <3>. HIDE DEF y
      <3>1. /\ At(conn, conn', c, y) /\ At(toPeer, toPeer', c, toPeer[c] \o <<>>)
            /\ At(fromPeer, fromPeer', c, Tail(in))
        BY <1>9, ReplyIs, Zenon
      <3>. QED  BY <1>5, <3>1, Zenon
    <2>4. At(running, running', c, TRUE) /\ At(job, job', c, m.blocks)
      BY <1>9, AtUpdate, Zenon DEF SyncInv
    <2>5. Ready(m.blocks, known) /\ Ready(y.needed, known \cup Range(m.blocks))
      <3>. HIDE DEF x, y, m
      <3>. QED  BY <1>5, <1>9, <2>1, <2>2, Zenon
    <2>. HIDE DEF x, y, m, h, in
    <2>6. OnlyLonger => y.last < y.remote /\ y.remote <= h
      BY <1>5, <2>2, Zenon
    <2>7. Adding(y, <<>>, Tail(in), TRUE, m.blocks, known, h)
      BY <1>5, <2>2, <2>5, <2>6, Zenon DEF Adding
    <2>8. Sound(y, <<>>, Tail(in), TRUE, m.blocks, known, h)
      BY <1>3, <1>4, <2>2, <2>7, Zenon DEF Sound, Stage
    <2>9. <<>> \o <<>> = <<>>
      OBVIOUS
    <2>10. At(toPeer, toPeer', c, <<>>)
      BY <2>3, <2>9, Zenon
    <2>. QED  BY <1>6, <2>3, <2>4, <2>8, <2>10, OneConnection, Zenon DEF SyncInv, h
  <1>10. \/ Drop(c) /\ UNCHANGED <<job, running>>
         \/ Reply(c, idle, <<>>) /\ UNCHANGED <<job, running>>
         \/ /\ Range(m.blocks) = x.requested /\ Reply(c, y, <<>>)
            /\ job' = [job EXCEPT ![c] = m.blocks] /\ running' = [running EXCEPT ![c] = TRUE]
    <2>. DEFINE suspend == Len(m.blocks) >= 2 /\ m.blocks[1] \in x.requested /\ m.blocks[2] \in known
                high == x.last > m.height
                low == x.last <= m.height
    <2>0. CASE high
      BY <2>0, Zenon DEF handle_response_get_objects
    <2>1. ~high => low
      <3>1. x.last = conn[c].last /\ conn[c].last \in Int
        <4>. HIDE DEF m
        <4>. QED  BY <1>2, Zenon DEF Context
      <3>. HIDE DEF x, m
      <3>. QED  BY <1>4, <3>1
    <2>2. CASE ~high /\ suspend
      BY <2>1, <2>2, Zenon DEF handle_response_get_objects
    <2>3. CASE ~high /\ ~suspend /\ Range(m.blocks) # x.requested
      BY <2>1, <2>3, Zenon DEF handle_response_get_objects
    <2>4. CASE ~high /\ ~suspend /\ Range(m.blocks) = x.requested
      BY <2>1, <2>4, Zenon DEF handle_response_get_objects
    <2>. QED  BY <2>0, <2>2, <2>3, <2>4, Zenon
  <1>. QED  BY <1>7, <1>8, <1>9, <1>10, Zenon

\* A block of the answer is added; its parent is known, so it is no orphan.
LEMMA AddNextBlockStep ==
    ASSUME SyncInv, NEW c \in Conns, AddNextBlock(c)
    PROVE  SyncInv'
  <1>. DEFINE h == PeerHeight(c)
              todo == job[c]
  <1>1. running[c] /\ todo # <<>> /\ AddBlock(Head(todo))
    BY Zenon DEF AddNextBlock
  <1>2. /\ todo \in Seq(Blocks) /\ fromPeer[c] \in Seq(Received) /\ running[c] = TRUE
        /\ \/ /\ conn[c] \in Context
              /\ Adding(conn[c], toPeer[c], fromPeer[c], running[c], todo, known, h)
           \/ conn[c] = Closed /\ toPeer[c] = <<>> /\ fromPeer[c] = <<>> /\ Ready(todo, known)
    BY <1>1, OfConnection, Zenon
       DEF Sound, Stage, AtRest, CallbackDue, ChainAsked, ChainTold, BlocksAsked, BlocksTold
  <1>3. Ready(todo, known)
    BY <1>2, Zenon DEF Adding
  <1>. HIDE DEF todo
  <1>4. Head(todo) = todo[1] /\ todo[1] \in Blocks
    BY <1>1, <1>2
  <1>5. todo[1] \in known \/ Parent[todo[1]] \in known
    <2>1. todo[1] \in known \cup {todo[1]} /\ known \subseteq known \cup {todo[1]}
      OBVIOUS
    <2>. QED  BY <1>1, <1>2, <1>3, <2>1, ReadyTail, Zenon
  <1>6. ~IsOrphan(Head(todo))
    BY <1>4, <1>5, Zenon DEF IsOrphan
  <1>7. known \subseteq known' /\ known' \subseteq Blocks /\ tip' \in Blocks /\ todo[1] \in known'
    BY <1>1, <1>4, <1>6, AddBlockIs, Zenon DEF SyncInv
  <1>8. Tail(todo) \in Seq(Blocks) /\ Ready(Tail(todo), known') /\ Range(todo) \subseteq known' \cup Range(Tail(todo))
    BY <1>1, <1>2, <1>3, <1>7, ReadyTail, Zenon
  <1>9. /\ job' = [job EXCEPT ![c] = Tail(todo)] /\ UNCHANGED <<conn, toPeer, fromPeer, running>>
        /\ peerTip' = peerTip /\ finalFailed' = finalFailed
    BY <1>6, Zenon DEF AddNextBlock, todo
  <1>10. /\ At(conn, conn', c, conn[c]) /\ At(toPeer, toPeer', c, toPeer[c])
         /\ At(fromPeer, fromPeer', c, fromPeer[c])
         /\ At(running, running', c, TRUE) /\ At(job, job', c, Tail(todo))
    BY <1>2, <1>9, AtUpdate, Zenon DEF SyncInv
  <1>11. Sound(conn[c], toPeer[c], fromPeer[c], TRUE, Tail(todo), known', h)
    <2>1. CASE conn[c] = Closed /\ toPeer[c] = <<>> /\ fromPeer[c] = <<>>
      BY <1>2, <1>8, <2>1, Zenon DEF Sound
    <2>2. CASE /\ conn[c] \in Context
               /\ Adding(conn[c], toPeer[c], fromPeer[c], running[c], todo, known, h)
      <3>1. Ready(conn[c].needed, known' \cup Range(Tail(todo)))
        <4>1. known \cup Range(todo) \subseteq known' \cup Range(Tail(todo))
          BY <1>7, <1>8, Zenon
        <4>. QED  BY <2>2, <4>1, ReadyGrows, Zenon DEF Adding
      <3>2. Adding(conn[c], toPeer[c], fromPeer[c], TRUE, Tail(todo), known', h)
        BY <1>2, <1>8, <2>2, <3>1, Zenon DEF Adding
      <3>. QED  BY <1>2, <1>8, <2>2, <3>2, Zenon DEF Sound, Stage
    <2>. QED  BY <1>2, <2>1, <2>2, Zenon
  <1>. QED  BY <1>7, <1>9, <1>10, <1>11, OneConnection, Zenon DEF SyncInv

\* The end of the handler.
LEMMA AllBlocksAddedStep ==
    ASSUME SyncInv, NEW c \in Conns, AllBlocksAdded(c)
    PROVE  SyncInv'
  <1>. DEFINE h == PeerHeight(c)
              x == conn[c]
              in == fromPeer[c]
              r == request_missing_objects(x, TRUE)
  <1>1. running[c] /\ job[c] = <<>> /\ running' = [running EXCEPT ![c] = FALSE]
        /\ UNCHANGED <<known, tip, peerTip, fromPeer, job>>
    BY Zenon DEF AllBlocksAdded, core
  <1>2. At(running, running', c, FALSE) /\ At(job, job', c, <<>>) /\ At(fromPeer, fromPeer', c, in)
    BY <1>1, AtUpdate, Zenon DEF SyncInv
  <1>3. in \in Seq(Received) /\ h \in Nat /\ <<>> \in Seq(Blocks)
    <2>1. <<>> \in Seq(Blocks)
      OBVIOUS
    <2>. QED  BY <2>1, OfConnection, Zenon
  <1>4. known' = known /\ known \subseteq Blocks /\ tip' = tip /\ tip \in Blocks /\ peerTip' = peerTip
    BY <1>1, Zenon DEF SyncInv
  <1>5. CASE ~IsOpen(c)
    <2>1. UNCHANGED <<conn, toPeer, finalFailed>>
      BY <1>5, Zenon DEF AllBlocksAdded
    <2>2. x = Closed /\ toPeer[c] = <<>> /\ in = <<>> /\ Ready(job[c], known)
      BY <1>5, OfConnection, Zenon
    <2>3. At(conn, conn', c, Closed) /\ At(toPeer, toPeer', c, <<>>)
      BY <2>1, <2>2, AtUpdate, Zenon DEF SyncInv
    <2>4. Sound(Closed, <<>>, in, FALSE, <<>>, known, h)
      BY <1>1, <1>3, <2>2, Zenon DEF Sound
    <2>. QED  BY <1>2, <1>4, <2>1, <2>3, <2>4, OneConnection, Zenon DEF SyncInv
  <1>6. CASE IsOpen(c)
    <2>1. conn' = [conn EXCEPT ![c] = r.ctx] /\ toPeer' = [toPeer EXCEPT ![c] = toPeer[c] \o r.msgs]
          /\ finalFailed' = (finalFailed \/ ~FinalCondition(x))
      BY <1>6, Zenon DEF AllBlocksAdded
    <2>2. x \in Context /\ Adding(x, toPeer[c], in, running[c], job[c], known, h)
      BY <1>1, <1>6, OfConnection, Zenon
         DEF Stage, AtRest, CallbackDue, ChainAsked, ChainTold, BlocksAsked, BlocksTold
    <2>3. /\ toPeer[c] = <<>> /\ NoAnswer(in) /\ (OnlyLonger => x.last < x.remote /\ x.remote <= h)
          /\ x.callbacks = 0 /\ x.requested = {} /\ x.state = "synchronizing"
      BY <2>2, Zenon DEF Adding
    <2>4. Ready(x.needed, known)
      <3>1. Range(job[c]) = {}
        BY <1>1 DEF Range
      <3>2. known \cup Range(job[c]) \subseteq known
        BY <3>1, Zenon
      <3>. QED  BY <2>2, <3>2, ReadyGrows, Zenon DEF Adding
    <2>5. Sound(r.ctx, r.msgs, in, FALSE, <<>>, known, h) /\ (OnlyLonger => FinalCondition(x))
      <3>. HIDE DEF x, in, h
      <3>. QED  BY <1>3, <1>4, <2>2, <2>3, <2>4, RequestMissing, Zenon
    <2>. HIDE DEF r
    <2>6. At(conn, conn', c, r.ctx) /\ At(toPeer, toPeer', c, r.msgs)
      <3>1. At(conn, conn', c, r.ctx) /\ At(toPeer, toPeer', c, toPeer[c] \o r.msgs)
        BY <2>1, AtUpdate, Zenon DEF SyncInv
      <3>2. <<>> \o r.msgs = r.msgs
        BY <2>5, SoundOut, Zenon
      <3>. QED  BY <2>3, <3>1, <3>2, Zenon
    <2>7. OnlyLonger => ~finalFailed'
      BY <2>1, <2>5, Zenon DEF SyncInv
    <2>. QED  BY <1>2, <1>4, <2>5, <2>6, <2>7, OneConnection, Zenon DEF SyncInv
  <1>. QED  BY <1>5, <1>6, Zenon

-----------------------------------------------------------------------------
(* The invariant and the theorems.                                         *)

\* The node starts without connections.
LEMMA SyncInit == Init => SyncInv
  <1>. SUFFICES ASSUME Init PROVE SyncInv
    BY Zenon
  <1>1. known \subseteq Blocks /\ tip \in Blocks
    <2>1. LocalTip \in Blocks /\ Chain[LocalTip] \in Seq(Blocks)
      BY PeersAssumption, TreeAssumption, Zenon
    <2>2. Range(Chain[LocalTip]) \subseteq Blocks
      BY <2>1 DEF Range
    <2>. QED  BY <2>1, <2>2, Zenon DEF Init
  <1>2. /\ DOMAIN conn = Conns /\ DOMAIN toPeer = Conns /\ DOMAIN fromPeer = Conns
        /\ DOMAIN job = Conns /\ DOMAIN running = Conns /\ peerTip \in [Peers -> Blocks] /\ ~finalFailed
    BY Zenon DEF Init
  <1>3. ASSUME NEW c \in Conns PROVE SoundAt(c)
    <2>1. conn[c] = Closed /\ toPeer[c] = <<>> /\ fromPeer[c] = <<>> /\ job[c] = <<>> /\ running[c] = FALSE
      BY Zenon DEF Init
    <2>2. <<>> \in Seq(Blocks) /\ <<>> \in Seq(Received)
      OBVIOUS
    <2>3. Ready(<<>>, known)
      BY DEF Ready
    <2>. QED  BY <2>1, <2>2, <2>3, Zenon DEF SoundAt, Sound
  <1>. QED  BY <1>1, <1>2, <1>3, Zenon DEF SyncInv

\* Every step keeps every connection sound.
LEMMA SyncStep == SyncInv /\ [Next]_vars => SyncInv'
  <1>. SUFFICES ASSUME SyncInv, [Next]_vars PROVE SyncInv'
    BY Zenon
  <1>1. CASE UNCHANGED vars
    <2>1. UNCHANGED <<tip, known, peerTip, conn, toPeer, fromPeer, job, running, finalFailed>>
      BY <1>1, Zenon DEF vars
    <2>2. \A c \in Conns : SoundAt(c)' <=> SoundAt(c)
      BY <2>1, Zenon DEF SoundAt, PeerHeight
    <2>. QED  BY <2>1, <2>2, Zenon DEF SyncInv
  <1>2. ASSUME NEW p \in Peers, PeerAdvance(p) PROVE SyncInv'
    BY <1>2, PeerAdvanceStep, Zenon
  <1>3. ASSUME NEW c \in Conns, Connect(c) \/ Disconnect(c) \/ TimedSync(c) PROVE SyncInv'
    BY <1>3, ConnectStep, DisconnectStep, TimedSyncStep, Zenon
  <1>4. ASSUME NEW c \in Conns, Remote(c) PROVE SyncInv'
    BY <1>4, RequestChainStep, RequestObjectsStep, Zenon DEF Remote
  <1>5. ASSUME NEW c \in Conns, Local(c) PROVE SyncInv'
    BY <1>5, SyncDataStep, CallbackStep, NewBlockStep, ChainEntryStep, ObjectsStep, AddNextBlockStep,
       AllBlocksAddedStep, Zenon DEF Local
  <1>. QED  BY <1>1, <1>2, <1>3, <1>4, <1>5, Zenon DEF Next

\* The invariant holds throughout.
LEMMA SyncInvHolds == Spec => []SyncInv
  BY SyncInit, SyncStep, PTL DEF Spec

\* With honest peers, whatever the other connections add meanwhile and however the peers
\* reorganise, handle_response_get_objects never meets a block whose parent is unknown.
THEOREM DownloadsHaveParents == Spec => []NoOrphanInSync
  <1>1. SyncInv => NoOrphanInSync
    <2>. SUFFICES ASSUME SyncInv, NEW c \in Conns, job[c] # <<>> PROVE ~IsOrphan(Head(job[c]))
      BY Zenon DEF NoOrphanInSync
    <2>. DEFINE todo == job[c]
    <2>1. Ready(todo, known) /\ todo \in Seq(Blocks)
      BY OfConnection, Zenon
         DEF Sound, Stage, AtRest, CallbackDue, ChainAsked, ChainTold, BlocksAsked, BlocksTold, Adding
    <2>. HIDE DEF todo
    <2>2. todo # <<>>
      BY Zenon DEF todo
    <2>3. todo[1] \in known \cup {todo[1]} /\ known \subseteq known \cup {todo[1]}
      OBVIOUS
    <2>4. Head(todo) = todo[1] /\ (todo[1] \in known \/ Parent[todo[1]] \in known)
      BY <2>1, <2>2, <2>3, ReadyTail, Zenon
    <2>. QED  BY <2>4, Zenon DEF IsOrphan, todo
  <1>. QED  BY <1>1, SyncInvHolds, PTL

\* The answers among the messages of a connection, counted.
LEMMA AnswersCounted ==
    ASSUME NEW q \in Seq(Received)
    PROVE  /\ NoAnswer(q) => Cardinality({i \in 1 .. Len(q) : q[i].type \in {"chain_entry", "objects"}}) = 0
           /\ \A i \in DOMAIN q : OnlyAnswer(q, i) /\ q[i].type \in Answers =>
                 Cardinality({h \in 1 .. Len(q) : q[h].type \in {"chain_entry", "objects"}}) = 1
  <1>. DEFINE A == {i \in 1 .. Len(q) : q[i].type \in {"chain_entry", "objects"}}
  <1>1. DOMAIN q = 1 .. Len(q)
    OBVIOUS
  <1>2. NoAnswer(q) => A = {}
    BY <1>1, Zenon DEF NoAnswer, Answers
  <1>3. \A i \in DOMAIN q : OnlyAnswer(q, i) /\ q[i].type \in Answers => A = {i}
    BY <1>1, Zenon DEF OnlyAnswer, Answers
  <1>. HIDE DEF A
  <1>4. Cardinality({}) = 0 /\ \A i : Cardinality({i}) = 1
    BY FS_EmptySet, FS_Singleton, Zenon
  <1>5. /\ NoAnswer(q) => Cardinality(A) = 0
        /\ \A i \in DOMAIN q : OnlyAnswer(q, i) /\ q[i].type \in Answers => Cardinality(A) = 1
    BY <1>2, <1>3, <1>4, Zenon
  <1>. QED  BY <1>5, Zenon DEF A

\* When peers move only to longer chains, each connection waits for exactly one thing while
\* it synchronises and for none otherwise, m_requested_objects is what its outstanding
\* request asks for, and the final condition of request_missing_objects always holds.
THEOREM DownloadsAreAccounted ==
    ASSUME OnlyLonger
    PROVE  Spec => []DownloadAccounted
  <1>1. ASSUME SyncInv PROVE DownloadAccounted
    <2>1. ASSUME NEW c \in Conns
          PROVE  IF IsOpen(c) /\ conn[c].state = "synchronizing" THEN InFlight(c) = 1 ELSE InFlight(c) = 0
      <3>. DEFINE x == conn[c]
                  out == toPeer[c]
                  in == fromPeer[c]
                  callbacks == IF IsOpen(c) THEN x.callbacks ELSE 0
                  answers == Cardinality({i \in 1 .. Len(in) : in[i].type \in {"chain_entry", "objects"}})
                  handler == IF running[c] /\ IsOpen(c) THEN 1 ELSE 0
      <3>0. InFlight(c) = callbacks + Len(out) + answers + handler
        BY Zenon DEF InFlight
      <3>1. in \in Seq(Received)
        BY <1>1, OfConnection, Zenon
      <3>2. /\ NoAnswer(in) => answers = 0
            /\ \A i \in DOMAIN in : OnlyAnswer(in, i) /\ in[i].type \in Answers => answers = 1
        <4>. HIDE DEF in
        <4>. QED  BY <3>1, AnswersCounted, Zenon
      <3>3. Len(<<>>) = 0 /\ \A m : Len(<<m>>) = 1
        OBVIOUS
      <3>4. "chain_entry" \in Answers /\ "objects" \in Answers
        BY Zenon DEF Answers
      <3>5. CASE ~IsOpen(c)
        <4>1. out = <<>> /\ in = <<>> /\ callbacks = 0 /\ handler = 0
          BY <1>1, <3>5, OfConnection, Zenon
        <4>2. NoAnswer(in)
          BY <4>1 DEF NoAnswer
        <4>3. Len(out) = 0 /\ answers = 0
          BY <3>2, <3>3, <4>1, <4>2, Zenon
        <4>. HIDE DEF callbacks, answers, handler, out
        <4>4. InFlight(c) = 0
          BY <3>0, <4>1, <4>3
        <4>. QED  BY <3>5, <4>4, Zenon
      <3>6. CASE IsOpen(c)
        <4>. DEFINE sync == x.state = "synchronizing"
        <4>0. callbacks = x.callbacks /\ handler = (IF running[c] THEN 1 ELSE 0)
          BY <3>6, Zenon
        <4>1. Stage(x, out, in, running[c], job[c], known, PeerHeight(c))
          BY <1>1, <3>6, OfConnection, Zenon
        <4>. HIDE DEF callbacks, answers, handler, out, in, x
        <4>2. CASE AtRest(x, out, in, running[c])
          <5>1. callbacks = 0 /\ Len(out) = 0 /\ answers = 0 /\ handler = 0 /\ ~sync
            BY <1>1, <3>2, <3>3, <4>0, <4>2, Zenon DEF AtRest
          <5>2. InFlight(c) = 0
            BY <3>0, <5>1
          <5>. QED  BY <5>1, <5>2, Zenon DEF x
        <4>3. CASE CallbackDue(x, out, in, running[c])
          <5>1. callbacks = 1 /\ Len(out) = 0 /\ answers = 0 /\ handler = 0 /\ sync
            BY <3>2, <3>3, <4>0, <4>3, Zenon DEF CallbackDue
          <5>2. InFlight(c) = 1
            BY <3>0, <5>1
          <5>. QED  BY <3>6, <5>1, <5>2, Zenon DEF x
        <4>4. CASE ChainAsked(x, out, in, running[c])
          <5>1. callbacks = 0 /\ Len(out) = 1 /\ answers = 0 /\ handler = 0 /\ sync
            BY <3>2, <3>3, <4>0, <4>4, Zenon DEF ChainAsked
          <5>2. InFlight(c) = 1
            BY <3>0, <5>1
          <5>. QED  BY <3>6, <5>1, <5>2, Zenon DEF x
        <4>5. CASE ChainTold(x, out, in, running[c], PeerHeight(c))
          <5>1. callbacks = 0 /\ Len(out) = 0 /\ handler = 0 /\ sync
            BY <3>3, <4>0, <4>5, Zenon DEF ChainTold
          <5>2. answers = 1
            BY <3>2, <3>4, <4>5, Zenon DEF ChainTold, ChainEntryOk
          <5>3. InFlight(c) = 1
            BY <3>0, <5>1, <5>2
          <5>. QED  BY <3>6, <5>1, <5>3, Zenon DEF x
        <4>6. CASE BlocksAsked(x, out, in, running[c], known, PeerHeight(c))
          <5>1. callbacks = 0 /\ Len(out) = 1 /\ answers = 0 /\ handler = 0 /\ sync
            BY <3>2, <3>3, <4>0, <4>6, Zenon DEF BlocksAsked
          <5>2. InFlight(c) = 1
            BY <3>0, <5>1
          <5>. QED  BY <3>6, <5>1, <5>2, Zenon DEF x
        <4>7. CASE BlocksTold(x, out, in, running[c], known, PeerHeight(c))
          <5>1. callbacks = 0 /\ Len(out) = 0 /\ handler = 0 /\ sync
            BY <3>3, <4>0, <4>7, Zenon DEF BlocksTold
          <5>2. answers = 1
            BY <3>2, <3>4, <4>7, Zenon DEF BlocksTold
          <5>3. InFlight(c) = 1
            BY <3>0, <5>1, <5>2
          <5>. QED  BY <3>6, <5>1, <5>3, Zenon DEF x
        <4>8. CASE Adding(x, out, in, running[c], job[c], known, PeerHeight(c))
          <5>1. callbacks = 0 /\ Len(out) = 0 /\ answers = 0 /\ handler = 1 /\ sync
            BY <3>2, <3>3, <4>0, <4>8, Zenon DEF Adding
          <5>2. InFlight(c) = 1
            BY <3>0, <5>1
          <5>. QED  BY <3>6, <5>1, <5>2, Zenon DEF x
        <4>. QED  BY <4>1, <4>2, <4>3, <4>4, <4>5, <4>6, <4>7, <4>8, Zenon DEF Stage
      <3>. QED  BY <3>5, <3>6, Zenon
    <2>2. OneInFlight
      BY <2>1, Zenon DEF OneInFlight
    <2>3. ASSUME NEW c \in Conns, IsOpen(c), conn[c].requested # {}
          PROVE  \/ \E i \in 1 .. Len(toPeer[c]) :
                       /\ toPeer[c][i].type = "request_objects"
                       /\ Range(toPeer[c][i].ids) = conn[c].requested
                 \/ \E i \in 1 .. Len(fromPeer[c]) :
                       /\ fromPeer[c][i].type = "objects"
                       /\ Range(fromPeer[c][i].blocks) \subseteq conn[c].requested
      <3>. DEFINE x == conn[c]
                  out == toPeer[c]
                  in == fromPeer[c]
      <3>1. /\ Stage(x, out, in, running[c], job[c], known, PeerHeight(c)) /\ in \in Seq(Received)
        BY <1>1, <2>3, OfConnection, Zenon
      <3>2. DOMAIN in = 1 .. Len(in)
        BY <3>1
      <3>3. \/ BlocksAsked(x, out, in, running[c], known, PeerHeight(c))
            \/ BlocksTold(x, out, in, running[c], known, PeerHeight(c))
        BY <2>3, <3>1, Zenon DEF Stage, AtRest, CallbackDue, ChainAsked, ChainTold, Adding
      <3>4. CASE BlocksAsked(x, out, in, running[c], known, PeerHeight(c))
        <4>1. out = <<out[1]>> /\ out[1].type = "request_objects" /\ Range(out[1].ids) = x.requested
          BY <3>4, Zenon DEF BlocksAsked, ObjectRequestOk
        <4>2. \A m : 1 \in 1 .. Len(<<m>>)
          OBVIOUS
        <4>3. 1 \in 1 .. Len(out)
          <5>. HIDE DEF out
          <5>. QED  BY <4>1, <4>2, Zenon
        <4>. QED  BY <4>1, <4>3, Zenon
      <3>5. CASE BlocksTold(x, out, in, running[c], known, PeerHeight(c))
        BY <3>2, <3>5, Zenon DEF BlocksTold
      <3>. QED  BY <3>3, <3>4, <3>5, Zenon
    <2>4. RequestsAccounted
      BY <2>3, Zenon DEF RequestsAccounted
    <2>5. ~finalFailed
      BY <1>1, Zenon DEF SyncInv
    <2>. QED  BY <2>2, <2>4, <2>5, Zenon DEF DownloadAccounted
  <1>. QED  BY <1>1, SyncInvHolds, PTL
=============================================================================
