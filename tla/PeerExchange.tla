---------------------------- MODULE PeerExchange ----------------------------
(***************************************************************************)
(* Nodes that keep address books (Peerlist) and tell each other about the  *)
(* peers they have seen, as handle_handshake, handle_timed_sync,           *)
(* do_handshake_with_peer and do_peer_timed_sync do                        *)
(* (src/src/p2p/net_node.inl).  Every node has a clock of its own that     *)
(* runs at the common rate with an offset, a list travels with the sender's *)
(* time and may arrive late.                                               *)
(***************************************************************************)
EXTENDS Peerlist, FiniteSetTheorems, WellFoundedInduction, TLAPS

CONSTANTS
    Nodes,       \* the nodes of the run
    Skew,        \* Skew[n]: offset of the clock of n
    CmdPeers,    \* CmdPeers[n]: --add-peer addresses of n
    Reach,       \* Reach[n]: addresses n can open a connection to
    IdOf,        \* IdOf[a]: peer id of the node at address a
    Start,       \* true time at the start
    MaxTime      \* bound: true time

VARIABLES
    lists,       \* lists[n]: peerlist_manager of n
    mail,        \* mail[n]: the answer on its way to n, or NoList
    rejected,    \* a list was refused as coming from the future
    time         \* true time

\* The clocks show seconds since 1970, so none of them is before 0.
ASSUME ClockAssumption ==
    /\ Start \in Int /\ Skew \in [Nodes -> Int]
    /\ \A n \in Nodes : Start + Skew[n] >= 0

ASSUME PeersAssumption ==
    /\ HandshakeDepth \in Nat
    /\ \A n \in Nodes : IsFiniteSet(CmdPeers[n])

exchange == <<lists, mail, rejected, time>>

NoList == [peers |-> << >>, local_time |-> -1]

Now(n) == time + Skew[n]

\* node_server::init puts the --add-peer addresses, never seen, in the white list.
InitialLists(n) ==
    [EmptyLists EXCEPT !.white =
        [a \in {x \in CmdPeers[n] : is_ip_allowed(x)} |-> [id |-> 0, seen |-> 0]]]

ExchangeInit ==
    /\ lists = [n \in Nodes |-> InitialLists(n)]
    /\ mail = [n \in Nodes |-> NoList]
    /\ rejected = FALSE
    /\ time = Start

\* A handshake, a timed sync or a ping succeeded with the peer at a.
set_peer_just_seen(n, a) ==
    /\ \E book \in append_with_peer_white(lists[n], a, [id |-> IdOf[a], seen |-> Now(n)]) :
         lists' = [lists EXCEPT ![n] = book]
    /\ UNCHANGED <<mail, rejected, time>>

\* from answers a handshake or a timed sync of to: the head of its white list
\* and its own time.
handle_timed_sync(from, to) ==
    /\ mail[to] = NoList
    /\ \E head \in get_peerlist_head(lists[from], HandshakeDepth) :
         mail' = [mail EXCEPT ![to] = [peers |-> head, local_time |-> Now(from)]]
    /\ UNCHANGED <<lists, rejected, time>>

\* The answer arrives: refused as a whole when an entry is from the future of
\* its sender, otherwise merged with its times moved to the clock of n.
handle_remote_peerlist(n) ==
    LET m == mail[n]
    IN  /\ m # NoList
        /\ mail' = [mail EXCEPT ![n] = NoList]
        /\ IF ~TimesAccepted(m.peers, m.local_time)
             THEN rejected' = TRUE /\ UNCHANGED lists
             ELSE /\ \E book \in merge_peerlist(lists[n], fix_time_delta(m.peers, m.local_time, Now(n))) :
                       lists' = [lists EXCEPT ![n] = book]
                  /\ UNCHANGED rejected
        /\ UNCHANGED time

Tick ==
    /\ time < MaxTime
    /\ time' = time + 1
    /\ UNCHANGED <<lists, mail, rejected>>

ExchangeNext ==
    \/ \E n \in Nodes : \E a \in Reach[n] : set_peer_just_seen(n, a)
    \/ \E from, to \in Nodes : from # to /\ handle_timed_sync(from, to)
    \/ \E n \in Nodes : handle_remote_peerlist(n)
    \/ Tick

ExchangeSpec == ExchangeInit /\ [][ExchangeNext]_exchange

-----------------------------------------------------------------------------
\* No node believes that a peer was seen later than its own clock shows, through
\* any chain of exchanges between clocks that disagree: the invariant on which
\* fix_time_delta's refusal of "FOUND FUTURE peerlist" relies.
NoFuture ==
    \A n \in Nodes :
        /\ \A a \in DOMAIN lists[n].white : lists[n].white[a].seen <= Now(n)
        /\ \A a \in DOMAIN lists[n].gray : lists[n].gray[a].seen <= Now(n)

\* So no honest node ever has its handshake refused for the times in its list.
HonestListsAccepted == ~rejected

\* An address is in one list only: append_with_peer_white moves it out of the
\* gray list, append_with_peer_gray ignores white addresses, and trimming of the
\* white list in the middle of a merge does not bring an address into both.
ListsDisjoint ==
    \A n \in Nodes : DOMAIN lists[n].white \cap DOMAIN lists[n].gray = {}

\* The address books say what happened: no sighting is from the future and no
\* honest list is refused for one, and no address is in both lists.
BooksTruthful == NoFuture /\ HonestListsAccepted /\ ListsDisjoint

\* What a peer says about an address never replaces what we saw ourselves: the
\* last_seen of a white entry only grows while it stays in the list, and it is
\* only ever given up for entries seen at least as recently.
OwnSightingsKept ==
    [][\A n \in Nodes : \A a \in DOMAIN lists[n].white :
         IF a \in DOMAIN lists'[n].white
         THEN lists'[n].white[a].seen >= lists[n].white[a].seen
         ELSE \A b \in DOMAIN lists'[n].white : lists'[n].white[b].seen >= lists[n].white[a].seen]_exchange

-----------------------------------------------------------------------------
(***************************************************************************)
(* Proofs, for every number of nodes, all offsets of their clocks and all  *)
(* limits of the lists.  First what the exchange relies on.                *)
(***************************************************************************)

\* No entry of the list is later than t.
Timed(list, t) == \A a \in DOMAIN list : list[a].seen \in Int /\ list[a].seen <= t

\* A peerlist_manager of a node whose clock shows t.
SoundBook(book, t) ==
    /\ book = [white |-> book.white, gray |-> book.gray]
    /\ IsFiniteSet(DOMAIN book.white)
    /\ Timed(book.white, t) /\ Timed(book.gray, t)
    /\ DOMAIN book.white \cap DOMAIN book.gray = {}

\* A list of peers on its way.
SoundPeers(peers, t) ==
    /\ Len(peers) \in Nat /\ DOMAIN peers = 1 .. Len(peers)
    /\ \A i \in DOMAIN peers :
          /\ peers[i] = [adr |-> peers[i].adr, id |-> peers[i].id, seen |-> peers[i].seen]
          /\ peers[i].seen \in Int /\ peers[i].seen <= t
SoundMail(m) == m.local_time \in Int /\ SoundPeers(m.peers, m.local_time)

ExchangeInv ==
    /\ time \in Int /\ Start <= time /\ ~rejected
    /\ DOMAIN lists = Nodes /\ DOMAIN mail = Nodes
    /\ \A n \in Nodes : SoundBook(lists[n], Now(n))
    /\ \A n \in Nodes : mail[n] = NoList \/ SoundMail(mail[n])

-----------------------------------------------------------------------------
(* Induction over the entries of a received list, from the library's       *)
(* theorem that < is well founded.                                         *)

\* A set of naturals that is not empty has a least element.
LEMMA LeastElement ==
    ASSUME NEW S, S \subseteq Nat, S # {}
    PROVE  \E x \in S : \A y \in S : x <= y
  <1>. DEFINE R == OpToRel(<, Nat)
  <1>1. IsWellFoundedOn(R, Nat)
    BY NatLessThanWellFounded, Zenon
  <1>2. PICK x \in S : \A y \in S : ~(<<y, x>> \in R)
    <2>. HIDE DEF R
    <2>. QED  BY <1>1, WFMin, Zenon
  <1>3. \A y \in S : <<y, x>> \in R <=> y < x
    BY Zenon DEF OpToRel
  <1>. HIDE DEF R
  <1>4. \A y \in S : ~(y < x)
    BY <1>2, <1>3, Zenon
  <1>5. x \in Nat /\ \A y \in S : y \in Nat
    OBVIOUS
  <1>6. \A y \in S : x <= y
    BY <1>4, <1>5
  <1>. QED  BY <1>6, Zenon

\* Induction up to n, for a property given as the set of the numbers that have it.
LEMMA InductionUpTo ==
    ASSUME NEW S, NEW n \in Nat, 0 \in S, \A i \in 0 .. n : i \in S /\ i < n => i + 1 \in S
    PROVE  \A i \in 0 .. n : i \in S
  <1>. SUFFICES ASSUME NEW i \in 0 .. n, i \notin S PROVE FALSE
    OBVIOUS
  <1>. DEFINE Missing == {x \in 0 .. n : x \notin S}
  <1>1. Missing \subseteq Nat /\ Missing # {}
    OBVIOUS
  <1>2. PICK x \in Missing : \A y \in Missing : x <= y
    <2>. HIDE DEF Missing
    <2>. QED  BY <1>1, LeastElement, Zenon
  <1>3. x \in 1 .. n /\ x - 1 \in 0 .. n /\ x - 1 \notin Missing
    BY <1>2
  <1>. QED  BY <1>3

-----------------------------------------------------------------------------
(* The operations of peerlist_manager.                                     *)

\* The list v is what a trim leaves of w: no entry that is gone was newer.
Trimmed(w, v) ==
    /\ DOMAIN v \subseteq DOMAIN w
    /\ \A a \in DOMAIN v : v[a] = w[a]
    /\ \A a \in DOMAIN w \ DOMAIN v : \A b \in DOMAIN v : w[a].seen <= v[b].seen

\* The loop of trim_white_peerlist and trim_gray_peerlist erases the oldest.
LEMMA TrimIs ==
    ASSUME NEW list, NEW max, NEW v \in Trim(list, max)
    PROVE  Trimmed(list, v)
  <1>1. PICK kept \in SUBSET DOMAIN list :
            /\ v = [a \in kept |-> list[a]]
            /\ \A a \in kept, b \in DOMAIN list \ kept : list[b].seen <= list[a].seen
    BY Zenon DEF Trim
  <1>2. DOMAIN v = kept /\ \A a \in kept : v[a] = list[a]
    BY <1>1
  <1>. QED  BY <1>1, <1>2 DEF Trimmed

\* What one trim leaves of what another left is what a trim leaves.
LEMMA TrimmedTwice ==
    ASSUME NEW w, NEW v, NEW u, NEW t, Timed(w, t), Trimmed(w, v), Trimmed(v, u)
    PROVE  Trimmed(w, u)
  <1>1. DOMAIN u \subseteq DOMAIN w /\ \A a \in DOMAIN u : u[a] = w[a]
    BY Zenon DEF Trimmed
  <1>2. ASSUME NEW a \in DOMAIN w \ DOMAIN u, NEW b \in DOMAIN u
        PROVE  w[a].seen <= u[b].seen
    <2>1. CASE a \in DOMAIN v
      <3>1. v[a] = w[a] /\ v[a].seen <= u[b].seen
        BY <2>1 DEF Trimmed
      <3>. QED  BY <3>1
    <2>2. CASE a \notin DOMAIN v
      <3>1. b \in DOMAIN v /\ u[b] = v[b] /\ w[a].seen <= v[b].seen
        BY <2>2 DEF Trimmed
      <3>. QED  BY <3>1
    <2>. QED  BY <2>1, <2>2
  <1>. QED  BY <1>1, <1>2 DEF Trimmed

\* trim_gray_peerlist takes entries from the white list and no others.
LEMMA TrimGray ==
    ASSUME NEW book, NEW t, SoundBook(book, t), NEW p \in trim_gray_peerlist(book)
    PROVE  SoundBook(p, t) /\ Trimmed(book.white, p.white)
  <1>1. PICK w \in Trim(book.white, WhiteLimit) : p = [book EXCEPT !.white = w]
    BY Zenon DEF trim_gray_peerlist
  <1>2. p = [white |-> w, gray |-> book.gray]
    BY <1>1 DEF SoundBook
  <1>3. p.white = w /\ p.gray = book.gray /\ p = [white |-> p.white, gray |-> p.gray]
    BY <1>2
  <1>4. Trimmed(book.white, w)
    BY TrimIs, Zenon
  <1>5. IsFiniteSet(DOMAIN w)
    BY <1>4, FS_Subset DEF Trimmed, SoundBook
  <1>6. Timed(w, t)
    BY <1>4 DEF Trimmed, SoundBook, Timed
  <1>7. DOMAIN w \cap DOMAIN book.gray = {}
    BY <1>4 DEF Trimmed, SoundBook
  <1>. QED  BY <1>3, <1>4, <1>5, <1>6, <1>7 DEF SoundBook

\* trim_white_peerlist takes entries from the gray list and no others.
LEMMA TrimWhite ==
    ASSUME NEW book, book = [white |-> book.white, gray |-> book.gray],
           NEW p \in trim_white_peerlist(book)
    PROVE  /\ p = [white |-> p.white, gray |-> p.gray] /\ p.white = book.white
           /\ Trimmed(book.gray, p.gray)
  <1>1. PICK g \in Trim(book.gray, GrayLimit) : p = [book EXCEPT !.gray = g]
    BY Zenon DEF trim_white_peerlist
  <1>2. p = [white |-> book.white, gray |-> g]
    BY <1>1
  <1>3. p.white = book.white /\ p.gray = g /\ p = [white |-> p.white, gray |-> p.gray]
    BY <1>2
  <1>4. Trimmed(book.gray, g)
    BY TrimIs, Zenon
  <1>. QED  BY <1>3, <1>4

\* append_with_peer_gray keeps the lists sound, and only trims the white one.
LEMMA AppendGray ==
    ASSUME NEW book, NEW t, SoundBook(book, t), NEW a, NEW entry,
           entry.seen \in Int, entry.seen <= t, NEW p \in append_with_peer_gray(book, a, entry)
    PROVE  SoundBook(p, t) /\ Trimmed(book.white, p.white)
  <1>0. Trimmed(book.white, book.white)
    BY DEF Trimmed
  <1>1. CASE p = book
    BY <1>0, <1>1
  <1>. DEFINE stored == [book EXCEPT !.gray = Put(@, a, entry)]
  <1>2. CASE a \notin DOMAIN book.white /\ (p = stored \/ p \in trim_gray_peerlist(stored))
    <2>1. stored = [white |-> book.white, gray |-> Put(book.gray, a, entry)]
      BY DEF SoundBook
    <2>2. /\ stored.white = book.white /\ stored.gray = Put(book.gray, a, entry)
          /\ stored = [white |-> stored.white, gray |-> stored.gray]
      BY <2>1
    <2>. HIDE DEF stored
    <2>3. /\ DOMAIN stored.gray = DOMAIN book.gray \cup {a}
          /\ \A x \in DOMAIN stored.gray : stored.gray[x] = IF x = a THEN entry ELSE book.gray[x]
      BY <2>2 DEF Put
    <2>4. Timed(stored.gray, t)
      BY <2>3 DEF Timed, SoundBook
    <2>5. DOMAIN stored.white \cap DOMAIN stored.gray = {}
      BY <1>2, <2>2, <2>3 DEF SoundBook
    <2>6. SoundBook(stored, t)
      BY <2>2, <2>4, <2>5 DEF SoundBook
    <2>7. CASE p = stored
      BY <1>0, <2>2, <2>6, <2>7
    <2>8. CASE p \in trim_gray_peerlist(stored)
      BY <2>2, <2>6, <2>8, TrimGray
    <2>. QED  BY <1>2, <2>7, <2>8
  <1>. QED  BY <1>1, <1>2, Zenon DEF append_with_peer_gray

\* merge_peerlist takes the entries one by one: the managers it can leave behind
\* are sound, and the white list is only trimmed.
LEMMA MergeIs ==
    ASSUME NEW book, NEW t, SoundBook(book, t), NEW outer_bs, Len(outer_bs) \in Nat,
           \A i \in 1 .. Len(outer_bs) : outer_bs[i].seen \in Int /\ outer_bs[i].seen <= t,
           NEW p \in merge_peerlist(book, outer_bs)
    PROVE  SoundBook(p, t) /\ Trimmed(book.white, p.white)
  <1>. DEFINE N == Len(outer_bs)
              Record(i) == [id |-> outer_bs[i].id, seen |-> outer_bs[i].seen]
              Step(Q, i) == UNION {append_with_peer_gray(q, outer_bs[i].adr, Record(i)) : q \in Q}
              Loop(f) == [i \in 0 .. N |-> IF i = 0 THEN {book} ELSE Step(f[i - 1], i)]
              Upto(f, m) == /\ f = [i \in 0 .. m |-> f[i]] /\ f[0] = {book}
                            /\ \A i \in 1 .. m : f[i] = Step(f[i - 1], i)
              Good(q) == SoundBook(q, t) /\ Trimmed(book.white, q.white)
  <1>0. N \in Nat
    OBVIOUS
  <1>1. ASSUME NEW q, Good(q), NEW i \in 1 .. N,
               NEW r \in append_with_peer_gray(q, outer_bs[i].adr, Record(i))
        PROVE  Good(r)
    <2>1. Record(i).seen \in Int /\ Record(i).seen <= t
      OBVIOUS
    <2>. HIDE DEF Record
    <2>2. SoundBook(r, t) /\ Trimmed(q.white, r.white)
      BY <1>1, <2>1, AppendGray
    <2>3. Timed(book.white, t) /\ Trimmed(book.white, q.white)
      BY <1>1 DEF SoundBook
    <2>. QED  BY <2>2, <2>3, TrimmedTwice
  <1>. HIDE DEF Record
  <1>2. \A m \in 0 .. N : \E f : Upto(f, m)
    <2>. DEFINE M == {m \in 0 .. N : \E f : Upto(f, m)}
    <2>1. 0 \in M
      <3>. DEFINE f == [i \in 0 .. 0 |-> {book}]
      <3>1. 0 \in 0 .. N /\ 1 .. 0 = {} /\ f = [i \in 0 .. 0 |-> f[i]] /\ f[0] = {book}
        BY <1>0
      <3>. HIDE DEF f, Step
      <3>2. Upto(f, 0)
        BY <3>1
      <3>. QED  BY <3>1, <3>2, Zenon
    <2>2. ASSUME NEW m \in 0 .. N, m \in M, m < N PROVE m + 1 \in M
      <3>1. PICK f : Upto(f, m)
        BY <2>2, Zenon
      <3>. DEFINE g == [i \in 0 .. (m + 1) |-> IF i = m + 1 THEN Step(f[m], m + 1) ELSE f[i]]
      <3>. HIDE DEF Step
      <3>2. g = [i \in 0 .. (m + 1) |-> g[i]] /\ g[0] = {book}
        BY <2>2, <3>1
      <3>3. ASSUME NEW i \in 1 .. (m + 1) PROVE g[i] = Step(g[i - 1], i)
        <4>1. CASE i = m + 1
          <5>1. g[i] = Step(f[m], m + 1) /\ i - 1 = m /\ g[m] = f[m]
            BY <2>2, <4>1
          <5>. QED  BY <4>1, <5>1
        <4>2. CASE i # m + 1
          <5>1. i \in 1 .. m /\ g[i] = f[i] /\ g[i - 1] = f[i - 1]
            BY <2>2, <4>2
          <5>2. f[i] = Step(f[i - 1], i)
            BY <3>1, <5>1, Zenon
          <5>. QED  BY <5>1, <5>2
        <4>. QED  BY <4>1, <4>2
      <3>. HIDE DEF g
      <3>4. Upto(g, m + 1)
        BY <3>2, <3>3, Zenon
      <3>5. m + 1 \in 0 .. N
        BY <1>0, <2>2
      <3>. QED  BY <3>4, <3>5, Zenon
    <2>. HIDE DEF M
    <2>3. \A m \in 0 .. N : m \in M
      BY <1>0, <2>1, <2>2, InductionUpTo
    <2>. QED  BY <2>3, Zenon DEF M
  <1>3. PICK f : Upto(f, N)
    <2>1. N \in 0 .. N
      BY <1>0
    <2>. HIDE DEF Upto
    <2>. QED  BY <1>2, <2>1, Zenon
  <1>4. f = Loop(f)
    <2>. HIDE DEF Step
    <2>1. ASSUME NEW i \in 0 .. N PROVE f[i] = IF i = 0 THEN {book} ELSE Step(f[i - 1], i)
      <3>1. CASE i = 0
        BY <1>3, <3>1
      <3>2. CASE i # 0
        <4>1. i \in 1 .. N
          BY <1>0, <3>2
        <4>. QED  BY <1>3, <3>2, <4>1
      <3>. QED  BY <3>1, <3>2
    <2>. QED  BY <1>3, <2>1
  <1>. DEFINE merged[i \in 0 .. N] ==
                  IF i = 0 THEN {book}
                  ELSE UNION { append_with_peer_gray(q, outer_bs[i].adr, Record(i)) : q \in merged[i - 1] }
  <1>5. merged = CHOOSE g : g = Loop(g)
    BY Zenon
  <1>6. p \in UNION { trim_gray_peerlist(q) : q \in merged[N] }
    BY Zenon DEF merge_peerlist, Record
  <1>. HIDE DEF merged
  <1>7. merged = Loop(merged)
    <2>. HIDE DEF Loop
    <2>. QED  BY <1>4, <1>5, Zenon
  <1>. DEFINE Ok == {i \in 0 .. N : \A q \in merged[i] : Good(q)}
  <1>8. \A i \in 0 .. N : i \in Ok
    <2>1. 0 \in Ok
      <3>1. 0 \in 0 .. N /\ merged[0] = {book}
        BY <1>0, <1>7
      <3>2. Good(book)
        BY DEF Trimmed
      <3>. HIDE DEF Good
      <3>. QED  BY <3>1, <3>2
    <2>2. ASSUME NEW i \in 0 .. N, i \in Ok, i < N PROVE i + 1 \in Ok
      <3>1. i + 1 \in 0 .. N /\ i + 1 \in 1 .. N /\ i + 1 # 0 /\ (i + 1) - 1 = i
        BY <1>0, <2>2
      <3>2. merged[i + 1] = Step(merged[i], i + 1)
        <4>. HIDE DEF Step
        <4>. QED  BY <1>7, <3>1
      <3>. HIDE DEF Good
      <3>3. ASSUME NEW r \in merged[i + 1] PROVE Good(r)
        <4>1. PICK q \in merged[i] : r \in append_with_peer_gray(q, outer_bs[i + 1].adr, Record(i + 1))
          BY <3>2, <3>3, Zenon
        <4>2. Good(q)
          BY <2>2
        <4>. QED  BY <1>1, <3>1, <4>1, <4>2, Zenon
      <3>. QED  BY <3>1, <3>3, Zenon
    <2>. HIDE DEF Ok
    <2>. QED  BY <1>0, <2>1, <2>2, InductionUpTo
  <1>9. PICK q \in merged[N] : p \in trim_gray_peerlist(q)
    BY <1>6, Zenon
  <1>10. Good(q)
    <2>1. N \in Ok
      BY <1>0, <1>8
    <2>. HIDE DEF Good
    <2>. QED  BY <1>9, <2>1
  <1>11. SoundBook(p, t) /\ Trimmed(q.white, p.white)
    BY <1>9, <1>10, TrimGray
  <1>12. Timed(book.white, t) /\ Trimmed(book.white, q.white)
    BY <1>10 DEF SoundBook
  <1>. QED  BY <1>11, <1>12, TrimmedTwice

\* append_with_peer_white puts the address in the white list with the time now, and
\* takes it out of the gray one; no white entry is lost, and none gets older.
LEMMA AppendWhite ==
    ASSUME NEW book, NEW t \in Int, SoundBook(book, t), NEW a, NEW entry, entry.seen = t,
           NEW p \in append_with_peer_white(book, a, entry)
    PROVE  /\ SoundBook(p, t)
           /\ \A x \in DOMAIN book.white :
                 x \in DOMAIN p.white /\ p.white[x].seen >= book.white[x].seen
  <1>0. \A x \in DOMAIN book.white : book.white[x].seen \in Int /\ book.white[x].seen <= t
    BY DEF SoundBook, Timed
  <1>1. CASE p = book
    BY <1>0, <1>1
  <1>. DEFINE stored == [book EXCEPT !.white = Put(@, a, entry)]
  <1>2. ASSUME NEW q, p = [q EXCEPT !.gray = Without(@, a)],
               q = stored \/ q \in trim_white_peerlist(stored)
        PROVE  /\ SoundBook(p, t)
               /\ \A x \in DOMAIN book.white :
                     x \in DOMAIN p.white /\ p.white[x].seen >= book.white[x].seen
    <2>1. stored = [white |-> Put(book.white, a, entry), gray |-> book.gray]
      BY DEF SoundBook
    <2>2. /\ stored.white = Put(book.white, a, entry) /\ stored.gray = book.gray
          /\ stored = [white |-> stored.white, gray |-> stored.gray]
      BY <2>1
    <2>. HIDE DEF stored
    <2>3. /\ q = [white |-> q.white, gray |-> q.gray] /\ q.white = stored.white
          /\ Trimmed(book.gray, q.gray)
      <3>1. CASE q = stored
        BY <2>2, <3>1 DEF Trimmed
      <3>2. CASE q \in trim_white_peerlist(stored)
        BY <2>2, <3>2, TrimWhite
      <3>. QED  BY <1>2, <3>1, <3>2
    <2>4. p = [white |-> q.white, gray |-> Without(q.gray, a)]
      BY <1>2, <2>3
    <2>5. /\ p.white = Put(book.white, a, entry) /\ p.gray = Without(q.gray, a)
          /\ p = [white |-> p.white, gray |-> p.gray]
      BY <2>2, <2>3, <2>4
    <2>6. /\ DOMAIN p.white = DOMAIN book.white \cup {a}
          /\ \A x \in DOMAIN p.white : p.white[x] = IF x = a THEN entry ELSE book.white[x]
      BY <2>5 DEF Put
    <2>7. /\ DOMAIN p.gray = DOMAIN q.gray \ {a}
          /\ \A x \in DOMAIN p.gray : p.gray[x] = q.gray[x]
      BY <2>5 DEF Without
    <2>8. DOMAIN q.gray \subseteq DOMAIN book.gray /\ \A x \in DOMAIN q.gray : q.gray[x] = book.gray[x]
      BY <2>3 DEF Trimmed
    <2>9. IsFiniteSet(DOMAIN p.white)
      BY <2>6, FS_AddElement DEF SoundBook
    <2>10. Timed(p.white, t)
      BY <1>0, <2>6 DEF Timed
    <2>11. Timed(p.gray, t)
      BY <2>7, <2>8 DEF Timed, SoundBook
    <2>12. DOMAIN p.white \cap DOMAIN p.gray = {}
      BY <2>6, <2>7, <2>8 DEF SoundBook
    <2>13. SoundBook(p, t)
      BY <2>5, <2>9, <2>10, <2>11, <2>12 DEF SoundBook
    <2>14. ASSUME NEW x \in DOMAIN book.white
           PROVE  x \in DOMAIN p.white /\ p.white[x].seen >= book.white[x].seen
      BY <1>0, <2>6
    <2>. QED  BY <2>13, <2>14
  <1>3. p = book \/ \E q : /\ p = [q EXCEPT !.gray = Without(@, a)]
                           /\ q = stored \/ q \in trim_white_peerlist(stored)
    BY Zenon DEF append_with_peer_white
  <1>. HIDE DEF stored
  <1>. QED  BY <1>1, <1>2, <1>3

\* What get_peerlist_head takes from a sound manager is a list of peers none of
\* which was seen after t.
LEMMA HeadIs ==
    ASSUME NEW book, NEW t, SoundBook(book, t), NEW head \in get_peerlist_head(book, HandshakeDepth)
    PROVE  SoundPeers(head, t)
  <1>. DEFINE told == [a \in {x \in DOMAIN book.white : book.white[x].seen # 0} |-> book.white[a]]
              all == Cardinality(DOMAIN told)
              n == IF all > HandshakeDepth + 2 THEN HandshakeDepth + 2 ELSE all
  <1>1. PICK s \in NewestFirst(told) :
            head = [i \in 1 .. n |-> [adr |-> s[i], id |-> told[s[i]].id, seen |-> told[s[i]].seen]]
    BY Zenon DEF get_peerlist_head
  <1>2. /\ DOMAIN told \subseteq DOMAIN book.white
        /\ \A a \in DOMAIN told : told[a].seen \in Int /\ told[a].seen <= t
    BY DEF SoundBook, Timed
  <1>3. IsFiniteSet(DOMAIN told)
    <2>. HIDE DEF told
    <2>. QED  BY <1>2, FS_Subset DEF SoundBook
  <1>. HIDE DEF told
  <1>4. all \in Nat /\ n \in Nat /\ n <= all
    BY <1>3, FS_CardinalityType, PeersAssumption
  <1>5. s \in [1 .. all -> DOMAIN told]
    BY Zenon DEF NewestFirst
  <1>. HIDE DEF n, all
  <1>6. \A i \in 1 .. n : s[i] \in DOMAIN told
    BY <1>4, <1>5
  <1>. DEFINE Told(i) == [adr |-> s[i], id |-> told[s[i]].id, seen |-> told[s[i]].seen]
  <1>7. \A i \in 1 .. n : head[i] = Told(i)
    BY <1>1
  <1>8. Len(head) = n /\ DOMAIN head = 1 .. n
    <2>. DEFINE R == {Told(i) : i \in 1 .. n}
    <2>1. head \in [1 .. n -> R]
      BY <1>1
    <2>. HIDE DEF R
    <2>2. head \in Seq(R)
      BY <1>4, <2>1
    <2>. QED  BY <1>4, <2>1, <2>2
  <1>9. ASSUME NEW i \in 1 .. n
        PROVE  /\ head[i] = [adr |-> head[i].adr, id |-> head[i].id, seen |-> head[i].seen]
               /\ head[i].seen \in Int /\ head[i].seen <= t
    <2>1. head[i] = [adr |-> s[i], id |-> told[s[i]].id, seen |-> told[s[i]].seen]
      BY <1>7, Zenon
    <2>2. head[i].seen = told[s[i]].seen /\ head[i].adr = s[i] /\ head[i].id = told[s[i]].id
      BY <2>1
    <2>3. head[i] = [adr |-> head[i].adr, id |-> head[i].id, seen |-> head[i].seen]
      BY <2>1, <2>2, Zenon
    <2>4. told[s[i]].seen \in Int /\ told[s[i]].seen <= t
      BY <1>2, <1>6, Zenon
    <2>. QED  BY <2>2, <2>3, <2>4, Zenon
  <1>. QED  BY <1>4, <1>8, <1>9 DEF SoundPeers

-----------------------------------------------------------------------------
(* The nodes and their clocks.                                             *)

\* What OwnSightingsKept says of one step and one node.
OwnKept(w, v) ==
    \A a \in DOMAIN w :
        IF a \in DOMAIN v THEN v[a].seen >= w[a].seen
        ELSE \A b \in DOMAIN v : v[b].seen >= w[a].seen

\* A book that was sound is sound when the clock shows more.
LEMMA LaterBook ==
    ASSUME NEW book, NEW t \in Int, NEW u \in Int, t <= u, SoundBook(book, t)
    PROVE  SoundBook(book, u)
  <1>1. ASSUME NEW list, Timed(list, t) PROVE Timed(list, u)
    BY <1>1 DEF Timed
  <1>. QED  BY <1>1 DEF SoundBook

\* A list that is trimmed gives up no entry for an older one.
LEMMA TrimmedOwn ==
    ASSUME NEW w, NEW v, NEW t, Timed(w, t), Trimmed(w, v)
    PROVE  OwnKept(w, v)
  <1>1. \A a \in DOMAIN w : w[a].seen \in Int
    BY DEF Timed
  <1>2. ASSUME NEW a \in DOMAIN w, a \in DOMAIN v PROVE v[a].seen >= w[a].seen
    BY <1>1, <1>2 DEF Trimmed
  <1>3. ASSUME NEW a \in DOMAIN w, a \notin DOMAIN v, NEW b \in DOMAIN v PROVE v[b].seen >= w[a].seen
    <2>1. w[a].seen <= v[b].seen /\ v[b] = w[b] /\ b \in DOMAIN w
      BY <1>3 DEF Trimmed
    <2>. QED  BY <1>1, <2>1
  <1>. QED  BY <1>2, <1>3 DEF OwnKept

\* A node that does nothing keeps its sightings.
LEMMA SameOwn ==
    ASSUME NEW w, NEW t, Timed(w, t)
    PROVE  OwnKept(w, w)
  BY DEF OwnKept, Timed

\* Every clock shows an integer, and none is before 0.
LEMMA Clocks ==
    ASSUME time \in Int, Start <= time, NEW n \in Nodes
    PROVE  Now(n) \in Int /\ 0 <= Now(n)
  BY ClockAssumption DEF Now

\* The nodes start with the --add-peer addresses, never seen, and no messages.
LEMMA ExchangeInitial ==
    ASSUME ExchangeInit
    PROVE  ExchangeInv
  <1>1. time \in Int /\ Start <= time /\ ~rejected
    BY ClockAssumption DEF ExchangeInit
  <1>2. DOMAIN lists = Nodes /\ DOMAIN mail = Nodes /\ \A n \in Nodes : mail[n] = NoList
    BY DEF ExchangeInit
  <1>3. ASSUME NEW n \in Nodes PROVE SoundBook(lists[n], Now(n))
    <2>. DEFINE peers == {x \in CmdPeers[n] : is_ip_allowed(x)}
                white == [a \in peers |-> [id |-> 0, seen |-> 0]]
    <2>1. lists[n] = InitialLists(n)
      BY DEF ExchangeInit
    <2>2. InitialLists(n) = [white |-> white, gray |-> << >>]
      BY DEF InitialLists, EmptyLists
    <2>3. IsFiniteSet(peers)
      <3>1. peers \subseteq CmdPeers[n] /\ IsFiniteSet(CmdPeers[n])
        BY PeersAssumption
      <3>. HIDE DEF peers
      <3>. QED  BY <3>1, FS_Subset, Zenon
    <2>. HIDE DEF peers
    <2>4. DOMAIN white = peers /\ \A a \in peers : white[a].seen = 0
      OBVIOUS
    <2>. HIDE DEF white
    <2>5. Now(n) \in Int /\ 0 <= Now(n)
      BY <1>1, Clocks
    <2>6. Timed(white, Now(n))
      BY <2>4, <2>5 DEF Timed
    <2>7. DOMAIN << >> = {}
      OBVIOUS
    <2>8. lists[n].white = white /\ lists[n].gray = << >>
      BY <2>1, <2>2
    <2>9. lists[n] = [white |-> lists[n].white, gray |-> lists[n].gray]
      BY <2>1, <2>2, <2>8
    <2>10. Timed(<< >>, Now(n)) /\ DOMAIN white \cap DOMAIN << >> = {}
      BY <2>7 DEF Timed
    <2>. QED  BY <2>3, <2>4, <2>6, <2>8, <2>9, <2>10 DEF SoundBook
  <1>. QED  BY <1>1, <1>2, <1>3 DEF ExchangeInv

\* A step changes the book of one node, keeps it sound and keeps what the node saw.
LEMMA OneBook ==
    ASSUME ExchangeInv, NEW n \in Nodes, NEW book, lists' = [lists EXCEPT ![n] = book],
           UNCHANGED time, SoundBook(book, Now(n)), OwnKept(lists[n].white, book.white)
    PROVE  /\ DOMAIN lists' = Nodes
           /\ \A m \in Nodes : SoundBook(lists'[m], Now(m)') /\ OwnKept(lists[m].white, lists'[m].white)
  <1>1. DOMAIN lists = Nodes /\ \A m \in Nodes : SoundBook(lists[m], Now(m))
    BY DEF ExchangeInv
  <1>2. \A m \in Nodes : Now(m)' = Now(m)
    BY DEF Now
  <1>3. DOMAIN lists' = Nodes /\ \A m \in Nodes : lists'[m] = IF m = n THEN book ELSE lists[m]
    BY <1>1
  <1>4. ASSUME NEW m \in Nodes
        PROVE  SoundBook(lists'[m], Now(m)') /\ OwnKept(lists[m].white, lists'[m].white)
    <2>1. OwnKept(lists[m].white, lists[m].white)
      BY <1>1, SameOwn DEF SoundBook
    <2>. QED  BY <1>1, <1>2, <1>3, <2>1
  <1>. QED  BY <1>3, <1>4

\* What a step keeps: the invariant, and what every node saw itself.
ExchangeKept ==
    ExchangeInv' /\ \A n \in Nodes : OwnKept(lists[n].white, lists'[n].white)

\* set_peer_just_seen records the time of the node's own clock.
LEMMA SeenStep ==
    ASSUME ExchangeInv, NEW n \in Nodes, NEW a, set_peer_just_seen(n, a)
    PROVE  ExchangeKept
  <1>. DEFINE entry == [id |-> IdOf[a], seen |-> Now(n)]
  <1>1. /\ time \in Int /\ Start <= time /\ ~rejected /\ DOMAIN mail = Nodes
        /\ SoundBook(lists[n], Now(n))
        /\ \A m \in Nodes : mail[m] = NoList \/ SoundMail(mail[m])
    BY DEF ExchangeInv
  <1>2. UNCHANGED <<mail, rejected, time>>
    BY DEF set_peer_just_seen
  <1>3. PICK book \in append_with_peer_white(lists[n], a, entry) : lists' = [lists EXCEPT ![n] = book]
    BY Zenon DEF set_peer_just_seen
  <1>4. entry.seen = Now(n) /\ Now(n) \in Int
    BY <1>1, Clocks
  <1>. HIDE DEF entry
  <1>5. /\ SoundBook(book, Now(n))
        /\ \A x \in DOMAIN lists[n].white :
              x \in DOMAIN book.white /\ book.white[x].seen >= lists[n].white[x].seen
    BY <1>1, <1>3, <1>4, AppendWhite
  <1>6. OwnKept(lists[n].white, book.white)
    BY <1>5 DEF OwnKept
  <1>7. /\ DOMAIN lists' = Nodes
        /\ \A m \in Nodes : SoundBook(lists'[m], Now(m)') /\ OwnKept(lists[m].white, lists'[m].white)
    BY <1>2, <1>3, <1>5, <1>6, OneBook
  <1>. QED  BY <1>1, <1>2, <1>7 DEF ExchangeKept, ExchangeInv

\* handle_timed_sync sends times that are not after the sender's own clock.
LEMMA SyncStep ==
    ASSUME ExchangeInv, NEW from \in Nodes, NEW to \in Nodes, handle_timed_sync(from, to)
    PROVE  ExchangeKept
  <1>1. /\ time \in Int /\ Start <= time /\ ~rejected /\ DOMAIN mail = Nodes /\ DOMAIN lists = Nodes
        /\ \A m \in Nodes : SoundBook(lists[m], Now(m))
        /\ \A m \in Nodes : mail[m] = NoList \/ SoundMail(mail[m])
    BY DEF ExchangeInv
  <1>2. UNCHANGED <<lists, rejected, time>>
    BY DEF handle_timed_sync
  <1>3. PICK head \in get_peerlist_head(lists[from], HandshakeDepth) :
            mail' = [mail EXCEPT ![to] = [peers |-> head, local_time |-> Now(from)]]
    BY Zenon DEF handle_timed_sync
  <1>4. SoundPeers(head, Now(from)) /\ Now(from) \in Int
    BY <1>1, <1>3, HeadIs, Clocks
  <1>. DEFINE sent == [peers |-> head, local_time |-> Now(from)]
  <1>5. SoundMail(sent)
    BY <1>4 DEF SoundMail
  <1>. HIDE DEF sent
  <1>6. DOMAIN mail' = Nodes /\ \A m \in Nodes : mail'[m] = IF m = to THEN sent ELSE mail[m]
    BY <1>1, <1>3 DEF sent
  <1>7. \A m \in Nodes : mail'[m] = NoList \/ SoundMail(mail'[m])
    BY <1>1, <1>5, <1>6
  <1>8. \A m \in Nodes : Now(m)' = Now(m)
    BY <1>2 DEF Now
  <1>9. \A m \in Nodes : SoundBook(lists'[m], Now(m)') /\ OwnKept(lists[m].white, lists'[m].white)
    <2>1. \A m \in Nodes : OwnKept(lists[m].white, lists[m].white)
      BY <1>1, SameOwn DEF SoundBook
    <2>. QED  BY <1>1, <1>2, <1>8, <2>1
  <1>. QED  BY <1>1, <1>2, <1>6, <1>7, <1>9 DEF ExchangeKept, ExchangeInv

\* fix_time_delta moves times that are not after the sender's clock to times that are
\* not after ours.
LEMMA FixedTimes ==
    ASSUME NEW m, SoundMail(m), NEW now \in Int
    PROVE  LET fixed == fix_time_delta(m.peers, m.local_time, now)
           IN  /\ Len(fixed) \in Nat
               /\ \A i \in 1 .. Len(fixed) : fixed[i].seen \in Int /\ fixed[i].seen <= now
  <1>. DEFINE q == m.peers
              fixed == fix_time_delta(q, m.local_time, now)
              n == Len(q)
              Fix(i) == [q[i] EXCEPT !.seen = @ + (now - m.local_time)]
              R == {Fix(i) : i \in 1 .. n}
  <1>1. /\ m.local_time \in Int /\ n \in Nat /\ DOMAIN q = 1 .. n
        /\ \A i \in 1 .. n : /\ q[i] = [adr |-> q[i].adr, id |-> q[i].id, seen |-> q[i].seen]
                             /\ q[i].seen \in Int /\ q[i].seen <= m.local_time
    BY DEF SoundMail, SoundPeers
  <1>2. fixed = [i \in 1 .. n |-> Fix(i)]
    BY <1>1 DEF fix_time_delta
  <1>3. fixed \in [1 .. n -> R]
    BY <1>2
  <1>. HIDE DEF fixed, n
  <1>4. Len(fixed) = n
    <2>. HIDE DEF R
    <2>1. fixed \in Seq(R)
      BY <1>1, <1>3
    <2>. QED  BY <1>1, <1>3, <2>1
  <1>5. ASSUME NEW i \in 1 .. n PROVE fixed[i].seen \in Int /\ fixed[i].seen <= now
    <2>1. /\ q[i] = [adr |-> q[i].adr, id |-> q[i].id, seen |-> q[i].seen]
          /\ q[i].seen \in Int /\ q[i].seen <= m.local_time
      BY <1>1, Zenon
    <2>2. fixed[i] = Fix(i)
      BY <1>2, Zenon
    <2>. HIDE DEF q
    <2>3. Fix(i).seen = q[i].seen + (now - m.local_time)
      BY <2>1
    <2>. QED  BY <1>1, <2>1, <2>2, <2>3
  <1>. QED  BY <1>1, <1>4, <1>5 DEF fixed

\* handle_remote_peerlist never meets the refusal of fix_time_delta, and the times that
\* it merges are not after its own clock.
LEMMA RemoteStep ==
    ASSUME ExchangeInv, NEW n \in Nodes, handle_remote_peerlist(n)
    PROVE  ExchangeKept
  <1>. DEFINE m == mail[n]
  <1>1. /\ time \in Int /\ Start <= time /\ ~rejected /\ DOMAIN mail = Nodes
        /\ SoundBook(lists[n], Now(n))
        /\ \A k \in Nodes : mail[k] = NoList \/ SoundMail(mail[k])
    BY DEF ExchangeInv
  <1>2. m # NoList /\ mail' = [mail EXCEPT ![n] = NoList] /\ UNCHANGED time
    BY DEF handle_remote_peerlist
  <1>3. SoundMail(m)
    BY <1>1, <1>2
  <1>4. TimesAccepted(m.peers, m.local_time)
    BY <1>3 DEF SoundMail, SoundPeers, TimesAccepted
  <1>5. /\ UNCHANGED rejected
        /\ \E book \in merge_peerlist(lists[n], fix_time_delta(m.peers, m.local_time, Now(n))) :
              lists' = [lists EXCEPT ![n] = book]
    BY <1>4, Zenon DEF handle_remote_peerlist
  <1>. DEFINE fixed == fix_time_delta(m.peers, m.local_time, Now(n))
  <1>6. Now(n) \in Int
    BY <1>1, Clocks
  <1>7. Len(fixed) \in Nat /\ \A i \in 1 .. Len(fixed) : fixed[i].seen \in Int /\ fixed[i].seen <= Now(n)
    <2>. HIDE DEF m
    <2>. QED  BY <1>3, <1>6, FixedTimes
  <1>8. PICK book \in merge_peerlist(lists[n], fixed) : lists' = [lists EXCEPT ![n] = book]
    BY <1>5, Zenon
  <1>. HIDE DEF fixed
  <1>9. SoundBook(book, Now(n)) /\ Trimmed(lists[n].white, book.white)
    BY <1>1, <1>7, <1>8, MergeIs
  <1>10. OwnKept(lists[n].white, book.white)
    BY <1>1, <1>9, TrimmedOwn DEF SoundBook
  <1>11. /\ DOMAIN lists' = Nodes
         /\ \A k \in Nodes : SoundBook(lists'[k], Now(k)') /\ OwnKept(lists[k].white, lists'[k].white)
    BY <1>2, <1>8, <1>9, <1>10, OneBook
  <1>12. DOMAIN mail' = Nodes /\ \A k \in Nodes : mail'[k] = NoList \/ SoundMail(mail'[k])
    BY <1>1, <1>2
  <1>. QED  BY <1>1, <1>2, <1>5, <1>11, <1>12 DEF ExchangeKept, ExchangeInv

\* Time passes for all the clocks at once, and a step that changes nothing keeps all.
LEMMA TickStep ==
    ASSUME ExchangeInv, Tick \/ UNCHANGED exchange
    PROVE  ExchangeKept
  <1>1. /\ time \in Int /\ Start <= time /\ ~rejected /\ DOMAIN mail = Nodes /\ DOMAIN lists = Nodes
        /\ \A n \in Nodes : SoundBook(lists[n], Now(n))
        /\ \A n \in Nodes : mail[n] = NoList \/ SoundMail(mail[n])
    BY DEF ExchangeInv
  <1>2. UNCHANGED <<lists, mail, rejected>> /\ time' \in Int /\ time <= time' /\ Start <= time'
    BY <1>1, ClockAssumption DEF Tick, exchange
  <1>3. ASSUME NEW n \in Nodes
        PROVE  SoundBook(lists'[n], Now(n)') /\ OwnKept(lists[n].white, lists'[n].white)
    <2>1. Now(n) \in Int /\ Now(n)' \in Int /\ Now(n) <= Now(n)'
      BY <1>1, <1>2, ClockAssumption DEF Now
    <2>2. SoundBook(lists[n], Now(n)')
      BY <1>1, <2>1, LaterBook
    <2>3. OwnKept(lists[n].white, lists[n].white)
      BY <1>1, SameOwn DEF SoundBook
    <2>. QED  BY <1>2, <2>2, <2>3
  <1>. QED  BY <1>1, <1>2, <1>3 DEF ExchangeKept, ExchangeInv

\* Every step of the exchange keeps the invariant and the sightings.
LEMMA ExchangeStep ==
    ASSUME ExchangeInv, [ExchangeNext]_exchange
    PROVE  ExchangeKept
  BY SeenStep, SyncStep, RemoteStep, TickStep, Zenon DEF ExchangeNext

\* The address books of nodes whose clocks disagree are truthful: through any chain of
\* handshakes and timed syncs no node believes in a sighting later than its own clock,
\* so fix_time_delta refuses no honest list, and no address is in both lists.
THEOREM BooksStayTruthful == ExchangeSpec => []BooksTruthful
  <1>1. ExchangeInit => ExchangeInv
    BY ExchangeInitial
  <1>2. ExchangeInv /\ [ExchangeNext]_exchange => ExchangeInv'
    BY ExchangeStep DEF ExchangeKept
  <1>3. ExchangeInv => BooksTruthful
    <2>. SUFFICES ASSUME ExchangeInv PROVE BooksTruthful
      OBVIOUS
    <2>1. NoFuture
      BY DEF NoFuture, ExchangeInv, SoundBook, Timed
    <2>2. HonestListsAccepted /\ ListsDisjoint
      BY DEF HonestListsAccepted, ListsDisjoint, ExchangeInv, SoundBook
    <2>. QED  BY <2>1, <2>2 DEF BooksTruthful
  <1>. QED  BY <1>1, <1>2, <1>3, PTL DEF ExchangeSpec

\* What peers say never replaces what a node saw itself: merge_peerlist,
\* append_with_peer_white and the trims move no white last_seen backwards, and give up
\* an entry only for others seen at least as recently.
THEOREM SightingsAreKept == ExchangeSpec => OwnSightingsKept
  <1>1. ExchangeInit => ExchangeInv
    BY ExchangeInitial
  <1>2. ExchangeInv /\ [ExchangeNext]_exchange => ExchangeInv'
    BY ExchangeStep DEF ExchangeKept
  <1>3. ExchangeInv /\ [ExchangeNext]_exchange =>
            [\A n \in Nodes : \A a \in DOMAIN lists[n].white :
               IF a \in DOMAIN lists'[n].white
               THEN lists'[n].white[a].seen >= lists[n].white[a].seen
               ELSE \A b \in DOMAIN lists'[n].white : lists'[n].white[b].seen >= lists[n].white[a].seen]_exchange
    BY ExchangeStep, Zenon DEF ExchangeKept, OwnKept
  <1>. QED  BY <1>1, <1>2, <1>3, PTL DEF ExchangeSpec, OwnSightingsKept
=============================================================================
