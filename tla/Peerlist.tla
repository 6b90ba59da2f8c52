------------------------------ MODULE Peerlist ------------------------------
(***************************************************************************)
(* The two address books of peerlist_manager (src/src/p2p/net_peerlist.h). *)
(*                                                                         *)
(* A peerlist_entry is the pair of an address and the record [id, seen]    *)
(* (peer id, last_seen); a list is a function from its addresses, which    *)
(* are unique (index by_addr), to those records.  A manager is the record  *)
(* [white, gray] of its two lists.  The by_time index orders entries with  *)
(* equal last_seen by insertion; here any of them may be the oldest, so an *)
(* operation returns the SET of the managers it can leave behind.          *)
(***************************************************************************)
EXTENDS Integers, Sequences, FiniteSets

CONSTANTS
    Addrs,          \* network addresses of the run
    Loopback,       \* those on a loopback ip
    LocalIp,        \* those on a private ip
    AllowLocalIp,   \* --allow-local-ip
    WhiteLimit,     \* P2P_LOCAL_WHITE_PEERLIST_LIMIT (1000)
    GrayLimit,      \* P2P_LOCAL_GRAY_PEERLIST_LIMIT (5000)
    HandshakeDepth  \* P2P_DEFAULT_PEERS_IN_HANDSHAKE (250)

EmptyLists == [white |-> << >>, gray |-> << >>]

Put(list, a, entry) == [x \in DOMAIN list \cup {a} |-> IF x = a THEN entry ELSE list[x]]

Without(list, a) == [x \in DOMAIN list \ {a} |-> list[x]]

\* The loop of both trim functions: erase the begin of the by_time index until
\* no more than limit entries are left.
Trim(list, limit) ==
    { [a \in kept |-> list[a]] :
        kept \in { k \in SUBSET DOMAIN list :
            /\ Cardinality(k) = IF Cardinality(DOMAIN list) > limit
                                  THEN limit ELSE Cardinality(DOMAIN list)
            /\ \A a \in k, b \in DOMAIN list \ k : list[b].seen <= list[a].seen } }

\* trim_white_peerlist works on the gray list.
trim_white_peerlist(book) == { [book EXCEPT !.gray = g] : g \in Trim(book.gray, GrayLimit) }

\* trim_gray_peerlist works on the white list.
trim_gray_peerlist(book) == { [book EXCEPT !.white = w] : w \in Trim(book.white, WhiteLimit) }

\* "never allow loopback ip", and private ones only on request.
is_ip_allowed(a) ==
    /\ a \notin Loopback
    /\ AllowLocalIp \/ a \notin LocalIp

\* A peer that was reached: insert it, or replace its record, in the white
\* list and take it out of the gray one.  Only an insertion trims.
append_with_peer_white(book, a, entry) ==
    LET stored == [book EXCEPT !.white = Put(@, a, entry)]
    IN  IF ~is_ip_allowed(a) THEN {book}
        ELSE { [p EXCEPT !.gray = Without(@, a)] :
                 p \in IF a \in DOMAIN book.white THEN {stored} ELSE trim_white_peerlist(stored) }

\* Variant: a record heard of replaces the white one.
append_with_peer_gray_replace(book, a, entry) ==
    IF ~is_ip_allowed(a) THEN {book}
    ELSE IF a \in DOMAIN book.white THEN {[book EXCEPT !.white = Put(@, a, entry)]}
    ELSE trim_gray_peerlist([book EXCEPT !.gray = Put(@, a, entry)])

\* A peer heard of: ignored when it is in the white list, otherwise inserted or
\* replaced in the gray one, whatever the two last_seen are.
append_with_peer_gray(book, a, entry) ==
    IF ~is_ip_allowed(a) \/ a \in DOMAIN book.white THEN {book}
    ELSE LET stored == [book EXCEPT !.gray = Put(@, a, entry)]
         IN  IF a \in DOMAIN book.gray THEN {stored} ELSE trim_gray_peerlist(stored)

\* The entries of a received list, a sequence of [adr, id, seen], one by one and
\* a last trim, all under m_peerlist_lock.
merge_peerlist(book, outer_bs) ==
    LET merged[i \in 0..Len(outer_bs)] ==
          IF i = 0 THEN {book}
          ELSE UNION { append_with_peer_gray(p, outer_bs[i].adr,
                                             [id |-> outer_bs[i].id, seen |-> outer_bs[i].seen]) :
                         p \in merged[i - 1] }
    IN  UNION { trim_gray_peerlist(p) : p \in merged[Len(outer_bs)] }

\* The addresses of a list in the order of the by_time index read backwards:
\* newest first.
NewestFirst(list) ==
    { s \in [1..Cardinality(DOMAIN list) -> DOMAIN list] :
        /\ \A i, j \in DOMAIN s : i # j => s[i] # s[j]
        /\ \A i, j \in DOMAIN s : i < j => list[s[i]].seen >= list[s[j]].seen }

get_white_peer_by_index(book, i) == { s[i + 1] : s \in NewestFirst(book.white) }

get_gray_peer_by_index(book, i) == { s[i + 1] : s \in NewestFirst(book.gray) }

\* What a peer is told: the newest white entries that have been seen.  The test
\* cnt++ > depth after the insertion lets depth + 2 of them pass.
get_peerlist_head(book, depth) ==
    LET seen == [a \in {x \in DOMAIN book.white : book.white[x].seen # 0} |-> book.white[a]]
        all == Cardinality(DOMAIN seen)
    IN  { [i \in 1 .. (IF all > depth + 2 THEN depth + 2 ELSE all) |->
              [adr |-> s[i], id |-> seen[s[i]].id, seen |-> seen[s[i]].seen]] :
            s \in NewestFirst(seen) }

\* fix_time_delta accepts a list when no entry is newer than the sender's clock.
TimesAccepted(peerlist, local_time) ==
    \A i \in DOMAIN peerlist : peerlist[i].seen <= local_time

\* Variant: the times are moved the wrong way.
fix_time_delta_swapped(peerlist, local_time, now) ==
    [i \in DOMAIN peerlist |-> [peerlist[i] EXCEPT !.seen = @ + (local_time - now)]]

\* ... and moves its times from the sender's clock to ours.
fix_time_delta(peerlist, local_time, now) ==
    [i \in DOMAIN peerlist |-> [peerlist[i] EXCEPT !.seen = @ + (now - local_time)]]
=============================================================================
