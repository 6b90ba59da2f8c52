---------------------------- MODULE LevinProofs ----------------------------
(***************************************************************************)
(* Proof that the remote calls over a connection are answered once, with   *)
(* their own response, and that nobody uses the connection after it is     *)
(* gone, for any number of calls and every order of responses, timers,     *)
(* shutdown and release.                                                   *)
(***************************************************************************)
EXTENDS Levin, FiniteSetTheorems, SequenceTheorems, TLAPS

\* Calls are told apart from notifications; there are finitely many at a time.
Distinct ==
    /\ IsFiniteSet(Calls) /\ IsFiniteSet(Notes)
    /\ Calls \cap Notes = {} /\ None \notin Calls

\* What the four properties of Levin say together.
CallsSafe == CallbackOnce /\ OwnResponse /\ ReleasedEmpty /\ NoUseAfterFree

-----------------------------------------------------------------------------
(* The inductive invariant.                                                *)

Positions == {"idle", "locked", "sent", "refused", "done"}
TimerStates == {"none", "armed", "queued", "told", "done", "cancelled"}
Running == {"armed", "queued", "told"}

TypeInv ==
    /\ pc \in [Calls \cup Notes -> Positions] /\ timer \in [Calls -> TimerStates]
    /\ DOMAIN cbs = Calls
    /\ lock \in Calls \cup {None} /\ handling \in Calls \cup {None}
    /\ handlers \in Seq(Calls) /\ peer \in Seq(Calls) /\ answers \in Seq(Calls)
    /\ cancelling \subseteq Calls

\* A callback that was not called, or was called once with what is its own.
Told(r, c) == r = <<>> \/ \E e \in Errors \cup {c} : r = <<e>>

\* A call at p with its timer at t, results r, and h about to be called back: as
\* long as somebody is still going to call the callback, nobody has.
CallSound(p, t, r, h, c) ==
    /\ p # "done" => t = "none" /\ h # c
    /\ h = c => t = "cancelled"
    /\ Told(r, c)
    /\ (p # "done" \/ t \in {"armed", "queued"} \/ h = c) => r = <<>>

CallsInv == \A c \in Calls : CallSound(pc[c], timer[c], cbs[c], handling, c)

\* m_invoke_response_handlers_lock is with the call that is sending.
LockInv == \A c \in Calls \cup Notes : pc[c] = "sent" => c \in Calls /\ lock = c

\* Who has a reference to the connection: a call that is under way, a timer, and the
\* callback that handle_recv is about to call.
Inside(c) == pc[c] \in {"locked", "sent"}
Awaited(c) == c \in Calls /\ (timer[c] \in Running \/ handling = c)
Holders == {c \in Calls \cup Notes : Inside(c) \/ Awaited(c)}
CountInv == refs = Cardinality(Holders) /\ wait_count = refs

\* After the release no timer is armed any more, and an object that dies has no users.
EndInv ==
    /\ shut \in {"flagged", "released"} => was_shutdown
    /\ ReleasedEmpty
    /\ object # "alive" => Holders = {} /\ ~reading

\* The requests without an answer that was handled are those of the handlers, in the
\* same order.  A handler that timed out blocks the queue for good, and from then on
\* no answer is handed over.
One(c) == IF c = None THEN <<>> ELSE <<c>>
Waiting == One(handling) \o (handlers \o One(lock))
Matching == shut # "released" /\ (handlers # <<>> => timer[Head(handlers)] = "armed")
MatchInv ==
    /\ Matching => answers \o peer = Waiting
    /\ handling # None => answers # <<>> /\ Head(answers) = handling
    /\ \A i \in 1 .. Len(handlers) : pc[handlers[i]] = "done"

LevinInv == TypeInv /\ CallsInv /\ LockInv /\ CountInv /\ EndInv /\ MatchInv

-----------------------------------------------------------------------------
(* Sequences.                                                              *)

\* A queue is its head and the rest.
LEMMA HeadAndTail ==
    ASSUME NEW S, NEW p \in Seq(S), p # <<>>
    PROVE  Head(p) \in S /\ Tail(p) \in Seq(S) /\ p = <<Head(p)>> \o Tail(p)
  <1>1. Head(p) \in S /\ Tail(p) \in Seq(S) /\ Len(Tail(p)) = Len(p) - 1
        /\ \A i \in 1 .. Len(Tail(p)) : Tail(p)[i] = p[i + 1]
    BY HeadTailProperties, Zenon
  <1>2. <<Head(p)>> \in Seq(S) /\ Len(<<Head(p)>>) = 1 /\ <<Head(p)>>[1] = p[1]
    BY <1>1
  <1>. DEFINE q == <<Head(p)>> \o Tail(p)
  <1>3. /\ q \in Seq(S) /\ Len(q) = 1 + Len(Tail(p))
        /\ \A i \in 1 .. 1 + Len(Tail(p)) :
              q[i] = IF i <= 1 THEN <<Head(p)>>[i] ELSE Tail(p)[i - 1]
    BY <1>1, <1>2, ConcatProperties
  <1>4. Len(p) \in Nat /\ Len(p) = Len(q)
    BY <1>1, <1>3, LenProperties
  <1>5. \A i \in 1 .. Len(p) : p[i] = q[i]
    BY <1>1, <1>2, <1>3, <1>4
  <1>. QED  BY <1>1, <1>3, <1>4, <1>5, SeqEqual, Zenon

\* The peer moves a request from its queue to the answers: the order stays.
LEMMA MovedOver ==
    ASSUME NEW S, NEW a \in Seq(S), NEW p \in Seq(S), p # <<>>
    PROVE  Append(a, Head(p)) \o Tail(p) = a \o p
  <1>1. Head(p) \in S /\ Tail(p) \in Seq(S) /\ p = <<Head(p)>> \o Tail(p)
    BY HeadAndTail, Zenon
  <1>2. <<Head(p)>> \in Seq(S)
    BY <1>1
  <1>3. Append(a, Head(p)) = a \o <<Head(p)>>
    BY <1>1, AppendIsConcat, Zenon
  <1>4. (a \o <<Head(p)>>) \o Tail(p) = a \o (<<Head(p)>> \o Tail(p))
    BY <1>1, <1>2, ConcatAssociative
  <1>. QED  BY <1>1, <1>3, <1>4, Zenon

\* The first result of a callback.
LEMMA FirstResult ==
    ASSUME NEW e
    PROVE  Append(<<>>, e) = <<e>>
  OBVIOUS

\* Queues of calls are joined in any grouping.
LEMMA Regrouped ==
    ASSUME NEW a \in Seq(Calls), NEW b \in Seq(Calls), NEW d \in Seq(Calls)
    PROVE  (a \o b) \o d = a \o (b \o d)
  BY ConcatAssociative

\* The first answer is taken off.
Taken(a, p, h, w) == a # <<>> /\ a \o p = <<h>> \o w => Head(a) = h /\ Tail(a) \o p = w

\* What handle_recv takes off the answers is the head of what is waited for.
LEMMA TakenOff ==
    ASSUME NEW a \in Seq(Calls), NEW p \in Seq(Calls), NEW h \in Calls, NEW w \in Seq(Calls)
    PROVE  Taken(a, p, h, w)
  <1>. SUFFICES ASSUME a # <<>>, a \o p = <<h>> \o w
                PROVE  Head(a) = h /\ Tail(a) \o p = w
    BY Zenon DEF Taken
  <1>1. Head(a) \in Calls /\ Tail(a) \in Seq(Calls) /\ a = <<Head(a)>> \o Tail(a)
    BY HeadAndTail, Zenon
  <1>2. <<Head(a)>> \in Seq(Calls) /\ <<h>> \in Seq(Calls)
    BY <1>1
  <1>3. (<<Head(a)>> \o Tail(a)) \o p = <<Head(a)>> \o (Tail(a) \o p)
    BY <1>1, <1>2, Regrouped, Zenon
  <1>4. Tail(a) \o p \in Seq(Calls)
    BY <1>1, ConcatProperties, Zenon
  <1>5. Head(a) = h
    <2>1. Len(a) \in Nat /\ Len(a) >= 1 /\ Len(p) \in Nat /\ Len(w) \in Nat
      BY EmptySeq, LenProperties
    <2>2. (a \o p)[1] = a[1]
      BY <2>1, ConcatProperties
    <2>3. (<<h>> \o w)[1] = h
      <3>1. Len(<<h>>) = 1 /\ <<h>>[1] = h
        OBVIOUS
      <3>. QED  BY <2>1, <1>2, <3>1, ConcatProperties
    <2>. QED  BY <2>2, <2>3
  <1>6. <<h>> \o (Tail(a) \o p) = <<h>> \o w
    BY <1>1, <1>3, <1>5, Zenon
  <1>7. Tail(a) \o p = w
    BY <1>2, <1>4, <1>6, ConcatSimplifications, Zenon
  <1>. QED  BY <1>5, <1>7, Zenon

\* A request is sent.
Sent(a, p, u, v, c) == a \o p = u \o (v \o <<>>) => a \o Append(p, c) = u \o (v \o <<c>>)

\* The request that async_invoke sends is the last one without an answer.
LEMMA SentLast ==
    ASSUME NEW a \in Seq(Calls), NEW p \in Seq(Calls), NEW u \in Seq(Calls),
           NEW v \in Seq(Calls), NEW c \in Calls
    PROVE  Sent(a, p, u, v, c)
  <1>. SUFFICES ASSUME a \o p = u \o (v \o <<>>)
                PROVE  a \o Append(p, c) = u \o (v \o <<c>>)
    BY Zenon DEF Sent
  <1>1. <<c>> \in Seq(Calls) /\ v \o <<>> = v
    BY ConcatEmptySeq
  <1>2. Append(p, c) = p \o <<c>>
    BY AppendIsConcat, Zenon
  <1>3. (a \o p) \o <<c>> = a \o (p \o <<c>>)
    BY <1>1, Regrouped, Zenon
  <1>4. (u \o v) \o <<c>> = u \o (v \o <<c>>)
    BY <1>1, Regrouped, Zenon
  <1>. QED  BY <1>1, <1>2, <1>3, <1>4, Zenon

\* add_invoke_response_handler puts a handler last.
LEMMA QueuedLast ==
    ASSUME NEW q \in Seq(Calls), NEW c \in Calls
    PROVE  /\ Append(q, c) \in Seq(Calls) /\ Append(q, c) # <<>>
           /\ Append(q, c) \o <<>> = q \o <<c>>
           /\ Head(Append(q, c)) = IF q = <<>> THEN c ELSE Head(q)
           /\ \A i \in 1 .. Len(Append(q, c)) :
                 Append(q, c)[i] = c \/ \E j \in 1 .. Len(q) : Append(q, c)[i] = q[j]
  <1>1. /\ Append(q, c) \in Seq(Calls) /\ Append(q, c) # <<>>
        /\ Len(Append(q, c)) = Len(q) + 1 /\ Len(q) \in Nat
        /\ \A i \in 1 .. Len(q) : Append(q, c)[i] = q[i]
        /\ Append(q, c)[Len(q) + 1] = c
    BY AppendProperties, LenProperties
  <1>2. Append(q, c) \o <<>> = Append(q, c)
    BY <1>1, ConcatEmptySeq, Zenon
  <1>3. Append(q, c) = q \o <<c>>
    BY AppendIsConcat, Zenon
  <1>4. Head(Append(q, c)) = IF q = <<>> THEN c ELSE Head(q)
    BY HeadTailAppend, Zenon
  <1>5. ASSUME NEW i \in 1 .. Len(Append(q, c))
        PROVE  Append(q, c)[i] = c \/ \E j \in 1 .. Len(q) : Append(q, c)[i] = q[j]
    <2>1. i \in 1 .. Len(q) \/ i = Len(q) + 1
      BY <1>1
    <2>. QED  BY <1>1, <2>1, Zenon
  <1>. QED  BY <1>1, <1>2, <1>3, <1>4, <1>5, Zenon

-----------------------------------------------------------------------------
(* What a step of one call leaves alone.                                   *)

Others(c) ==
    \A d \in (Calls \cup Notes) \ {c} :
        /\ pc'[d] = pc[d]
        /\ d \in Calls => /\ timer'[d] = timer[d] /\ cbs'[d] = cbs[d]
                          /\ handling' = d <=> handling = d

\* The other calls stay as sound as they were.
LEMMA OneCall ==
    ASSUME CallsInv, NEW c \in Calls, Others(c),
           CallSound(pc'[c], timer'[c], cbs'[c], handling', c)
    PROVE  CallsInv'
  <1>1. ASSUME NEW d \in Calls, d # c
        PROVE  CallSound(pc'[d], timer'[d], cbs'[d], handling', d)
    <2>1. CallSound(pc[d], timer[d], cbs[d], handling, d)
      BY Zenon DEF CallsInv
    <2>2. /\ pc'[d] = pc[d] /\ timer'[d] = timer[d] /\ cbs'[d] = cbs[d]
          /\ handling' = d <=> handling = d
      BY <1>1, Zenon DEF Others
    <2>. QED  BY <2>1, <2>2, Zenon DEF CallSound
  <1>. QED  BY <1>1, Zenon DEF CallsInv

\* A step of a notification leaves the calls alone.
LEMMA NoCall ==
    ASSUME CallsInv, NEW n, n \notin Calls, Others(n)
    PROVE  CallsInv'
  <1>1. ASSUME NEW d \in Calls
        PROVE  CallSound(pc'[d], timer'[d], cbs'[d], handling', d)
    <2>1. CallSound(pc[d], timer[d], cbs[d], handling, d)
      BY Zenon DEF CallsInv
    <2>2. /\ pc'[d] = pc[d] /\ timer'[d] = timer[d] /\ cbs'[d] = cbs[d]
          /\ handling' = d <=> handling = d
      BY Zenon DEF Others
    <2>. QED  BY <2>1, <2>2, Zenon DEF CallSound
  <1>. QED  BY <1>1, Zenon DEF CallsInv

\* Whether another call holds a reference does not change either.
LEMMA OtherHolders ==
    ASSUME NEW c, Others(c)
    PROVE  \A d : d # c => (d \in Holders' <=> d \in Holders)
  <1>. SUFFICES ASSUME NEW d \in Calls \cup Notes, d # c
                PROVE  (Inside(d) \/ Awaited(d))' <=> (Inside(d) \/ Awaited(d))
    BY Zenon DEF Holders
  <1>. QED  BY Zenon DEF Inside, Awaited, Others

\* The references are finitely many.
LEMMA HoldersFinite ==
    ASSUME Distinct
    PROVE  IsFiniteSet(Holders)
  <1>1. IsFiniteSet(Calls \cup Notes)
    BY FS_Union, Zenon DEF Distinct
  <1>2. Holders \subseteq Calls \cup Notes
    BY Zenon DEF Holders
  <1>. QED  BY <1>1, <1>2, FS_Subset, Zenon

\* start_outer_call counts a new reference.
LEMMA Gained ==
    ASSUME Distinct, CountInv, NEW c, Others(c), c \notin Holders, c \in Holders',
           start_outer_call
    PROVE  CountInv'
  <1>1. Holders' = Holders \cup {c}
    BY OtherHolders, Zenon
  <1>2. Cardinality(Holders \cup {c}) = Cardinality(Holders) + 1
    BY HoldersFinite, FS_AddElement, Zenon
  <1>. QED  BY <1>1, <1>2, Zenon DEF CountInv, start_outer_call

\* finish_outer_call gives one back.
LEMMA Lost ==
    ASSUME Distinct, CountInv, NEW c, Others(c), c \in Holders, c \notin Holders',
           finish_outer_call
    PROVE  CountInv' /\ Holders' \subseteq Holders
  <1>1. Holders' = Holders \ {c}
    BY OtherHolders, Zenon
  <1>2. Cardinality(Holders \ {c}) = Cardinality(Holders) - 1
    BY HoldersFinite, FS_RemoveElement, Zenon
  <1>3. CountInv'
    BY <1>1, <1>2, Zenon DEF CountInv, finish_outer_call
  <1>. QED  BY <1>1, <1>3, Zenon

\* A reference that only changes hands is not counted.
LEMMA Kept ==
    ASSUME CountInv, NEW c, Others(c), c \in Holders <=> c \in Holders',
           UNCHANGED <<refs, wait_count>>
    PROVE  CountInv' /\ Holders' = Holders
  <1>1. \A d : d \in Holders' <=> d \in Holders
    BY OtherHolders, Zenon
  <1>2. Holders' = Holders
    BY <1>1, Zenon
  <1>. QED  BY <1>2, Zenon DEF CountInv

\* No timer is armed by the step, and a call that is done stays done.
Onward ==
    \A d \in Calls : /\ timer'[d] = "armed" => timer[d] = "armed"
                     /\ pc[d] = "done" => pc'[d] = "done"

\* Then what was released stays so.
LEMMA StillReleased ==
    ASSUME TypeInv, ReleasedEmpty, handlers' = handlers, Onward,
           shut' = "released" => shut = "released"
    PROVE  ReleasedEmpty'
  <1>1. \A i \in 1 .. Len(handlers) : handlers[i] \in Calls
    BY ElementOfSeq, Zenon DEF TypeInv
  <1>. QED  BY <1>1, Zenon DEF ReleasedEmpty, Onward

\* And answers and handlers still match.
LEMMA StillMatching ==
    ASSUME TypeInv, MatchInv, Onward, shut = "released" => shut' = "released",
           UNCHANGED <<handlers, lock, handling, answers, peer>>
    PROVE  MatchInv'
  <1>1. handlers # <<>> => Head(handlers) \in Calls
    BY HeadTailProperties, Zenon DEF TypeInv
  <1>2. Matching' => Matching
    BY <1>1, Zenon DEF Matching, Onward
  <1>3. \A i \in 1 .. Len(handlers) : handlers[i] \in Calls
    BY ElementOfSeq, Zenon DEF TypeInv
  <1>. QED  BY <1>2, <1>3, Zenon DEF MatchInv, Waiting, One, Onward

-----------------------------------------------------------------------------
(* The actions.                                                            *)

\* A new connection has no calls and no references.
LEMMA LevinStart ==
    ASSUME Distinct, Init
    PROVE  LevinInv
  <1>1. TypeInv
    <2>1. pc \in [Calls \cup Notes -> Positions]
      BY Zenon DEF Init, Positions
    <2>2. timer \in [Calls -> TimerStates]
      BY Zenon DEF Init, TimerStates
    <2>3. DOMAIN cbs = Calls
      BY Zenon DEF Init
    <2>4. /\ lock \in Calls \cup {None} /\ handling \in Calls \cup {None}
          /\ handlers \in Seq(Calls) /\ peer \in Seq(Calls) /\ answers \in Seq(Calls)
          /\ cancelling \subseteq Calls
      BY DEF Init
    <2>. QED  BY <2>1, <2>2, <2>3, <2>4, Zenon DEF TypeInv
  <1>2. \A c \in Calls : pc[c] = "idle" /\ timer[c] = "none" /\ cbs[c] = <<>>
    BY Zenon DEF Init
  <1>3. \A c \in Calls \cup Notes : pc[c] = "idle" /\ handling = None
    BY Zenon DEF Init
  <1>4. CallsInv
    <2>. SUFFICES ASSUME NEW c \in Calls
                  PROVE  CallSound(pc[c], timer[c], cbs[c], handling, c)
      BY Zenon DEF CallsInv
    <2>1. handling # c
      BY <1>3, Zenon DEF Distinct
    <2>. QED  BY <1>2, <2>1, Zenon DEF CallSound, Told
  <1>5. LockInv
    BY <1>3, Zenon DEF LockInv
  <1>6. Holders = {}
    <2>1. \A c \in Calls \cup Notes : ~(Inside(c) \/ Awaited(c))
      BY <1>2, <1>3, Zenon DEF Inside, Awaited, Running, Distinct
    <2>. QED  BY <2>1, Zenon DEF Holders
  <1>7. CountInv
    BY <1>6, FS_EmptySet, Zenon DEF CountInv, Init
  <1>8. EndInv
    BY Zenon DEF EndInv, ReleasedEmpty, Init
  <1>9. MatchInv
    <2>1. handling = None /\ lock = None /\ handlers = <<>> /\ answers = <<>> /\ peer = <<>>
      BY Zenon DEF Init
    <2>2. answers \o peer = Waiting
      BY <2>1 DEF Waiting, One
    <2>3. 1 .. Len(handlers) = {}
      BY <2>1
    <2>. QED  BY <2>1, <2>2, <2>3, Zenon DEF MatchInv
  <1>. QED  BY <1>1, <1>4, <1>5, <1>7, <1>8, <1>9, Zenon DEF LevinInv

\* The steps that leave the calls and their references alone.
LEMMA QuietStep ==
    ASSUME LevinInv, UNCHANGED <<refs, wait_count, pc, timer, cbs, lock, handling>>
    PROVE  CallsInv' /\ LockInv' /\ CountInv' /\ Holders' = Holders /\ Onward
  <1>1. CallsInv' /\ LockInv'
    BY Zenon DEF LevinInv, CallsInv, LockInv
  <1>2. Holders' = Holders
    BY Zenon DEF Holders, Inside, Awaited
  <1>3. CountInv'
    BY <1>2, Zenon DEF LevinInv, CountInv
  <1>4. Onward
    BY Zenon DEF Onward
  <1>. QED  BY <1>1, <1>2, <1>3, <1>4, Zenon

\* The peer answers a request.
LEMMA PeerAnswersStep ==
    ASSUME LevinInv, peer_answers
    PROVE  LevinInv'
  <1>1. UNCHANGED <<refs, wait_count, pc, timer, cbs, lock, handling>>
        /\ UNCHANGED <<shut, was_shutdown, object, reading, handlers, cancelling>>
    BY Zenon DEF peer_answers, owner, ending, waiting
  <1>2. CallsInv' /\ LockInv' /\ CountInv' /\ Holders' = Holders /\ Onward
    BY <1>1, QuietStep, Zenon
  <1>3. Head(peer) \in Calls /\ Tail(peer) \in Seq(Calls) /\ peer # <<>>
        /\ answers \in Seq(Calls) /\ peer \in Seq(Calls)
    BY HeadAndTail, Zenon DEF LevinInv, TypeInv, peer_answers
  <1>4. answers' = Append(answers, Head(peer)) /\ peer' = Tail(peer)
    BY Zenon DEF peer_answers
  <1>5. answers' \in Seq(Calls) /\ peer' \in Seq(Calls)
    BY <1>3, <1>4, AppendProperties, Zenon
  <1>6. TypeInv'
    BY <1>1, <1>5, Zenon DEF LevinInv, TypeInv
  <1>7. EndInv'
    BY <1>1, <1>2, Zenon DEF LevinInv, EndInv, ReleasedEmpty
  <1>8. answers' \o peer' = answers \o peer
    BY <1>3, <1>4, MovedOver, Zenon
  <1>9. answers # <<>> => answers' # <<>> /\ Head(answers') = Head(answers)
    BY <1>3, <1>4, HeadTailAppend, AppendProperties
  <1>10. MatchInv'
    <2>1. Matching' <=> Matching
      BY <1>1, Zenon DEF Matching
    <2>2. Waiting' = Waiting
      BY <1>1, Zenon DEF Waiting, One
    <2>. QED  BY <1>1, <1>8, <1>9, <2>1, <2>2, Zenon DEF LevinInv, MatchInv
  <1>. QED  BY <1>2, <1>6, <1>7, <1>10, Zenon DEF LevinInv

\* Somebody asks for the end, the reading ends or the flag is set.
LEMMA EndingStep ==
    ASSUME LevinInv, close \/ read_error \/ shutdown
    PROVE  LevinInv'
  <1>1. /\ UNCHANGED <<refs, wait_count, pc, timer, cbs, lock, handling>>
        /\ UNCHANGED <<object, handlers, cancelling, peer, answers>>
    BY Zenon DEF close, read_error, shutdown, owner, waiting, network
  <1>2. CallsInv' /\ LockInv' /\ CountInv' /\ Holders' = Holders /\ Onward
    BY <1>1, QuietStep, Zenon
  <1>3. /\ shut' = "released" <=> shut = "released"
        /\ shut' \in {"flagged", "released"} => was_shutdown'
        /\ reading' => reading
    <2>1. CASE close
      <3>1. shut' = Asked /\ UNCHANGED <<was_shutdown, reading>>
        BY <2>1, Zenon DEF close, owner
      <3>. QED  BY <3>1, Zenon DEF Asked, LevinInv, EndInv
    <2>2. CASE read_error
      <3>1. shut' = Asked \/ shut' = shut
        BY <2>2, Zenon DEF read_error
      <3>2. UNCHANGED was_shutdown /\ reading' = FALSE
        BY <2>2, Zenon DEF read_error
      <3>. QED  BY <3>1, <3>2, Zenon DEF Asked, LevinInv, EndInv
    <2>3. CASE shutdown
      <3>1. shut = "asked" /\ shut' = "flagged" /\ was_shutdown' = TRUE /\ UNCHANGED reading
        BY <2>3, Zenon DEF shutdown, owner
      <3>. QED  BY <3>1, Zenon
    <2>. QED  BY <2>1, <2>2, <2>3, Zenon
  <1>4. TypeInv'
    BY <1>1, Zenon DEF LevinInv, TypeInv
  <1>5. ReleasedEmpty'
    BY <1>1, <1>2, <1>3, StillReleased, Zenon DEF LevinInv, EndInv
  <1>6. EndInv'
    BY <1>1, <1>2, <1>3, <1>5, Zenon DEF LevinInv, EndInv
  <1>7. MatchInv'
    BY <1>1, <1>2, <1>3, StillMatching, Zenon DEF LevinInv
  <1>. QED  BY <1>2, <1>4, <1>6, <1>7, Zenon DEF LevinInv

\* release_protocol takes the handlers out: nothing is matched any more.
LEMMA ReleaseStep ==
    ASSUME LevinInv, release_protocol
    PROVE  LevinInv'
  <1>1. /\ UNCHANGED <<refs, wait_count, pc, timer, cbs, lock, handling>>
        /\ UNCHANGED <<object, reading, was_shutdown, peer, answers>>
        /\ handlers' = <<>> /\ shut = "flagged" /\ shut' = "released"
        /\ cancelling' = cancelling \cup Range(handlers)
    BY Zenon DEF release_protocol, owner, network
  <1>2. CallsInv' /\ LockInv' /\ CountInv' /\ Holders' = Holders /\ Onward
    BY <1>1, QuietStep, Zenon
  <1>3. TypeInv'
    <2>1. Range(handlers) \subseteq Calls
      BY RangeOfSeq, Zenon DEF LevinInv, TypeInv
    <2>2. handlers' \in Seq(Calls)
      BY <1>1
    <2>. QED  BY <1>1, <2>1, <2>2, Zenon DEF LevinInv, TypeInv
  <1>4. was_shutdown'
    BY <1>1, Zenon DEF LevinInv, EndInv
  <1>5. ReleasedEmpty'
    BY <1>1 DEF ReleasedEmpty
  <1>6. EndInv'
    BY <1>1, <1>2, <1>4, <1>5, Zenon DEF LevinInv, EndInv
  <1>7. MatchInv'
    <2>1. 1 .. Len(handlers') = {}
      BY <1>1
    <2>. QED  BY <1>1, <2>1, Zenon DEF LevinInv, MatchInv, Matching
  <1>. QED  BY <1>2, <1>3, <1>6, <1>7, Zenon DEF LevinInv

\* The object dies when nobody refers to it, and its memory goes.
LEMMA DyingStep ==
    ASSUME Distinct, LevinInv, destructor \/ del_connection
    PROVE  LevinInv'
  <1>1. /\ UNCHANGED <<refs, wait_count, pc, timer, cbs, lock, handling>>
        /\ UNCHANGED <<reading, shut, handlers, cancelling, peer, answers>>
    BY Zenon DEF destructor, del_connection, waiting, network, ending
  <1>2. CallsInv' /\ LockInv' /\ CountInv' /\ Holders' = Holders /\ Onward
    BY <1>1, QuietStep, Zenon
  <1>3. was_shutdown => was_shutdown'
    BY Zenon DEF destructor, del_connection, ending
  <1>4. TypeInv'
    BY <1>1, Zenon DEF LevinInv, TypeInv
  <1>5. Holders = {} /\ ~reading
    <2>1. CASE destructor
      <3>1. refs = 0 /\ ~reading
        BY <2>1, Zenon DEF destructor
      <3>2. Cardinality(Holders) = 0
        BY <3>1, Zenon DEF LevinInv, CountInv
      <3>3. Holders = {}
        BY <3>2, HoldersFinite, FS_EmptySet, Zenon
      <3>. QED  BY <3>1, <3>3, Zenon
    <2>2. CASE del_connection
      <3>1. object # "alive"
        BY <2>2, Zenon DEF del_connection
      <3>. QED  BY <3>1, Zenon DEF LevinInv, EndInv
    <2>. QED  BY <2>1, <2>2, Zenon
  <1>6. ReleasedEmpty'
    BY <1>1, <1>2, StillReleased, Zenon DEF LevinInv, EndInv
  <1>7. EndInv'
    BY <1>1, <1>2, <1>3, <1>5, <1>6, Zenon DEF LevinInv, EndInv
  <1>8. MatchInv'
    BY <1>1, <1>2, StillMatching, Zenon DEF LevinInv
  <1>. QED  BY <1>2, <1>4, <1>7, <1>8, Zenon DEF LevinInv

\* A call finds the connection, or is refused: one that is shut down or dying takes
\* no new reference.
LEMMA FindStep ==
    ASSUME Distinct, LevinInv, NEW c \in Calls \cup Notes, find_and_lock_connection(c)
    PROVE  LevinInv'
  <1>1. /\ UNCHANGED <<timer, cbs, lock, handling>>
        /\ UNCHANGED <<object, reading, was_shutdown, shut, handlers, cancelling, peer, answers>>
        /\ pc[c] = "idle"
    BY Zenon DEF find_and_lock_connection, owner, ending, waiting, network
  <1>2. \/ add_ref /\ pc' = [pc EXCEPT ![c] = "locked"] /\ start_outer_call
        \/ pc' = [pc EXCEPT ![c] = "refused"] /\ UNCHANGED <<refs, wait_count>>
    BY Zenon DEF find_and_lock_connection
  <1>3. /\ pc' \in [Calls \cup Notes -> Positions]
        /\ pc'[c] \in {"locked", "refused"}
        /\ \A d \in (Calls \cup Notes) \ {c} : pc'[d] = pc[d]
    BY <1>2, Zenon DEF LevinInv, TypeInv, Positions
  <1>4. TypeInv'
    BY <1>1, <1>3, Zenon DEF LevinInv, TypeInv
  <1>5. Others(c) /\ Onward
    BY <1>1, <1>3, Zenon DEF Others, Onward
  <1>6. CallsInv'
    <2>1. CASE c \in Calls
      <3>1. CallSound(pc[c], timer[c], cbs[c], handling, c)
        BY <2>1, Zenon DEF LevinInv, CallsInv
      <3>2. CallSound(pc'[c], timer'[c], cbs'[c], handling', c)
        BY <1>1, <1>3, <3>1, Zenon DEF CallSound
      <3>. QED  BY <2>1, <1>5, <3>2, OneCall, Zenon DEF LevinInv
    <2>2. CASE c \notin Calls
      BY <2>2, <1>5, NoCall, Zenon DEF LevinInv
    <2>. QED  BY <2>1, <2>2, Zenon
  <1>7. LockInv'
    BY <1>1, <1>3, Zenon DEF LevinInv, LockInv
  <1>8. c \notin Holders
    <2>1. ~Inside(c)
      BY <1>1, Zenon DEF Inside
    <2>2. ~Awaited(c)
      <3>. SUFFICES ASSUME c \in Calls PROVE timer[c] \notin Running /\ handling # c
        BY Zenon DEF Awaited
      <3>. QED  BY <1>1, Zenon DEF LevinInv, CallsInv, CallSound, Running
    <2>. QED  BY <2>1, <2>2, Zenon DEF Holders
  <1>9. CountInv' /\ (object # "alive" => Holders' = Holders)
    <2>1. CASE add_ref /\ pc' = [pc EXCEPT ![c] = "locked"] /\ start_outer_call
      <3>1. pc'[c] = "locked"
        BY <2>1, Zenon DEF LevinInv, TypeInv
      <3>2. c \in Holders'
        BY <3>1, Zenon DEF Holders, Inside
      <3>3. CountInv'
        BY <2>1, <3>2, <1>5, <1>8, Gained, Zenon DEF LevinInv
      <3>. QED  BY <2>1, <3>3, Zenon DEF add_ref
    <2>2. CASE pc' = [pc EXCEPT ![c] = "refused"] /\ UNCHANGED <<refs, wait_count>>
      <3>1. pc'[c] = "refused"
        BY <2>2, Zenon DEF LevinInv, TypeInv
      <3>2. c \notin Holders'
        <4>1. ~Inside(c)'
          BY <3>1, Zenon DEF Inside
        <4>2. ~Awaited(c)'
          BY <1>1, <1>8, Zenon DEF Awaited, Holders
        <4>. QED  BY <4>1, <4>2, Zenon DEF Holders
      <3>3. CountInv' /\ Holders' = Holders
        BY <2>2, <3>2, <1>5, <1>8, Kept, Zenon DEF LevinInv
      <3>. QED  BY <3>3, Zenon
    <2>. QED  BY <1>2, <2>1, <2>2, Zenon
  <1>10. ReleasedEmpty'
    BY <1>1, <1>5, StillReleased, Zenon DEF LevinInv, EndInv
  <1>11. EndInv'
    BY <1>1, <1>9, <1>10, Zenon DEF LevinInv, EndInv
  <1>12. MatchInv'
    BY <1>1, <1>5, StillMatching, Zenon DEF LevinInv
  <1>. QED  BY <1>4, <1>6, <1>7, <1>9, <1>11, <1>12, Zenon DEF LevinInv

\* A notification is sent and gives its reference back.
LEMMA NotifyStep ==
    ASSUME Distinct, LevinInv, NEW n \in Notes, notify(n)
    PROVE  LevinInv'
  <1>1. /\ UNCHANGED <<timer, cbs, lock, handling>>
        /\ UNCHANGED <<object, reading, was_shutdown, shut, handlers, cancelling, peer, answers>>
        /\ pc[n] = "locked" /\ pc' = [pc EXCEPT ![n] = "done"] /\ finish_outer_call
    BY Zenon DEF notify, owner, ending, waiting, network
  <1>2. n \notin Calls
    BY Zenon DEF Distinct
  <1>3. /\ pc' \in [Calls \cup Notes -> Positions] /\ pc'[n] = "done"
        /\ \A d \in (Calls \cup Notes) \ {n} : pc'[d] = pc[d]
    BY <1>1, Zenon DEF LevinInv, TypeInv, Positions
  <1>4. TypeInv'
    BY <1>1, <1>3, Zenon DEF LevinInv, TypeInv
  <1>5. Others(n) /\ Onward
    BY <1>1, <1>3, Zenon DEF Others, Onward
  <1>6. CallsInv'
    BY <1>2, <1>5, NoCall, Zenon DEF LevinInv
  <1>7. LockInv'
    BY <1>1, <1>3, Zenon DEF LevinInv, LockInv
  <1>8. n \in Holders
    BY <1>1, Zenon DEF Holders, Inside
  <1>9. n \notin Holders'
    BY <1>2, <1>3, Zenon DEF Holders, Inside, Awaited
  <1>10. CountInv' /\ Holders' \subseteq Holders
    BY <1>1, <1>5, <1>8, <1>9, Lost, Zenon DEF LevinInv
  <1>11. ReleasedEmpty'
    BY <1>1, <1>5, StillReleased, Zenon DEF LevinInv, EndInv
  <1>12. EndInv'
    BY <1>1, <1>10, <1>11, Zenon DEF LevinInv, EndInv
  <1>13. MatchInv'
    BY <1>1, <1>5, StillMatching, Zenon DEF LevinInv
  <1>. QED  BY <1>4, <1>6, <1>7, <1>10, <1>12, <1>13, Zenon DEF LevinInv

\* A step of the timer of a call: it keeps its reference or gives it back.
LEMMA TimerStep ==
    ASSUME Distinct, LevinInv, NEW c \in Calls, TypeInv', Others(c), Onward,
           CallSound(pc'[c], timer'[c], cbs'[c], handling', c),
           UNCHANGED <<pc, lock, handling, handlers, answers, peer>>,
           UNCHANGED <<object, reading, was_shutdown>>,
           shut' = shut \/ shut' = Asked,
           \/ UNCHANGED <<refs, wait_count>> /\ (c \in Holders <=> c \in Holders')
           \/ finish_outer_call /\ c \in Holders /\ c \notin Holders'
    PROVE  LevinInv'
  <1>1. CallsInv'
    BY OneCall, Zenon DEF LevinInv
  <1>2. LockInv'
    BY Zenon DEF LevinInv, LockInv
  <1>3. CountInv' /\ Holders' \subseteq Holders
    BY Kept, Lost, Zenon DEF LevinInv
  <1>4. /\ shut = "released" <=> shut' = "released"
        /\ shut = "flagged" <=> shut' = "flagged"
    BY Zenon DEF Asked
  <1>5. ReleasedEmpty'
    BY <1>4, StillReleased, Zenon DEF LevinInv, EndInv
  <1>6. EndInv'
    <2>1. shut' \in {"flagged", "released"} => was_shutdown'
      BY <1>4, Zenon DEF LevinInv, EndInv
    <2>2. object' # "alive" => Holders' = {} /\ ~reading'
      BY <1>3, Zenon DEF LevinInv, EndInv
    <2>. QED  BY <1>5, <2>1, <2>2, Zenon DEF EndInv
  <1>7. MatchInv'
    BY <1>4, StillMatching, Zenon DEF LevinInv
  <1>. QED  BY <1>1, <1>2, <1>3, <1>6, <1>7, Zenon DEF LevinInv

\* The timer of a call expires: the reference goes to its handler.
LEMMA ExpiredStep ==
    ASSUME Distinct, LevinInv, NEW c \in Calls, expired(c)
    PROVE  LevinInv'
  <1>1. /\ UNCHANGED <<pc, lock, handling, handlers, answers, peer, cbs, cancelling>>
        /\ UNCHANGED <<object, reading, was_shutdown, shut, refs, wait_count>>
        /\ timer[c] = "armed" /\ timer' = [timer EXCEPT ![c] = "queued"]
    BY Zenon DEF expired, owner, ending, waiting, network
  <1>2. /\ timer' \in [Calls -> TimerStates] /\ timer'[c] = "queued"
        /\ \A d \in Calls \ {c} : timer'[d] = timer[d]
    BY <1>1, Zenon DEF LevinInv, TypeInv, TimerStates
  <1>3. TypeInv'
    BY <1>1, <1>2, Zenon DEF LevinInv, TypeInv
  <1>4. Others(c)
    BY <1>1, <1>2, Zenon DEF Others
  <1>5. Onward
    BY <1>1, <1>2, Zenon DEF Onward
  <1>6. CallSound(pc[c], timer[c], cbs[c], handling, c)
    BY Zenon DEF LevinInv, CallsInv
  <1>7. CallSound(pc'[c], timer'[c], cbs'[c], handling', c)
    BY <1>1, <1>2, <1>6, Zenon DEF CallSound
  <1>8. c \in Holders /\ c \in Holders'
    BY <1>1, <1>2, Zenon DEF Holders, Awaited, Running
  <1>. QED  BY <1>1, <1>3, <1>4, <1>5, <1>7, <1>8, TimerStep, Zenon

\* Its handler tells the callback, which nobody else has called or will call.
LEMMA TimeoutStep ==
    ASSUME Distinct, LevinInv, NEW c \in Calls, timeout(c)
    PROVE  LevinInv'
  <1>1. /\ UNCHANGED <<pc, lock, handling, handlers, answers, peer, cancelling>>
        /\ UNCHANGED <<object, reading, was_shutdown, shut, refs, wait_count>>
        /\ timer[c] = "queued" /\ timer' = [timer EXCEPT ![c] = "told"]
        /\ cbs' = [cbs EXCEPT ![c] = Append(@, "timed out")]
    BY Zenon DEF timeout, Tell, owner, ending, waiting, network
  <1>2. /\ timer' \in [Calls -> TimerStates] /\ timer'[c] = "told"
        /\ \A d \in Calls \ {c} : timer'[d] = timer[d]
    BY <1>1, Zenon DEF LevinInv, TypeInv, TimerStates
  <1>3. /\ DOMAIN cbs' = Calls /\ cbs'[c] = Append(cbs[c], "timed out")
        /\ \A d \in Calls \ {c} : cbs'[d] = cbs[d]
    BY <1>1, Zenon DEF LevinInv, TypeInv
  <1>4. TypeInv'
    BY <1>1, <1>2, <1>3, Zenon DEF LevinInv, TypeInv
  <1>5. Others(c)
    BY <1>1, <1>2, <1>3, Zenon DEF Others
  <1>6. Onward
    <2>1. timer'[c] # "armed"
      BY <1>2, Zenon
    <2>. QED  BY <1>1, <1>2, <2>1, Zenon DEF Onward
  <1>7. CallSound(pc[c], timer[c], cbs[c], handling, c)
    BY Zenon DEF LevinInv, CallsInv
  <1>8. cbs[c] = <<>> /\ handling # c /\ pc[c] = "done"
    BY <1>1, <1>7, Zenon DEF CallSound
  <1>9. cbs'[c] = <<"timed out">>
    BY <1>3, <1>8, FirstResult, Zenon
  <1>10. CallSound(pc'[c], timer'[c], cbs'[c], handling', c)
    BY <1>1, <1>2, <1>8, <1>9, Zenon DEF CallSound, Told, Errors
  <1>11. c \in Holders /\ c \in Holders'
    BY <1>1, <1>2, Zenon DEF Holders, Awaited, Running
  <1>. QED  BY <1>1, <1>4, <1>5, <1>6, <1>10, <1>11, TimerStep, Zenon

\* Then it closes the connection and gives its reference back.
LEMMA TimeoutCloseStep ==
    ASSUME Distinct, LevinInv, NEW c \in Calls, timeout_close(c)
    PROVE  LevinInv'
  <1>1. /\ UNCHANGED <<pc, lock, handling, handlers, answers, peer, cbs, cancelling>>
        /\ UNCHANGED <<object, reading, was_shutdown>> /\ shut' = Asked
        /\ timer[c] = "told" /\ timer' = [timer EXCEPT ![c] = "done"] /\ finish_outer_call
    BY Zenon DEF timeout_close, owner, waiting, network
  <1>2. /\ timer' \in [Calls -> TimerStates] /\ timer'[c] = "done"
        /\ \A d \in Calls \ {c} : timer'[d] = timer[d]
    BY <1>1, Zenon DEF LevinInv, TypeInv, TimerStates
  <1>3. TypeInv'
    BY <1>1, <1>2, Zenon DEF LevinInv, TypeInv
  <1>4. Others(c)
    BY <1>1, <1>2, Zenon DEF Others
  <1>5. Onward
    <2>1. timer'[c] # "armed"
      BY <1>2, Zenon
    <2>. QED  BY <1>1, <1>2, <2>1, Zenon DEF Onward
  <1>6. CallSound(pc[c], timer[c], cbs[c], handling, c)
    BY Zenon DEF LevinInv, CallsInv
  <1>7. handling # c /\ pc[c] = "done"
    BY <1>1, <1>6, Zenon DEF CallSound
  <1>8. CallSound(pc'[c], timer'[c], cbs'[c], handling', c)
    BY <1>1, <1>2, <1>6, <1>7, Zenon DEF CallSound
  <1>9. c \in Holders
    BY <1>1, Zenon DEF Holders, Awaited, Running
  <1>10. c \notin Holders'
    BY <1>1, <1>2, <1>7, Zenon DEF Holders, Inside, Awaited, Running
  <1>. QED  BY <1>1, <1>3, <1>4, <1>5, <1>8, <1>9, <1>10, TimerStep, Zenon

\* cancel tells the callback of a timer it could stop, and leaves the others alone.
LEMMA CancelStep ==
    ASSUME Distinct, LevinInv, NEW c \in Calls, cancel(c)
    PROVE  LevinInv'
  <1>1. /\ UNCHANGED <<pc, lock, handling, handlers, answers, peer>>
        /\ UNCHANGED <<object, reading, was_shutdown, shut>>
        /\ cancelling' = cancelling \ {c}
    BY Zenon DEF cancel, owner, ending, network
  <1>2. cancelling' \subseteq Calls
    BY <1>1, Zenon DEF LevinInv, TypeInv
  <1>3. CallSound(pc[c], timer[c], cbs[c], handling, c)
    BY Zenon DEF LevinInv, CallsInv
  <1>4. CASE timer[c] = "armed"
    <2>1. /\ timer' = [timer EXCEPT ![c] = "cancelled"]
          /\ cbs' = [cbs EXCEPT ![c] = Append(@, "destroyed")] /\ finish_outer_call
      BY <1>4, Zenon DEF cancel, Tell
    <2>2. /\ timer' \in [Calls -> TimerStates] /\ timer'[c] = "cancelled"
          /\ \A d \in Calls \ {c} : timer'[d] = timer[d]
      BY <2>1, Zenon DEF LevinInv, TypeInv, TimerStates
    <2>3. /\ DOMAIN cbs' = Calls /\ cbs'[c] = Append(cbs[c], "destroyed")
          /\ \A d \in Calls \ {c} : cbs'[d] = cbs[d]
      BY <2>1, Zenon DEF LevinInv, TypeInv
    <2>4. TypeInv'
      BY <1>1, <1>2, <2>2, <2>3, Zenon DEF LevinInv, TypeInv
    <2>5. Others(c)
      BY <1>1, <2>2, <2>3, Zenon DEF Others
    <2>6. Onward
      BY <1>1, <1>4, <2>2, Zenon DEF Onward
    <2>7. cbs[c] = <<>> /\ handling # c /\ pc[c] = "done"
      BY <1>3, <1>4, Zenon DEF CallSound
    <2>8. cbs'[c] = <<"destroyed">>
      BY <2>3, <2>7, FirstResult, Zenon
    <2>9. CallSound(pc'[c], timer'[c], cbs'[c], handling', c)
      BY <1>1, <2>2, <2>7, <2>8, Zenon DEF CallSound, Told, Errors
    <2>10. c \in Holders
      BY <1>4, Zenon DEF Holders, Awaited, Running
    <2>11. c \notin Holders'
      BY <1>1, <2>2, <2>7, Zenon DEF Holders, Inside, Awaited, Running
    <2>. QED  BY <1>1, <2>1, <2>4, <2>5, <2>6, <2>9, <2>10, <2>11, TimerStep, Zenon
  <1>5. CASE timer[c] # "armed"
    <2>1. UNCHANGED <<timer, cbs, refs, wait_count>>
      BY <1>5, Zenon DEF cancel
    <2>2. TypeInv'
      BY <1>1, <1>2, <2>1, Zenon DEF LevinInv, TypeInv
    <2>3. Others(c) /\ Onward
      BY <1>1, <2>1, Zenon DEF Others, Onward
    <2>4. CallSound(pc'[c], timer'[c], cbs'[c], handling', c)
      BY <1>1, <1>3, <2>1, Zenon
    <2>5. c \in Holders <=> c \in Holders'
      BY <1>1, <2>1, Zenon DEF Holders, Inside, Awaited
    <2>. QED  BY <1>1, <2>1, <2>2, <2>3, <2>4, <2>5, TimerStep, Zenon
  <1>. QED  BY <1>4, <1>5, Zenon

\* handle_recv calls the callback it took out, with the response of its own request.
LEMMA HandleStep ==
    ASSUME Distinct, LevinInv, handle
    PROVE  LevinInv'
  <1>. DEFINE h == handling
  <1>1. /\ UNCHANGED <<pc, timer, lock, handlers, peer, cancelling>>
        /\ UNCHANGED <<object, reading, was_shutdown, shut>> /\ finish_outer_call
        /\ handling # None /\ handling' = None /\ answers' = Tail(answers)
        /\ cbs' = [cbs EXCEPT ![h] = Append(@, Head(answers))]
    BY Zenon DEF handle, Tell, owner, ending
  <1>2. h \in Calls /\ handling' # h /\ \A d \in Calls : handling' # d
    BY <1>1, Zenon DEF Distinct, LevinInv, TypeInv
  <1>3. answers # <<>> /\ Head(answers) = h
    BY <1>1, Zenon DEF LevinInv, MatchInv
  <1>4. /\ DOMAIN cbs' = Calls /\ cbs'[h] = Append(cbs[h], h)
        /\ \A d \in Calls \ {h} : cbs'[d] = cbs[d]
    BY <1>1, <1>2, <1>3, Zenon DEF LevinInv, TypeInv
  <1>5. answers \in Seq(Calls) /\ peer \in Seq(Calls) /\ answers' \in Seq(Calls)
    BY <1>1, <1>3, HeadAndTail, Zenon DEF LevinInv, TypeInv
  <1>6. TypeInv'
    BY <1>1, <1>4, <1>5, Zenon DEF LevinInv, TypeInv
  <1>7. Others(h) /\ Onward
    BY <1>1, <1>2, <1>4, Zenon DEF Others, Onward
  <1>8. CallSound(pc[h], timer[h], cbs[h], handling, h)
    BY <1>2, Zenon DEF LevinInv, CallsInv
  <1>9. cbs[h] = <<>> /\ pc[h] = "done" /\ timer[h] = "cancelled"
    BY <1>8, Zenon DEF CallSound
  <1>10. cbs'[h] = <<h>>
    BY <1>4, <1>9, FirstResult, Zenon
  <1>11. CallSound(pc'[h], timer'[h], cbs'[h], handling', h)
    BY <1>1, <1>2, <1>9, <1>10, Zenon DEF CallSound, Told
  <1>12. CallsInv'
    BY <1>2, <1>7, <1>11, OneCall, Zenon DEF LevinInv
  <1>13. LockInv'
    BY <1>1, Zenon DEF LevinInv, LockInv
  <1>14. h \in Holders
    BY <1>2, Zenon DEF Holders, Awaited
  <1>15. h \notin Holders'
    BY <1>1, <1>2, <1>9, Zenon DEF Holders, Inside, Awaited, Running
  <1>16. CountInv' /\ Holders' \subseteq Holders
    BY <1>1, <1>7, <1>14, <1>15, Lost, Zenon DEF LevinInv
  <1>17. ReleasedEmpty'
    BY <1>1, <1>7, StillReleased, Zenon DEF LevinInv, EndInv
  <1>18. EndInv'
    BY <1>1, <1>16, <1>17, Zenon DEF LevinInv, EndInv
  <1>19. Matching' => answers' \o peer' = Waiting'
    <2>. SUFFICES ASSUME Matching PROVE Tail(answers) \o peer = Waiting'
      BY <1>1, Zenon DEF Matching
    <2>. DEFINE w == handlers \o One(lock)
    <2>1. w \in Seq(Calls)
      <3>1. One(lock) \in Seq(Calls) /\ handlers \in Seq(Calls)
        BY DEF One, LevinInv, TypeInv
      <3>. QED  BY <3>1, ConcatProperties, Zenon
    <2>2. answers \o peer = <<h>> \o w
      BY <1>1, Zenon DEF LevinInv, MatchInv, Waiting, One
    <2>3. Tail(answers) \o peer = w
      <3>1. h \in Calls /\ answers \in Seq(Calls) /\ peer \in Seq(Calls) /\ answers # <<>>
        BY <1>2, <1>3, <1>5, Zenon
      <3>2. Taken(answers, peer, h, w)
        <4>. HIDE DEF w, h
        <4>. QED  BY <3>1, <2>1, TakenOff, Zenon
      <3>. QED  BY <3>1, <3>2, <2>2, Zenon DEF Taken
    <2>4. Waiting' = <<>> \o w
      BY <1>1, Zenon DEF Waiting, One
    <2>5. <<>> \o w = w
      <3>. HIDE DEF w
      <3>. QED  BY <2>1, ConcatEmptySeq, Zenon
    <2>. QED  BY <2>3, <2>4, <2>5, Zenon
  <1>20. MatchInv'
    BY <1>1, <1>19, Zenon DEF LevinInv, MatchInv
  <1>. QED  BY <1>6, <1>12, <1>13, <1>16, <1>18, <1>20, Zenon DEF LevinInv

\* async_invoke sends the request and keeps the lock, or tells the callback that the
\* connection is shut down and gives its reference back.
LEMMA AsyncInvokeStep ==
    ASSUME Distinct, LevinInv, NEW c \in Calls, async_invoke(c)
    PROVE  LevinInv'
  <1>1. /\ UNCHANGED <<timer, handling, handlers, answers, cancelling>>
        /\ UNCHANGED <<object, reading, was_shutdown, shut>>
        /\ pc[c] = "locked" /\ lock = None
    BY Zenon DEF async_invoke, owner, ending
  <1>2. CallSound(pc[c], timer[c], cbs[c], handling, c)
    BY Zenon DEF LevinInv, CallsInv
  <1>3. cbs[c] = <<>> /\ handling # c /\ timer[c] = "none"
    BY <1>1, <1>2, Zenon DEF CallSound
  <1>4. \A d \in Calls \cup Notes : pc[d] # "sent"
    BY <1>1, Zenon DEF LevinInv, LockInv, Distinct
  <1>5. c \in Holders
    BY <1>1, Zenon DEF Holders, Inside
  <1>6. CASE was_shutdown
    <2>1. /\ pc' = [pc EXCEPT ![c] = "done"] /\ finish_outer_call /\ UNCHANGED <<lock, peer>>
          /\ cbs' = [cbs EXCEPT ![c] = Append(@, "connection")]
      BY <1>6, Zenon DEF async_invoke, Tell
    <2>2. /\ pc' \in [Calls \cup Notes -> Positions] /\ pc'[c] = "done"
          /\ \A d \in (Calls \cup Notes) \ {c} : pc'[d] = pc[d]
      BY <2>1, Zenon DEF LevinInv, TypeInv, Positions
    <2>3. /\ DOMAIN cbs' = Calls /\ cbs'[c] = Append(cbs[c], "connection")
          /\ \A d \in Calls \ {c} : cbs'[d] = cbs[d]
      BY <2>1, Zenon DEF LevinInv, TypeInv
    <2>4. TypeInv'
      BY <1>1, <2>1, <2>2, <2>3, Zenon DEF LevinInv, TypeInv
    <2>5. Others(c) /\ Onward
      BY <1>1, <2>2, <2>3, Zenon DEF Others, Onward
    <2>6. cbs'[c] = <<"connection">>
      BY <1>3, <2>3, FirstResult, Zenon
    <2>7. CallSound(pc'[c], timer'[c], cbs'[c], handling', c)
      BY <1>1, <1>3, <2>2, <2>6, Zenon DEF CallSound, Told, Errors
    <2>8. CallsInv'
      BY <2>5, <2>7, OneCall, Zenon DEF LevinInv
    <2>9. LockInv'
      BY <1>4, <2>2, Zenon DEF LockInv
    <2>10. c \notin Holders'
      BY <1>1, <1>3, <2>2, Zenon DEF Holders, Inside, Awaited, Running
    <2>11. CountInv' /\ Holders' \subseteq Holders
      BY <1>5, <2>1, <2>5, <2>10, Lost, Zenon DEF LevinInv
    <2>12. ReleasedEmpty'
      BY <1>1, <2>5, StillReleased, Zenon DEF LevinInv, EndInv
    <2>13. EndInv'
      BY <1>1, <2>11, <2>12, Zenon DEF LevinInv, EndInv
    <2>14. MatchInv'
      BY <1>1, <2>1, <2>5, StillMatching, Zenon DEF LevinInv
    <2>. QED  BY <2>4, <2>8, <2>9, <2>11, <2>13, <2>14, Zenon DEF LevinInv
  <1>7. CASE ~was_shutdown
    <2>1. /\ pc' = [pc EXCEPT ![c] = "sent"] /\ UNCHANGED <<refs, wait_count, cbs>>
          /\ lock' = c /\ peer' = Append(peer, c)
      BY <1>7, Zenon DEF async_invoke
    <2>2. /\ pc' \in [Calls \cup Notes -> Positions] /\ pc'[c] = "sent"
          /\ \A d \in (Calls \cup Notes) \ {c} : pc'[d] = pc[d]
      BY <2>1, Zenon DEF LevinInv, TypeInv, Positions
    <2>3. peer' \in Seq(Calls)
      BY <2>1, AppendProperties, Zenon DEF LevinInv, TypeInv
    <2>4. TypeInv'
      BY <1>1, <2>1, <2>2, <2>3, Zenon DEF LevinInv, TypeInv
    <2>5. Others(c)
      BY <1>1, <2>1, <2>2, Zenon DEF Others
    <2>6. Onward
      BY <1>1, <2>2, Zenon DEF Onward
    <2>7. CallSound(pc'[c], timer'[c], cbs'[c], handling', c)
      BY <1>1, <1>2, <1>3, <2>1, <2>2, Zenon DEF CallSound
    <2>8. CallsInv'
      BY <2>5, <2>7, OneCall, Zenon DEF LevinInv
    <2>9. LockInv'
      BY <1>4, <2>1, <2>2, Zenon DEF LockInv
    <2>10. c \in Holders'
      BY <2>2, Zenon DEF Holders, Inside
    <2>11. CountInv' /\ Holders' = Holders
      BY <1>5, <2>1, <2>5, <2>10, Kept, Zenon DEF LevinInv
    <2>12. ReleasedEmpty'
      BY <1>1, <2>6, StillReleased, Zenon DEF LevinInv, EndInv
    <2>13. EndInv'
      BY <1>1, <2>11, <2>12, Zenon DEF LevinInv, EndInv
    <2>14. Matching' => answers' \o peer' = Waiting'
      <3>. SUFFICES ASSUME Matching PROVE answers \o Append(peer, c) = Waiting'
        BY <1>1, <2>1, Zenon DEF Matching
      <3>1. One(handling) \in Seq(Calls) /\ handlers \in Seq(Calls)
            /\ answers \in Seq(Calls) /\ peer \in Seq(Calls)
        BY DEF One, LevinInv, TypeInv
      <3>2. answers \o peer = One(handling) \o (handlers \o <<>>)
        BY <1>1, Zenon DEF LevinInv, MatchInv, Waiting, One
      <3>3. c # None
        BY Zenon DEF Distinct
      <3>4. Waiting' = One(handling) \o (handlers \o <<c>>)
        BY <1>1, <2>1, <3>3, Zenon DEF Waiting, One
      <3>5. answers \o Append(peer, c) = One(handling) \o (handlers \o <<c>>)
        <4>1. Sent(answers, peer, One(handling), handlers, c)
          BY <3>1, SentLast, Zenon
        <4>. QED  BY <3>2, <4>1, Zenon DEF Sent
      <3>. QED  BY <3>4, <3>5, Zenon
    <2>15. \A i \in 1 .. Len(handlers) : handlers[i] \in Calls
      BY ElementOfSeq, Zenon DEF LevinInv, TypeInv
    <2>16. MatchInv'
      BY <1>1, <2>6, <2>14, <2>15, Zenon DEF LevinInv, MatchInv, Onward
    <2>. QED  BY <2>4, <2>8, <2>9, <2>11, <2>13, <2>16, Zenon DEF LevinInv
  <1>. QED  BY <1>6, <1>7, Zenon

\* add_invoke_response_handler queues the handler; its timer takes over the reference,
\* or the callback is told at once.
LEMMA AddHandlerStep ==
    ASSUME Distinct, LevinInv, NEW c \in Calls, add_invoke_response_handler(c)
    PROVE  LevinInv'
  <1>1. /\ UNCHANGED <<handling, answers, peer, cancelling>>
        /\ UNCHANGED <<object, reading, was_shutdown, shut>>
        /\ pc[c] = "sent" /\ pc' = [pc EXCEPT ![c] = "done"]
        /\ lock' = None /\ handlers' = Append(handlers, c)
    BY Zenon DEF add_invoke_response_handler, owner, ending, network
  <1>2. /\ lock = c /\ handlers \in Seq(Calls) /\ c # None
        /\ \A d \in (Calls \cup Notes) \ {c} : pc[d] # "sent"
    BY <1>1, Zenon DEF LevinInv, LockInv, TypeInv, Distinct
  <1>3. CallSound(pc[c], timer[c], cbs[c], handling, c)
    BY Zenon DEF LevinInv, CallsInv
  <1>4. cbs[c] = <<>> /\ handling # c /\ timer[c] = "none"
    BY <1>1, <1>3, Zenon DEF CallSound
  <1>5. c \in Holders
    BY <1>1, Zenon DEF Holders, Inside
  <1>6. /\ pc' \in [Calls \cup Notes -> Positions] /\ pc'[c] = "done"
        /\ \A d \in (Calls \cup Notes) \ {c} : pc'[d] = pc[d]
    BY <1>1, Zenon DEF LevinInv, TypeInv, Positions
  <1>7. /\ handlers' \in Seq(Calls) /\ handlers' # <<>>
        /\ handlers' \o <<>> = handlers \o <<c>>
        /\ Head(handlers') = IF handlers = <<>> THEN c ELSE Head(handlers)
        /\ \A i \in 1 .. Len(handlers') :
              handlers'[i] = c \/ \E j \in 1 .. Len(handlers) : handlers'[i] = handlers[j]
    BY <1>1, <1>2, QueuedLast, Zenon
  <1>8. LockInv'
    BY <1>2, <1>6, Zenon DEF LockInv
  <1>9. Waiting' = Waiting
    BY <1>1, <1>2, <1>7, Zenon DEF Waiting, One
  <1>10. /\ \A j \in 1 .. Len(handlers) : pc[handlers[j]] = "done" /\ handlers[j] \in Calls
         /\ handlers # <<>> => Head(handlers) \in Calls /\ Head(handlers) # c
    <2>1. \A j \in 1 .. Len(handlers) : handlers[j] \in Calls
      BY <1>2, ElementOfSeq, Zenon
    <2>2. \A j \in 1 .. Len(handlers) : pc[handlers[j]] = "done"
      BY Zenon DEF LevinInv, MatchInv
    <2>3. ASSUME handlers # <<>> PROVE Head(handlers) \in Calls /\ Head(handlers) # c
      <3>1. Head(handlers) = handlers[1] /\ 1 \in 1 .. Len(handlers)
        BY <1>2, <2>3, EmptySeq, LenProperties
      <3>2. pc[Head(handlers)] = "done" /\ Head(handlers) \in Calls
        BY <2>1, <2>2, <3>1, Zenon
      <3>. QED  BY <1>1, <3>2, Zenon
    <2>. QED  BY <2>1, <2>2, <2>3, Zenon
  <1>11. \A i \in 1 .. Len(handlers') : pc'[handlers'[i]] = "done"
    BY <1>6, <1>7, <1>10, Zenon
  <1>12. CASE add_ref
    <2>1. timer' = [timer EXCEPT ![c] = "armed"] /\ UNCHANGED <<refs, wait_count, cbs>>
      BY <1>12, Zenon DEF add_invoke_response_handler
    <2>2. /\ timer' \in [Calls -> TimerStates] /\ timer'[c] = "armed"
          /\ \A d \in Calls \ {c} : timer'[d] = timer[d]
      BY <2>1, Zenon DEF LevinInv, TypeInv, TimerStates
    <2>3. TypeInv'
      BY <1>1, <1>6, <1>7, <2>1, <2>2, Zenon DEF LevinInv, TypeInv
    <2>4. Others(c)
      BY <1>1, <1>6, <2>1, <2>2, Zenon DEF Others
    <2>5. CallSound(pc'[c], timer'[c], cbs'[c], handling', c)
      BY <1>1, <1>4, <1>6, <2>1, <2>2, Zenon DEF CallSound, Told
    <2>6. CallsInv'
      BY <2>4, <2>5, OneCall, Zenon DEF LevinInv
    <2>7. c \in Holders'
      BY <2>2, Zenon DEF Holders, Awaited, Running
    <2>8. CountInv' /\ Holders' = Holders
      BY <1>5, <2>1, <2>4, <2>7, Kept, Zenon DEF LevinInv
    <2>9. shut \notin {"flagged", "released"}
      BY <1>12, Zenon DEF add_ref, LevinInv, EndInv
    <2>10. ReleasedEmpty'
      BY <1>1, <2>9, Zenon DEF ReleasedEmpty
    <2>11. EndInv'
      BY <1>1, <2>8, <2>10, Zenon DEF LevinInv, EndInv
    <2>12. Matching' => Matching
      BY <1>1, <1>7, <1>10, <2>2, Zenon DEF Matching
    <2>13. MatchInv'
      BY <1>1, <1>9, <1>11, <2>12, Zenon DEF LevinInv, MatchInv
    <2>. QED  BY <2>3, <2>6, <1>8, <2>8, <2>11, <2>13, Zenon DEF LevinInv
  <1>13. CASE ~add_ref
    <2>1. /\ cbs' = [cbs EXCEPT ![c] = Append(@, "destroyed")]
          /\ finish_outer_call /\ UNCHANGED timer
      BY <1>13, Zenon DEF add_invoke_response_handler, Tell
    <2>2. /\ DOMAIN cbs' = Calls /\ cbs'[c] = Append(cbs[c], "destroyed")
          /\ \A d \in Calls \ {c} : cbs'[d] = cbs[d]
      BY <2>1, Zenon DEF LevinInv, TypeInv
    <2>3. TypeInv'
      BY <1>1, <1>6, <1>7, <2>1, <2>2, Zenon DEF LevinInv, TypeInv
    <2>4. Others(c)
      BY <1>1, <1>6, <2>1, <2>2, Zenon DEF Others
    <2>5. cbs'[c] = <<"destroyed">>
      BY <1>4, <2>2, FirstResult, Zenon
    <2>6. CallSound(pc'[c], timer'[c], cbs'[c], handling', c)
      BY <1>1, <1>4, <1>6, <2>1, <2>5, Zenon DEF CallSound, Told, Errors
    <2>7. CallsInv'
      BY <2>4, <2>6, OneCall, Zenon DEF LevinInv
    <2>8. c \notin Holders'
      BY <1>1, <1>4, <1>6, <2>1, Zenon DEF Holders, Inside, Awaited, Running
    <2>9. CountInv' /\ Holders' \subseteq Holders
      BY <1>5, <2>1, <2>4, <2>8, Lost, Zenon DEF LevinInv
    <2>10. timer[c] # "armed"
      BY <1>4, Zenon
    <2>11. ReleasedEmpty'
      BY <1>1, <1>7, <2>1, <2>10, Zenon DEF LevinInv, EndInv, ReleasedEmpty
    <2>12. EndInv'
      BY <1>1, <2>9, <2>11, Zenon DEF LevinInv, EndInv
    <2>13. Matching' => Matching
      BY <1>1, <1>7, <2>1, <2>10, Zenon DEF Matching
    <2>14. MatchInv'
      BY <1>1, <1>9, <1>11, <2>13, Zenon DEF LevinInv, MatchInv
    <2>. QED  BY <2>3, <2>7, <1>8, <2>9, <2>12, <2>14, Zenon DEF LevinInv
  <1>. QED  BY <1>12, <1>13, Zenon

\* handle_recv, once close() was called or when nobody waits: nothing is read any more.
LEMMA BrokenOffStep ==
    ASSUME LevinInv, handle_recv, shut' = Asked, reading' = FALSE,
           UNCHANGED <<timer, handlers, handling, answers>>
    PROVE  LevinInv'
  <1>1. /\ UNCHANGED <<refs, wait_count, pc, cbs, lock, peer, cancelling>>
        /\ UNCHANGED <<object, was_shutdown>>
    BY Zenon DEF handle_recv
  <1>2. CallsInv' /\ LockInv' /\ CountInv' /\ Holders' = Holders /\ Onward
    BY <1>1, QuietStep, Zenon
  <1>3. TypeInv'
    BY <1>1, Zenon DEF LevinInv, TypeInv
  <1>4. /\ shut = "released" <=> shut' = "released"
        /\ shut = "flagged" <=> shut' = "flagged"
    BY Zenon DEF Asked
  <1>5. ReleasedEmpty'
    BY <1>2, <1>4, StillReleased, Zenon DEF LevinInv, EndInv
  <1>6. shut' \in {"flagged", "released"} => was_shutdown'
    BY <1>1, <1>4, Zenon DEF LevinInv, EndInv
  <1>7. EndInv'
    BY <1>1, <1>2, <1>5, <1>6, Zenon DEF LevinInv, EndInv
  <1>8. MatchInv'
    BY <1>1, <1>2, <1>4, StillMatching, Zenon DEF LevinInv
  <1>. QED  BY <1>2, <1>3, <1>7, <1>8, Zenon DEF LevinInv

\* handle_recv, when the timer of the first handler can be cancelled: the answer at
\* hand is that of the first handler's own request.
LEMMA TakeHandlerStep ==
    ASSUME Distinct, LevinInv, handle_recv, handlers # <<>>, timer[Head(handlers)] = "armed",
           timer' = [timer EXCEPT ![Head(handlers)] = "cancelled"],
           handlers' = Tail(handlers), handling' = Head(handlers),
           UNCHANGED <<answers, shut, reading>>
    PROVE  LevinInv'
  <1>. DEFINE h == Head(handlers)
  <1>1. /\ UNCHANGED <<refs, wait_count, pc, cbs, lock, peer, cancelling>>
        /\ UNCHANGED <<object, was_shutdown>>
        /\ handling = None /\ lock = None /\ answers # <<>>
    BY Zenon DEF handle_recv
  <1>2. /\ handlers \in Seq(Calls) /\ answers \in Seq(Calls) /\ peer \in Seq(Calls)
        /\ h \in Calls /\ Tail(handlers) \in Seq(Calls)
        /\ handlers = <<h>> \o Tail(handlers)
    BY HeadAndTail, Zenon DEF LevinInv, TypeInv
  <1>3. /\ timer' \in [Calls -> TimerStates] /\ timer'[h] = "cancelled"
        /\ \A d \in Calls \ {h} : timer'[d] = timer[d]
    BY <1>2, Zenon DEF LevinInv, TypeInv, TimerStates
  <1>4. TypeInv'
    BY <1>1, <1>2, <1>3, Zenon DEF LevinInv, TypeInv
  <1>5. Others(h)
    BY <1>1, <1>2, <1>3, Zenon DEF Others, Distinct
  <1>6. CallSound(pc[h], timer[h], cbs[h], handling, h)
    BY <1>2, Zenon DEF LevinInv, CallsInv
  <1>7. pc[h] = "done" /\ cbs[h] = <<>>
    BY <1>6, Zenon DEF CallSound
  <1>8. CallSound(pc'[h], timer'[h], cbs'[h], handling', h)
    BY <1>1, <1>3, <1>7, Zenon DEF CallSound, Told
  <1>9. CallsInv'
    BY <1>2, <1>5, <1>8, OneCall, Zenon DEF LevinInv
  <1>10. LockInv'
    BY <1>1, Zenon DEF LevinInv, LockInv
  <1>11. h \in Holders /\ h \in Holders'
    BY <1>2, Zenon DEF Holders, Awaited, Running
  <1>12. CountInv' /\ Holders' = Holders
    BY <1>1, <1>5, <1>11, Kept, Zenon DEF LevinInv
  <1>13. h = handlers[1] /\ 1 \in 1 .. Len(handlers)
    BY <1>2, EmptySeq, LenProperties
  <1>14. shut # "released"
    BY <1>13, Zenon DEF LevinInv, EndInv, ReleasedEmpty
  <1>15. EndInv'
    <2>1. ReleasedEmpty'
      BY <1>14, Zenon DEF ReleasedEmpty
    <2>. QED  BY <1>1, <1>12, <2>1, Zenon DEF LevinInv, EndInv
  <1>16. answers \o peer = <<h>> \o Tail(handlers)
    <2>1. answers \o peer = <<>> \o (handlers \o <<>>)
      BY <1>1, <1>14, Zenon DEF LevinInv, MatchInv, Matching, Waiting, One
    <2>2. <<>> \o (handlers \o <<>>) = handlers
      BY <1>2, ConcatEmptySeq, Zenon
    <2>. QED  BY <1>2, <2>1, <2>2, Zenon
  <1>17. Head(answers) = h
    <2>1. Taken(answers, peer, h, Tail(handlers))
      <3>. HIDE DEF h
      <3>. QED  BY <1>2, TakenOff, Zenon
    <2>. QED  BY <1>1, <1>16, <2>1, Zenon DEF Taken
  <1>18. Waiting' = <<h>> \o Tail(handlers)
    <2>1. handling' # None
      BY <1>2, Zenon DEF Distinct
    <2>2. Waiting' = <<h>> \o (Tail(handlers) \o <<>>)
      BY <1>1, <2>1, Zenon DEF Waiting, One
    <2>3. Tail(handlers) \o <<>> = Tail(handlers)
      BY <1>2, ConcatEmptySeq, Zenon
    <2>. QED  BY <2>2, <2>3, Zenon
  <1>19. \A i \in 1 .. Len(handlers') : pc'[handlers'[i]] = "done"
    <2>1. \A i \in 1 .. Len(Tail(handlers)) :
             i + 1 \in 1 .. Len(handlers) /\ Tail(handlers)[i] = handlers[i + 1]
      BY <1>2, HeadTailProperties, LenProperties
    <2>2. \A i \in 1 .. Len(handlers) : pc[handlers[i]] = "done"
      BY Zenon DEF LevinInv, MatchInv
    <2>. QED  BY <1>1, <2>1, <2>2, Zenon
  <1>20. MatchInv'
    BY <1>1, <1>16, <1>17, <1>18, <1>19, Zenon DEF MatchInv
  <1>. QED  BY <1>4, <1>9, <1>10, <1>12, <1>15, <1>20, Zenon DEF LevinInv

\* handle_recv, when it cannot: the response is dropped, and none is handed over any
\* more.
LEMMA DropResponseStep ==
    ASSUME LevinInv, handle_recv, ~(handlers # <<>> /\ timer[Head(handlers)] = "armed"),
           answers' = Tail(answers), UNCHANGED <<timer, handlers, handling, shut, reading>>
    PROVE  LevinInv'
  <1>1. /\ UNCHANGED <<refs, wait_count, pc, cbs, lock, peer, cancelling>>
        /\ UNCHANGED <<object, was_shutdown>>
        /\ handling = None /\ lock = None /\ answers # <<>>
    BY Zenon DEF handle_recv
  <1>2. CallsInv' /\ LockInv' /\ CountInv' /\ Holders' = Holders /\ Onward
    BY <1>1, QuietStep, Zenon
  <1>3. answers \in Seq(Calls) /\ peer \in Seq(Calls) /\ answers' \in Seq(Calls)
    BY <1>1, HeadAndTail, Zenon DEF LevinInv, TypeInv
  <1>4. TypeInv'
    BY <1>1, <1>3, Zenon DEF LevinInv, TypeInv
  <1>5. ReleasedEmpty'
    BY <1>2, StillReleased, Zenon DEF LevinInv, EndInv
  <1>6. EndInv'
    BY <1>1, <1>2, <1>5, Zenon DEF LevinInv, EndInv
  <1>7. ~Matching
    <2>. SUFFICES ASSUME Matching PROVE FALSE
      OBVIOUS
    <2>1. handlers = <<>>
      BY Zenon DEF Matching
    <2>2. answers \o peer = <<>> \o (<<>> \o <<>>)
      BY <1>1, <2>1, Zenon DEF LevinInv, MatchInv, Waiting, One
    <2>3. answers \o peer = <<>>
      BY <2>2
    <2>. QED  BY <1>1, <1>3, <2>3, ConcatEqualIffEmpty
  <1>8. ~Matching'
    BY <1>7, Zenon DEF Matching
  <1>9. MatchInv'
    BY <1>1, <1>8, Zenon DEF LevinInv, MatchInv
  <1>. QED  BY <1>2, <1>4, <1>6, <1>9, Zenon DEF LevinInv

\* handle_recv: the three cases.
LEMMA HandleRecvStep ==
    ASSUME Distinct, LevinInv, handle_recv
    PROVE  LevinInv'
  <1>1. CASE close_called \/ (handlers = <<>> /\ wait_count = 0)
    <2>1. /\ shut' = Asked /\ reading' = FALSE
          /\ UNCHANGED <<timer, handlers, handling, answers>>
      BY <1>1, Zenon DEF handle_recv
    <2>. QED  BY <2>1, BrokenOffStep, Zenon
  <1>2. CASE /\ ~(close_called \/ (handlers = <<>> /\ wait_count = 0))
             /\ handlers # <<>> /\ timer[Head(handlers)] = "armed"
    <2>1. /\ timer' = [timer EXCEPT ![Head(handlers)] = "cancelled"]
          /\ handlers' = Tail(handlers) /\ handling' = Head(handlers)
          /\ UNCHANGED <<answers, shut, reading>>
      BY <1>2, Zenon DEF handle_recv
    <2>. QED  BY <1>2, <2>1, TakeHandlerStep, Zenon
  <1>3. CASE /\ ~(close_called \/ (handlers = <<>> /\ wait_count = 0))
             /\ ~(handlers # <<>> /\ timer[Head(handlers)] = "armed")
    <2>1. /\ answers' = Tail(answers)
          /\ UNCHANGED <<timer, handlers, handling, shut, reading>>
      BY <1>3, Zenon DEF handle_recv
    <2>. QED  BY <1>3, <2>1, DropResponseStep, Zenon
  <1>. QED  BY <1>1, <1>2, <1>3, Zenon

-----------------------------------------------------------------------------
(* The theorem.                                                            *)

\* Every step of the connection keeps the invariant.
LEMMA LevinStep ==
    ASSUME Distinct, LevinInv, [Next]_vars
    PROVE  LevinInv'
  <1>1. CASE UNCHANGED vars
    <2>1. /\ UNCHANGED <<refs, wait_count, pc, timer, cbs, lock, handling>>
          /\ UNCHANGED <<object, reading, was_shutdown, shut, handlers, cancelling>>
          /\ UNCHANGED <<peer, answers>>
      BY <1>1, Zenon DEF vars
    <2>2. CallsInv' /\ LockInv' /\ CountInv' /\ Holders' = Holders /\ Onward
      BY <2>1, QuietStep, Zenon
    <2>3. TypeInv'
      BY <2>1, Zenon DEF LevinInv, TypeInv
    <2>4. ReleasedEmpty'
      BY <2>1, <2>2, StillReleased, Zenon DEF LevinInv, EndInv
    <2>5. EndInv'
      BY <2>1, <2>2, <2>4, Zenon DEF LevinInv, EndInv
    <2>6. MatchInv'
      BY <2>1, <2>2, StillMatching, Zenon DEF LevinInv
    <2>. QED  BY <2>2, <2>3, <2>5, <2>6, Zenon DEF LevinInv
  <1>2. CASE \E c \in Calls \cup Notes : find_and_lock_connection(c)
    BY <1>2, FindStep, Zenon
  <1>3. ASSUME NEW c \in Calls, Threads(c) \/ Timers(c) \/ cancel(c)
        PROVE  LevinInv'
    BY <1>3, AsyncInvokeStep, AddHandlerStep, ExpiredStep, TimeoutStep, TimeoutCloseStep,
       CancelStep, Zenon DEF Threads, Timers
  <1>4. CASE \E n \in Notes : notify(n)
    BY <1>4, NotifyStep, Zenon
  <1>5. CASE Io
    BY <1>5, HandleRecvStep, HandleStep, EndingStep, ReleaseStep, DyingStep, Zenon DEF Io
  <1>6. CASE peer_answers \/ close \/ read_error
    BY <1>6, PeerAnswersStep, EndingStep, Zenon
  <1>. QED  BY <1>1, <1>2, <1>3, <1>4, <1>5, <1>6, Zenon DEF Next

\* The invariant says what is asked of the calls.
LEMMA LevinInvMeans ==
    ASSUME LevinInv
    PROVE  CallsSafe
  <1>1. ASSUME NEW c \in Calls
        PROVE  Len(cbs[c]) <= 1 /\ Range(cbs[c]) \subseteq Errors \cup {c}
    <2>1. Told(cbs[c], c)
      BY Zenon DEF LevinInv, CallsInv, CallSound
    <2>2. CASE cbs[c] = <<>>
      BY <2>2 DEF Range
    <2>3. ASSUME NEW e \in Errors \cup {c}, cbs[c] = <<e>>
          PROVE  Len(cbs[c]) <= 1 /\ Range(cbs[c]) \subseteq Errors \cup {c}
      <3>1. Len(<<e>>) = 1 /\ DOMAIN <<e>> = {1} /\ <<e>>[1] = e
        OBVIOUS
      <3>2. Range(<<e>>) = {e}
        BY <3>1, Zenon DEF Range
      <3>. QED  BY <2>3, <3>1, <3>2
    <2>. QED  BY <2>1, <2>2, <2>3, Zenon DEF Told
  <1>2. CallbackOnce /\ OwnResponse
    BY <1>1, Zenon DEF CallbackOnce, OwnResponse
  <1>3. ReleasedEmpty
    BY Zenon DEF LevinInv, EndInv
  <1>4. ASSUME object # "alive"
        PROVE  /\ wait_count = 0 /\ handling = None
               /\ \A c \in Calls \cup Notes : pc[c] \notin {"locked", "sent"}
               /\ \A c \in Calls : timer[c] \notin {"armed", "queued", "told"}
    <2>1. Holders = {}
      BY <1>4, Zenon DEF LevinInv, EndInv
    <2>2. \A c \in Calls \cup Notes : ~Inside(c) /\ ~Awaited(c)
      BY <2>1, Zenon DEF Holders
    <2>3. wait_count = 0
      BY <2>1, FS_EmptySet, Zenon DEF LevinInv, CountInv
    <2>4. handling = None
      BY <2>2, Zenon DEF Awaited, LevinInv, TypeInv
    <2>. QED  BY <2>2, <2>3, <2>4, Zenon DEF Inside, Awaited, Running
  <1>5. NoUseAfterFree
    BY <1>4, Zenon DEF NoUseAfterFree
  <1>. QED  BY <1>2, <1>3, <1>5, Zenon DEF CallsSafe

\* For any number of remote calls and notifications over one connection, in every order
\* of responses, timers, close, shutdown, release_protocol and destructor: a callback is
\* called at most once, with an error or the response of its own request; after
\* release_protocol no timer is left armed; and when the object dies no call, timer or
\* callback refers to it.
THEOREM CallsAreSafe ==
    ASSUME Distinct
    PROVE  Spec => []CallsSafe
  <1>1. Init => LevinInv
    BY LevinStart, Zenon
  <1>2. LevinInv /\ [Next]_vars => LevinInv'
    BY LevinStep, Zenon
  <1>3. LevinInv => CallsSafe
    BY LevinInvMeans, Zenon
  <1>. QED  BY <1>1, <1>2, <1>3, PTL DEF Spec
=============================================================================
