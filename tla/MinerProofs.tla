----------------------------- MODULE MinerProofs -----------------------------
(***************************************************************************)
(* Proof that the miner's pauses and workers are accounted for, for any    *)
(* number of workers, addresses and blocks.                                *)
(***************************************************************************)
EXTENDS Miner, FiniteSetTheorems, TLAPS

Labels == {"idle", "build", "set", "start", "spawn", "stop", "join", "block", "update",
           "resume", "loop", "ver", "hash", "inc", "pause", "add", "look", "relay",
           "dec_read", "dec"}
Returns == {"idle", "spawn", "resume"}

(* Pausing by the label of a thread and where its template call returns.   *)
PausingAt(l, r) == l \in {"block", "add", "update", "resume"} \/ (l \in {"build", "set"} /\ r = "resume")
Pausers == {a \in Actors : Pausing(a)}

(* Between start_locked and start_spawn the thread holds m_threads_lock,   *)
(* through the request for the first template.                             *)
SpawningAt(l, r) == l = "spawn" \/ (l \in {"build", "set"} /\ r = "spawn")
Spawning(a) == SpawningAt(pc[a], ret[a])

(* m_threads_lock is with the thread that is in start() or stop(), and     *)
(* start() has found no threads when it goes on to create some.            *)
LockInv ==
  /\ \A a \in Actors : Spawning(a) => m_threads_lock = a /\ m_threads = {}
  /\ \A a \in Actors : pc[a] = "join" => m_threads_lock = a

MinerTypeInv ==
  /\ pc \in [Actors -> Labels] /\ ret \in [Actors -> Returns]
  /\ m_pausers_count \in Nat

MinerInv == MinerTypeInv /\ LockInv /\ WorkersAccounted

\* The threads of the node that call the miner are finitely many.
LEMMA ActorsFinite == IsFiniteSet(Actors)
  <1>1. IsFiniteSet({"rpc", "p2p", "idle"})
    <2>1. IsFiniteSet({"rpc"})
      BY FS_Singleton
    <2>2. IsFiniteSet({"rpc"} \cup {"p2p"})
      BY <2>1, FS_AddElement
    <2>3. IsFiniteSet(({"rpc"} \cup {"p2p"}) \cup {"idle"})
      BY <2>2, FS_AddElement
    <2>4. ({"rpc"} \cup {"p2p"}) \cup {"idle"} = {"rpc", "p2p", "idle"}
      OBVIOUS
    <2>. QED  BY <2>3, <2>4
  <1>. QED  BY <1>1, FS_Union, MinerAssumption DEF Actors

\* So are those that are inside a pause, which m_pausers_count counts.
LEMMA PausersFinite == IsFiniteSet(Pausers)
  BY ActorsFinite, FS_Subset DEF Pausers

\* Whether a thread is inside a pause depends on where it stands.
LEMMA PausingByLabel == \A a : Pausing(a) <=> PausingAt(pc[a], ret[a])
  BY DEF Pausing, PausingAt

\* The miner starts with no thread and no pause.
LEMMA MinerStart == MinerInit => MinerInv
  <1> SUFFICES ASSUME MinerInit PROVE MinerInv
    OBVIOUS
  <1>1. \A a \in Actors : pc[a] = "idle" /\ ret[a] = "idle"
    BY DEF MinerInit
  <1>2. MinerTypeInv
    BY DEF MinerInit, MinerTypeInv, Labels, Returns
  <1>3. LockInv
    BY <1>1 DEF LockInv, Spawning, SpawningAt
  <1>4. Pausers = {}
    BY <1>1 DEF Pausers, Pausing
  <1>5. PausesBalanced
    BY <1>4, FS_EmptySet DEF MinerInit, PausesBalanced, Pausers
  <1>6. NoStrayWorker
    BY <1>1 DEF NoStrayWorker, Actors
  <1>. QED  BY <1>2, <1>3, <1>5, <1>6 DEF MinerInv, WorkersAccounted

-----------------------------------------------------------------------------
(* One thread moves to another label.                                      *)
Moves(a, l, r) ==
  /\ pc' = [pc EXCEPT ![a] = l] /\ ret' = [ret EXCEPT ![a] = r]

\* A step of one thread leaves the others where they are.
LEMMA MoveOthers ==
    ASSUME MinerTypeInv, NEW a \in Actors, NEW l \in Labels, NEW r \in Returns, Moves(a, l, r)
    PROVE  /\ pc' \in [Actors -> Labels] /\ ret' \in [Actors -> Returns]
           /\ pc'[a] = l /\ ret'[a] = r
           /\ \A x \in Actors \ {a} : pc'[x] = pc[x] /\ ret'[x] = ret[x]
  BY DEF MinerTypeInv, Moves

(* m_pausers_count follows a thread into and out of its pause.             *)
LEMMA MoveCounts ==
    ASSUME MinerInv, NEW a \in Actors, NEW l \in Labels, NEW r \in Returns, Moves(a, l, r),
           m_pausers_count' = CASE PausingAt(l, r) /\ ~Pausing(a) -> m_pausers_count + 1
                                [] ~PausingAt(l, r) /\ Pausing(a) -> m_pausers_count - 1
                                [] OTHER -> m_pausers_count
    PROVE  PausesBalanced' /\ m_pausers_count' \in Nat
  <1>1. m_pausers_count = Cardinality(Pausers) /\ IsFiniteSet(Pausers)
    BY PausersFinite DEF MinerInv, WorkersAccounted, PausesBalanced, Pausers
  <1>2. \A x \in Actors \ {a} : Pausing(x)' <=> Pausing(x)
    BY MoveOthers DEF MinerInv, Pausing
  <1>3. Pausing(a)' <=> PausingAt(l, r)
    BY MoveOthers DEF MinerInv, Pausing, PausingAt
  <1>4. CASE PausingAt(l, r) /\ ~Pausing(a)
    <2>1. Pausers' = Pausers \cup {a} /\ a \notin Pausers
      BY <1>2, <1>3, <1>4 DEF Pausers
    <2>2. Cardinality(Pausers') = Cardinality(Pausers) + 1 /\ m_pausers_count' = m_pausers_count + 1
      BY <1>1, <1>4, <2>1, FS_AddElement
    <2>. QED  BY <1>1, <2>2 DEF MinerInv, MinerTypeInv, PausesBalanced, Pausers
  <1>5. CASE ~PausingAt(l, r) /\ Pausing(a)
    <2>1. Pausers' = Pausers \ {a} /\ a \in Pausers
      BY <1>2, <1>3, <1>5 DEF Pausers
    <2>2. Cardinality(Pausers') = Cardinality(Pausers) - 1 /\ m_pausers_count' = m_pausers_count - 1
      BY <1>1, <1>5, <2>1, FS_RemoveElement
    <2>3. Cardinality(Pausers') \in Nat
      BY <1>1, <2>1, FS_RemoveElement, FS_CardinalityType
    <2>. QED  BY <1>1, <2>2, <2>3 DEF PausesBalanced, Pausers
  <1>6. CASE PausingAt(l, r) <=> Pausing(a)
    <2>1. Pausers' = Pausers
      BY <1>2, <1>3, <1>6 DEF Pausers
    <2>2. m_pausers_count' = m_pausers_count
      BY <1>6
    <2>. QED  BY <1>1, <2>1, <2>2 DEF MinerInv, MinerTypeInv, PausesBalanced, Pausers
  <1>. QED  BY <1>4, <1>5, <1>6

(* A step of one thread that leaves m_threads and its lock alone.          *)
LEMMA MoveKeeps ==
    ASSUME MinerInv, NEW a \in Actors, NEW l \in Labels, NEW r \in Returns, Moves(a, l, r),
           UNCHANGED <<m_threads, m_threads_lock>>,
           m_pausers_count' = CASE PausingAt(l, r) /\ ~Pausing(a) -> m_pausers_count + 1
                                [] ~PausingAt(l, r) /\ Pausing(a) -> m_pausers_count - 1
                                [] OTHER -> m_pausers_count,
           SpawningAt(l, r) => Spawning(a), l # "join",
           a \in Workers => l = "idle" \/ pc[a] # "idle"
    PROVE  MinerInv'
  <1>1. PausesBalanced' /\ m_pausers_count' \in Nat
    BY MoveCounts
  <1>2. MinerTypeInv'
    BY <1>1, MoveOthers DEF MinerInv, MinerTypeInv
  <1>3. LockInv'
    <2>1. \A x \in Actors : Spawning(x)' => Spawning(x)
      BY MoveOthers DEF MinerInv, Spawning, SpawningAt
    <2>2. \A x \in Actors : pc'[x] = "join" => pc[x] = "join"
      BY MoveOthers DEF MinerInv
    <2>. QED  BY <2>1, <2>2 DEF MinerInv, LockInv, Spawning
  <1>4. NoStrayWorker'
    BY MoveOthers DEF MinerInv, WorkersAccounted, NoStrayWorker, Actors
  <1>. QED  BY <1>1, <1>2, <1>3, <1>4 DEF MinerInv, WorkersAccounted

(* The same for a step that pauses or resumes nothing.                     *)
LEMMA QuietMoveKeeps ==
    ASSUME MinerInv, NEW a \in Actors, NEW l \in Labels, NEW r \in Returns, Moves(a, l, r),
           UNCHANGED <<m_threads, m_threads_lock, m_pausers_count>>,
           PausingAt(l, r) <=> PausingAt(pc[a], ret[a]),
           SpawningAt(l, r) => SpawningAt(pc[a], ret[a]), l # "join",
           a \in Workers => l = "idle" \/ pc[a] # "idle"
    PROVE  MinerInv'
  <1>1. m_pausers_count' = CASE PausingAt(l, r) /\ ~Pausing(a) -> m_pausers_count + 1
                             [] ~PausingAt(l, r) /\ Pausing(a) -> m_pausers_count - 1
                             [] OTHER -> m_pausers_count
    BY PausingByLabel
  <1>. QED  BY <1>1, MoveKeeps DEF Spawning

(* A step whose call of request_block_template() leaves ret alone.         *)
LEMMA GotoMoves ==
    ASSUME MinerTypeInv, NEW a \in Actors, NEW l, Goto(a, l), UNCHANGED ret
    PROVE  Moves(a, l, ret[a]) /\ ret[a] \in Returns /\ pc[a] \in Labels
  BY DEF MinerTypeInv, Moves, Goto

\* A step in which no thread moves, such as a change of the chain.
LEMMA StillKeeps ==
    ASSUME MinerInv, UNCHANGED <<pc, ret, m_threads, m_threads_lock, m_pausers_count>>
    PROVE  MinerInv'
  <1>1. MinerTypeInv' /\ LockInv'
    BY DEF MinerInv, MinerTypeInv, LockInv, Spawning
  <1>2. Pausers' = Pausers
    BY DEF Pausers, Pausing
  <1>3. WorkersAccounted'
    BY <1>2 DEF MinerInv, WorkersAccounted, PausesBalanced, NoStrayWorker, Pausers
  <1>. QED  BY <1>1, <1>3 DEF MinerInv

\* The callers of the miner are among its actors.
LEMMA NamedActors ==
    /\ {"rpc", "p2p", "idle"} \subseteq Actors /\ Workers \subseteq Actors
    /\ "rpc" \notin Workers /\ "p2p" \notin Workers /\ "idle" \notin Workers
    /\ Nobody \notin Actors
  BY MinerAssumption DEF Actors

-----------------------------------------------------------------------------
\* request_block_template() neither pauses nor touches m_threads.
LEMMA TemplateStepsKeep ==
    ASSUME MinerInv, NEW a \in Actors, TemplateSteps(a)
    PROVE  MinerInv'
  <1> USE DEF MinerInv
  <1>1. pc[a] \in {"build", "set"} /\ ret[a] \in Returns
    BY DEF TemplateSteps, create_block_template, set_block_template, MinerTypeInv
  <1>2. UNCHANGED <<m_threads, m_threads_lock, m_pausers_count>>
    BY DEF TemplateSteps, create_block_template, set_block_template, miner_vars
  <1>3. \/ Moves(a, ret[a], "idle")
        \/ pc[a] = "build" /\ Moves(a, "set", ret[a])
    BY GotoMoves DEF TemplateSteps, create_block_template, set_block_template, Goto, Moves
  <1>4. CASE Moves(a, ret[a], "idle")
    <2>1. /\ PausingAt(ret[a], "idle") <=> PausingAt(pc[a], ret[a])
          /\ SpawningAt(ret[a], "idle") => SpawningAt(pc[a], ret[a])
          /\ ret[a] \in Labels /\ ret[a] # "join" /\ "idle" \in Returns
      BY <1>1 DEF PausingAt, SpawningAt, Returns, Labels
    <2>. QED  BY <1>1, <1>2, <1>4, <2>1, QuietMoveKeeps
  <1>5. CASE pc[a] = "build" /\ Moves(a, "set", ret[a])
    <2>1. /\ PausingAt("set", ret[a]) <=> PausingAt(pc[a], ret[a])
          /\ SpawningAt("set", ret[a]) => SpawningAt(pc[a], ret[a])
          /\ "set" \in Labels
      BY <1>5 DEF PausingAt, SpawningAt, Labels
    <2>. QED  BY <1>1, <1>2, <1>5, <2>1, QuietMoveKeeps
  <1>. QED  BY <1>3, <1>4, <1>5

(* on_block_chain_update() is called inside a pause and returns there.     *)
LEMMA UpdateStepsKeep ==
    ASSUME MinerInv, NEW a \in Actors, NEW next \in {"idle", "look"}, UpdateSteps(a, next)
    PROVE  MinerInv'
  <1> USE DEF MinerInv
  <1>1. CASE pc[a] = "update" /\ on_block_chain_update(a, "resume")
    <2>1. UNCHANGED <<m_threads, m_threads_lock, m_pausers_count>>
      BY <1>1 DEF on_block_chain_update, miner_vars
    <2>2. \/ Moves(a, "build", "resume")
          \/ Moves(a, "resume", ret[a]) /\ ret[a] \in Returns
      BY <1>1, GotoMoves DEF on_block_chain_update, request_block_template, Moves, Goto
    <2>3. /\ PausingAt("build", "resume") /\ PausingAt("resume", ret[a]) /\ PausingAt(pc[a], ret[a])
          /\ ~SpawningAt("build", "resume") /\ ~SpawningAt("resume", ret[a])
          /\ {"build", "resume"} \subseteq Labels /\ "resume" \in Returns
      BY <1>1 DEF PausingAt, SpawningAt, Labels, Returns
    <2>. QED  BY <1>1, <2>1, <2>2, <2>3, QuietMoveKeeps
  <1>2. CASE pc[a] = "resume" /\ resume(a, next)
    <2>1. UNCHANGED <<m_threads, m_threads_lock, ret>> /\ Goto(a, next)
      BY <1>2 DEF resume, miner_vars
    <2>2. Moves(a, next, ret[a]) /\ ret[a] \in Returns
      BY <2>1, GotoMoves
    <2>3. Pausing(a) /\ ~PausingAt(next, ret[a]) /\ ~SpawningAt(next, ret[a]) /\ next \in Labels
      BY <1>2 DEF Pausing, PausingAt, SpawningAt, Labels
    <2>4. m_pausers_count >= 1 /\ m_pausers_count \in Nat
      <3>1. a \in Pausers
        BY <2>3 DEF Pausers
      <3>2. Cardinality(Pausers \ {a}) = Cardinality(Pausers) - 1 /\ Cardinality(Pausers \ {a}) \in Nat
        BY <3>1, PausersFinite, FS_RemoveElement, FS_CardinalityType
      <3>. QED  BY <3>2 DEF WorkersAccounted, PausesBalanced, Pausers, MinerTypeInv
    <2>5. m_pausers_count' = m_pausers_count - 1
      BY <1>2, <2>4 DEF resume
    <2>. QED  BY <1>2, <2>1, <2>2, <2>3, <2>5, MoveKeeps
  <1>. QED  BY <1>1, <1>2 DEF UpdateSteps

(* A step that ends at a label outside of pauses and the lock, from one    *)
(* outside of pauses.                                                      *)
LEMMA PlainMoveKeeps ==
    ASSUME MinerInv, NEW a \in Actors, NEW l, Goto(a, l),
           UNCHANGED <<ret, m_threads, m_threads_lock, m_pausers_count>>,
           pc[a] \notin {"block", "add", "update", "resume", "build", "set"},
           l \in Labels \ {"block", "add", "update", "resume", "build", "set", "spawn", "join"},
           a \in Workers => l = "idle" \/ pc[a] # "idle"
    PROVE  MinerInv'
  <1>1. Moves(a, l, ret[a]) /\ ret[a] \in Returns
    BY GotoMoves DEF MinerInv
  <1>2. ~PausingAt(l, ret[a]) /\ ~PausingAt(pc[a], ret[a]) /\ ~SpawningAt(l, ret[a])
    BY DEF PausingAt, SpawningAt
  <1>. QED  BY <1>1, <1>2, QuietMoveKeeps

(* A step inside a pause.                                                  *)
LEMMA PausedMoveKeeps ==
    ASSUME MinerInv, NEW a \in Actors, NEW l, Goto(a, l),
           UNCHANGED <<ret, m_threads, m_threads_lock, m_pausers_count>>,
           pc[a] \in {"block", "add"}, l \in {"update", "resume"}
    PROVE  MinerInv'
  <1>1. Moves(a, l, ret[a]) /\ ret[a] \in Returns
    BY GotoMoves DEF MinerInv
  <1>2. PausingAt(l, ret[a]) /\ PausingAt(pc[a], ret[a]) /\ ~SpawningAt(l, ret[a]) /\ l \in Labels
    BY DEF PausingAt, SpawningAt, Labels
  <1>. QED  BY <1>1, <1>2, QuietMoveKeeps

\* pause() counts the thread that calls it.
LEMMA PauseKeeps ==
    ASSUME MinerInv, NEW a \in Actors, NEW l \in {"block", "add"}, pause(a, l),
           (pc[a] = "idle" /\ a \notin Workers) \/ pc[a] = "pause"
    PROVE  MinerInv'
  <1>1. Goto(a, l) /\ UNCHANGED <<ret, m_threads, m_threads_lock>> /\ m_pausers_count' = m_pausers_count + 1
    BY DEF pause, miner_vars
  <1>2. Moves(a, l, ret[a]) /\ ret[a] \in Returns
    BY <1>1, GotoMoves DEF MinerInv
  <1>3. PausingAt(l, ret[a]) /\ ~Pausing(a) /\ ~SpawningAt(l, ret[a]) /\ l \in Labels
    BY DEF Pausing, PausingAt, SpawningAt, Labels
  <1>. QED  BY <1>1, <1>2, <1>3, MoveKeeps

-----------------------------------------------------------------------------
\* The calls of start, stop and of a found block begin outside of a pause.
LEMMA CallsKeep == MinerInv /\ Calls => MinerInv'
  <1> SUFFICES ASSUME MinerInv, Calls PROVE MinerInv'
    OBVIOUS
  <1>1. ASSUME NEW a \in {"rpc", "p2p"}, NEW adr, NEW n, start(a, adr, n) PROVE MinerInv'
    <2>1. /\ a \in Actors /\ a \notin Workers /\ pc[a] = "idle" /\ Goto(a, "start")
          /\ UNCHANGED <<ret, m_threads, m_threads_lock, m_pausers_count>>
          /\ "start" \in Labels
      BY <1>1, NamedActors DEF start, Labels
    <2>. QED  BY <2>1, PlainMoveKeeps
  <1>2. CASE send_stop_signal
    <2>1. /\ pc["rpc"] = "idle" /\ Goto("rpc", "stop") /\ "stop" \in Labels
          /\ UNCHANGED <<ret, m_threads, m_threads_lock, m_pausers_count>>
      BY <1>2 DEF send_stop_signal, Labels
    <2>. QED  BY <2>1, NamedActors, PlainMoveKeeps
  <1>3. CASE pc["p2p"] = "idle" /\ pause("p2p", "block")
    BY <1>3, NamedActors, PauseKeeps
  <1>. QED  BY <1>1, <1>2, <1>3 DEF Calls, on_synchronized

\* on_idle() merges the hash rate and asks for a template outside of a pause.
LEMMA OnIdleKeeps == MinerInv /\ on_idle => MinerInv'
  <1> SUFFICES ASSUME MinerInv, on_idle PROVE MinerInv'
    OBVIOUS
  <1>1. /\ pc["idle"] = "idle" /\ Moves("idle", "build", "idle")
        /\ UNCHANGED <<m_threads, m_threads_lock, m_pausers_count>>
    BY DEF on_idle, request_block_template, Goto, Moves, miner_vars
  <1>2. /\ ~PausingAt("build", "idle") /\ ~PausingAt(pc["idle"], ret["idle"])
        /\ ~SpawningAt("build", "idle") /\ "build" \in Labels /\ "idle" \in Returns
    BY <1>1 DEF PausingAt, SpawningAt, Labels, Returns
  <1>. QED  BY <1>1, <1>2, NamedActors, QuietMoveKeeps

\* A block that comes in over the network pauses and resumes the miner.
LEMMA P2pKeeps == MinerInv /\ P2p => MinerInv'
  <1> SUFFICES ASSUME MinerInv, P2p PROVE MinerInv'
    OBVIOUS
  <1>1. ASSUME NEW u \in BOOLEAN, handle_incoming_block(u) PROVE MinerInv'
    <2>1. /\ pc["p2p"] = "block" /\ (Goto("p2p", "update") \/ Goto("p2p", "resume"))
          /\ UNCHANGED <<ret, m_threads, m_threads_lock, m_pausers_count>>
      BY <1>1 DEF handle_incoming_block, miner_vars
    <2>. QED  BY <2>1, NamedActors, PausedMoveKeeps
  <1>. QED  BY <1>1, NamedActors, UpdateStepsKeep DEF P2p

(* start() takes the lock only when it finds no threads.                   *)
LEMMA StartLockedKeeps ==
    ASSUME MinerInv, NEW a \in {"rpc", "p2p"}, start_locked(a)
    PROVE  MinerInv'
  <1> USE DEF MinerInv
  <1>1. a \in Actors /\ a \notin Workers /\ a # Nobody /\ pc[a] = "start" /\ m_threads_lock = Nobody
    BY NamedActors DEF start_locked
  <1>2. CASE is_mining \/ m_threads # {}
    <2>1. Goto(a, "idle") /\ UNCHANGED <<ret, m_threads, m_threads_lock, m_pausers_count>>
      BY <1>2 DEF start_locked
    <2>. QED  BY <1>1, <2>1, PlainMoveKeeps DEF Labels
  <1>3. CASE ~(is_mining \/ m_threads # {})
    <2>1. m_threads_lock' = a /\ m_threads = {} /\ UNCHANGED <<m_threads, m_pausers_count>>
      BY <1>3 DEF start_locked
    <2>2. \/ Moves(a, "build", "spawn")
          \/ Moves(a, "spawn", ret[a]) /\ ret[a] \in Returns
      BY <1>1, <1>3, GotoMoves DEF start_locked, request_block_template, Goto, Moves
    <2>3. PICK l \in {"build", "spawn"}, r \in Returns : Moves(a, l, r) /\ (l = "build" => r = "spawn")
      BY <2>2 DEF Returns
    <2>4. l \in Labels /\ ~PausingAt(l, r) /\ ~Pausing(a) /\ SpawningAt(l, r) /\ l # "join"
      BY <1>1, <2>3 DEF Labels, PausingAt, Pausing, SpawningAt
    <2>5. /\ pc' \in [Actors -> Labels] /\ ret' \in [Actors -> Returns]
          /\ pc'[a] = l /\ ret'[a] = r
          /\ \A x \in Actors \ {a} : pc'[x] = pc[x] /\ ret'[x] = ret[x]
      BY <1>1, <2>3, <2>4, MoveOthers
    <2>6. PausesBalanced' /\ m_pausers_count' \in Nat
      BY <1>1, <2>1, <2>3, <2>4, MoveCounts
    <2>7. \A x \in Actors \ {a} : ~Spawning(x) /\ pc[x] # "join"
      BY <1>1, NamedActors DEF LockInv
    <2>8. LockInv'
      BY <1>1, <2>1, <2>4, <2>5, <2>7 DEF LockInv, Spawning
    <2>9. NoStrayWorker'
      BY <1>1, <2>1, <2>5 DEF WorkersAccounted, NoStrayWorker, Actors
    <2>. QED  BY <2>5, <2>6, <2>8, <2>9 DEF MinerTypeInv, WorkersAccounted
  <1>. QED  BY <1>2, <1>3

(* start() creates workers only while all of them are idle.                *)
LEMMA StartSpawnKeeps ==
    ASSUME MinerInv, NEW a \in {"rpc", "p2p"}, start_spawn(a)
    PROVE  MinerInv'
  <1> USE DEF MinerInv
  <1>1. a \in Actors /\ a \notin Workers /\ pc[a] = "spawn"
    BY NamedActors DEF start_spawn
  <1>2. m_threads_lock = a /\ m_threads = {}
    BY <1>1 DEF LockInv, Spawning, SpawningAt
  <1>3. \A w \in Workers : pc[w] = "idle"
    BY <1>2 DEF WorkersAccounted, NoStrayWorker
  <1>4. PICK team \in SUBSET Workers :
          /\ m_threads' = team
          /\ pc' = [x \in Actors |-> IF x = a THEN "idle" ELSE IF x \in team THEN "loop" ELSE pc[x]]
    BY DEF start_spawn
  <1>5. UNCHANGED <<ret, m_pausers_count>>
    BY DEF start_spawn
  <1>6. MinerTypeInv'
    BY <1>4, <1>5 DEF MinerTypeInv, Labels
  <1>7. \A x \in Actors : pc'[x] = pc[x] \/ (pc[x] \in {"idle", "spawn"} /\ pc'[x] \in {"idle", "loop"})
    BY <1>1, <1>3, <1>4
  <1>8. \A x \in Actors : Pausing(x)' <=> Pausing(x)
    BY <1>5, <1>7 DEF Pausing
  <1>9. PausesBalanced'
    <2>1. Pausers' = Pausers
      BY <1>8 DEF Pausers
    <2>. QED  BY <1>5, <2>1 DEF WorkersAccounted, PausesBalanced, Pausers
  <1>10. \A x \in Actors : ~Spawning(x)' /\ pc'[x] # "join"
    <2>1. \A x \in Actors \ {a} : ~Spawning(x) /\ pc[x] # "join"
      BY <1>2 DEF LockInv
    <2>. QED  BY <1>1, <1>4, <1>5, <1>7, <2>1 DEF Spawning, SpawningAt
  <1>11. LockInv'
    BY <1>10 DEF LockInv
  <1>12. NoStrayWorker'
    BY <1>1, <1>3, <1>4 DEF NoStrayWorker, Actors
  <1>. QED  BY <1>6, <1>9, <1>11, <1>12 DEF WorkersAccounted

\* stop() takes the lock of m_threads before it looks at them.
LEMMA StopLockedKeeps == MinerInv /\ stop_locked => MinerInv'
  <1> SUFFICES ASSUME MinerInv, stop_locked PROVE MinerInv'
    OBVIOUS
  <1> USE DEF MinerInv
  <1>1. /\ pc["rpc"] = "stop" /\ m_threads_lock = Nobody /\ m_threads_lock' = "rpc"
        /\ Goto("rpc", "join") /\ UNCHANGED <<m_threads, m_pausers_count, ret>> /\ "join" \in Labels
    BY DEF stop_locked, Labels
  <1>2. Moves("rpc", "join", ret["rpc"]) /\ ret["rpc"] \in Returns
    BY <1>1, NamedActors, GotoMoves
  <1>3. /\ pc' \in [Actors -> Labels] /\ ret' \in [Actors -> Returns] /\ pc'["rpc"] = "join"
        /\ \A x \in Actors \ {"rpc"} : pc'[x] = pc[x] /\ ret'[x] = ret[x]
    BY <1>1, <1>2, NamedActors, MoveOthers
  <1>4. ~PausingAt("join", ret["rpc"]) /\ ~Pausing("rpc")
    BY <1>1 DEF PausingAt, Pausing
  <1>5. PausesBalanced' /\ m_pausers_count' \in Nat
    BY <1>1, <1>2, <1>4, NamedActors, MoveCounts
  <1>6. \A x \in Actors \ {"rpc"} : ~Spawning(x) /\ pc[x] # "join"
    BY <1>1, NamedActors DEF LockInv
  <1>7. LockInv'
    BY <1>1, <1>3, <1>6 DEF LockInv, Spawning, SpawningAt
  <1>8. NoStrayWorker'
    BY <1>1, <1>3, NamedActors DEF WorkersAccounted, NoStrayWorker
  <1>. QED  BY <1>3, <1>5, <1>7, <1>8 DEF MinerTypeInv, WorkersAccounted

(* stop() forgets the threads when all of them have ended.                 *)
LEMMA StopJoinKeeps == MinerInv /\ stop_join => MinerInv'
  <1> SUFFICES ASSUME MinerInv, stop_join PROVE MinerInv'
    OBVIOUS
  <1> USE DEF MinerInv
  <1>1. /\ pc["rpc"] = "join" /\ m_threads' = {} /\ m_threads_lock' = Nobody
        /\ Goto("rpc", "idle") /\ UNCHANGED <<m_pausers_count, ret>> /\ "idle" \in Labels
        /\ \A w \in m_threads : pc[w] = "idle"
    BY DEF stop_join, Labels
  <1>2. Moves("rpc", "idle", ret["rpc"]) /\ ret["rpc"] \in Returns
    BY <1>1, NamedActors, GotoMoves
  <1>3. /\ pc' \in [Actors -> Labels] /\ ret' \in [Actors -> Returns] /\ pc'["rpc"] = "idle"
        /\ \A x \in Actors \ {"rpc"} : pc'[x] = pc[x] /\ ret'[x] = ret[x]
    BY <1>1, <1>2, NamedActors, MoveOthers
  <1>4. ~PausingAt("idle", ret["rpc"]) /\ ~Pausing("rpc")
    BY <1>1 DEF PausingAt, Pausing
  <1>5. PausesBalanced' /\ m_pausers_count' \in Nat
    BY <1>1, <1>2, <1>4, NamedActors, MoveCounts
  <1>6. \A x \in Actors \ {"rpc"} : ~Spawning(x) /\ pc[x] # "join"
    BY <1>1, NamedActors DEF LockInv
  <1>7. LockInv'
    BY <1>1, <1>3, <1>6 DEF LockInv, Spawning, SpawningAt
  <1>8. NoStrayWorker'
    BY <1>1, <1>3, NamedActors DEF WorkersAccounted, NoStrayWorker
  <1>. QED  BY <1>3, <1>5, <1>7, <1>8 DEF MinerTypeInv, WorkersAccounted

\* A worker spins while the miner is paused, and ends when it is stopped.
LEMMA WorkerKeeps ==
    ASSUME MinerInv, NEW w \in Workers, Worker(w)
    PROVE  MinerInv'
  <1>1. w \in Actors
    BY NamedActors
  <1>2. CASE pc[w] = "pause" /\ pause(w, "add")
    BY <1>1, <1>2, PauseKeeps
  <1>3. CASE UpdateSteps(w, "look")
    BY <1>1, <1>3, UpdateStepsKeep
  <1>4. CASE handle_block_found_add(w)
    <2>1. pc[w] = "add" /\ Goto(w, "update") /\ UNCHANGED <<ret, m_threads, m_threads_lock, m_pausers_count>>
      BY <1>4 DEF handle_block_found_add, miner_vars
    <2>. QED  BY <1>1, <2>1, PausedMoveKeeps
  <1>5. CASE \/ worker_loop(w) \/ worker_version(w) \/ worker_hash(w) \/ worker_count(w)
             \/ handle_block_found_look(w) \/ handle_block_found_relay(w)
    <2>1. UNCHANGED <<ret, m_threads, m_threads_lock, m_pausers_count>>
      BY <1>5 DEF worker_loop, worker_version, worker_hash, worker_count, handle_block_found_look,
                  handle_block_found_relay, miner_vars
    <2>2. pc[w] \in {"loop", "ver", "hash", "inc", "dec_read", "dec", "look", "relay"}
      BY <1>5 DEF worker_loop, worker_version, worker_hash, worker_count, handle_block_found_look,
                  handle_block_found_relay
    <2>3. \/ UNCHANGED pc
          \/ \E l \in {"idle", "ver", "hash", "loop", "inc", "pause", "dec", "relay", "dec_read"} : Goto(w, l)
      BY <1>5 DEF worker_loop, worker_version, worker_hash, worker_count, handle_block_found_look,
                  handle_block_found_relay
    <2>. QED  BY <1>1, <2>1, <2>2, <2>3, StillKeeps, PlainMoveKeeps DEF Labels
  <1>. QED  BY <1>2, <1>3, <1>4, <1>5 DEF Worker

\* Every step of every thread keeps the invariant.
LEMMA MinerStep == MinerInv /\ [MinerNext]_minerVars => MinerInv'
  <1> SUFFICES ASSUME MinerInv, [MinerNext]_minerVars PROVE MinerInv'
    OBVIOUS
  <1>1. CASE UNCHANGED minerVars
    BY <1>1, StillKeeps DEF minerVars, miner_vars
  <1>2. CASE MinerNext
    BY <1>2, CallsKeep, OnIdleKeeps, P2pKeeps, StopLockedKeeps, StopJoinKeeps, StartLockedKeeps,
       StartSpawnKeeps, TemplateStepsKeep, WorkerKeeps DEF MinerNext, StartSteps
  <1>. QED  BY <1>1, <1>2

(* However start(), stop(), found and incoming blocks interleave, with any *)
(* number of workers: m_pausers_count is the number of threads between     *)
(* pause() and resume(), and every running worker is one of m_threads,     *)
(* which stop() joins.                                                     *)
THEOREM WorkersAlwaysAccounted == MinerSpec => []WorkersAccounted
  <1>1. MinerInv => WorkersAccounted
    BY DEF MinerInv
  <1>. QED  BY <1>1, MinerStart, MinerStep, PTL DEF MinerSpec
=============================================================================
