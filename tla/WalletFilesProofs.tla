-------------------------- MODULE WalletFilesProofs --------------------------
(***************************************************************************)
(* Proof that the keys of a wallet are kept, for every set of secrets and  *)
(* passwords and any number of runs of the program.                        *)
(***************************************************************************)
EXTENDS WalletFiles, TLAPS

(* An account is its two secrets. *)
IsAccount(a) == a = [spend |-> a.spend, view |-> a.view]

Writing == {"upgrade", "relanguage"}
Running == {"generated", "store", "console", "save", "rpc", "exit"} \cup Writing

(* What the program knows at each point: while it runs, its account is the *)
(* owner's; while it rewrites the keys file it also has the owner's        *)
(* password; and before the keys file was ever complete there is nothing   *)
(* else, neither a wallet file nor a seed that was shown.                  *)
SessionInv ==
  /\ pc \in Running => mem.acct = owner.acct /\ Exists(keys)
  /\ pc \in Writing => mem.pass = owner.pass
  /\ ~Exists(keys) \/ pc = "generate" => owner.acct = NoAcct /\ shown = {} /\ ~Whole(book)
  /\ pc \in Running \cup {"off", "generate"}
  /\ {"acct", "pass"} \subseteq DOMAIN mem
  /\ IsAccount(mem.acct) /\ (Whole(keys) => IsAccount(keys.acct))

FilesInv == SessionInv /\ KeysKept

\* generate_keys makes both secrets of the account.
LEMMA MadeAccount == \A s, nd : IsAccount(generate_keys(s, nd))
  BY Zenon DEF IsAccount, generate_keys

(* restoring from the seed of an account that has one makes the account:   *)
(* the view secret is the hash of the spend secret.                        *)
LEMMA SeedRestores ==
    ASSUME NEW a, IsAccount(a), is_deterministic(a)
    PROVE  generate_keys(a.spend, FALSE) = a
  BY Zenon DEF IsAccount, is_deterministic, generate_keys

\* Before the first run there are no files and nobody is at work.
LEMMA FilesStart == FilesInit => FilesInv
  <1> SUFFICES ASSUME FilesInit PROVE FilesInv
    OBVIOUS
  <1>1. mem = Dead /\ pc = "off" /\ shown = {} /\ book = None /\ why = "none"
    BY Zenon DEF FilesInit
  <1>2. IsAccount(mem.acct) /\ {"acct", "pass"} \subseteq DOMAIN mem
    BY <1>1, Zenon DEF Dead, IsAccount, NoAcct
  <1>3. ~Whole(book)
    BY <1>1, Zenon DEF None, Whole
  <1>4. CASE keys = None
    BY <1>1, <1>2, <1>3, <1>4, Zenon DEF FilesInit, FilesInv, SessionInv, KeysKept, None, Whole, Exists, Running, Writing
  <1>5. CASE keys \in OldKeys
    <2>1. Whole(keys) /\ Exists(keys) /\ IsAccount(keys.acct)
      BY <1>5, MadeAccount DEF OldKeys, Whole, Exists
    <2>. QED  BY <1>1, <1>2, <1>3, <2>1, Zenon DEF FilesInit, FilesInv, SessionInv, KeysKept, Running, Writing
  <1>. QED  BY <1>4, <1>5, Zenon DEF FilesInit

-----------------------------------------------------------------------------
(* Stop, at the end of a run and in a crash: the files stay as they are.   *)
LEMMA StopKeeps ==
    ASSUME FilesInv, NEW reason, Stop(reason), UNCHANGED <<keys, book, owner, shown>>,
           reason # "wallet_files_doesnt_correspond"
    PROVE  FilesInv'
  <1>1. IsAccount(mem'.acct) /\ {"acct", "pass"} \subseteq DOMAIN mem'
    BY Zenon DEF Stop, Dead, IsAccount, NoAcct
  <1>. QED  BY <1>1, Zenon DEF FilesInv, SessionInv, KeysKept, Stop, Running, Writing, Whole, Exists

(* load never finds a wallet file of another account.                      *)
LEMMA FilesCorrespond ==
    ASSUME FilesInv, NEW p, NEW t
    PROVE  load(p, t) # "wallet_files_doesnt_correspond"
  BY Zenon DEF load, load_keys, FilesInv, KeysKept, Whole

(* load succeeds only with the password of a complete keys file.           *)
LEMMA LoadedKeys ==
    ASSUME NEW p, NEW t, load(p, t) = "ok"
    PROVE  Whole(keys) /\ keys.pass = p
  BY Zenon DEF load, load_keys

(* new_wallet: a new account is written only where there was nothing.      *)
LEMMA NewWalletKeeps ==
    ASSUME FilesInv, NEW o, NewWallet(o), UNCHANGED <<book, owner>>
    PROVE  FilesInv'
  <1>1. CASE ~GenerateAllowed
    BY <1>1, StopKeeps, Zenon DEF NewWallet
  <1>2. CASE GenerateAllowed
    <2>1. PICK s, l : generate(s, o, l)
      BY <1>2, Zenon DEF NewWallet
    <2>2. keys' = Torn /\ pc' = "generate" /\ UNCHANGED <<shown, why>>
      BY <2>1, Zenon DEF generate
    <2>3. ~Whole(keys') /\ Exists(keys')
      BY <2>2, Zenon DEF Whole, Exists, Torn
    <2>4. IsAccount(mem'.acct) /\ {"acct", "pass"} \subseteq DOMAIN mem'
      BY <2>1, MadeAccount, Zenon DEF generate
    <2>5. owner.acct = NoAcct /\ shown = {} /\ ~Whole(book)
      BY <1>2, Zenon DEF GenerateAllowed, FilesInv, SessionInv
    <2>6. SessionInv'
      BY <2>2, <2>3, <2>4, <2>5, Zenon DEF SessionInv, Running, Writing, Whole
    <2>7. KeysKept'
      BY <2>2, <2>3, <2>5, Zenon DEF KeysKept, Whole, FilesInv
    <2>. QED  BY <2>6, <2>7, Zenon DEF FilesInv
  <1>. QED  BY <1>1, <1>2, Zenon

(* open_wallet: the account and the password of the session are those of   *)
(* the keys file, also where the file is written again in the new format.  *)
LEMMA OpenWalletKeeps ==
    ASSUME FilesInv, NEW o, OpenWallet(o), UNCHANGED <<book, owner>>
    PROVE  FilesInv'
  <1>1. CASE load(o.pass, o.testnet) # "ok"
    BY <1>1, StopKeeps, FilesCorrespond, Zenon DEF OpenWallet
  <1>2. CASE load(o.pass, o.testnet) = "ok"
    <2>1. Whole(keys) /\ keys.pass = o.pass
      BY <1>2, LoadedKeys, Zenon
    <2>2. keys.acct = owner.acct /\ keys.pass = owner.pass /\ IsAccount(keys.acct) /\ Exists(keys)
      BY <2>1, Zenon DEF FilesInv, KeysKept, SessionInv, Whole, Exists
    <2>3. /\ mem'.acct = owner.acct /\ mem'.pass = owner.pass
          /\ {"acct", "pass"} \subseteq DOMAIN mem'
          /\ UNCHANGED <<shown, why>>
      BY <1>2, <2>1, <2>2 DEF OpenWallet
    <2>4. \/ keys' = Torn /\ pc' = "upgrade"
          \/ keys' = keys /\ pc' = "console"
      BY <1>2, Zenon DEF OpenWallet
    <2>5. CASE keys' = Torn /\ pc' = "upgrade"
      <3>1. ~Whole(keys') /\ Exists(keys')
        BY <2>5, Zenon DEF Whole, Exists, Torn
      <3>. QED  BY <2>2, <2>3, <2>5, <3>1, Zenon DEF FilesInv, SessionInv, KeysKept, Running, Writing, Whole
    <2>6. CASE keys' = keys /\ pc' = "console"
      BY <2>1, <2>2, <2>3, <2>6, Zenon DEF FilesInv, SessionInv, KeysKept, Running, Writing, Whole, Exists
    <2>. QED  BY <2>4, <2>5, <2>6, Zenon
  <1>. QED  BY <1>1, <1>2, Zenon

\* A run of simplewallet starts: its options decide whether it makes or opens a wallet.
LEMMA StartKeeps == FilesInv /\ Start => FilesInv'
  <1> SUFFICES ASSUME FilesInv, Start PROVE FilesInv'
    OBVIOUS
  <1>1. PICK o \in Options :
          \/ Stop("options") /\ UNCHANGED <<keys, shown>>
          \/ NewWallet(o)
          \/ OpenWallet(o)
    <2>1. \A o : Chosen(o) \in {"refuse", "generate", "open"}
      BY Zenon DEF Chosen
    <2>. QED  BY <2>1, Zenon DEF Start
  <1>2. UNCHANGED <<book, owner>>
    BY Zenon DEF Start
  <1>. QED  BY <1>1, <1>2, StopKeeps, NewWalletKeeps, OpenWalletKeeps, Zenon

\* A run of simplewallet as an RPC server only opens wallets.
LEMMA StartRpcKeeps == FilesInv /\ StartRpc => FilesInv'
  <1> SUFFICES ASSUME FilesInv, StartRpc PROVE FilesInv'
    OBVIOUS
  <1>1. UNCHANGED <<keys, book, owner, shown>>
    BY Zenon DEF StartRpc
  <1>2. PICK p \in Passwords, t \in BOOLEAN :
          IF load(p, t) = "ok"
          THEN /\ \E old \in is_old_file_format :
                    mem' = [acct |-> keys.acct, pass |-> p, lang |-> keys.lang, testnet |-> t, old |-> old]
               /\ pc' = "rpc" /\ UNCHANGED why
          ELSE Stop(load(p, t))
    BY Zenon DEF StartRpc
  <1>3. CASE load(p, t) = "ok"
    <2>1. Whole(keys) /\ Exists(keys)
      BY <1>3, LoadedKeys, Zenon DEF Whole, Exists
    <2>2. keys.acct = owner.acct /\ IsAccount(keys.acct)
      BY <2>1, Zenon DEF FilesInv, KeysKept, SessionInv
    <2>3. /\ mem'.acct = owner.acct /\ {"acct", "pass"} \subseteq DOMAIN mem'
          /\ pc' = "rpc" /\ UNCHANGED why
      BY <1>2, <1>3, <2>2
    <2>. QED  BY <1>1, <2>1, <2>2, <2>3, Zenon DEF FilesInv, SessionInv, KeysKept, Running, Writing, Whole, Exists
  <1>4. CASE load(p, t) # "ok"
    BY <1>1, <1>2, <1>4, StopKeeps, FilesCorrespond, Zenon
  <1>. QED  BY <1>3, <1>4, Zenon

(* store_keys: only the first complete keys file decides whose it is.      *)
LEMMA StoreKeysKeeps == FilesInv /\ store_keys => FilesInv'
  <1> SUFFICES ASSUME FilesInv, store_keys PROVE FilesInv'
    OBVIOUS
  <1>1. keys' = StoredKeys /\ UNCHANGED <<book, mem, runs, why>>
    BY Zenon DEF store_keys
  <1>2. Whole(keys') /\ Exists(keys') /\ keys'.acct = mem.acct /\ keys'.pass = mem.pass
    BY <1>1, Zenon DEF StoredKeys, Whole, Exists
  <1>3. owner'.acct = mem.acct /\ owner'.pass = mem.pass
    BY Zenon DEF store_keys, FilesInv, SessionInv, Running, Writing
  <1>4. pc' \in {"generated", "console"}
    BY Zenon DEF store_keys
  <1>5. Whole(book) => book.acct = owner'.acct
    BY <1>3, Zenon DEF store_keys, FilesInv, SessionInv, KeysKept, Running, Writing
  <1>6. \A s \in shown' : generate_keys(s, FALSE) = owner'.acct
    <2>1. \A s \in shown : generate_keys(s, FALSE) = owner'.acct
      BY <1>3, Zenon DEF store_keys, FilesInv, SessionInv, KeysKept, Running, Writing
    <2>2. is_deterministic(mem.acct) => generate_keys(mem.acct.spend, FALSE) = owner'.acct
      BY <1>3, SeedRestores, Zenon DEF FilesInv, SessionInv
    <2>. QED  BY <2>1, <2>2, Zenon DEF store_keys
  <1>7. SessionInv'
    BY <1>1, <1>2, <1>3, <1>4, Zenon DEF FilesInv, SessionInv, Running, Writing, Whole, Exists
  <1>8. KeysKept'
    BY <1>1, <1>2, <1>3, <1>5, <1>6, Zenon DEF FilesInv, KeysKept, Whole
  <1>. QED  BY <1>7, <1>8, Zenon DEF FilesInv

\* store() begins to write: the file is not complete until it ends.
LEMMA StoreBeginKeeps == FilesInv /\ StoreBegin => FilesInv'
  <1> SUFFICES ASSUME FilesInv, StoreBegin PROVE FilesInv'
    OBVIOUS
  <1>1. ~Whole(book') /\ pc' \in {"store", "save", "exit"} /\ UNCHANGED <<keys, mem, owner, shown, why>>
    BY Zenon DEF StoreBegin, Whole, Torn
  <1>. QED  BY <1>1, Zenon DEF StoreBegin, FilesInv, SessionInv, KeysKept, Running, Writing, Whole, Exists

\* store() ends with the file of the account that is in memory.
LEMMA StoreEndKeeps == FilesInv /\ StoreEnd => FilesInv'
  <1> SUFFICES ASSUME FilesInv, StoreEnd PROVE FilesInv'
    OBVIOUS
  <1>1. Whole(book') /\ book'.acct = mem.acct /\ UNCHANGED <<keys, owner>>
    BY Zenon DEF StoreEnd, Whole
  <1>2. mem.acct = owner.acct /\ Exists(keys) /\ IsAccount(mem.acct)
    BY Zenon DEF StoreEnd, FilesInv, SessionInv, Running
  <1>3. \A s \in shown' : generate_keys(s, FALSE) = owner.acct
    <2>1. is_deterministic(mem.acct) => generate_keys(mem.acct.spend, FALSE) = owner.acct
      BY <1>2, SeedRestores, Zenon
    <2>. QED  BY <2>1, Zenon DEF StoreEnd, FilesInv, KeysKept
  <1>4. \/ pc' = "console" /\ UNCHANGED <<mem, why>>
        \/ pc' = "off" /\ mem' = Dead /\ why' = "none"
    BY Zenon DEF StoreEnd, Stop
  <1>5. IsAccount(mem'.acct) /\ {"acct", "pass"} \subseteq DOMAIN mem'
    BY <1>2, <1>4 DEF Dead, IsAccount, NoAcct, FilesInv, SessionInv
  <1>6. SessionInv'
    BY <1>1, <1>2, <1>4, <1>5, Zenon DEF FilesInv, SessionInv, Running, Writing, Whole, Exists
  <1>7. KeysKept'
    BY <1>1, <1>2, <1>3, <1>4, Zenon DEF FilesInv, KeysKept, Whole
  <1>. QED  BY <1>6, <1>7, Zenon DEF FilesInv

\* The seed command shows the seed of the account that is in memory.
LEMMA SeedKeeps == FilesInv /\ seed => FilesInv'
  <1> SUFFICES ASSUME FilesInv, seed PROVE FilesInv'
    OBVIOUS
  <1>1. pc = "console" /\ mem.acct = owner.acct /\ IsAccount(mem.acct) /\ is_deterministic(mem.acct)
    BY Zenon DEF seed, FilesInv, SessionInv, Running
  <1>2. mem'.acct = mem.acct /\ {"acct", "pass"} \subseteq DOMAIN mem'
    BY Zenon DEF seed, FilesInv, SessionInv
  <1>3. \A s \in shown' : generate_keys(s, FALSE) = owner.acct
    <2>1. generate_keys(mem.acct.spend, FALSE) = owner.acct
      BY <1>1, SeedRestores, Zenon
    <2>. QED  BY <2>1, Zenon DEF seed, FilesInv, KeysKept
  <1>4. UNCHANGED <<keys, book, pc, owner, why>>
    BY Zenon DEF seed
  <1>. QED  BY <1>1, <1>2, <1>3, <1>4, Zenon DEF FilesInv, SessionInv, KeysKept, Running, Writing, Whole, Exists

(* seed_set_language: the password typed was compared with the file's.     *)
LEMMA SetLanguageKeeps == FilesInv /\ seed_set_language => FilesInv'
  <1> SUFFICES ASSUME FilesInv, seed_set_language PROVE FilesInv'
    OBVIOUS
  <1>1. pc = "console" /\ mem.acct = owner.acct /\ IsAccount(mem.acct)
    BY Zenon DEF seed_set_language, FilesInv, SessionInv, Running
  <1>2. PICK p, l : verify_password(p) /\ mem' = [mem EXCEPT !.lang = l, !.pass = p]
    BY Zenon DEF seed_set_language
  <1>3. mem'.acct = owner.acct /\ mem'.pass = owner.pass /\ {"acct", "pass"} \subseteq DOMAIN mem'
    BY <1>1, <1>2, Zenon DEF verify_password, FilesInv, SessionInv, KeysKept
  <1>4. ~Whole(keys') /\ Exists(keys') /\ pc' = "relanguage" /\ UNCHANGED <<book, owner, shown, why>>
    BY Zenon DEF seed_set_language, Whole, Exists, Torn
  <1>. QED  BY <1>1, <1>3, <1>4, Zenon DEF FilesInv, SessionInv, KeysKept, Running, Writing, Whole

\* Every step of every run keeps the invariant.
LEMMA FilesStep == FilesInv /\ [FilesNext]_filesVars => FilesInv'
  <1> SUFFICES ASSUME FilesInv, [FilesNext]_filesVars PROVE FilesInv'
    OBVIOUS
  <1>1. CASE Crash
    BY <1>1, StopKeeps, Zenon DEF Crash
  <1>2. CASE Spent \/ UNCHANGED filesVars
    BY <1>2, Zenon DEF Spent, filesVars, FilesInv, SessionInv, KeysKept, Whole, Exists
  <1>. QED  BY <1>1, <1>2, StartKeeps, StartRpcKeeps, StoreKeysKeeps, StoreBeginKeeps, StoreEndKeeps,
               SeedKeeps, SetLanguageKeeps, Zenon DEF FilesNext

(* The keys of a wallet are never replaced and its password never changes, *)
(* however often simplewallet is started, with whatever options, and       *)
(* wherever it stops: what generate, open_wallet, store_keys, rewrite and  *)
(* seed_set_language write is the account of the first complete keys file, *)
(* and every seed that was shown restores it.                              *)
THEOREM KeysNeverReplaced == FilesSpec => []KeysKept
  <1>1. FilesInv => KeysKept
    BY Zenon DEF FilesInv
  <1>. QED  BY <1>1, FilesStart, FilesStep, PTL DEF FilesSpec
=============================================================================
