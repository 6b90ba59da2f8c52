----------------------------- MODULE WalletFiles -----------------------------
(***************************************************************************)
(* The files of a wallet over several runs of simplewallet: the keys file, *)
(* encrypted with a password, and the file with everything that can be     *)
(* read again from the chain (wallet2.cpp store_keys, load_keys, generate, *)
(* rewrite, load, store; account.cpp; simplewallet.cpp init, new_wallet,   *)
(* open_wallet, the seed commands and main). Files are written in place,   *)
(* first emptied and then filled; the process may stop anywhere between.   *)
(***************************************************************************)
EXTENDS Integers, FiniteSets

CONSTANTS Spends,        \* spend secrets
          Passwords,
          MaxRuns,       \* runs of the program
          OldFiles       \* whether the keys may come from before the JSON format

VARIABLES keys,     \* the keys file
          book,     \* the wallet file
          pc, mem,  \* the running program and its wallet2
          owner,    \* account and password of the first complete keys file
          shown,    \* seeds shown to the user
          runs, why \* runs so far; how the last one failed to start

filesVars == <<keys, book, pc, mem, owner, shown, runs, why>>

None == [state |-> "none"]
Torn == [state |-> "torn"]
Languages == {"English", "Spanish"}
Whole(f) == f.state = "whole"
Exists(f) == f.state # "none"
NoAcct == [spend |-> "none", view |-> "none"]

(* An account: its view secret is the hash of the spend secret unless both *)
(* were drawn.                                                             *)
Hash(s) == <<"hash", s>>
generate_keys(spend, two_random) == [spend |-> spend, view |-> IF two_random THEN <<"random", spend>> ELSE Hash(spend)]

is_deterministic(a) == a.view = Hash(a.spend)

Dead == [acct |-> NoAcct, pass |-> "none", lang |-> "none", testnet |-> FALSE, old |-> FALSE]

Stop(reason) ==
  /\ pc' = "off" /\ mem' = Dead /\ why' = reason

-----------------------------------------------------------------------------
(* init: options that exclude each other; without a name the user is asked *)
(* for one, and what exists decides whether it is opened or generated.     *)
Options == [generate : BOOLEAN, file : BOOLEAN, restore : BOOLEAN, nondet : BOOLEAN,
            seed : Spends \cup {"none", "bad"}, testnet : BOOLEAN, pass : Passwords]

ask_wallet_create_if_needed(o) ==
  IF (Exists(keys) \/ Exists(book)) /\ o.restore THEN "refuse"
  ELSE IF Exists(keys) THEN "open"
  ELSE IF Exists(book) THEN "refuse" ELSE "generate"

(* What init goes on to do: "generate", "open" or a refusal. *)
Chosen(o) ==
  LET asked == IF o.generate /\ o.file THEN "refuse"
               ELSE IF o.generate THEN "generate"
               ELSE IF o.file THEN "open" ELSE ask_wallet_create_if_needed(o)
  IN IF asked = "refuse" THEN "refuse"
     ELSE IF o.restore \/ asked = "generate"
     THEN IF o.restore /\ (o.nondet \/ o.seed \in {"none", "bad"}) THEN "refuse" ELSE "generate"
     ELSE "open"

(* generate() writes nothing when either file is there. *)
GenerateAllowed == ~Exists(book) /\ ~Exists(keys)

(* generate: the account is made, then the keys file is opened for         *)
(* writing.                                                                *)
generate(s, o, l) ==
  /\ mem' = [acct |-> generate_keys(s, o.nondet), pass |-> o.pass,
             lang |-> IF o.nondet THEN "none" ELSE l, testnet |-> o.testnet, old |-> FALSE]
  /\ keys' = Torn /\ pc' = "generate"
  /\ UNCHANGED <<shown, why>>

NewWallet(o) ==
  IF ~GenerateAllowed THEN Stop("file_exists") /\ UNCHANGED <<keys, shown>>
  ELSE \E s \in IF o.restore THEN {o.seed} ELSE Spends, l \in Languages : generate(s, o, l)

(* The keys must decrypt to an account that verifies. *)
load_keys(p) ==
  IF ~Whole(keys) THEN "keys unreadable" ELSE IF keys.pass # p THEN "invalid_password" ELSE "ok"

(* A wallet file must be readable, belong to the same account and start    *)
(* with the network's first block.                                         *)
load(p, testnet) ==
  IF ~Exists(keys) THEN "file_not_found"
  ELSE IF load_keys(p) # "ok" THEN load_keys(p)
  ELSE IF ~Exists(book) THEN "ok"
  ELSE IF ~Whole(book) THEN "file_read_error"
  ELSE IF book.acct # keys.acct THEN "wallet_files_doesnt_correspond"
  ELSE IF book.testnet # testnet THEN "genesis missmatch" ELSE "ok"

(* is_old_file_format is only ever set to TRUE: a wallet in the new format *)
(* leaves it uninitialized.                                                *)
is_old_file_format == IF keys.old THEN {TRUE} ELSE BOOLEAN

OpenWallet(o) ==
  IF load(o.pass, o.testnet) # "ok" THEN Stop(load(o.pass, o.testnet)) /\ UNCHANGED <<keys, shown>>
  ELSE \E old \in is_old_file_format, l \in Languages :
         /\ mem' = [acct |-> keys.acct, pass |-> o.pass, testnet |-> o.testnet, old |-> old,
                    lang |-> IF old /\ is_deterministic(keys.acct) THEN l ELSE keys.lang]
         /\ IF old THEN keys' = Torn /\ pc' = "upgrade" ELSE pc' = "console" /\ UNCHANGED keys
         /\ UNCHANGED <<shown, why>>

Start ==
  /\ pc = "off" /\ runs < MaxRuns
  /\ runs' = runs + 1
  /\ \E o \in Options :
       CASE Chosen(o) = "refuse"   -> Stop("options") /\ UNCHANGED <<keys, shown>>
         [] Chosen(o) = "generate" -> NewWallet(o)
         [] Chosen(o) = "open"     -> OpenWallet(o)
  /\ UNCHANGED <<book, owner>>

(* main with an rpc port: the wallet is only loaded, never upgraded. *)
StartRpc ==
  /\ pc = "off" /\ runs < MaxRuns
  /\ runs' = runs + 1
  /\ \E p \in Passwords, t \in BOOLEAN :
       IF load(p, t) = "ok"
       THEN /\ \E old \in is_old_file_format :
                 mem' = [acct |-> keys.acct, pass |-> p, lang |-> keys.lang, testnet |-> t, old |-> old]
            /\ pc' = "rpc" /\ UNCHANGED why
       ELSE Stop(load(p, t))
  /\ UNCHANGED <<keys, book, owner, shown>>

-----------------------------------------------------------------------------
(* store_keys: the file is filled with the account, the language and the   *)
(* password's encryption. At generation the wallet file follows; an        *)
(* account with a seed shows it.                                           *)
StoredKeys == [state |-> "whole", acct |-> mem.acct, pass |-> mem.pass, lang |-> mem.lang, old |-> FALSE]

store_keys ==
  /\ pc \in {"generate", "upgrade", "relanguage"}
  /\ keys' = StoredKeys
  /\ owner' = IF owner.acct = NoAcct THEN [acct |-> mem.acct, pass |-> mem.pass] ELSE owner
  /\ pc' = IF pc = "generate" THEN "generated" ELSE "console"
  /\ shown' = IF pc = "upgrade" /\ is_deterministic(mem.acct) THEN shown \cup {mem.acct.spend} ELSE shown
  /\ UNCHANGED <<book, mem, runs, why>>

(* The wallet file after generation, with "save" and at exit. *)
StoreBegin ==
  /\ pc \in {"generated", "console", "rpc"}
  /\ book' = Torn
  /\ pc' = CASE pc = "generated" -> "store" [] pc = "console" -> "save" [] pc = "rpc" -> "exit"
  /\ UNCHANGED <<keys, mem, owner, shown, runs, why>>

StoreEnd ==
  /\ pc \in {"store", "save", "exit"}
  /\ book' = [state |-> "whole", acct |-> mem.acct, testnet |-> mem.testnet]
  /\ shown' = IF pc = "store" /\ is_deterministic(mem.acct) THEN shown \cup {mem.acct.spend} ELSE shown
  /\ \/ pc # "exit" /\ pc' = "console" /\ UNCHANGED <<mem, why>>
     \/ pc # "store" /\ Stop("none")
  /\ UNCHANGED <<keys, owner, runs>>

-----------------------------------------------------------------------------
(* The console. seed: asks for a language when there is none; the choice   *)
(* is not stored.                                                          *)
seed ==
  /\ pc = "console" /\ is_deterministic(mem.acct)
  /\ \E l \in Languages : mem' = IF mem.lang = "none" THEN [mem EXCEPT !.lang = l] ELSE mem
  /\ shown' = shown \cup {mem.acct.spend}
  /\ UNCHANGED <<keys, book, pc, owner, runs, why>>

(* Variant: the typed password is used unchecked. *)
verify_password_any(p) == Whole(keys)
verify_password(p) == Whole(keys) /\ keys.pass = p

(* set seed language: the keys file is written again with the password the *)
(* user types, after it was checked against the file.                      *)
seed_set_language ==
  /\ pc = "console" /\ is_deterministic(mem.acct)
  /\ \E p \in Passwords, l \in Languages :
       /\ verify_password(p)
       /\ mem' = [mem EXCEPT !.lang = l, !.pass = p]
  /\ keys' = Torn /\ pc' = "relanguage"
  /\ UNCHANGED <<book, owner, shown, runs, why>>

(* The process stops without another step. *)
Crash ==
  /\ pc # "off"
  /\ Stop("crash")
  /\ UNCHANGED <<keys, book, owner, shown, runs>>

OldKeys == {[state |-> "whole", acct |-> generate_keys(s, nd), pass |-> p, lang |-> "none", old |-> TRUE] :
              s \in Spends, nd \in BOOLEAN, p \in Passwords}

FilesInit ==
  /\ keys \in {None} \cup (IF OldFiles THEN OldKeys ELSE {})
  /\ owner = IF Whole(keys) THEN [acct |-> keys.acct, pass |-> keys.pass] ELSE [acct |-> NoAcct, pass |-> "none"]
  /\ book = None /\ pc = "off" /\ mem = Dead /\ shown = {} /\ runs = 0 /\ why = "none"

Spent == pc = "off" /\ runs = MaxRuns /\ UNCHANGED filesVars

FilesNext == Start \/ StartRpc \/ store_keys \/ StoreBegin \/ StoreEnd \/ seed \/ seed_set_language \/ Crash \/ Spent

FilesSpec == FilesInit /\ [][FilesNext]_filesVars

-----------------------------------------------------------------------------
(* The keys of a wallet are never replaced by others and its password      *)
(* never changes: generate refuses existing files, and a keys file is only *)
(* rewritten with the account it held and the password it had. Whatever    *)
(* stops in between, the wallet file and the session are of that account,  *)
(* so that load never finds files that do not correspond; and every seed   *)
(* that was shown brings the wallet back: restoring from it makes the very *)
(* account, view key included.                                             *)
KeysKept ==
  /\ Whole(keys) => keys.acct = owner.acct /\ keys.pass = owner.pass
  /\ Whole(book) => book.acct = owner.acct
  /\ pc \in {"console", "rpc"} => mem.acct = owner.acct
  /\ why # "wallet_files_doesnt_correspond"
  /\ \A s \in shown : generate_keys(s, FALSE) = owner.acct
=============================================================================
