------------------------------ MODULE MCWallet ------------------------------
(* Instances of the wallet: its books against a daemon that reorganizes        *)
(* (Wallet), a transfer command (WalletSpend) and its files (WalletFiles).  A  *)
(* behaviour is one of the parts; the variables of the others stay as they     *)
(* are.                                                                        *)
(*                                                                             *)
(*   books    two payments of the same amount, so that their global indexes    *)
(*            depend on the order, one transaction of the wallet itself, and   *)
(*            a reorganization                                                 *)
(*   refresh  the same with fewer blocks, for the end of every refresh         *)
(*   spend    seven outputs: one of dust, one too young, two locked until a    *)
(*            time; requests that fit one transaction, need several, exceed    *)
(*            the balance or overflow, some to a name                          *)
(*   ends     fewer commands, each with many ways to choose, for their end     *)
(*   files    runs of the program with every combination of options            *)
EXTENDS WalletFiles, Sequences

VARIABLES
    part,
    mined, chain, txs, pool, w, disk, phase, resp, at, added, tries, fails, sent,
    step, cmd, dsts, mixin, attempt, parts, piece, fee, sel, dustFirst, outs, ptxs, spent, taken,
    error

booksVars == <<mined, chain, txs, pool, w, disk, phase, resp, at, added, tries, fails, sent>>
spendVars == <<step, cmd, dsts, mixin, attempt, parts, piece, fee, sel, dustFirst, outs, ptxs,
               spent, taken, error>>
vars == <<part, booksVars, spendVars, filesVars>>

Parts == {"books", "refresh", "spend", "ends", "files"}

Payments == << [outs |-> <<5>>, ins |-> {}], [outs |-> <<0, 5>>, ins |-> {}] >>

Books == INSTANCE Wallet WITH
    Incoming <- Payments, SpendableAge <- 2, MaxCount <- 3, MaxBlocks <- 6, MaxReorg <- 1,
    MaxPerBlock <- 1, MaxMade <- 1, MaxFails <- 1, MaxTries <- 1, LostCalls <- FALSE, Needs <- {3}

Refresh == INSTANCE Wallet WITH
    Incoming <- Payments, SpendableAge <- 2, MaxCount <- 3, MaxBlocks <- 4, MaxReorg <- 1,
    MaxPerBlock <- 1, MaxMade <- 1, MaxFails <- 1, MaxTries <- 1, LostCalls <- FALSE, Needs <- {3}

Output(amount, height, unlock_time, index) ==
    [amount |-> amount, height |-> height, unlock_time |-> unlock_time, index |-> index]
Outputs == << Output(1, 1, 0, 1), Output(20, 1, 0, 0), Output(20, 2, 0, 2), Output(9, 3, 5, 1),
              Output(20, 4, 0, 1), Output(20, 1, 1004, 3), Output(30, 2, 1001, 1) >>

Pay(to, amount) == [to |-> to, amount |-> amount]
Command(mix, id, d) == [mixin |-> mix, payment_id |-> id, dsts |-> d]
AllCommands ==
    { Command(0, "none", <<Pay("address", 25)>>), Command(1, "ok", <<Pay("address", 25)>>),
      Command(1, "none", <<Pay("address", 18)>>),
      Command(-1, "ok", <<Pay("url", 7), Pay("address", 30)>>),
      Command(0, "none", <<Pay("address", 55)>>), Command(0, "none", <<Pay("address", 78)>>),
      Command(0, "none", <<Pay("address", 1), Pay("address", 66)>>),
      Command(0, "none", <<Pay("address", 127), Pay("address", 1)>>),
      Command(2, "none", <<Pay("address", 5)>>), Command(0, "bad", <<Pay("address", 5)>>),
      Command(0, "ok", <<Pay("several", 5)>>), Command(0, "ok", <<Pay("nowhere", 5)>>),
      Command(0, "ok", <<>>), Command(0, "ok", <<Pay("address", 0)>>) }
FewCommands ==
    { Command(0, "none", <<Pay("address", 25)>>), Command(0, "none", <<Pay("address", 78)>>),
      Command(0, "none", <<Pay("address", 1), Pay("address", 66)>>),
      Command(1, "none", <<Pay("url", 18)>>) }

Spend == INSTANCE WalletSpend WITH
    pc <- step, part <- piece, sent <- taken,
    Transfers <- Outputs, Commands <- AllCommands, ChainSize <- 5, Now <- 1000,
    MaxBlockNumber <- 500, SpendableAge <- 2, DeltaBlocks <- 1, DeltaSeconds <- 2,
    DefaultMix <- 1, OutsPerAmount <- 4, MaxSplit <- 3, Dust <- 1, FeePerKB <- 1, KB <- 4,
    BaseSize <- 2, InSize <- 1, RingSize <- 1, OutSize <- 1, SizeLimit <- 16, Modulus <- 128

Ends == INSTANCE WalletSpend WITH
    pc <- step, part <- piece, sent <- taken,
    Transfers <- Outputs, Commands <- FewCommands, ChainSize <- 5, Now <- 1000,
    MaxBlockNumber <- 500, SpendableAge <- 2, DeltaBlocks <- 1, DeltaSeconds <- 2,
    DefaultMix <- 1, OutsPerAmount <- 2, MaxSplit <- 3, Dust <- 1, FeePerKB <- 1, KB <- 4,
    BaseSize <- 2, InSize <- 1, RingSize <- 1, OutSize <- 1, SizeLimit <- 16, Modulus <- 128

Init ==
    /\ part \in Parts
    /\ Books!Init
    /\ IF part = "ends" THEN Ends!Init ELSE Spend!Init
    /\ part \notin {"spend", "ends"} => cmd = Command(0, "ok", <<>>)
    /\ FilesInit
    /\ part # "files" => keys = None

BooksPart   == part = "books" /\ UNCHANGED <<part, spendVars, filesVars>>
RefreshPart == part = "refresh" /\ UNCHANGED <<part, spendVars, filesVars>>
SpendPart   == part = "spend" /\ UNCHANGED <<part, booksVars, filesVars>>
EndsPart    == part = "ends" /\ UNCHANGED <<part, booksVars, filesVars>>
FilesPart   == part = "files" /\ UNCHANGED <<part, booksVars, spendVars>>

Next ==
    \/ BooksPart /\ Books!Next
    \/ RefreshPart /\ Refresh!Next
    \/ SpendPart /\ Spend!Next
    \/ EndsPart /\ Ends!Next
    \/ FilesPart /\ FilesNext

(* A refresh that has begun runs on, and so does a command; nothing obliges    *)
(* the daemon to mine or the user to act.                                      *)
Working(i) ==
    \/ RefreshPart /\ \/ i = 1 /\ Refresh!pull_blocks
                      \/ i = 2 /\ Refresh!ProcessEntry
                      \/ i = 3 /\ Refresh!PullDone
    \/ EndsPart /\ i = 1 /\ Ends!Step

Spec == Init /\ [][Next]_vars /\ \A i \in 1..3 : WF_vars(Working(i))

-----------------------------------------------------------------------------
(* The wallet's books are those of its chain, whatever reorganizations, failed *)
(* calls and reloads came before: transfers are exactly the outputs the chain  *)
(* pays the wallet, indexed by their key images; what the chain spends is      *)
(* marked; the balance is not overstated; payments of detached blocks are      *)
(* gone; and the global indexes, asked for one by one while the daemon's chain *)
(* moved, are current once the chains are equal (process_new_transaction,      *)
(* detach_blockchain).                                                         *)
BooksMatchChain ==
    part = "books" =>
        /\ Books!KeyImagesIndex
        /\ Books!TransfersMatchChain
        /\ Books!SpentIsMarked
        /\ Books!BalanceNotOverstated
        /\ Books!PaymentsMatchChain
        /\ Books!IndexesCurrent

(* The transactions made for a command conserve money and pay together exactly *)
(* what was asked for, share no input, pay for each kilobyte they have begun,  *)
(* and have sorted rings with the wallet's own output where the signature      *)
(* expects it; whichever way the command ends, exactly the inputs of what the  *)
(* daemon took stay marked as spent (create_transactions, transfer).           *)
SpendingSound ==
    part = "spend" =>
        /\ Spend!MoneyConserved
        /\ Spend!NoSharedInput
        /\ Spend!MarksRestored
        /\ Spend!RingSound
        /\ Spend!FeeMet
        /\ Spend!EverythingPaid

(* A refresh ends, with an exception after the retries are used up or because  *)
(* nothing new came (refresh), and a transfer command comes to its end:        *)
(* neither the search for a fee nor the splitting goes on forever              *)
(* (create_transactions).                                                      *)
WalletReturns ==
    /\ []<>(part = "refresh" => phase = "idle")
    /\ []<>(part = "ends" => step = "end")
=============================================================================
