----------------------------- MODULE WalletFile -----------------------------
(***************************************************************************)
(* wallet.dat: the Berkeley DB environment and handle shared by all        *)
(* threads (CDBEnv, CDB), the thread that folds the log into the file when *)
(* nobody uses it (ThreadFlushWalletDB), BackupWallet, the encryption of   *)
(* the wallet with the rewriting of the file that ends it, the flushes of  *)
(* Shutdown, and the process dying at any point.                           *)
(*                                                                         *)
(* Two threads use the file: "rpc" holds cs_main (the RPC server or the    *)
(* message handler, which exclude each other), "gui" does not (the window, *)
(* or the thread that tops up the key pool).  A use of the file is a list  *)
(* of instructions, cut where another thread can come in between.  What    *)
(* Berkeley DB does is modelled from its use: a write is in the log at     *)
(* once and survives the process, a transaction is all or nothing, and     *)
(* only a checkpoint with lsn_reset makes the file complete by itself.     *)
(***************************************************************************)
EXTENDS Integers, Sequences, FiniteSets

CONSTANTS
    MaxKeys,        \* bound on the keys made
    MaxMasters,     \* bound on the master keys made
    Jobs            \* for each thread, the uses of the file it makes

Threads == {"rpc", "gui"}

(* The uses of wallet.dat, by the order in which each takes cs_wallet, opens *)
(* a CWalletDB, writes and lets go.                                          *)
Program == [
    setname           |-> <<"open", "name", "close">>,
    getaccountaddress |-> <<"open", "lock", "open", "addkey", "close", "unlock",
                            "open", "name", "close", "account", "close">>,
    encrypt           |-> <<"check", "lock", "open", "encrypt", "commit", "close",
                            "open", "addkey", "close", "copy", "remove", "rename", "unlock">>,
    backup            |-> <<"backup">>]

ASSUME BoundAssumption == MaxKeys \in Nat /\ MaxMasters \in Nat
ASSUME JobAssumption == Jobs \in [Threads -> SUBSET DOMAIN Program]

Nobody == "nobody"
Absent == -1

(* A file: the master key each key is under, 0 for none, and the master key. *)
Missing == [exists |-> FALSE, key |-> <<>>, mkey |-> 0]
Empty == [exists |-> TRUE, key |-> <<>>, mkey |-> 0]

(* LoadWallet and a later Unlock succeed: all keys are in the clear, or all  *)
(* under the master key of the file.                                         *)
Loads(w) == w.exists /\ \A k \in DOMAIN w.key : w.key[k] = w.mkey

VARIABLES
    \* memory
    alive,
    nShutdown,          \* how far Shutdown is: 1 fShutdown set, 2 and 3 after each Flush
    fDbEnvInit,
    mapFileUseCount,    \* of wallet.dat, Absent when it has no entry
    mapDb,              \* whether the handle of wallet.dat is open
    cs_wallet,          \* who holds it
    job, pc,            \* what a thread does and where it is
    handles,            \* how many CDB objects it has
    nMasterKey,         \* the master key in memory, 0 while not crypted
    fUnflushed,         \* nLastFlushed # nWalletDBUpdated
    \* disk
    wallet,             \* wallet.dat with its log
    logged,             \* what the file lacks without its log: nothing, only updates that
                        \* nWalletDBUpdated does not show ("uncounted"), or others ("counted")
    rewrite,            \* wallet.dat.rewrite
    backup,             \* the last copy BackupWallet made: none, good or broken
    \* history
    nKeys, nMasters,    \* made so far
    died                \* the process died between remove and rename

cdbenv == <<fDbEnvInit, mapFileUseCount, mapDb>>
threads == <<cs_wallet, job, pc, handles>>
disk == <<wallet, logged, rewrite, backup>>
history == <<nKeys, nMasters, died>>
vars == <<alive, nShutdown, cdbenv, threads, nMasterKey, fUnflushed, disk, history>>

fShutdown == nShutdown > 0

-----------------------------------------------------------------------------
(* CDBEnv and CDB *)

At(t, instruction) == job[t] # Nobody /\ Program[job[t]][pc[t]] = instruction

(* Rewrite holds cs_db from its copy to its rename. *)
cs_dbFree == \A t \in Threads : ~At(t, "remove") /\ ~At(t, "rename")

(* The test made before the handle is closed under the other threads. *)
Unused == mapFileUseCount \in {Absent, 0}

(* A fault: the log stays where it is. *)
CloseDbOnly ==
    /\ mapDb' = FALSE
    /\ mapFileUseCount' = Absent
    /\ UNCHANGED logged

(* CloseDb, CheckpointLSN and mapFileUseCount.erase: the file is closed and  *)
(* complete without its log.                                                 *)
CloseAndCheckpoint ==
    /\ mapDb' = FALSE
    /\ mapFileUseCount' = Absent
    /\ logged' = "nothing"

-----------------------------------------------------------------------------
(* Threads *)

(* A master key is left for each encryption that has begun. *)
MasterLeft == nMasters + Cardinality({t \in Threads : job[t] = "encrypt"}) < MaxMasters

Begin(t, j) ==
    /\ alive
    /\ ~fShutdown
    /\ job[t] = Nobody
    /\ j = "encrypt" => MasterLeft
    /\ job' = [job EXCEPT ![t] = j]
    /\ pc' = [pc EXCEPT ![t] = 1]
    /\ UNCHANGED <<alive, nShutdown, cdbenv, cs_wallet, handles, nMasterKey, fUnflushed, disk, history>>

Step(t) ==
    IF pc[t] = Len(Program[job[t]])
    THEN job' = [job EXCEPT ![t] = Nobody] /\ pc' = [pc EXCEPT ![t] = 0]
    ELSE pc' = [pc EXCEPT ![t] = @ + 1] /\ UNCHANGED job

(* A thread leaves by an exception or an early return, and what it holds is  *)
(* released on the way.                                                      *)
Leave(t) ==
    /\ job' = [job EXCEPT ![t] = Nobody]
    /\ pc' = [pc EXCEPT ![t] = 0]
    /\ handles' = [handles EXCEPT ![t] = 0]
    /\ cs_wallet' = IF cs_wallet = t THEN Nobody ELSE cs_wallet
    /\ mapFileUseCount' = IF handles[t] = 0 THEN mapFileUseCount ELSE mapFileUseCount - handles[t]

Lock(t) ==
    /\ At(t, "lock")
    /\ cs_wallet = Nobody
    /\ cs_wallet' = t
    /\ Step(t)
    /\ UNCHANGED <<alive, nShutdown, cdbenv, handles, nMasterKey, fUnflushed, disk, history>>

Unlock(t) ==
    /\ At(t, "unlock")
    /\ cs_wallet' = Nobody
    /\ Step(t)
    /\ UNCHANGED <<alive, nShutdown, cdbenv, handles, nMasterKey, fUnflushed, disk, history>>

(* The constructor of CDB opens the handle when it is not open. *)
Open(t) ==
    /\ At(t, "open")
    /\ cs_dbFree
    /\ fDbEnvInit
    /\ mapFileUseCount' = IF mapFileUseCount = Absent THEN 1 ELSE mapFileUseCount + 1
    /\ mapDb' = TRUE
    /\ handles' = [handles EXCEPT ![t] = @ + 1]
    /\ Step(t)
    /\ UNCHANGED <<alive, nShutdown, fDbEnvInit, cs_wallet, nMasterKey, fUnflushed, disk, history>>

(* "env open failed": Shutdown has closed the environment. *)
OpenThrows(t) ==
    /\ At(t, "open")
    /\ ~fDbEnvInit
    /\ Leave(t)
    /\ UNCHANGED <<alive, nShutdown, fDbEnvInit, mapDb, nMasterKey, fUnflushed, disk, history>>

(* CDB::Close *)
Close(t) ==
    /\ At(t, "close")
    /\ cs_dbFree
    /\ mapFileUseCount' = mapFileUseCount - 1
    /\ handles' = [handles EXCEPT ![t] = @ - 1]
    /\ Step(t)
    /\ UNCHANGED <<alive, nShutdown, fDbEnvInit, mapDb, cs_wallet, nMasterKey, fUnflushed, disk, history>>

-----------------------------------------------------------------------------
(* Writes *)

(* nWalletDBUpdated++ *)
CountUpdate == fUnflushed' = TRUE

(* A name or a record of the key pool. *)
WriteName(t) ==
    /\ At(t, "name")
    /\ logged' = "counted"
    /\ CountUpdate
    /\ Step(t)
    /\ UNCHANGED <<alive, nShutdown, cdbenv, cs_wallet, handles, nMasterKey, wallet, rewrite, backup, history>>

(* WriteAccount and WriteAccountingEntry do not count the update. *)
WriteAccount(t) ==
    /\ At(t, "account")
    /\ logged' = IF logged = "counted" THEN "counted" ELSE "uncounted"
    /\ Step(t)
    /\ UNCHANGED <<alive, nShutdown, cdbenv, cs_wallet, handles, nMasterKey, fUnflushed,
                   wallet, rewrite, backup, history>>

(* AddKey or AddCryptedKey of a key just made. *)
AddKey(t) ==
    /\ At(t, "addkey")
    /\ nKeys < MaxKeys
    /\ nKeys' = nKeys + 1
    /\ wallet' = [wallet EXCEPT !.key = [k \in DOMAIN @ \cup {nKeys + 1} |->
                                           IF k = nKeys + 1 THEN nMasterKey ELSE @[k]]]
    /\ logged' = "counted"
    /\ CountUpdate
    /\ Step(t)
    /\ UNCHANGED <<alive, nShutdown, cdbenv, cs_wallet, handles, nMasterKey, rewrite, backup, nMasters, died>>

(* TopUpKeyPool makes no key: the pool is full or the wallet locked. *)
AddNoKey(t) ==
    /\ At(t, "addkey")
    /\ Step(t)
    /\ UNCHANGED <<alive, nShutdown, cdbenv, cs_wallet, handles, nMasterKey, fUnflushed, disk, history>>

-----------------------------------------------------------------------------
(* EncryptWallet.  The lock is taken after the look at IsCrypted. *)

Check(t) ==
    /\ At(t, "check")
    /\ IF nMasterKey = 0 THEN Step(t) /\ UNCHANGED <<cs_wallet, handles, mapFileUseCount>> ELSE Leave(t)
    /\ UNCHANGED <<alive, nShutdown, fDbEnvInit, mapDb, nMasterKey, fUnflushed, disk, history>>

(* EncryptKeys changes the keys in memory; their records wait in the         *)
(* transaction.                                                              *)
EncryptKeys(t) ==
    /\ At(t, "encrypt")
    /\ nMasterKey = 0
    /\ nMasters' = nMasters + 1
    /\ nMasterKey' = nMasters + 1
    /\ CountUpdate
    /\ Step(t)
    /\ UNCHANGED <<alive, nShutdown, cdbenv, cs_wallet, handles, disk, nKeys, died>>

(* A fault: keys are written as they are encrypted, the last one not yet. *)
CommittedInPart == [wallet EXCEPT !.key = [k \in DOMAIN @ |-> IF k = nKeys THEN @[k] ELSE nMasterKey],
                                  !.mkey = nMasterKey]

(* A fault: the records are dropped with the transaction. *)
CommittedNot == wallet

Committed == [wallet EXCEPT !.key = [k \in DOMAIN @ |-> nMasterKey], !.mkey = nMasterKey]

TxnCommit(t) ==
    /\ At(t, "commit")
    /\ wallet' = Committed
    /\ logged' = "counted"
    /\ Step(t)
    /\ UNCHANGED <<alive, nShutdown, cdbenv, cs_wallet, handles, nMasterKey, fUnflushed, rewrite, backup, history>>

(* CDB::Rewrite waits until nobody uses the file, or Shutdown has begun. *)
Copy(t) ==
    /\ At(t, "copy")
    /\ cs_dbFree
    /\ ~fShutdown
    /\ Unused
    /\ mapDb' = FALSE
    /\ mapFileUseCount' = 0
    /\ logged' = "nothing"
    /\ Step(t)
    /\ UNCHANGED <<alive, nShutdown, fDbEnvInit, cs_wallet, handles, nMasterKey, fUnflushed,
                   wallet, rewrite, backup, history>>

(* A fault: the loop goes on through a shutdown. *)
CopyNeverGivenUp(t) ==
    /\ At(t, "copy")
    /\ fShutdown
    /\ UNCHANGED vars

CopyGivenUp(t) ==
    /\ At(t, "copy")
    /\ fShutdown
    /\ pc' = [pc EXCEPT ![t] = Len(Program["encrypt"])]
    /\ UNCHANGED <<alive, nShutdown, cdbenv, cs_wallet, job, handles, nMasterKey, fUnflushed, disk, history>>

(* wallet.dat.rewrite after the records of w are put there: a record it has  *)
(* already is not overwritten (DB_NOOVERWRITE), nor is that an error.        *)
PutAll(w) ==
    IF ~rewrite.exists THEN w
    ELSE [exists |-> TRUE,
          key |-> [k \in DOMAIN rewrite.key \cup DOMAIN w.key |->
                     IF k \in DOMAIN rewrite.key THEN rewrite.key[k] ELSE w.key[k]],
          mkey |-> IF rewrite.mkey # 0 THEN rewrite.mkey ELSE w.mkey]

Remove(t) ==
    /\ At(t, "remove")
    /\ rewrite' = PutAll(wallet)
    /\ wallet' = Missing
    /\ Step(t)
    /\ UNCHANGED <<alive, nShutdown, cdbenv, cs_wallet, handles, nMasterKey, fUnflushed, logged, backup, history>>

Rename(t) ==
    /\ At(t, "rename")
    /\ wallet' = rewrite
    /\ rewrite' = Missing
    /\ Step(t)
    /\ UNCHANGED <<alive, nShutdown, cdbenv, cs_wallet, handles, nMasterKey, fUnflushed, logged, backup, history>>

-----------------------------------------------------------------------------
(* BackupWallet *)

(* A file that needs its log does not open elsewhere. *)
Copied(log) == IF log = "nothing" /\ Loads(wallet) THEN "good" ELSE "broken"

BackupCopy(t) ==
    /\ At(t, "backup")
    /\ cs_dbFree
    /\ ~fShutdown
    /\ Unused
    /\ CloseAndCheckpoint
    /\ backup' = Copied(logged')
    /\ Step(t)
    /\ UNCHANGED <<alive, nShutdown, fDbEnvInit, cs_wallet, handles, nMasterKey, fUnflushed, wallet, rewrite, history>>

BackupGivenUp(t) ==
    /\ At(t, "backup")
    /\ fShutdown
    /\ Step(t)
    /\ UNCHANGED <<alive, nShutdown, cdbenv, cs_wallet, handles, nMasterKey, fUnflushed, disk, history>>

-----------------------------------------------------------------------------
(* ThreadFlushWalletDB *)

(* A fault: nLastFlushed is set before the look at the use counts. *)
FlushWalletEarly ==
    /\ alive
    /\ ~fShutdown
    /\ fUnflushed
    /\ cs_dbFree
    /\ fUnflushed' = FALSE
    /\ IF mapFileUseCount = 0 THEN CloseAndCheckpoint ELSE UNCHANGED <<mapDb, mapFileUseCount, logged>>
    /\ UNCHANGED <<alive, nShutdown, fDbEnvInit, threads, nMasterKey, wallet, rewrite, backup, history>>

(* Two seconds without an update have passed, if there was one. *)
FlushWallet ==
    /\ alive
    /\ ~fShutdown
    /\ fUnflushed
    /\ cs_dbFree
    /\ mapFileUseCount = 0
    /\ fUnflushed' = FALSE
    /\ CloseAndCheckpoint
    /\ UNCHANGED <<alive, nShutdown, fDbEnvInit, threads, nMasterKey, wallet, rewrite, backup, history>>

-----------------------------------------------------------------------------
(* Start and end of the process *)

RequestShutdown ==
    /\ alive
    /\ ~fShutdown
    /\ nShutdown' = 1
    /\ UNCHANGED <<alive, cdbenv, threads, nMasterKey, fUnflushed, disk, history>>

(* A fault: the environment is closed whoever uses it. *)
EnvUnusedAlways == TRUE

EnvUnused == mapFileUseCount \in {0, Absent}

(* The two calls of CDBEnv::Flush, the second of which closes the            *)
(* environment when no file is in use.                                       *)
Flush ==
    /\ alive
    /\ nShutdown \in {1, 2}
    /\ cs_dbFree
    /\ nShutdown' = nShutdown + 1
    /\ IF mapFileUseCount = 0 THEN CloseAndCheckpoint ELSE UNCHANGED <<mapDb, mapFileUseCount, logged>>
    /\ fDbEnvInit' = ~(nShutdown = 2 /\ EnvUnused)
    /\ UNCHANGED <<alive, threads, nMasterKey, fUnflushed, wallet, rewrite, backup, history>>

(* A process that has ended.  Its copy of wallet.dat may have got any part   *)
(* of the way.                                                               *)
Die ==
    /\ alive
    /\ alive' = FALSE
    /\ nShutdown' = 0
    /\ fDbEnvInit' = FALSE
    /\ mapFileUseCount' = Absent
    /\ mapDb' = FALSE
    /\ cs_wallet' = Nobody
    /\ job' = [t \in Threads |-> Nobody]
    /\ pc' = [t \in Threads |-> 0]
    /\ handles' = [t \in Threads |-> 0]
    /\ nMasterKey' = 0
    /\ fUnflushed' = FALSE
    /\ logged' = IF logged = "counted" THEN "uncounted" ELSE logged
    /\ IF \E t \in Threads : At(t, "remove")
       THEN \E ks \in SUBSET DOMAIN wallet.key, m \in {0, wallet.mkey} :
              rewrite' = PutAll([exists |-> TRUE, key |-> [k \in ks |-> wallet.key[k]], mkey |-> m])
       ELSE UNCHANGED rewrite
    /\ died' = (died \/ \E t \in Threads : At(t, "rename"))
    /\ UNCHANGED <<wallet, backup, nKeys, nMasters>>

(* exit(1): another thread encrypted the wallet after the look at IsCrypted, *)
(* or the transaction could not be committed.                                *)
ExitEncrypting(t) ==
    /\ (At(t, "encrypt") /\ nMasterKey # 0) \/ At(t, "commit")
    /\ Die

(* LoadWallet, which makes a new file when there is none. *)
LoadWallet ==
    /\ ~alive
    /\ alive' = TRUE
    /\ fDbEnvInit' = TRUE
    /\ mapFileUseCount' = 0
    /\ mapDb' = TRUE
    /\ wallet' = IF wallet.exists THEN wallet ELSE Empty
    /\ nMasterKey' = wallet.mkey
    /\ UNCHANGED <<nShutdown, threads, fUnflushed, logged, rewrite, backup, history>>

Init ==
    /\ alive = FALSE
    /\ nShutdown = 0
    /\ fDbEnvInit = FALSE
    /\ mapFileUseCount = Absent
    /\ mapDb = FALSE
    /\ cs_wallet = Nobody
    /\ job = [t \in Threads |-> Nobody]
    /\ pc = [t \in Threads |-> 0]
    /\ handles = [t \in Threads |-> 0]
    /\ nMasterKey = 0
    /\ fUnflushed = FALSE
    /\ wallet = Missing
    /\ logged = "nothing"
    /\ rewrite = Missing
    /\ backup = "none"
    /\ nKeys = 0
    /\ nMasters = 0
    /\ died = FALSE

(* What a thread does in the middle of a use of the file. *)
Proceed(t) ==
    \/ Unlock(t) \/ Open(t) \/ OpenThrows(t) \/ Close(t)
    \/ WriteName(t) \/ WriteAccount(t) \/ AddKey(t) \/ AddNoKey(t)
    \/ Check(t) \/ EncryptKeys(t) \/ TxnCommit(t) \/ ExitEncrypting(t)
    \/ CopyGivenUp(t) \/ Remove(t) \/ Rename(t) \/ BackupGivenUp(t)

(* Where it waits for another thread. *)
Wait(t) == Lock(t) \/ Copy(t) \/ BackupCopy(t)

Next ==
    \/ \E t \in Threads : \E j \in Jobs[t] : Begin(t, j)
    \/ \E t \in Threads : Proceed(t) \/ Wait(t)
    \/ FlushWallet
    \/ RequestShutdown
    \/ Flush
    \/ Die
    \/ LoadWallet

Spec == Init /\ [][Next]_vars

(* A thread in a use of the file goes on.  One that waits gets its turn when *)
(* it could go on again and again: a mutex does not pass over the same       *)
(* waiter for ever, and a poll every 100 ms meets one of the moments at      *)
(* which uses of milliseconds leave the file unused.                         *)
Fairness ==
    /\ \A t \in Threads : WF_vars(Proceed(t)) /\ SF_vars(Wait(t))
    /\ WF_vars(FlushWallet)

FairSpec == Spec /\ Fairness

-----------------------------------------------------------------------------
(* Properties *)

(* "Don't do this if any databases are in use": whatever closes the handle   *)
(* of wallet.dat or the environment (the flush thread, a backup, the         *)
(* rewriting, Shutdown) does so when no CDB object is alive, because the use *)
(* count is the number of those objects.                                     *)
NoCloseInUse ==
    /\ handles["rpc"] + handles["gui"] = IF mapFileUseCount = Absent THEN 0 ELSE mapFileUseCount
    /\ handles["rpc"] + handles["gui"] > 0 => mapDb /\ fDbEnvInit

(* Whenever the process ends, in the middle of an encryption, its            *)
(* transaction, or the rewriting, and however uses of the file interleave,   *)
(* wallet.dat is there at the next start with every key that was ever made,  *)
(* all in the clear or all under the master key it holds.  The exception is  *)
(* an end between Rewrite's remove and rename.                               *)
KeysSurvive ==
    ~alive /\ nKeys > 0 /\ ~died => Loads(wallet) /\ DOMAIN wallet.key = 1..nKeys

(* A backup that was made opens by itself, and its keys are in the clear or  *)
(* under its own master key.                                                 *)
BackupLoads == backup = "broken" => died

(* The keys in memory and those in the file are encrypted or not together,   *)
(* except while a transaction of EncryptWallet is on its way; none is        *)
(* written in the other form meanwhile, because cs_wallet is held.           *)
FormsAgree ==
    alive /\ ~died /\ wallet.exists /\ wallet.mkey # nMasterKey =>
        \E t \in Threads : At(t, "commit") /\ cs_wallet = t

(* A use that has opened wallet.dat waits for cs_wallet, which is held by an *)
(* encryption that waits for wallet.dat to be unused.                        *)
Deadlocked ==
    \E t, u \in Threads : /\ At(t, "copy") /\ cs_wallet = t
                          /\ At(u, "lock") /\ handles[u] > 0
                          /\ ~fShutdown

(* EncryptWallet returns, or the process ends, unless it has met a use that  *)
(* opened the file before it took cs_wallet; and a shutdown ends even that.  *)
EncryptReturns ==
    \A t \in Threads : (alive /\ job[t] = "encrypt") ~> (job[t] # "encrypt" \/ Deadlocked)

Quiet == alive /\ ~fShutdown /\ \A t \in Threads : job[t] = Nobody

(* ThreadFlushWalletDB: once nothing uses wallet.dat any more, every update  *)
(* that nWalletDBUpdated counts is in the file itself.                       *)
UpdatesReachFile == <>[]Quiet => <>[](logged # "counted")

=============================================================================
