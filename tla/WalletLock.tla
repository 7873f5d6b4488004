----------------------------- MODULE WalletLock -----------------------------
(***************************************************************************)
(* How long an encrypted wallet stays unlocked: walletpassphrase unlocks   *)
(* it and starts a ThreadCleanWalletPassphrase, walletlock locks it, and   *)
(* the window locks and unlocks it without looking at the timers.          *)
(*                                                                         *)
(* Times are kept as the seconds left until them, no less than 0: the code *)
(* only compares differences with GetTimeMillis() to 0, and times with one *)
(* another.  cs_nWalletUnlockTime is released only while a thread sleeps,  *)
(* so each step below runs from one sleep to the next.                     *)
(***************************************************************************)
EXTENDS Integers

CONSTANTS
    Thread,             \* bounds the cleaning threads alive at a time
    Timeout             \* the <timeout> arguments

ASSUME TimeoutAssumption == Timeout \subseteq Nat

VARIABLES
    unlockedBy,         \* "none": the wallet is locked; "rpc", "gui" or
                        \* "change": who unlocked it
    changing,           \* what unlockedBy was when walletpassphrasechange
                        \* began; "crossed" if it was locked since; or "no"
    nWalletUnlockTime,  \* 0 in the code is Unset here
    thread              \* [Thread -> [pc, left]]: left is the argument of a
                        \* thread not started, the sleep of one that sleeps

vars == <<unlockedBy, changing, nWalletUnlockTime, thread>>

Unset == -1
Idle == [pc |-> "idle", left |-> 0]
Created(n) == [pc |-> "created", left |-> n]
Asleep(n) == [pc |-> "asleep", left |-> n]

(* Refused unless the wallet is locked; the passphrase is right. *)
walletpassphrase(t, n) ==
    /\ unlockedBy = "none"
    /\ changing = "no"
    /\ thread[t] = Idle
    /\ unlockedBy' = "rpc"
    /\ thread' = [thread EXCEPT ![t] = Created(n)]
    /\ UNCHANGED <<changing, nWalletUnlockTime>>

(* CCryptoKeyStore::Lock, which takes neither cs_main nor cs_wallet. *)
Lock ==
    /\ unlockedBy' = "none"
    /\ changing' = IF changing = "no" THEN "no" ELSE "crossed"

(* The end of a cleaning thread whose time is due. *)
Clean(t) ==
    /\ nWalletUnlockTime' = Unset
    /\ Lock
    /\ thread' = [thread EXCEPT ![t] = Idle]

SleepFor(t, n) ==
    /\ nWalletUnlockTime' = n
    /\ thread' = [thread EXCEPT ![t] = Asleep(n)]
    /\ UNCHANGED <<unlockedBy, changing>>

(* The later of two times. *)
Later(m, n) == IF m < n THEN n ELSE m

(* ThreadCleanWalletPassphrase up to its first sleep or its end. *)
ThreadStart(t) ==
    LET n == thread[t].left
    IN  /\ thread[t].pc = "created"
        /\ \/ /\ nWalletUnlockTime = Unset
              /\ IF n = 0 THEN Clean(t) ELSE SleepFor(t, n)
           \/ /\ nWalletUnlockTime # Unset
              /\ nWalletUnlockTime' = Later(nWalletUnlockTime, n)
              /\ thread' = [thread EXCEPT ![t] = Idle]
              /\ UNCHANGED <<unlockedBy, changing>>

(* A fault: a thread that wakes locks nothing if the time has moved on. *)
WakeOnce(t) ==
    /\ thread[t] = Asleep(0)
    /\ \/ /\ nWalletUnlockTime # 0
          /\ thread' = [thread EXCEPT ![t] = Idle]
          /\ UNCHANGED <<unlockedBy, changing, nWalletUnlockTime>>
       \/ nWalletUnlockTime = 0 /\ Clean(t)

(* A sleep is over: the thread ends if walletlock has come first, locks the  *)
(* wallet if the time is due, and sleeps again if it has been moved on.      *)
ThreadWake(t) ==
    /\ thread[t] = Asleep(0)
    /\ \/ /\ nWalletUnlockTime = Unset
          /\ thread' = [thread EXCEPT ![t] = Idle]
          /\ UNCHANGED <<unlockedBy, changing, nWalletUnlockTime>>
       \/ nWalletUnlockTime = 0 /\ Clean(t)
       \/ nWalletUnlockTime > 0 /\ SleepFor(t, nWalletUnlockTime)

walletlock ==
    /\ changing = "no"
    /\ Lock
    /\ nWalletUnlockTime' = Unset
    /\ UNCHANGED thread

(* WalletModel::setWalletLocked(true), also in requestUnlock, in             *)
(* changePassphrase and at the end of an UnlockContext.                      *)
GuiLock ==
    /\ unlockedBy # "none" \/ changing # "no"
    /\ Lock
    /\ UNCHANGED <<nWalletUnlockTime, thread>>

(* WalletModel::setWalletLocked(false), which waits for cs_wallet. *)
GuiUnlock ==
    /\ unlockedBy = "none"
    /\ changing = "no"
    /\ unlockedBy' = "gui"
    /\ UNCHANGED <<changing, nWalletUnlockTime, thread>>

(* walletpassphrasechange on an unlocked wallet: ChangeWalletPassphrase      *)
(* notes that it was not locked, locks it and derives the key, for some time.*)
(* On a locked wallet, as from the window, it ends with the wallet locked.   *)
ChangeBegin ==
    /\ unlockedBy # "none"
    /\ changing = "no"
    /\ changing' = unlockedBy
    /\ unlockedBy' = "none"
    /\ UNCHANGED <<nWalletUnlockTime, thread>>

(* The old passphrase is right, and the wallet is unlocked as it was; or it  *)
(* is wrong, and the wallet stays locked.                                    *)
ChangeEnd ==
    /\ changing # "no"
    /\ unlockedBy' \in {"none", IF changing = "crossed" THEN "change" ELSE changing}
    /\ changing' = "no"
    /\ UNCHANGED <<nWalletUnlockTime, thread>>

(* Time passes. *)
Earlier(n) == IF n > 0 THEN n - 1 ELSE n

Tick ==
    /\ nWalletUnlockTime' = Earlier(nWalletUnlockTime)
    /\ thread' = [t \in Thread |->
                    IF thread[t].pc = "asleep" THEN Asleep(Earlier(thread[t].left))
                    ELSE thread[t]]
    /\ UNCHANGED <<unlockedBy, changing>>

Init ==
    /\ unlockedBy = "none"
    /\ changing = "no"
    /\ nWalletUnlockTime = Unset
    /\ thread = [t \in Thread |-> Idle]

Next ==
    \/ \E t \in Thread : \E n \in Timeout : walletpassphrase(t, n)
    \/ \E t \in Thread : ThreadStart(t)
    \/ \E t \in Thread : ThreadWake(t)
    \/ walletlock
    \/ GuiLock
    \/ GuiUnlock
    \/ ChangeBegin
    \/ ChangeEnd
    \/ Tick

(* Threads run, sleeps end, the clock goes on and a call that was made is    *)
(* answered; nobody has to call.                                             *)
Fairness ==
    /\ WF_vars(Tick)
    /\ WF_vars(ChangeEnd)
    /\ \A t \in Thread : WF_vars(ThreadStart(t)) /\ WF_vars(ThreadWake(t))

Spec == Init /\ [][Next]_vars /\ Fairness

-----------------------------------------------------------------------------
(* Times are not negative, other than Unset. *)
TypeOK ==
    /\ unlockedBy \in {"none", "rpc", "gui", "change"}
    /\ changing \in {"no", "rpc", "gui", "change", "crossed"}
    /\ nWalletUnlockTime \in Nat \cup {Unset}
    /\ thread \in [Thread -> [pc : {"idle", "created", "asleep"}, left : Nat]]

(* Someone will lock the wallet: whenever nWalletUnlockTime is set a thread  *)
(* sleeps that looks at it no later than it is due, and as long as what      *)
(* walletpassphrase unlocked is unlocked, or about to be again after a       *)
(* change of passphrase, it is set or a thread that will set it has yet to   *)
(* start.                                                                    *)
LockIsComing ==
    /\ nWalletUnlockTime # Unset =>
         \E t \in Thread : thread[t].pc = "asleep" /\ thread[t].left <= nWalletUnlockTime
    /\ unlockedBy = "rpc" \/ changing = "rpc" =>
         \/ nWalletUnlockTime # Unset
         \/ \E t \in Thread : thread[t].pc = "created"

(* A wallet unlocked by walletpassphrase is locked in the end, however calls *)
(* of walletlock, the window's locks and threads that start late fall.       *)
LockedAgain == unlockedBy = "rpc" ~> unlockedBy # "rpc"

(* walletpassphrase "Stores the wallet decryption key in memory for          *)
(* <timeout> seconds" (bitcoinrpc.cpp:1953): unless the window unlocks it, a *)
(* wallet that is unlocked is locked again, also when its passphrase is      *)
(* changed meanwhile.                                                        *)
UnlockEnds == unlockedBy \in {"rpc", "change"} ~> unlockedBy \notin {"rpc", "change"}
=============================================================================
