-------------------------- MODULE WalletLockProofs --------------------------
(* Whoever unlocks the wallet through walletpassphrase has a thread on its   *)
(* way to lock it: for any number of threads and any timeouts.               *)
EXTENDS WalletLock, TLAPS

IInv == TypeOK /\ LockIsComing

(* Types hold at the start and are kept by every step. *)
LEMMA TypeInductive ==
    /\ Init => TypeOK
    /\ TypeOK /\ [Next]_vars => TypeOK'
<1>1. Init => TypeOK
  BY DEF Init, TypeOK, Unset, Idle
<1>2. ASSUME TypeOK, [Next]_vars PROVE TypeOK'
  <2> USE TypeOK, TimeoutAssumption
          DEF TypeOK, Unset, Idle, Created, Asleep
  <2>1. ASSUME NEW t \in Thread, NEW n \in Timeout, walletpassphrase(t, n) PROVE TypeOK'
    BY <2>1 DEF walletpassphrase
  <2>2. ASSUME NEW t \in Thread, ThreadStart(t) PROVE TypeOK'
    BY <2>2 DEF ThreadStart, Clean, Lock, SleepFor, Later
  <2>3. ASSUME NEW t \in Thread, ThreadWake(t) PROVE TypeOK'
    BY <2>3 DEF ThreadWake, Clean, Lock, SleepFor
  <2>4. CASE walletlock
    BY <2>4 DEF walletlock, Lock
  <2>5. CASE GuiLock
    BY <2>5 DEF GuiLock, Lock
  <2>6. CASE GuiUnlock
    BY <2>6 DEF GuiUnlock
  <2>7. CASE Tick
    BY <2>7 DEF Tick, Earlier
  <2>8. CASE ChangeBegin
    BY <2>8 DEF ChangeBegin
  <2>9. CASE ChangeEnd
    BY <2>9 DEF ChangeEnd
  <2>10. CASE UNCHANGED vars
    BY <2>10 DEF vars
  <2> QED BY <1>2, <2>1, <2>2, <2>3, <2>4, <2>5, <2>6, <2>7, <2>8, <2>9, <2>10 DEF Next
<1> QED BY <1>1, <1>2

(* Every step that ends a sleep, or starts a thread, leaves a sleeper for a  *)
(* time that is set; every step that unlocks the wallet for the RPC server   *)
(* leaves a time or a thread to set it.                                      *)
LEMMA ComingInductive ==
    /\ Init => LockIsComing
    /\ IInv /\ [Next]_vars => LockIsComing'
<1>1. Init => LockIsComing
  BY DEF Init, LockIsComing, Unset, Idle
<1>2. ASSUME TypeOK, LockIsComing, [Next]_vars PROVE LockIsComing'
  <2> USE TypeOK, LockIsComing, TimeoutAssumption
          DEF TypeOK, LockIsComing, Unset, Idle, Created, Asleep
  <2>1. ASSUME NEW t \in Thread, NEW n \in Timeout, walletpassphrase(t, n)
        PROVE  LockIsComing'
    BY <2>1 DEF walletpassphrase
  <2>2. ASSUME NEW t \in Thread, ThreadStart(t) PROVE LockIsComing'
    BY <2>2 DEF ThreadStart, Clean, Lock, SleepFor, Later
  <2>3. ASSUME NEW t \in Thread, ThreadWake(t) PROVE LockIsComing'
    BY <2>3 DEF ThreadWake, Clean, Lock, SleepFor
  <2>4. CASE walletlock
    BY <2>4 DEF walletlock, Lock
  <2>5. CASE GuiLock
    BY <2>5 DEF GuiLock, Lock
  <2>6. CASE GuiUnlock
    BY <2>6 DEF GuiUnlock
  <2>7. CASE Tick
    BY <2>7 DEF Tick, Earlier
  <2>8. CASE ChangeBegin
    BY <2>8 DEF ChangeBegin
  <2>9. CASE ChangeEnd
    BY <2>9 DEF ChangeEnd
  <2>10. CASE UNCHANGED vars
    BY <2>10 DEF vars
  <2> QED BY <1>2, <2>1, <2>2, <2>3, <2>4, <2>5, <2>6, <2>7, <2>8, <2>9, <2>10 DEF Next
<1> QED BY <1>1, <1>2 DEF IInv

(* Times and threads of the cleaning of the passphrase stay in their ranges. *)
THEOREM TypeCorrect == Spec => []TypeOK
  BY TypeInductive, PTL DEF Spec

(* While walletpassphrase's unlocking lasts, a sleeping thread looks at      *)
(* nWalletUnlockTime no later than it is due, or one that will set it has    *)
(* yet to start.                                                             *)
THEOREM SomeoneLocks == Spec => []LockIsComing
<1>1. Init => IInv
  BY TypeInductive, ComingInductive DEF IInv
<1>2. IInv /\ [Next]_vars => IInv'
  BY TypeInductive, ComingInductive DEF IInv
<1>3. IInv => LockIsComing
  BY DEF IInv
<1> QED BY <1>1, <1>2, <1>3, PTL DEF Spec
=============================================================================
