-------------------------- MODULE WalletFileProofs --------------------------
(***************************************************************************)
(* The use count of wallet.dat is the number of CDB objects alive, so that *)
(* neither the file nor the environment is closed under one; and           *)
(* wallet.dat keeps every key, in one form, through encryptions,           *)
(* rewritings and ends of the process.                                     *)
(***************************************************************************)
EXTENDS WalletFile, TLAPS

(* How many CDB objects a thread has before each instruction of a use. *)
OpenAt == [
    setname           |-> <<0, 1, 1>>,
    getaccountaddress |-> <<0, 1, 1, 2, 2, 1, 1, 2, 2, 1, 1>>,
    encrypt           |-> <<0, 0, 0, 1, 1, 1, 0, 1, 1, 0, 0, 0, 0>>,
    backup            |-> <<0>>]

Delta(instruction) ==
    IF instruction = "open" THEN 1 ELSE IF instruction = "close" THEN -1 ELSE 0

(* A thread with no use to make is at none of its instructions. *)
Placed ==
    /\ job \in [Threads -> DOMAIN Program \cup {Nobody}]
    /\ pc \in [Threads -> Nat]
    /\ \A t \in Threads : job[t] # Nobody => pc[t] \in 1..Len(Program[job[t]])

HeldBy(t) == IF job[t] = Nobody THEN 0 ELSE OpenAt[job[t]][pc[t]]

(* The inductive invariant: the place a thread is at tells the objects it    *)
(* has, and the threads end with the process.                                *)
UseInv ==
    /\ Placed
    /\ handles \in [Threads -> Nat]
    /\ \A t \in Threads : handles[t] = HeldBy(t)
    /\ mapFileUseCount \in {Absent} \cup Nat
    /\ ~alive => \A t \in Threads : job[t] = Nobody
    /\ NoCloseInUse

-----------------------------------------------------------------------------
(* Uses of the file *)

(* The uses are these four. *)
LEMMA Uses ==
    /\ DOMAIN Program = {"setname", "getaccountaddress", "encrypt", "backup"}
    /\ Nobody \notin DOMAIN Program
BY DEF Program, Nobody

(* Every use lets go of what it opened, and never of more. *)
LEMMA Balanced ==
    ASSUME NEW j \in DOMAIN Program, NEW n \in 1..Len(Program[j])
    PROVE  LET d == Delta(Program[j][n])
           IN  /\ OpenAt[j][n] \in Nat
               /\ OpenAt[j][n] + d \in Nat
               /\ n = Len(Program[j]) => OpenAt[j][n] + d = 0
               /\ n # Len(Program[j]) => n + 1 \in 1..Len(Program[j])
                                         /\ OpenAt[j][n + 1] = OpenAt[j][n] + d
<1>1. CASE j = "setname"
  <2>1. Program[j] = <<"open", "name", "close">> /\ OpenAt[j] = <<0, 1, 1>>
    BY <1>1 DEF Program, OpenAt
  <2>2. Len(Program[j]) = 3 /\ n \in 1..3
    BY <2>1
  <2> QED BY <2>1, <2>2 DEF Delta
<1>2. CASE j = "backup"
  <2>1. Program[j] = <<"backup">> /\ OpenAt[j] = <<0>>
    BY <1>2 DEF Program, OpenAt
  <2>2. Len(Program[j]) = 1 /\ n \in 1..1
    BY <2>1
  <2> QED BY <2>1, <2>2 DEF Delta
<1>3. CASE j = "encrypt"
  <2>1. /\ Program[j] = <<"check", "lock", "open", "encrypt", "commit", "close",
                          "open", "addkey", "close", "copy", "remove", "rename", "unlock">>
        /\ OpenAt[j] = <<0, 0, 0, 1, 1, 1, 0, 1, 1, 0, 0, 0, 0>>
    BY <1>3 DEF Program, OpenAt
  <2>2. Len(Program[j]) = 13 /\ n \in 1..13
    BY <2>1
  <2>3. CASE n \in 1..4
    BY <2>1, <2>2, <2>3 DEF Delta
  <2>4. CASE n \in 5..9
    BY <2>1, <2>2, <2>4 DEF Delta
  <2>5. CASE n \in 10..13
    BY <2>1, <2>2, <2>5 DEF Delta
  <2> QED BY <2>2, <2>3, <2>4, <2>5
<1>4. CASE j = "getaccountaddress"
  <2>1. /\ Program[j] = <<"open", "lock", "open", "addkey", "close", "unlock",
                          "open", "name", "close", "account", "close">>
        /\ OpenAt[j] = <<0, 1, 1, 2, 2, 1, 1, 2, 2, 1, 1>>
    BY <1>4 DEF Program, OpenAt
  <2>2. Len(Program[j]) = 11 /\ n \in 1..11
    BY <2>1
  <2> QED BY <2>1, <2>2 DEF Delta
<1> QED BY <1>1, <1>2, <1>3, <1>4, Uses

(* A step of a use changes what a thread has by what its instruction does. *)
LEMMA Stepped ==
    ASSUME Placed, NEW t \in Threads, NEW instruction, At(t, instruction), Step(t)
    PROVE  /\ Placed'
           /\ HeldBy(t) \in Nat
           /\ HeldBy(t)' = HeldBy(t) + Delta(instruction)
           /\ HeldBy(t)' \in Nat
           /\ \A u \in Threads \ {t} : HeldBy(u)' = HeldBy(u)
<1> DEFINE j == job[t]
           n == pc[t]
<1>1. /\ j \in DOMAIN Program /\ j # Nobody /\ n \in 1..Len(Program[j])
      /\ Program[j][n] = instruction
  BY Uses DEF Placed, At
<1>2. HeldBy(t) = OpenAt[j][n]
  BY <1>1 DEF HeldBy
<1> HIDE DEF j, n
<1>3. LET d == Delta(Program[j][n])
      IN  /\ OpenAt[j][n] \in Nat
          /\ OpenAt[j][n] + d \in Nat
          /\ n = Len(Program[j]) => OpenAt[j][n] + d = 0
          /\ n # Len(Program[j]) => n + 1 \in 1..Len(Program[j])
                                    /\ OpenAt[j][n + 1] = OpenAt[j][n] + d
  BY <1>1, Balanced
<1>4. CASE n = Len(Program[j])
  <2>1. job' = [job EXCEPT ![t] = Nobody] /\ pc' = [pc EXCEPT ![t] = 0]
    BY <1>4 DEF Step, j, n
  <2>2. job'[t] = Nobody /\ \A u \in Threads \ {t} : job'[u] = job[u] /\ pc'[u] = pc[u]
    BY <2>1 DEF Placed
  <2>3. Placed'
    BY <2>1, <2>2 DEF Placed
  <2>4. HeldBy(t)' = 0 /\ \A u \in Threads \ {t} : HeldBy(u)' = HeldBy(u)
    BY <2>2 DEF HeldBy
  <2> QED BY <1>1, <1>2, <1>3, <1>4, <2>3, <2>4
<1>5. CASE n # Len(Program[j])
  <2>1. job' = job /\ pc' = [pc EXCEPT ![t] = @ + 1]
    BY <1>5 DEF Step, j, n
  <2>2. pc'[t] = n + 1 /\ job'[t] = j
    BY <2>1 DEF Placed, j, n
  <2>3. \A u \in Threads \ {t} : job'[u] = job[u] /\ pc'[u] = pc[u]
    BY <2>1 DEF Placed
  <2>4. Placed'
    <3>1. pc' \in [Threads -> Nat] /\ job' \in [Threads -> DOMAIN Program \cup {Nobody}]
      BY <2>1 DEF Placed
    <3>2. pc'[t] \in 1..Len(Program[job'[t]])
      BY <1>3, <1>5, <2>2
    <3> QED BY <2>3, <3>1, <3>2 DEF Placed
  <2>5. HeldBy(t)' = OpenAt[j][n + 1]
    BY <1>1, <2>2 DEF HeldBy
  <2>6. \A u \in Threads \ {t} : HeldBy(u)' = HeldBy(u)
    BY <2>3 DEF HeldBy
  <2> QED BY <1>1, <1>2, <1>3, <1>5, <2>4, <2>5, <2>6
<1> QED BY <1>4, <1>5

(* A step that opens and closes nothing. *)
LEMMA QuietStep ==
    ASSUME UseInv, NEW t \in Threads, NEW instruction, At(t, instruction), Step(t),
           instruction \notin {"open", "close"},
           UNCHANGED <<alive, fDbEnvInit, handles, mapFileUseCount, mapDb>>
    PROVE  UseInv'
<1>1. /\ Placed' /\ HeldBy(t) \in Nat /\ HeldBy(t)' = HeldBy(t) + Delta(instruction)
      /\ \A u \in Threads \ {t} : HeldBy(u)' = HeldBy(u)
  BY Stepped DEF UseInv
<1>2. Delta(instruction) = 0
  BY DEF Delta
<1>3. \A u \in Threads : HeldBy(u)' = HeldBy(u)
  BY <1>1, <1>2
<1>4. alive'
  BY DEF UseInv, At
<1> QED BY <1>1, <1>3, <1>4 DEF UseInv, NoCloseInUse

(* The handle is closed only when nobody has an object. *)
LEMMA ClosedUnused ==
    ASSUME UseInv, Unused, NEW t \in Threads, NEW instruction, At(t, instruction), Step(t),
           instruction \notin {"open", "close"},
           UNCHANGED <<alive, fDbEnvInit, handles>>, mapFileUseCount' \in {Absent, 0}
    PROVE  UseInv'
<1>1. /\ Placed' /\ HeldBy(t) \in Nat /\ HeldBy(t)' = HeldBy(t) + Delta(instruction)
      /\ \A u \in Threads \ {t} : HeldBy(u)' = HeldBy(u)
  BY Stepped DEF UseInv
<1>2. Delta(instruction) = 0
  BY DEF Delta
<1>3. \A u \in Threads : HeldBy(u)' = HeldBy(u)
  BY <1>1, <1>2
<1>4. handles["rpc"] + handles["gui"] = 0
  BY DEF UseInv, NoCloseInUse, Unused, Absent
<1>5. NoCloseInUse'
  BY <1>4 DEF NoCloseInUse, Absent
<1>6. alive'
  BY DEF UseInv, At
<1> QED BY <1>1, <1>3, <1>5, <1>6 DEF UseInv

(* The constructor of CDB. *)
LEMMA OpenInv == ASSUME UseInv, NEW t \in Threads, Open(t) PROVE UseInv'
<1>1. /\ Placed' /\ HeldBy(t) \in Nat /\ HeldBy(t)' = HeldBy(t) + Delta("open")
      /\ \A u \in Threads \ {t} : HeldBy(u)' = HeldBy(u)
  BY Stepped DEF UseInv, Open
<1>2. Delta("open") = 1
  BY DEF Delta
<1>3. /\ handles' \in [Threads -> Nat] /\ handles'[t] = handles[t] + 1
      /\ \A u \in Threads \ {t} : handles'[u] = handles[u]
  BY DEF UseInv, Open
<1>4. \A u \in Threads : handles'[u] = HeldBy(u)'
  BY <1>1, <1>2, <1>3 DEF UseInv
<1>5. handles'["rpc"] + handles'["gui"] = handles["rpc"] + handles["gui"] + 1
  <2>1. CASE t = "rpc"
    BY <1>3, <2>1 DEF UseInv, Threads
  <2>2. CASE t = "gui"
    BY <1>3, <2>2 DEF UseInv, Threads
  <2> QED BY <2>1, <2>2 DEF Threads
<1>6. mapFileUseCount' = IF mapFileUseCount = Absent THEN 1 ELSE mapFileUseCount + 1
  BY DEF Open
<1>7. mapFileUseCount' \in Nat /\ mapFileUseCount' = handles["rpc"] + handles["gui"] + 1
  BY <1>6 DEF UseInv, NoCloseInUse, Absent
<1>8. mapDb' /\ fDbEnvInit'
  BY DEF Open
<1>9. NoCloseInUse'
  BY <1>5, <1>7, <1>8 DEF NoCloseInUse, Absent
<1>10. alive'
  BY DEF UseInv, At, Open
<1> QED BY <1>1, <1>3, <1>4, <1>7, <1>9, <1>10 DEF UseInv

(* CDB::Close: the count had an entry. *)
LEMMA CloseInv == ASSUME UseInv, NEW t \in Threads, Close(t) PROVE UseInv'
<1>1. /\ Placed' /\ HeldBy(t) \in Nat /\ HeldBy(t)' = HeldBy(t) + Delta("close")
      /\ HeldBy(t)' \in Nat
      /\ \A u \in Threads \ {t} : HeldBy(u)' = HeldBy(u)
  BY Stepped DEF UseInv, Close
<1>2. Delta("close") = -1
  BY DEF Delta
<1>3. handles[t] = HeldBy(t) /\ handles[t] - 1 \in Nat
  BY <1>1, <1>2 DEF UseInv
<1>4. /\ handles' \in [Threads -> Nat] /\ handles'[t] = handles[t] - 1
      /\ \A u \in Threads \ {t} : handles'[u] = handles[u]
  BY <1>3 DEF UseInv, Close
<1>5. \A u \in Threads : handles'[u] = HeldBy(u)'
  BY <1>1, <1>2, <1>4 DEF UseInv
<1>6. /\ handles'["rpc"] + handles'["gui"] = (handles["rpc"] + handles["gui"]) - 1
      /\ (handles["rpc"] + handles["gui"]) - 1 \in Nat
  <2>1. CASE t = "rpc"
    BY <1>3, <1>4, <2>1 DEF UseInv, Threads
  <2>2. CASE t = "gui"
    BY <1>3, <1>4, <2>2 DEF UseInv, Threads
  <2> QED BY <2>1, <2>2 DEF Threads
<1>7. mapFileUseCount' = mapFileUseCount - 1 /\ UNCHANGED <<mapDb, fDbEnvInit>>
  BY DEF Close
<1>8. /\ mapFileUseCount' \in Nat /\ mapFileUseCount' = (handles["rpc"] + handles["gui"]) - 1
      /\ mapDb /\ fDbEnvInit
  <2> DEFINE total == handles["rpc"] + handles["gui"]
  <2>1. /\ total = IF mapFileUseCount = Absent THEN 0 ELSE mapFileUseCount
        /\ total > 0 => mapDb /\ fDbEnvInit
    BY DEF UseInv, NoCloseInUse
  <2>2. total - 1 \in Nat /\ total \in Int
    BY <1>6 DEF UseInv, Threads
  <2> HIDE DEF total
  <2>3. total > 0 /\ mapFileUseCount = total
    BY <2>1, <2>2
  <2>4. mapDb /\ fDbEnvInit
    BY <2>1, <2>3, Zenon
  <2>5. mapFileUseCount' \in Nat /\ mapFileUseCount' = total - 1
    BY <1>7, <2>2, <2>3
  <2> USE DEF total
  <2> QED BY <2>4, <2>5, Zenon
<1>9. NoCloseInUse'
  BY <1>6, <1>7, <1>8 DEF NoCloseInUse, Absent
<1>10. alive'
  BY DEF UseInv, At, Close
<1> QED BY <1>1, <1>4, <1>5, <1>8, <1>9, <1>10 DEF UseInv

(* A thread that leaves releases the objects it has. *)
LEMMA LeaveInv ==
    ASSUME UseInv, NEW t \in Threads, Leave(t), UNCHANGED <<alive, fDbEnvInit, mapDb>>
    PROVE  UseInv'
<1>1. /\ job' = [job EXCEPT ![t] = Nobody] /\ pc' = [pc EXCEPT ![t] = 0]
      /\ handles' = [handles EXCEPT ![t] = 0]
      /\ mapFileUseCount' = IF handles[t] = 0 THEN mapFileUseCount ELSE mapFileUseCount - handles[t]
  BY DEF Leave
<1>2. Placed'
  BY <1>1 DEF UseInv, Placed
<1>3. /\ handles' \in [Threads -> Nat] /\ handles'[t] = 0
      /\ \A u \in Threads \ {t} : handles'[u] = handles[u]
  BY <1>1 DEF UseInv
<1>4. /\ job'[t] = Nobody
      /\ \A u \in Threads \ {t} : job'[u] = job[u] /\ pc'[u] = pc[u]
  BY <1>1 DEF UseInv, Placed
<1>5. \A u \in Threads : handles'[u] = HeldBy(u)'
  BY <1>3, <1>4 DEF UseInv, HeldBy
<1>6. ~alive' => \A u \in Threads : job'[u] = Nobody
  BY <1>4 DEF UseInv
<1> DEFINE total == handles["rpc"] + handles["gui"]
           new == handles'["rpc"] + handles'["gui"]
<1>7. total \in Nat /\ new = total - handles[t] /\ new \in Nat /\ handles[t] \in Nat
  <2>1. CASE t = "rpc"
    BY <1>3, <2>1 DEF UseInv, Threads
  <2>2. CASE t = "gui"
    BY <1>3, <2>2 DEF UseInv, Threads
  <2> QED BY <2>1, <2>2 DEF Threads
<1>8. /\ total = IF mapFileUseCount = Absent THEN 0 ELSE mapFileUseCount
      /\ total > 0 => mapDb /\ fDbEnvInit
      /\ mapFileUseCount \in {Absent} \cup Nat
  BY DEF UseInv, NoCloseInUse
<1> HIDE DEF total, new
<1>9. /\ new = IF mapFileUseCount' = Absent THEN 0 ELSE mapFileUseCount'
      /\ mapFileUseCount' \in {Absent} \cup Nat
      /\ new > 0 => total > 0
  BY <1>1, <1>7, <1>8 DEF Absent
<1>10. new > 0 => mapDb' /\ fDbEnvInit'
  BY <1>8, <1>9
<1>11. NoCloseInUse'
  BY <1>9, <1>10 DEF NoCloseInUse, new
<1> QED BY <1>2, <1>3, <1>5, <1>6, <1>9, <1>11 DEF UseInv

(* A use begins with nothing open. *)
LEMMA BeginInv ==
    ASSUME UseInv, NEW t \in Threads, NEW j \in Jobs[t], Begin(t, j)
    PROVE  UseInv'
<1>1. j \in DOMAIN Program /\ j # Nobody
  BY JobAssumption, Uses
<1>2. 1 \in 1..Len(Program[j]) /\ OpenAt[j][1] = 0
  <2>1. CASE j = "setname"
    BY <2>1 DEF Program, OpenAt
  <2>2. CASE j = "getaccountaddress"
    BY <2>2 DEF Program, OpenAt
  <2>3. CASE j = "encrypt"
    BY <2>3 DEF Program, OpenAt
  <2>4. CASE j = "backup"
    BY <2>4 DEF Program, OpenAt
  <2> QED BY <1>1, <2>1, <2>2, <2>3, <2>4, Uses
<1>3. /\ alive /\ job[t] = Nobody
      /\ job' = [job EXCEPT ![t] = j] /\ pc' = [pc EXCEPT ![t] = 1]
      /\ UNCHANGED <<alive, fDbEnvInit, mapFileUseCount, mapDb, handles>>
  BY DEF Begin, cdbenv
<1>4. /\ job'[t] = j /\ pc'[t] = 1
      /\ \A u \in Threads \ {t} : job'[u] = job[u] /\ pc'[u] = pc[u]
  BY <1>3 DEF UseInv, Placed
<1>5. Placed'
  <2>1. job' \in [Threads -> DOMAIN Program \cup {Nobody}] /\ pc' \in [Threads -> Nat]
    BY <1>1, <1>3 DEF UseInv, Placed
  <2> QED BY <1>2, <1>4, <2>1 DEF UseInv, Placed
<1>6. HeldBy(t)' = 0 /\ HeldBy(t) = 0
  BY <1>1, <1>2, <1>3, <1>4 DEF HeldBy
<1>7. \A u \in Threads \ {t} : HeldBy(u)' = HeldBy(u)
  BY <1>4 DEF HeldBy
<1> QED BY <1>3, <1>5, <1>6, <1>7 DEF UseInv, NoCloseInUse

(* Rewrite given up: the thread goes on at the end of EncryptWallet. *)
LEMMA CopyGivenUpInv == ASSUME UseInv, NEW t \in Threads, CopyGivenUp(t) PROVE UseInv'
<1>1. /\ job[t] \in DOMAIN Program /\ job[t] # Nobody /\ pc[t] \in 1..Len(Program[job[t]])
      /\ Program[job[t]][pc[t]] = "copy"
  BY Uses DEF UseInv, Placed, CopyGivenUp, At
<1>2. job[t] = "encrypt" /\ OpenAt[job[t]][pc[t]] = 0
  <2>1. CASE job[t] = "setname"
    BY <1>1, <2>1 DEF Program
  <2>2. CASE job[t] = "getaccountaddress"
    BY <1>1, <2>2 DEF Program
  <2>3. CASE job[t] = "encrypt"
    BY <1>1, <2>3 DEF Program, OpenAt
  <2>4. CASE job[t] = "backup"
    BY <1>1, <2>4 DEF Program
  <2> QED BY <1>1, <2>1, <2>2, <2>3, <2>4, Uses
<1>3. Len(Program["encrypt"]) = 13 /\ OpenAt["encrypt"][13] = 0
  <2>1. Program["encrypt"] = <<"check", "lock", "open", "encrypt", "commit", "close",
                               "open", "addkey", "close", "copy", "remove", "rename", "unlock">>
    BY DEF Program
  <2>2. OpenAt["encrypt"] = <<0, 0, 0, 1, 1, 1, 0, 1, 1, 0, 0, 0, 0>>
    BY DEF OpenAt
  <2> QED BY <2>1, <2>2
<1>4. /\ pc' = [pc EXCEPT ![t] = 13]
      /\ UNCHANGED <<alive, job, fDbEnvInit, mapFileUseCount, mapDb, handles>>
  BY <1>3 DEF CopyGivenUp, cdbenv
<1>5. pc'[t] = 13 /\ pc' \in [Threads -> Nat] /\ \A u \in Threads \ {t} : pc'[u] = pc[u]
  BY <1>4 DEF UseInv, Placed
<1>6. Placed'
  <2>1. pc'[t] \in 1..Len(Program[job'[t]])
    <3>1. job'[t] = "encrypt"
      BY <1>2, <1>4, Zenon
    <3>2. Len(Program[job'[t]]) = 13
      BY <1>3, <3>1, Zenon
    <3> QED BY <1>5, <3>2
  <2> QED BY <1>4, <1>5, <2>1 DEF UseInv, Placed
<1>7. HeldBy(t)' = 0 /\ HeldBy(t) = 0
  BY <1>1, <1>2, <1>3, <1>4, <1>5 DEF HeldBy
<1>8. \A u \in Threads \ {t} : HeldBy(u)' = HeldBy(u)
  BY <1>4, <1>5 DEF HeldBy
<1> QED BY <1>4, <1>6, <1>7, <1>8 DEF UseInv, NoCloseInUse

(* ThreadFlushWalletDB and the flushes of Shutdown look at the use count. *)
LEMMA FlushInv == ASSUME UseInv, FlushWallet \/ Flush PROVE UseInv'
<1>1. UNCHANGED <<alive, job, pc, handles>>
  BY DEF FlushWallet, Flush, threads
<1>2. Placed' /\ \A t \in Threads : HeldBy(t)' = HeldBy(t)
  BY <1>1 DEF UseInv, Placed, HeldBy
<1> DEFINE total == handles["rpc"] + handles["gui"]
<1>3. /\ total = IF mapFileUseCount = Absent THEN 0 ELSE mapFileUseCount
      /\ total > 0 => mapDb /\ fDbEnvInit
      /\ mapFileUseCount \in {Absent} \cup Nat
      /\ total' = total
  BY <1>1 DEF UseInv, NoCloseInUse
<1>4. CASE mapFileUseCount = 0
  <2>1. mapFileUseCount' = Absent
    BY <1>4 DEF FlushWallet, Flush, CloseAndCheckpoint
  <2>2. total = 0
    BY <1>3, <1>4 DEF Absent
  <2>3. NoCloseInUse'
    BY <1>3, <2>1, <2>2 DEF NoCloseInUse
  <2> QED BY <1>1, <1>2, <2>1, <2>3 DEF UseInv
<1>5. CASE mapFileUseCount # 0
  <2>1. /\ UNCHANGED <<mapFileUseCount, mapDb>>
        /\ fDbEnvInit' = ~(nShutdown = 2 /\ EnvUnused)
    BY <1>5 DEF FlushWallet, Flush
  <2>2. ASSUME total > 0 PROVE mapDb' /\ fDbEnvInit'
    <3>1. mapFileUseCount \notin {0, Absent}
      BY <1>3, <1>5, <2>2 DEF Absent
    <3> QED BY <1>3, <2>1, <2>2, <3>1 DEF EnvUnused
  <2>3. NoCloseInUse'
    BY <1>3, <2>1, <2>2 DEF NoCloseInUse
  <2> QED BY <1>1, <1>2, <1>3, <2>1, <2>3 DEF UseInv
<1> QED BY <1>4, <1>5

(* Nothing is open in a process that has ended. *)
LEMMA DieInv == ASSUME UseInv, Die PROVE UseInv'
<1>1. /\ job' = [t \in Threads |-> Nobody] /\ pc' = [t \in Threads |-> 0]
      /\ handles' = [t \in Threads |-> 0] /\ mapFileUseCount' = Absent
  BY DEF Die
<1>2. Placed'
  BY <1>1 DEF Placed
<1>3. \A t \in Threads : handles'[t] = 0 /\ HeldBy(t)' = 0
  BY <1>1 DEF HeldBy
<1>4. handles'["rpc"] = 0 /\ handles'["gui"] = 0
  BY <1>3 DEF Threads
<1>5. NoCloseInUse'
  BY <1>1, <1>4 DEF NoCloseInUse
<1>6. handles' \in [Threads -> Nat] /\ \A t \in Threads : job'[t] = Nobody
  BY <1>1
<1> QED BY <1>1, <1>2, <1>3, <1>5, <1>6 DEF UseInv

(* Nor in one that starts. *)
LEMMA LoadWalletInv == ASSUME UseInv, LoadWallet PROVE UseInv'
<1>1. /\ ~alive /\ mapFileUseCount' = 0 /\ mapDb' = TRUE /\ fDbEnvInit' = TRUE /\ alive' = TRUE
      /\ UNCHANGED <<job, pc, handles>>
  BY DEF LoadWallet, threads
<1>2. Placed' /\ \A t \in Threads : HeldBy(t)' = HeldBy(t)
  BY <1>1 DEF UseInv, Placed, HeldBy
<1>3. \A t \in Threads : handles[t] = 0
  BY <1>1 DEF UseInv, HeldBy
<1>4. handles'["rpc"] = 0 /\ handles'["gui"] = 0
  BY <1>1, <1>3 DEF Threads
<1>5. NoCloseInUse'
  BY <1>1, <1>4 DEF NoCloseInUse, Absent
<1> QED BY <1>1, <1>2, <1>5 DEF UseInv

(* A step of a thread in a use. *)
LEMMA ThreadInv ==
    ASSUME UseInv, NEW t \in Threads, Proceed(t) \/ Wait(t)
    PROVE  UseInv'
<1>1. CASE Unlock(t)
  BY <1>1, QuietStep DEF Unlock, cdbenv
<1>2. CASE OpenThrows(t)
  BY <1>2, LeaveInv DEF OpenThrows
<1>3. CASE WriteName(t)
  BY <1>3, QuietStep DEF WriteName, cdbenv
<1>4. CASE WriteAccount(t)
  BY <1>4, QuietStep DEF WriteAccount, cdbenv
<1>5. CASE AddKey(t)
  BY <1>5, QuietStep DEF AddKey, cdbenv
<1>6. CASE AddNoKey(t)
  BY <1>6, QuietStep DEF AddNoKey, cdbenv
<1>7. CASE Check(t)
  <2>1. CASE nMasterKey = 0
    BY <1>7, <2>1, QuietStep DEF Check
  <2>2. CASE nMasterKey # 0
    BY <1>7, <2>2, LeaveInv DEF Check
  <2> QED BY <2>1, <2>2
<1>8. CASE EncryptKeys(t)
  BY <1>8, QuietStep DEF EncryptKeys, cdbenv
<1>9. CASE TxnCommit(t)
  BY <1>9, QuietStep DEF TxnCommit, cdbenv
<1>10. CASE ExitEncrypting(t)
  BY <1>10, DieInv DEF ExitEncrypting
<1>11. CASE Remove(t)
  BY <1>11, QuietStep DEF Remove, cdbenv
<1>12. CASE Rename(t)
  BY <1>12, QuietStep DEF Rename, cdbenv
<1>13. CASE BackupGivenUp(t)
  BY <1>13, QuietStep DEF BackupGivenUp, cdbenv
<1>14. CASE Lock(t)
  BY <1>14, QuietStep DEF Lock, cdbenv
<1>15. CASE Copy(t)
  BY <1>15, ClosedUnused DEF Copy
<1>16. CASE BackupCopy(t)
  BY <1>16, ClosedUnused DEF BackupCopy, CloseAndCheckpoint
<1> QED
  BY <1>1, <1>2, <1>3, <1>4, <1>5, <1>6, <1>7, <1>8, <1>9, <1>10, <1>11, <1>12, <1>13,
     <1>14, <1>15, <1>16, OpenInv, CloseInv, CopyGivenUpInv
     DEF Proceed, Wait

(* Nothing is open at the first start. *)
LEMMA UseInvInit == Init => UseInv
<1> SUFFICES ASSUME Init PROVE UseInv
  OBVIOUS
<1>1. /\ job = [t \in Threads |-> Nobody] /\ pc = [t \in Threads |-> 0]
      /\ handles = [t \in Threads |-> 0] /\ mapFileUseCount = Absent
  BY DEF Init
<1>2. Placed
  BY <1>1 DEF Placed
<1>3. \A t \in Threads : handles[t] = 0 /\ HeldBy(t) = 0
  BY <1>1 DEF HeldBy
<1>4. handles["rpc"] = 0 /\ handles["gui"] = 0
  BY <1>3 DEF Threads
<1>5. NoCloseInUse
  BY <1>1, <1>4 DEF NoCloseInUse
<1>6. handles \in [Threads -> Nat] /\ \A t \in Threads : job[t] = Nobody
  BY <1>1
<1> QED BY <1>1, <1>2, <1>3, <1>5, <1>6 DEF UseInv

(* Every step keeps the count. *)
LEMMA UseInvNext == UseInv /\ [Next]_vars => UseInv'
<1> SUFFICES ASSUME UseInv, [Next]_vars PROVE UseInv'
  OBVIOUS
<1>1. CASE \E t \in Threads : \E j \in Jobs[t] : Begin(t, j)
  BY <1>1, BeginInv
<1>2. CASE \E t \in Threads : Proceed(t) \/ Wait(t)
  BY <1>2, ThreadInv
<1>3. CASE FlushWallet \/ Flush
  BY <1>3, FlushInv
<1>4. CASE RequestShutdown \/ UNCHANGED vars
  <2>1. UNCHANGED <<alive, fDbEnvInit, mapFileUseCount, mapDb, job, pc, handles>>
    BY <1>4 DEF RequestShutdown, vars, cdbenv, threads
  <2>2. Placed' /\ \A t \in Threads : HeldBy(t)' = HeldBy(t)
    BY <2>1 DEF UseInv, Placed, HeldBy
  <2> QED BY <2>1, <2>2 DEF UseInv, NoCloseInUse
<1>5. CASE Die
  BY <1>5, DieInv
<1>6. CASE LoadWallet
  BY <1>6, LoadWalletInv
<1> QED BY <1>1, <1>2, <1>3, <1>4, <1>5, <1>6 DEF Next

-----------------------------------------------------------------------------
(* The content of the file *)

(* The places of a use at which its thread holds cs_wallet. *)
Within(j, n) ==
    \/ j = "encrypt" /\ n \in 3..13
    \/ j = "getaccountaddress" /\ n \in 3..6

(* An encryption whose keys are encrypted in memory, has its records in the  *)
(* transaction, or has removed wallet.dat.                                   *)
Crypting(t) == job[t] = "encrypt" /\ pc[t] \in 5..13
Committing(t) == job[t] = "encrypt" /\ pc[t] = 5
Renaming(t) == job[t] = "encrypt" /\ pc[t] = 12

(* The place a thread is at tells whether it holds cs_wallet. *)
LockInv == \A t \in Threads : cs_wallet = t <=> Within(job[t], pc[t])

IsFile(w) == w.exists \in BOOLEAN /\ w = [exists |-> w.exists, key |-> w.key, mkey |-> w.mkey]

(* A file with all the keys, in one form. *)
Whole(w, n) == Loads(w) /\ DOMAIN w.key = 1..n

(* What an earlier process left of its rewriting is a part of wallet.dat,    *)
(* which has been encrypted since before.                                    *)
Leftover(r, w) ==
    /\ w.mkey # 0
    /\ r.mkey \in {0, w.mkey}
    /\ \A k \in DOMAIN r.key : k \in DOMAIN w.key /\ r.key[k] = w.mkey

(* The inductive invariant about the files, as long as no process has ended  *)
(* between remove and rename: wallet.dat has all the keys, or                *)
(* wallet.dat.rewrite has them when it is about to be renamed.  The forms in *)
(* memory and in the file differ only while a transaction is on its way.     *)
DiskInv ==
    /\ nKeys \in Nat /\ nMasters \in Nat
    /\ IsFile(wallet) /\ IsFile(rewrite)
    /\ \A t \in Threads : Crypting(t) => nMasterKey # 0
    /\ \A t \in Threads : Committing(t) => wallet.mkey = 0
    /\ \A t \in Threads : Renaming(t) =>
         wallet = Missing /\ Whole(rewrite, nKeys) /\ rewrite.mkey = nMasterKey
    /\ (\A t \in Threads : ~Renaming(t)) =>
         /\ wallet.exists => Whole(wallet, nKeys)
         /\ ~wallet.exists => wallet = Missing /\ ~alive /\ nKeys = 0 /\ ~rewrite.exists
         /\ rewrite.exists => Leftover(rewrite, wallet)
         /\ alive /\ (\A t \in Threads : ~Committing(t)) => wallet.mkey = nMasterKey

FileInv ==
    /\ LockInv
    /\ died \in BOOLEAN
    /\ died \/ DiskInv
    /\ BackupLoads

(* cs_wallet is taken at "lock" and let go at "unlock"; keys are added and   *)
(* the wallet is encrypted under it.                                         *)
LEMMA WithinAt ==
    ASSUME NEW j \in DOMAIN Program, NEW n \in 1..Len(Program[j])
    PROVE  LET i == Program[j][n]
           IN  /\ n \in Nat
               /\ i = "lock" => ~Within(j, n) /\ n # Len(Program[j]) /\ Within(j, n + 1)
               /\ i = "unlock" => Within(j, n) /\ (n # Len(Program[j]) => ~Within(j, n + 1))
               /\ i \notin {"lock", "unlock"} => IF n = Len(Program[j]) THEN ~Within(j, n)
                                                 ELSE Within(j, n) <=> Within(j, n + 1)
               /\ i = "addkey" => Within(j, n)
               /\ i = "encrypt" <=> j = "encrypt" /\ n = 4
               /\ i = "commit" <=> j = "encrypt" /\ n = 5
               /\ i = "copy" <=> j = "encrypt" /\ n = 10
               /\ i = "remove" <=> j = "encrypt" /\ n = 11
               /\ i = "rename" <=> j = "encrypt" /\ n = 12
<1>1. CASE j = "setname"
  <2>1. Program[j] = <<"open", "name", "close">>
    BY <1>1 DEF Program
  <2>2. Len(Program[j]) = 3 /\ n \in 1..3
    BY <2>1
  <2> QED BY <1>1, <2>1, <2>2 DEF Within
<1>2. CASE j = "backup"
  <2>1. Program[j] = <<"backup">>
    BY <1>2 DEF Program
  <2>2. Len(Program[j]) = 1 /\ n \in 1..1
    BY <2>1
  <2> QED BY <1>2, <2>1, <2>2 DEF Within
<1>3. CASE j = "encrypt"
  <2>1. Program[j] = <<"check", "lock", "open", "encrypt", "commit", "close",
                       "open", "addkey", "close", "copy", "remove", "rename", "unlock">>
    BY <1>3 DEF Program
  <2>2. Len(Program[j]) = 13 /\ n \in 1..13
    BY <2>1
  <2>3. CASE n \in 1..4
    BY <1>3, <2>1, <2>2, <2>3 DEF Within
  <2>4. CASE n \in 5..9
    BY <1>3, <2>1, <2>2, <2>4 DEF Within
  <2>5. CASE n \in 10..13
    BY <1>3, <2>1, <2>2, <2>5 DEF Within
  <2> QED BY <2>2, <2>3, <2>4, <2>5
<1>4. CASE j = "getaccountaddress"
  <2>1. Program[j] = <<"open", "lock", "open", "addkey", "close", "unlock",
                       "open", "name", "close", "account", "close">>
    BY <1>4 DEF Program
  <2>2. Len(Program[j]) = 11 /\ n \in 1..11
    BY <2>1
  <2>3. CASE n \in 1..6
    BY <1>4, <2>1, <2>2, <2>3 DEF Within
  <2>4. CASE n \in 7..11
    BY <1>4, <2>1, <2>2, <2>4 DEF Within
  <2> QED BY <2>2, <2>3, <2>4
<1> QED BY <1>1, <1>2, <1>3, <1>4, Uses

(* The places of the threads as their instructions. *)
LEMMA Places ==
    ASSUME Placed, NEW t \in Threads
    PROVE  /\ At(t, "addkey") => Within(job[t], pc[t])
           /\ At(t, "encrypt") <=> job[t] = "encrypt" /\ pc[t] = 4
           /\ At(t, "commit") <=> Committing(t)
           /\ At(t, "copy") <=> job[t] = "encrypt" /\ pc[t] = 10
           /\ At(t, "remove") <=> job[t] = "encrypt" /\ pc[t] = 11
           /\ At(t, "rename") <=> Renaming(t)
           /\ Crypting(t) \/ At(t, "encrypt") => Within(job[t], pc[t])
           /\ Committing(t) \/ Renaming(t) => Crypting(t)
<1>1. CASE job[t] = Nobody
  BY <1>1, Uses DEF At, Crypting, Committing, Renaming, Nobody
<1>2. CASE job[t] # Nobody
  <2> DEFINE j == job[t]
             n == pc[t]
  <2>1. j \in DOMAIN Program /\ n \in 1..Len(Program[j])
    BY <1>2 DEF Placed
  <2>2. \A i : At(t, i) <=> Program[j][n] = i
    BY <1>2 DEF At
  <2>3. /\ Crypting(t) <=> j = "encrypt" /\ n \in 5..13
        /\ Committing(t) <=> j = "encrypt" /\ n = 5
        /\ Renaming(t) <=> j = "encrypt" /\ n = 12
    BY DEF Crypting, Committing, Renaming
  <2> HIDE DEF j, n
  <2>4. LET i == Program[j][n]
        IN  /\ n \in Nat
            /\ i = "addkey" => Within(j, n)
            /\ i = "encrypt" <=> j = "encrypt" /\ n = 4
            /\ i = "commit" <=> j = "encrypt" /\ n = 5
            /\ i = "copy" <=> j = "encrypt" /\ n = 10
            /\ i = "remove" <=> j = "encrypt" /\ n = 11
            /\ i = "rename" <=> j = "encrypt" /\ n = 12
    BY <2>1, WithinAt
  <2>5. j = "encrypt" /\ n \in 4..13 => Within(j, n)
    BY DEF Within
  <2>6. /\ At(t, "addkey") => Within(j, n)
        /\ At(t, "encrypt") <=> j = "encrypt" /\ n = 4
        /\ At(t, "commit") <=> j = "encrypt" /\ n = 5
        /\ At(t, "copy") <=> j = "encrypt" /\ n = 10
        /\ At(t, "remove") <=> j = "encrypt" /\ n = 11
        /\ At(t, "rename") <=> j = "encrypt" /\ n = 12
    BY <2>2, <2>4
  <2>7. /\ Crypting(t) \/ At(t, "encrypt") => Within(j, n)
        /\ Committing(t) \/ Renaming(t) => Crypting(t)
    BY <2>3, <2>4, <2>5, <2>6
  <2> QED BY <2>3, <2>6, <2>7 DEF j, n
<1> QED BY <1>1, <1>2

(* A step of a use: the lock, and where it leads. *)
LEMMA StepPlaces ==
    ASSUME Placed, NEW t \in Threads, NEW i, At(t, i), Step(t)
    PROVE  /\ i = "lock" => Within(job[t], pc[t])'
           /\ i = "unlock" => Within(job[t], pc[t]) /\ ~Within(job[t], pc[t])'
           /\ i \notin {"lock", "unlock"} => (Within(job[t], pc[t])' <=> Within(job[t], pc[t]))
           /\ Committing(t)' <=> i = "encrypt"
           /\ Renaming(t)' <=> i = "remove"
           /\ Crypting(t)' => Crypting(t) \/ i = "encrypt"
           /\ \A u \in Threads \ {t} : job'[u] = job[u] /\ pc'[u] = pc[u]
<1> DEFINE j == job[t]
           n == pc[t]
<1>1. /\ j \in DOMAIN Program /\ j # Nobody /\ n \in 1..Len(Program[j])
      /\ Program[j][n] = i
  BY Uses DEF Placed, At
<1>2. Len(Program["encrypt"]) = 13
  <2>1. Program["encrypt"] = <<"check", "lock", "open", "encrypt", "commit", "close",
                               "open", "addkey", "close", "copy", "remove", "rename", "unlock">>
    BY DEF Program
  <2> QED BY <2>1
<1> HIDE DEF j, n
<1>3. /\ n \in Nat
      /\ i = "lock" => ~Within(j, n) /\ n # Len(Program[j]) /\ Within(j, n + 1)
      /\ i = "unlock" => Within(j, n) /\ (n # Len(Program[j]) => ~Within(j, n + 1))
      /\ i \notin {"lock", "unlock"} => IF n = Len(Program[j]) THEN ~Within(j, n)
                                        ELSE Within(j, n) <=> Within(j, n + 1)
      /\ i = "encrypt" <=> j = "encrypt" /\ n = 4
      /\ i = "remove" <=> j = "encrypt" /\ n = 11
  BY <1>1, WithinAt
<1>4. CASE n = Len(Program[j])
  <2>1. job' = [job EXCEPT ![t] = Nobody] /\ pc' = [pc EXCEPT ![t] = 0]
    BY <1>4 DEF Step, j, n
  <2>2. job'[t] = Nobody /\ \A u \in Threads \ {t} : job'[u] = job[u] /\ pc'[u] = pc[u]
    BY <2>1 DEF Placed
  <2>3. ~Within(job[t], pc[t])' /\ ~Committing(t)' /\ ~Renaming(t)' /\ ~Crypting(t)'
    BY <2>2 DEF Within, Committing, Renaming, Crypting, Nobody
  <2>4. i # "encrypt" /\ i # "remove"
    <3>1. j = "encrypt" => n = 13
      BY <1>2, <1>4, Zenon
    <3> QED BY <1>3, <3>1
  <2> QED BY <1>3, <1>4, <2>2, <2>3, <2>4 DEF j, n
<1>5. CASE n # Len(Program[j])
  <2>1. job' = job /\ pc' = [pc EXCEPT ![t] = @ + 1]
    BY <1>5 DEF Step, j, n
  <2>2. pc'[t] = n + 1 /\ job'[t] = j
    BY <2>1 DEF Placed, j, n
  <2>3. \A u \in Threads \ {t} : job'[u] = job[u] /\ pc'[u] = pc[u]
    BY <2>1 DEF Placed
  <2>4. /\ Within(job[t], pc[t])' <=> Within(j, n + 1)
        /\ Committing(t)' <=> j = "encrypt" /\ n + 1 = 5
        /\ Renaming(t)' <=> j = "encrypt" /\ n + 1 = 12
        /\ Crypting(t)' <=> j = "encrypt" /\ n + 1 \in 5..13
        /\ Crypting(t) <=> j = "encrypt" /\ n \in 5..13
    BY <2>2 DEF Within, Committing, Renaming, Crypting, j, n
  <2>5. /\ n + 1 = 5 <=> n = 4
        /\ n + 1 = 12 <=> n = 11
        /\ n + 1 \in 5..13 => n \in 5..13 \/ n = 4
    BY <1>3
  <2>6. /\ Committing(t)' <=> i = "encrypt"
        /\ Renaming(t)' <=> i = "remove"
        /\ Crypting(t)' => Crypting(t) \/ i = "encrypt"
    BY <1>3, <2>4, <2>5
  <2> QED BY <1>3, <1>5, <2>3, <2>4, <2>6 DEF j, n
<1> QED BY <1>4, <1>5

(* cs_wallet is with at most one of the two threads. *)
LEMMA LockStep ==
    ASSUME Placed, LockInv, NEW t \in Threads, NEW i, At(t, i), Step(t),
           \/ i = "lock" /\ cs_wallet = Nobody /\ cs_wallet' = t
           \/ i = "unlock" /\ cs_wallet' = Nobody
           \/ i \notin {"lock", "unlock"} /\ cs_wallet' = cs_wallet
    PROVE  LockInv'
<1>1. /\ i = "lock" => Within(job[t], pc[t])'
      /\ i = "unlock" => Within(job[t], pc[t]) /\ ~Within(job[t], pc[t])'
      /\ i \notin {"lock", "unlock"} => (Within(job[t], pc[t])' <=> Within(job[t], pc[t]))
      /\ \A u \in Threads \ {t} : job'[u] = job[u] /\ pc'[u] = pc[u]
  BY StepPlaces
<1>2. \A u \in Threads \ {t} : Within(job[u], pc[u])' <=> Within(job[u], pc[u])
  BY <1>1 DEF Within
<1>3. Nobody \notin Threads
  BY DEF Nobody, Threads
<1> QED BY <1>1, <1>2, <1>3 DEF LockInv

(* A thread that leaves lets go of cs_wallet. *)
LEMMA LockLeave ==
    ASSUME Placed, LockInv, NEW t \in Threads, Leave(t)
    PROVE  /\ LockInv'
           /\ ~Crypting(t)' /\ ~Committing(t)' /\ ~Renaming(t)'
           /\ \A u \in Threads \ {t} : job'[u] = job[u] /\ pc'[u] = pc[u]
<1>1. /\ job' = [job EXCEPT ![t] = Nobody] /\ pc' = [pc EXCEPT ![t] = 0]
      /\ cs_wallet' = IF cs_wallet = t THEN Nobody ELSE cs_wallet
  BY DEF Leave
<1>2. job'[t] = Nobody /\ \A u \in Threads \ {t} : job'[u] = job[u] /\ pc'[u] = pc[u]
  BY <1>1 DEF Placed
<1>3. ~Within(job[t], pc[t])' /\ ~Crypting(t)' /\ ~Committing(t)' /\ ~Renaming(t)'
  BY <1>2 DEF Within, Crypting, Committing, Renaming, Nobody
<1>4. \A u \in Threads \ {t} : Within(job[u], pc[u])' <=> Within(job[u], pc[u])
  BY <1>2 DEF Within
<1>5. Nobody \notin Threads
  BY DEF Nobody, Threads
<1> QED BY <1>1, <1>2, <1>3, <1>4, <1>5 DEF LockInv

(* An encryption that holds cs_wallet is alone. *)
LEMMA Alone ==
    ASSUME Placed, LockInv, NEW t \in Threads, Within(job[t], pc[t])
    PROVE  \A u \in Threads \ {t} : ~Crypting(u) /\ ~Committing(u) /\ ~Renaming(u)
BY Places DEF LockInv

(* The files and the phases of the threads are as before. *)
LEMMA DiskSame ==
    ASSUME DiskInv, UNCHANGED <<alive, nMasterKey, wallet, rewrite, nKeys, nMasters>>,
           \A t \in Threads : /\ Crypting(t)' => Crypting(t)
                              /\ Committing(t)' <=> Committing(t)
                              /\ Renaming(t)' <=> Renaming(t)
    PROVE  DiskInv'
<1>1. /\ nKeys' = nKeys /\ nMasters' = nMasters /\ nMasterKey' = nMasterKey
      /\ wallet' = wallet /\ rewrite' = rewrite /\ alive' = alive
  OBVIOUS
<1> QED BY <1>1 DEF DiskInv

(* What an instruction outside the encryption proper leaves as it is. *)
LEMMA PhasesSame ==
    ASSUME Placed, NEW t \in Threads, NEW i, At(t, i), Step(t),
           i \notin {"encrypt", "commit", "remove", "rename"}
    PROVE  \A u \in Threads : /\ Crypting(u)' => Crypting(u)
                              /\ Committing(u)' <=> Committing(u)
                              /\ Renaming(u)' <=> Renaming(u)
<1>1. /\ Committing(t)' <=> i = "encrypt"
      /\ Renaming(t)' <=> i = "remove"
      /\ Crypting(t)' => Crypting(t) \/ i = "encrypt"
      /\ \A u \in Threads \ {t} : job'[u] = job[u] /\ pc'[u] = pc[u]
  BY StepPlaces
<1>2. ~Committing(t) /\ ~Renaming(t)
  BY Places DEF At
<1>3. \A u \in Threads \ {t} : /\ Crypting(u)' <=> Crypting(u)
                               /\ Committing(u)' <=> Committing(u)
                               /\ Renaming(u)' <=> Renaming(u)
  BY <1>1 DEF Crypting, Committing, Renaming
<1> QED BY <1>1, <1>2, <1>3

(* The instructions that change neither the files nor the master key. *)
LEMMA QuietFile ==
    ASSUME Placed, FileInv, NEW t \in Threads, NEW i, At(t, i), Step(t),
           i \notin {"encrypt", "commit", "remove", "rename"},
           \/ i = "lock" /\ cs_wallet = Nobody /\ cs_wallet' = t
           \/ i = "unlock" /\ cs_wallet' = Nobody
           \/ i \notin {"lock", "unlock"} /\ cs_wallet' = cs_wallet,
           UNCHANGED <<alive, nMasterKey, wallet, rewrite, nKeys, nMasters, died>>,
           BackupLoads'
    PROVE  FileInv'
<1>1. LockInv'
  BY LockStep DEF FileInv
<1>2. DiskInv => DiskInv'
  BY PhasesSame, DiskSame
<1> QED BY <1>1, <1>2 DEF FileInv

(* A thread leaves before it has encrypted, or after. *)
LEMMA LeaveFile ==
    ASSUME Placed, FileInv, NEW t \in Threads, Leave(t), ~Committing(t), ~Renaming(t),
           UNCHANGED <<alive, nMasterKey, wallet, rewrite, nKeys, nMasters, died, backup>>
    PROVE  FileInv'
<1>1. /\ LockInv'
      /\ ~Crypting(t)' /\ ~Committing(t)' /\ ~Renaming(t)'
      /\ \A u \in Threads \ {t} : job'[u] = job[u] /\ pc'[u] = pc[u]
  BY LockLeave DEF FileInv
<1>2. \A u \in Threads \ {t} : /\ Crypting(u)' <=> Crypting(u)
                               /\ Committing(u)' <=> Committing(u)
                               /\ Renaming(u)' <=> Renaming(u)
  BY <1>1 DEF Crypting, Committing, Renaming
<1>3. DiskInv => DiskInv'
  BY <1>1, <1>2, DiskSame
<1>4. BackupLoads'
  BY DEF FileInv, BackupLoads
<1> QED BY <1>1, <1>3, <1>4 DEF FileInv

(* A key is added in the form the file has, because no transaction is on its *)
(* way.                                                                      *)
LEMMA AddKeyFile ==
    ASSUME Placed, alive, FileInv, NEW t \in Threads, AddKey(t)
    PROVE  FileInv'
<1>1. /\ At(t, "addkey") /\ Step(t) /\ nKeys' = nKeys + 1
      /\ wallet' = [wallet EXCEPT !.key = [k \in DOMAIN @ \cup {nKeys + 1} |->
                                             IF k = nKeys + 1 THEN nMasterKey ELSE @[k]]]
      /\ UNCHANGED <<alive, cs_wallet, nMasterKey, rewrite, backup, nMasters, died>>
  BY DEF AddKey, history
<1>2. LockInv'
  BY <1>1, LockStep DEF FileInv
<1>3. BackupLoads'
  BY <1>1 DEF FileInv, BackupLoads
<1>4. ASSUME DiskInv PROVE DiskInv'
  <2>1. Within(job[t], pc[t]) /\ ~Committing(t) /\ ~Renaming(t)
    BY <1>1, Places DEF At
  <2>2. \A u \in Threads : ~Committing(u) /\ ~Renaming(u)
    BY <2>1, Alone DEF FileInv
  <2>3. \A u \in Threads : (Crypting(u)' => Crypting(u)) /\ ~Committing(u)' /\ ~Renaming(u)'
    BY <1>1, <2>2, PhasesSame
  <2>4. /\ nKeys \in Nat /\ nMasters \in Nat /\ IsFile(wallet) /\ IsFile(rewrite)
        /\ Whole(wallet, nKeys) /\ wallet.exists /\ wallet.mkey = nMasterKey
        /\ rewrite.exists => Leftover(rewrite, wallet)
    BY <1>4, <2>2 DEF DiskInv, Whole, Loads
  <2>5. /\ wallet'.exists = wallet.exists /\ wallet'.mkey = wallet.mkey
        /\ wallet'.key = [k \in DOMAIN wallet.key \cup {nKeys + 1} |->
                            IF k = nKeys + 1 THEN nMasterKey ELSE wallet.key[k]]
        /\ IsFile(wallet)'
    BY <1>1, <2>4 DEF IsFile
  <2>6. DOMAIN wallet'.key = 1..(nKeys + 1)
    BY <2>4, <2>5 DEF Whole
  <2>7. Whole(wallet, nKeys)'
    BY <1>1, <2>4, <2>5, <2>6 DEF Whole, Loads
  <2>8. rewrite'.exists => Leftover(rewrite, wallet)'
    BY <1>1, <2>4, <2>5, <2>6 DEF Leftover, Whole
  <2>9. nKeys' \in Nat /\ nMasters' \in Nat /\ IsFile(rewrite)'
    BY <1>1, <2>4
  <2>10. \A u \in Threads : Crypting(u)' => nMasterKey' # 0
    BY <1>1, <1>4, <2>3 DEF DiskInv
  <2> QED BY <1>1, <2>3, <2>4, <2>5, <2>7, <2>8, <2>9, <2>10 DEF DiskInv
<1> QED BY <1>1, <1>2, <1>3, <1>4 DEF FileInv

(* EncryptKeys: from here on a transaction is on its way. *)
LEMMA EncryptKeysFile ==
    ASSUME Placed, alive, FileInv, NEW t \in Threads, EncryptKeys(t)
    PROVE  FileInv'
<1>1. /\ At(t, "encrypt") /\ Step(t) /\ nMasterKey = 0
      /\ nMasters' = nMasters + 1 /\ nMasterKey' = nMasters + 1
      /\ UNCHANGED <<alive, cs_wallet, wallet, rewrite, backup, nKeys, died>>
  BY DEF EncryptKeys, disk
<1>2. LockInv'
  BY <1>1, LockStep DEF FileInv
<1>3. BackupLoads'
  BY <1>1 DEF FileInv, BackupLoads
<1>4. ASSUME DiskInv PROVE DiskInv'
  <2>1. Within(job[t], pc[t]) /\ ~Committing(t) /\ ~Renaming(t)
    BY <1>1, Places DEF At
  <2>2. \A u \in Threads : ~Committing(u) /\ ~Renaming(u)
    BY <2>1, Alone DEF FileInv
  <2>3. /\ Committing(t)' /\ ~Renaming(t)'
        /\ \A u \in Threads \ {t} : job'[u] = job[u] /\ pc'[u] = pc[u]
    <3>1. At(t, "encrypt") /\ Step(t)
      BY <1>1
    <3> QED BY <3>1, StepPlaces
  <2>4. \A u \in Threads : ~Renaming(u)'
    BY <2>2, <2>3 DEF Renaming
  <2>5. wallet.mkey = 0 /\ nMasters \in Nat
    BY <1>1, <1>4, <2>2 DEF DiskInv
  <2>6. nMasterKey' # 0 /\ nMasters' \in Nat
    BY <1>1, <2>5
  <2>7. /\ nKeys \in Nat /\ IsFile(wallet) /\ IsFile(rewrite)
        /\ wallet.exists => Whole(wallet, nKeys)
        /\ ~wallet.exists => wallet = Missing /\ ~alive /\ nKeys = 0 /\ ~rewrite.exists
        /\ rewrite.exists => Leftover(rewrite, wallet)
    BY <1>4, <2>2 DEF DiskInv
  <2>8. UNCHANGED <<alive, wallet, rewrite, nKeys>>
    BY <1>1
  <2> QED BY <2>3, <2>4, <2>5, <2>6, <2>7, <2>8 DEF DiskInv
<1> QED BY <1>1, <1>2, <1>3, <1>4 DEF FileInv

(* TxnCommit: all keys change their form at once. *)
LEMMA TxnCommitFile ==
    ASSUME Placed, alive, FileInv, NEW t \in Threads, TxnCommit(t)
    PROVE  FileInv'
<1>1. /\ At(t, "commit") /\ Step(t)
      /\ wallet' = [wallet EXCEPT !.key = [k \in DOMAIN @ |-> nMasterKey], !.mkey = nMasterKey]
      /\ UNCHANGED <<alive, cs_wallet, nMasterKey, rewrite, backup, nKeys, nMasters, died>>
  BY DEF TxnCommit, Committed, history
<1>2. LockInv'
  BY <1>1, LockStep DEF FileInv
<1>3. BackupLoads'
  BY <1>1 DEF FileInv, BackupLoads
<1>4. ASSUME DiskInv PROVE DiskInv'
  <2>1. Committing(t) /\ Crypting(t) /\ Within(job[t], pc[t])
    BY <1>1, Places
  <2>2. \A u \in Threads \ {t} : ~Crypting(u) /\ ~Committing(u) /\ ~Renaming(u)
    BY <2>1, Alone DEF FileInv
  <2>3. /\ ~Committing(t)' /\ ~Renaming(t)'
        /\ \A u \in Threads \ {t} : job'[u] = job[u] /\ pc'[u] = pc[u]
    <3>1. At(t, "commit") /\ Step(t)
      BY <1>1
    <3> QED BY <3>1, StepPlaces
  <2>4. \A u \in Threads : ~Renaming(u)' /\ ~Committing(u)'
    BY <2>2, <2>3 DEF Renaming, Committing
  <2>5. \A u \in Threads : ~Renaming(u)
    BY <2>1, <2>2 DEF Renaming, Committing
  <2>6. /\ nKeys \in Nat /\ nMasters \in Nat /\ IsFile(wallet) /\ IsFile(rewrite)
        /\ wallet.exists /\ Whole(wallet, nKeys)
        /\ nMasterKey # 0 /\ wallet.mkey = 0 /\ ~rewrite.exists
    BY <1>4, <2>1, <2>5 DEF DiskInv, Leftover
  <2>7. /\ wallet'.exists /\ wallet'.mkey = nMasterKey
        /\ wallet'.key = [k \in DOMAIN wallet.key |-> nMasterKey]
        /\ IsFile(wallet)'
    BY <1>1, <2>6 DEF IsFile
  <2>8. Whole(wallet, nKeys)'
    BY <1>1, <2>6, <2>7 DEF Whole, Loads
  <2> QED BY <1>1, <2>4, <2>6, <2>7, <2>8 DEF DiskInv
<1> QED BY <1>1, <1>2, <1>3, <1>4 DEF FileInv

(* wallet.dat.rewrite is whole even when an earlier process left a part.     *)
LEMMA PutAllWhole ==
    ASSUME IsFile(wallet), IsFile(rewrite), NEW n, Whole(wallet, n),
           rewrite.exists => Leftover(rewrite, wallet)
    PROVE  IsFile(PutAll(wallet)) /\ Whole(PutAll(wallet), n) /\ PutAll(wallet).mkey = wallet.mkey
<1>1. CASE ~rewrite.exists
  BY <1>1 DEF PutAll
<1>2. CASE rewrite.exists
  <2> DEFINE key == [k \in DOMAIN rewrite.key \cup DOMAIN wallet.key |->
                       IF k \in DOMAIN rewrite.key THEN rewrite.key[k] ELSE wallet.key[k]]
             mkey == IF rewrite.mkey # 0 THEN rewrite.mkey ELSE wallet.mkey
  <2>1. PutAll(wallet) = [exists |-> TRUE, key |-> key, mkey |-> mkey]
    BY <1>2 DEF PutAll
  <2>2. mkey = wallet.mkey
    BY <1>2 DEF Leftover
  <2>3. DOMAIN key = 1..n /\ \A k \in DOMAIN key : key[k] = wallet.mkey
    BY <1>2 DEF Leftover, Whole, Loads
  <2> HIDE DEF key, mkey
  <2> QED BY <2>1, <2>2, <2>3 DEF IsFile, Whole, Loads
<1> QED BY <1>1, <1>2

(* A process that ends during the copy leaves a part of the file. *)
LEMMA PutAllPart ==
    ASSUME IsFile(rewrite), NEW n, Whole(wallet, n), wallet.mkey # 0,
           rewrite.exists => Leftover(rewrite, wallet),
           NEW ks \in SUBSET DOMAIN wallet.key, NEW m \in {0, wallet.mkey},
           NEW r, r = PutAll([exists |-> TRUE, key |-> [k \in ks |-> wallet.key[k]], mkey |-> m])
    PROVE  IsFile(r) /\ Leftover(r, wallet)
<1> DEFINE part == [k \in ks |-> wallet.key[k]]
<1>1. DOMAIN part = ks /\ \A k \in ks : part[k] = wallet.mkey
  BY DEF Whole, Loads
<1>2. CASE ~rewrite.exists
  <2>1. r = [exists |-> TRUE, key |-> part, mkey |-> m]
    BY <1>2 DEF PutAll
  <2> HIDE DEF part
  <2>2. r.exists = TRUE /\ r.key = part /\ r.mkey = m
    BY <2>1
  <2>3. IsFile(r)
    BY <2>1, <2>2 DEF IsFile
  <2> QED BY <1>1, <2>2, <2>3 DEF Leftover
<1>3. CASE rewrite.exists
  <2> DEFINE key == [k \in DOMAIN rewrite.key \cup DOMAIN part |->
                       IF k \in DOMAIN rewrite.key THEN rewrite.key[k] ELSE part[k]]
             mkey == IF rewrite.mkey # 0 THEN rewrite.mkey ELSE m
  <2>1. r = [exists |-> TRUE, key |-> key, mkey |-> mkey]
    BY <1>3 DEF PutAll
  <2> HIDE DEF part
  <2>2. mkey \in {0, wallet.mkey}
    BY <1>3 DEF Leftover
  <2>3. \A k \in DOMAIN key : k \in DOMAIN wallet.key /\ key[k] = wallet.mkey
    BY <1>1, <1>3 DEF Leftover
  <2> HIDE DEF key, mkey
  <2>4. r.exists = TRUE /\ r.key = key /\ r.mkey = mkey
    BY <2>1
  <2>5. IsFile(r)
    BY <2>1, <2>4 DEF IsFile
  <2> QED BY <2>2, <2>3, <2>4, <2>5 DEF Leftover
<1> QED BY <1>2, <1>3

(* Rewrite's remove: all keys are in the other file. *)
LEMMA RemoveFile ==
    ASSUME Placed, alive, FileInv, NEW t \in Threads, Remove(t)
    PROVE  FileInv'
<1>1. /\ At(t, "remove") /\ Step(t) /\ rewrite' = PutAll(wallet) /\ wallet' = Missing
      /\ UNCHANGED <<alive, cs_wallet, nMasterKey, backup, nKeys, nMasters, died>>
  BY DEF Remove, history
<1>2. LockInv'
  BY <1>1, LockStep DEF FileInv
<1>3. BackupLoads'
  BY <1>1 DEF FileInv, BackupLoads
<1>4. ASSUME DiskInv PROVE DiskInv'
  <2>1. job[t] = "encrypt" /\ pc[t] = 11
    BY <1>1, Places
  <2>2. Crypting(t) /\ ~Committing(t) /\ ~Renaming(t)
    BY <2>1 DEF Crypting, Committing, Renaming
  <2>3. \A u \in Threads \ {t} : ~Crypting(u) /\ ~Committing(u) /\ ~Renaming(u)
    BY <2>2, Alone, Places DEF FileInv
  <2>4. /\ ~Committing(t)' /\ Renaming(t)'
        /\ \A u \in Threads \ {t} : job'[u] = job[u] /\ pc'[u] = pc[u]
    <3>1. At(t, "remove") /\ Step(t)
      BY <1>1
    <3> QED BY <3>1, StepPlaces
  <2>5. \A u \in Threads \ {t} : ~Crypting(u)' /\ ~Committing(u)' /\ ~Renaming(u)'
    BY <2>3, <2>4 DEF Crypting, Committing, Renaming
  <2>6. /\ nKeys \in Nat /\ nMasters \in Nat /\ IsFile(wallet) /\ IsFile(rewrite)
        /\ Whole(wallet, nKeys) /\ wallet.mkey = nMasterKey /\ nMasterKey # 0
        /\ rewrite.exists => Leftover(rewrite, wallet)
    BY <1>4, <2>2, <2>3 DEF DiskInv
  <2>7. IsFile(rewrite)' /\ Whole(rewrite, nKeys)' /\ rewrite'.mkey = nMasterKey
    BY <1>1, <2>6, PutAllWhole
  <2>8. IsFile(wallet)'
    BY <1>1 DEF IsFile, Missing
  <2> QED BY <1>1, <2>4, <2>5, <2>6, <2>7, <2>8 DEF DiskInv
<1> QED BY <1>1, <1>2, <1>3, <1>4 DEF FileInv

(* Its rename. *)
LEMMA RenameFile ==
    ASSUME Placed, alive, FileInv, NEW t \in Threads, Rename(t)
    PROVE  FileInv'
<1>1. /\ At(t, "rename") /\ Step(t) /\ wallet' = rewrite /\ rewrite' = Missing
      /\ UNCHANGED <<alive, cs_wallet, nMasterKey, backup, nKeys, nMasters, died>>
  BY DEF Rename, history
<1>2. LockInv'
  BY <1>1, LockStep DEF FileInv
<1>3. BackupLoads'
  BY <1>1 DEF FileInv, BackupLoads
<1>4. ASSUME DiskInv PROVE DiskInv'
  <2>1. Renaming(t) /\ Crypting(t)
    BY <1>1, Places
  <2>2. \A u \in Threads \ {t} : ~Crypting(u) /\ ~Committing(u) /\ ~Renaming(u)
    BY <2>1, Alone, Places DEF FileInv
  <2>3. /\ ~Committing(t)' /\ ~Renaming(t)'
        /\ \A u \in Threads \ {t} : job'[u] = job[u] /\ pc'[u] = pc[u]
    <3>1. At(t, "rename") /\ Step(t)
      BY <1>1
    <3> QED BY <3>1, StepPlaces
  <2>4. \A u \in Threads : ~Committing(u)' /\ ~Renaming(u)'
    BY <2>2, <2>3 DEF Committing, Renaming
  <2>5. /\ nKeys \in Nat /\ nMasters \in Nat /\ IsFile(rewrite) /\ nMasterKey # 0
        /\ Whole(rewrite, nKeys) /\ rewrite.mkey = nMasterKey
    BY <1>4, <2>1 DEF DiskInv
  <2>6. IsFile(rewrite)' /\ ~rewrite'.exists
    BY <1>1 DEF IsFile, Missing
  <2>7. IsFile(wallet)' /\ Whole(wallet, nKeys)' /\ wallet'.mkey = nMasterKey
    BY <1>1, <2>5, Zenon DEF IsFile, Whole, Loads
  <2>8. wallet'.exists
    BY <2>7 DEF Whole, Loads
  <2> QED BY <1>1, <2>4, <2>5, <2>6, <2>7, <2>8 DEF DiskInv
<1> QED BY <1>1, <1>2, <1>3, <1>4 DEF FileInv

(* A process ends with all keys on disk, unless it is between remove and     *)
(* rename.                                                                   *)
LEMMA DieFile == ASSUME Placed, FileInv, Die PROVE FileInv'
<1>1. /\ alive /\ ~alive' /\ cs_wallet' = Nobody
      /\ job' = [t \in Threads |-> Nobody] /\ pc' = [t \in Threads |-> 0]
      /\ died' = (died \/ \E t \in Threads : At(t, "rename"))
      /\ UNCHANGED <<wallet, backup, nKeys, nMasters>>
  BY DEF Die
<1>2. \A t \in Threads : /\ ~Within(job[t], pc[t])'
                         /\ ~Crypting(t)' /\ ~Committing(t)' /\ ~Renaming(t)'
  BY <1>1 DEF Within, Crypting, Committing, Renaming, Nobody
<1>3. LockInv'
  BY <1>1, <1>2 DEF LockInv, Nobody, Threads
<1>4. died' \in BOOLEAN /\ BackupLoads'
  BY <1>1 DEF FileInv, BackupLoads
<1>5. ASSUME ~died' PROVE DiskInv'
  <2>1. DiskInv /\ \A t \in Threads : ~Renaming(t)
    BY <1>1, <1>5, Places DEF FileInv
  <2>2. /\ nKeys \in Nat /\ nMasters \in Nat /\ IsFile(wallet) /\ IsFile(rewrite)
        /\ wallet.exists /\ Whole(wallet, nKeys)
        /\ rewrite.exists => Leftover(rewrite, wallet)
    BY <1>1, <2>1 DEF DiskInv
  <2>3. IsFile(rewrite)' /\ (rewrite'.exists => Leftover(rewrite', wallet))
    <3>1. CASE \E t \in Threads : At(t, "remove")
      <4>1. PICK t \in Threads : At(t, "remove")
        BY <3>1
      <4>2. job[t] = "encrypt" /\ pc[t] = 11
        BY <4>1, Places
      <4>3. Crypting(t) /\ ~Committing(t)
        BY <4>2 DEF Crypting, Committing
      <4>4. \A u \in Threads : ~Committing(u)
        BY <4>3, Alone, Places DEF FileInv
      <4>5. wallet.mkey # 0
        BY <1>1, <2>1, <4>3, <4>4 DEF DiskInv
      <4>6. PICK ks \in SUBSET DOMAIN wallet.key, m \in {0, wallet.mkey} :
              rewrite' = PutAll([exists |-> TRUE, key |-> [k \in ks |-> wallet.key[k]], mkey |-> m])
        BY <3>1 DEF Die
      <4> QED BY <2>2, <4>5, <4>6, PutAllPart
    <3>2. CASE ~\E t \in Threads : At(t, "remove")
      BY <2>2, <3>2 DEF Die
    <3> QED BY <3>1, <3>2
  <2> QED BY <1>1, <1>2, <2>2, <2>3 DEF DiskInv
<1> QED BY <1>3, <1>4, <1>5 DEF FileInv

(* LoadWallet takes the master key from the file, or makes an empty file. *)
LEMMA LoadWalletFile ==
    ASSUME Placed, \A t \in Threads : job[t] = Nobody, FileInv, LoadWallet
    PROVE  FileInv'
<1>1. /\ alive' = TRUE
      /\ wallet' = IF wallet.exists THEN wallet ELSE Empty
      /\ nMasterKey' = wallet.mkey
      /\ UNCHANGED <<cs_wallet, job, pc, rewrite, backup, nKeys, nMasters, died>>
  BY DEF LoadWallet, threads, history
<1>2. \A t \in Threads : Within(job[t], pc[t])' <=> Within(job[t], pc[t])
  BY <1>1 DEF Within
<1>3. LockInv' /\ BackupLoads'
  BY <1>1, <1>2 DEF FileInv, LockInv, BackupLoads
<1>4. ASSUME DiskInv PROVE DiskInv'
  <2>1. \A t \in Threads : ~Crypting(t)' /\ ~Committing(t)' /\ ~Renaming(t)' /\ ~Renaming(t)
    BY <1>1 DEF Crypting, Committing, Renaming, Nobody
  <2>2. /\ nKeys \in Nat /\ nMasters \in Nat /\ IsFile(wallet) /\ IsFile(rewrite)
        /\ wallet.exists => Whole(wallet, nKeys)
        /\ ~wallet.exists => wallet = Missing /\ nKeys = 0 /\ ~rewrite.exists
        /\ rewrite.exists => Leftover(rewrite, wallet)
    BY <1>4, <2>1 DEF DiskInv
  <2>3. CASE wallet.exists
    BY <1>1, <2>1, <2>2, <2>3 DEF DiskInv
  <2>4. CASE ~wallet.exists
    <3>1. /\ wallet'.exists = TRUE /\ wallet'.mkey = 0 /\ wallet'.key = <<>> /\ wallet.mkey = 0
          /\ IsFile(wallet)'
      BY <1>1, <2>2, <2>4 DEF Empty, Missing, IsFile
    <3>2. Whole(wallet, nKeys)'
      <4>1. DOMAIN wallet'.key = {} /\ 1..nKeys' = {}
        BY <1>1, <2>2, <2>4, <3>1
      <4> QED BY <3>1, <4>1 DEF Whole, Loads
    <3> QED BY <1>1, <2>1, <2>2, <2>4, <3>1, <3>2 DEF DiskInv
  <2> QED BY <2>3, <2>4
<1> QED BY <1>1, <1>3, <1>4 DEF FileInv

(* A backup is taken after the checkpoint, when wallet.dat is there. *)
LEMMA BackupCopyFile ==
    ASSUME Placed, alive, FileInv, NEW t \in Threads, BackupCopy(t)
    PROVE  FileInv'
<1>1. /\ At(t, "backup") /\ Step(t) /\ cs_dbFree /\ logged' = "nothing"
      /\ backup' = IF logged' = "nothing" /\ Loads(wallet) THEN "good" ELSE "broken"
      /\ UNCHANGED <<alive, cs_wallet, nMasterKey, wallet, rewrite, nKeys, nMasters, died>>
  BY DEF BackupCopy, CloseAndCheckpoint, Copied, history
<1>2. ASSUME ~died PROVE Loads(wallet)
  <2>1. \A u \in Threads : ~Renaming(u)
    BY <1>1, Places DEF cs_dbFree
  <2> QED BY <1>2, <2>1 DEF FileInv, DiskInv, Whole
<1>3. BackupLoads'
  BY <1>1, <1>2 DEF FileInv, BackupLoads
<1> QED BY <1>1, <1>3, QuietFile

(* Rewrite given up. *)
LEMMA CopyGivenUpFile ==
    ASSUME Placed, FileInv, NEW t \in Threads, CopyGivenUp(t)
    PROVE  FileInv'
<1>1. job[t] = "encrypt" /\ pc[t] = 10
  BY Places DEF CopyGivenUp
<1>2. Len(Program["encrypt"]) = 13
  <2>1. Program["encrypt"] = <<"check", "lock", "open", "encrypt", "commit", "close",
                               "open", "addkey", "close", "copy", "remove", "rename", "unlock">>
    BY DEF Program
  <2> QED BY <2>1
<1>3. /\ pc' = [pc EXCEPT ![t] = 13] /\ job' = job
      /\ UNCHANGED <<alive, cs_wallet, nMasterKey, wallet, rewrite, backup, nKeys, nMasters, died>>
  BY <1>2 DEF CopyGivenUp, disk, history
<1>4. pc'[t] = 13 /\ \A u \in Threads \ {t} : pc'[u] = pc[u]
  BY <1>3 DEF Placed
<1>5. /\ Within(job[t], pc[t]) /\ Within(job[t], pc[t])' /\ Crypting(t)
      /\ ~Committing(t) /\ ~Renaming(t) /\ ~Committing(t)' /\ ~Renaming(t)'
  BY <1>1, <1>3, <1>4 DEF Within, Crypting, Committing, Renaming
<1>6. \A u \in Threads \ {t} : /\ Within(job[u], pc[u])' <=> Within(job[u], pc[u])
                               /\ Crypting(u)' <=> Crypting(u)
                               /\ Committing(u)' <=> Committing(u)
                               /\ Renaming(u)' <=> Renaming(u)
  BY <1>3, <1>4 DEF Within, Crypting, Committing, Renaming
<1>7. LockInv' /\ BackupLoads'
  BY <1>3, <1>5, <1>6 DEF FileInv, LockInv, BackupLoads
<1>8. DiskInv => DiskInv'
  BY <1>3, <1>5, <1>6, DiskSame
<1> QED BY <1>3, <1>7, <1>8 DEF FileInv

(* A use begins without cs_wallet. *)
LEMMA BeginFile ==
    ASSUME Placed, FileInv, NEW t \in Threads, NEW j \in Jobs[t], Begin(t, j)
    PROVE  FileInv'
<1>1. /\ job[t] = Nobody /\ job' = [job EXCEPT ![t] = j] /\ pc' = [pc EXCEPT ![t] = 1]
      /\ UNCHANGED <<alive, cs_wallet, nMasterKey, wallet, rewrite, backup, nKeys, nMasters, died>>
  BY DEF Begin, disk, history
<1>2. /\ pc'[t] = 1 /\ \A u \in Threads \ {t} : job'[u] = job[u] /\ pc'[u] = pc[u]
  BY <1>1 DEF Placed
<1>3. /\ ~Within(job[t], pc[t]) /\ ~Committing(t) /\ ~Renaming(t)
  BY <1>1 DEF Within, Committing, Renaming, Nobody
<1>4. ~Within(job[t], pc[t])' /\ ~Crypting(t)' /\ ~Committing(t)' /\ ~Renaming(t)'
  BY <1>2 DEF Within, Crypting, Committing, Renaming
<1>5. \A u \in Threads \ {t} : /\ Within(job[u], pc[u])' <=> Within(job[u], pc[u])
                               /\ Crypting(u)' <=> Crypting(u)
                               /\ Committing(u)' <=> Committing(u)
                               /\ Renaming(u)' <=> Renaming(u)
  BY <1>2 DEF Within, Crypting, Committing, Renaming
<1>6. LockInv' /\ BackupLoads'
  BY <1>1, <1>3, <1>4, <1>5 DEF FileInv, LockInv, BackupLoads
<1>7. DiskInv => DiskInv'
  BY <1>1, <1>3, <1>4, <1>5, DiskSame
<1> QED BY <1>1, <1>6, <1>7 DEF FileInv

(* The threads are where they were, and so are the files. *)
LEMMA IdleFile ==
    ASSUME FileInv,
           UNCHANGED <<alive, job, pc, cs_wallet, nMasterKey, wallet, rewrite, backup,
                       nKeys, nMasters, died>>
    PROVE  FileInv'
<1>1. \A u \in Threads : /\ Within(job[u], pc[u])' <=> Within(job[u], pc[u])
                         /\ Crypting(u)' <=> Crypting(u)
                         /\ Committing(u)' <=> Committing(u)
                         /\ Renaming(u)' <=> Renaming(u)
  BY DEF Within, Crypting, Committing, Renaming
<1>2. DiskInv => DiskInv'
  BY <1>1, DiskSame
<1> QED BY <1>1, <1>2 DEF FileInv, LockInv, BackupLoads

(* A step of a thread in a use. *)
LEMMA ThreadFile ==
    ASSUME UseInv, FileInv, NEW t \in Threads, Proceed(t) \/ Wait(t)
    PROVE  FileInv'
<1>1. Placed
  BY DEF UseInv
<1>2. \A i : At(t, i) => alive
  BY DEF UseInv, At
<1>3. \A i : At(t, i) /\ i \notin {"commit", "rename"} => ~Committing(t) /\ ~Renaming(t)
  BY <1>1, Places DEF At
<1>4. backup' = backup /\ died' = died => BackupLoads'
  BY DEF FileInv, BackupLoads
<1>5. CASE Unlock(t)
  BY <1>1, <1>4, <1>5, QuietFile DEF Unlock, disk, history
<1>6. CASE Open(t)
  BY <1>1, <1>4, <1>6, QuietFile DEF Open, disk, history
<1>7. CASE OpenThrows(t)
  BY <1>1, <1>3, <1>7, LeaveFile DEF OpenThrows, disk, history
<1>8. CASE Close(t)
  BY <1>1, <1>4, <1>8, QuietFile DEF Close, disk, history
<1>9. CASE WriteName(t)
  BY <1>1, <1>4, <1>9, QuietFile DEF WriteName, history
<1>10. CASE WriteAccount(t)
  BY <1>1, <1>4, <1>10, QuietFile DEF WriteAccount, history
<1>11. CASE AddKey(t)
  BY <1>1, <1>2, <1>11, AddKeyFile DEF AddKey
<1>12. CASE AddNoKey(t)
  BY <1>1, <1>4, <1>12, QuietFile DEF AddNoKey, disk, history
<1>13. CASE Check(t)
  <2>1. CASE nMasterKey = 0
    BY <1>1, <1>4, <1>13, <2>1, QuietFile DEF Check, disk, history
  <2>2. CASE nMasterKey # 0
    BY <1>1, <1>3, <1>13, <2>2, LeaveFile DEF Check, disk, history
  <2> QED BY <2>1, <2>2
<1>14. CASE EncryptKeys(t)
  BY <1>1, <1>2, <1>14, EncryptKeysFile DEF EncryptKeys
<1>15. CASE TxnCommit(t)
  BY <1>1, <1>2, <1>15, TxnCommitFile DEF TxnCommit
<1>16. CASE ExitEncrypting(t)
  BY <1>1, <1>16, DieFile DEF ExitEncrypting
<1>17. CASE CopyGivenUp(t)
  BY <1>1, <1>17, CopyGivenUpFile
<1>18. CASE Remove(t)
  BY <1>1, <1>2, <1>18, RemoveFile DEF Remove
<1>19. CASE Rename(t)
  BY <1>1, <1>2, <1>19, RenameFile DEF Rename
<1>20. CASE BackupGivenUp(t)
  BY <1>1, <1>4, <1>20, QuietFile DEF BackupGivenUp, disk, history
<1>21. CASE Lock(t)
  BY <1>1, <1>4, <1>21, QuietFile DEF Lock, disk, history
<1>22. CASE Copy(t)
  BY <1>1, <1>4, <1>22, QuietFile DEF Copy, history
<1>23. CASE BackupCopy(t)
  BY <1>1, <1>2, <1>23, BackupCopyFile DEF BackupCopy
<1> QED
  BY <1>5, <1>6, <1>7, <1>8, <1>9, <1>10, <1>11, <1>12, <1>13, <1>14, <1>15, <1>16, <1>17,
     <1>18, <1>19, <1>20, <1>21, <1>22, <1>23
     DEF Proceed, Wait

-----------------------------------------------------------------------------
(* Every reachable state is one the two invariants describe. *)
THEOREM FileInvariance == Spec => [](UseInv /\ FileInv)
<1>1. Init => FileInv
  <2> SUFFICES ASSUME Init PROVE FileInv
    OBVIOUS
  <2>1. /\ ~alive /\ cs_wallet = Nobody
        /\ job = [t \in Threads |-> Nobody] /\ pc = [t \in Threads |-> 0]
        /\ wallet = Missing /\ rewrite = Missing /\ backup = "none"
        /\ nKeys = 0 /\ nMasters = 0 /\ died = FALSE
    BY DEF Init
  <2>2. \A t \in Threads : /\ ~Within(job[t], pc[t])
                           /\ ~Crypting(t) /\ ~Committing(t) /\ ~Renaming(t)
    BY <2>1 DEF Within, Crypting, Committing, Renaming, Nobody
  <2>3. LockInv
    BY <2>1, <2>2 DEF LockInv, Nobody, Threads
  <2>4. ~Missing.exists /\ IsFile(Missing)
    BY DEF Missing, IsFile
  <2>5. DiskInv
    BY <2>1, <2>2, <2>4 DEF DiskInv
  <2> QED BY <2>1, <2>3, <2>5 DEF FileInv, BackupLoads
<1>2. UseInv /\ FileInv /\ [Next]_vars => FileInv'
  <2> SUFFICES ASSUME UseInv, FileInv, [Next]_vars PROVE FileInv'
    OBVIOUS
  <2>1. Placed /\ (~alive => \A t \in Threads : job[t] = Nobody)
    BY DEF UseInv
  <2>2. CASE \E t \in Threads : \E j \in Jobs[t] : Begin(t, j)
    BY <2>1, <2>2, BeginFile
  <2>3. CASE \E t \in Threads : Proceed(t) \/ Wait(t)
    BY <2>3, ThreadFile
  <2>4. CASE FlushWallet \/ Flush \/ RequestShutdown \/ UNCHANGED vars
    <3>1. UNCHANGED <<alive, job, pc, cs_wallet, nMasterKey, wallet, rewrite, backup,
                      nKeys, nMasters, died>>
      BY <2>4 DEF FlushWallet, Flush, RequestShutdown, vars, threads, disk, history
    <3> QED BY <3>1, IdleFile
  <2>5. CASE Die
    BY <2>1, <2>5, DieFile
  <2>6. CASE LoadWallet
    BY <2>1, <2>6, LoadWalletFile DEF LoadWallet
  <2> QED BY <2>2, <2>3, <2>4, <2>5, <2>6 DEF Next
<1> QED BY <1>1, <1>2, UseInvInit, UseInvNext, PTL DEF Spec

(* "Don't do this if any databases are in use" (walletdb.cpp): the flush     *)
(* thread, a backup, the rewriting and Shutdown close the handle of          *)
(* wallet.dat or the environment only when no CDB object is alive, whatever  *)
(* uses the two threads make and however they interleave, also when the      *)
(* process ends and starts again.                                            *)
THEOREM UseCountIsExact == Spec => []NoCloseInUse
<1>1. UseInv => NoCloseInUse
  BY DEF UseInv
<1> QED BY <1>1, UseInvInit, UseInvNext, PTL DEF Spec

(* No key is lost, and the file is in one form, whenever the process ends:   *)
(* before or after the commit of EncryptWallet, while Rewrite copies, with   *)
(* what an earlier process left in wallet.dat.rewrite, for any number of     *)
(* keys, processes and uses.                                                 *)
THEOREM NoKeyIsLost == Spec => []KeysSurvive
<1>1. UseInv /\ FileInv => KeysSurvive
  <2> SUFFICES ASSUME UseInv, FileInv, ~alive, nKeys > 0, ~died
               PROVE  Loads(wallet) /\ DOMAIN wallet.key = 1..nKeys
    BY DEF KeysSurvive
  <2>1. \A t \in Threads : ~Renaming(t)
    BY DEF UseInv, Renaming, Nobody
  <2>2. wallet.exists
    BY <2>1 DEF FileInv, DiskInv
  <2> QED BY <2>1, <2>2 DEF FileInv, DiskInv, Whole
<1> QED BY <1>1, FileInvariance, PTL

(* BackupWallet copies a file that is closed, complete without its log, and  *)
(* in one form, because it waits for cs_db and for the last use.             *)
THEOREM BackupsLoad == Spec => []BackupLoads
<1>1. FileInv => BackupLoads
  BY DEF FileInv
<1> QED BY <1>1, FileInvariance, PTL

(* No key is written in the other form while EncryptWallet's transaction is  *)
(* on its way: whatever writes one holds cs_wallet, as EncryptWallet does.   *)
THEOREM FormsStayTogether == Spec => []FormsAgree
<1>1. UseInv /\ FileInv => FormsAgree
  <2> SUFFICES ASSUME UseInv, FileInv, alive, ~died, wallet.exists, wallet.mkey # nMasterKey
               PROVE  \E t \in Threads : At(t, "commit") /\ cs_wallet = t
    BY DEF FormsAgree
  <2>1. DiskInv /\ LockInv /\ Placed
    BY DEF FileInv, UseInv
  <2>2. \A t \in Threads : ~Renaming(t)
    BY <2>1 DEF DiskInv, Missing
  <2>3. PICK t \in Threads : Committing(t)
    BY <2>1, <2>2 DEF DiskInv
  <2>4. At(t, "commit") /\ cs_wallet = t
    BY <2>1, <2>3, Places DEF LockInv
  <2> QED BY <2>4
<1> QED BY <1>1, FileInvariance, PTL

=============================================================================
