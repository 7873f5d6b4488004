------------------------------ MODULE Download ------------------------------
(***************************************************************************)
(* How nodes running this program fetch blocks from one another: getblocks *)
(* after the version message, inv, AskFor and its retries, getdata, block, *)
(* and the inv that is to start the next batch (messages.cpp, and the      *)
(* inventory part of CNode).  Connections are TCP: messages arrive in      *)
(* order, and all of them are lost when a connection breaks.               *)
(*                                                                         *)
(* There is one chain, its blocks named by their heights, and a node has   *)
(* the blocks up to its height: a block is taken only after its parent,    *)
(* and forks are in module Chain.  Times are multiples of the two minutes  *)
(* between retries, counted from now; Now - 1 is any time further back.    *)
(***************************************************************************)
EXTENDS Integers, Sequences, FiniteSets, SequencesExt

CONSTANTS
    Node,
    MaxHeight,          \* bounds the chain
    MaxAhead,           \* bounds how far ahead a retry is put off, which
                        \* every new announcement does again
    nLimit,             \* 500: the blocks a getblocks is answered with
    nWorkHeight,        \* 3: from here on CheckWork looks for the parent
    StartHeight,        \* [Node -> the height it starts with]
    Dials               \* the pairs of a node and one it connects to

ASSUME LimitAssumption ==
    /\ MaxHeight \in Nat
    /\ MaxAhead \in Nat
    /\ nLimit \in Nat \ {0}
    /\ nWorkHeight \in Nat \ {0}
    /\ StartHeight \in [Node -> 0..MaxHeight]
    /\ Dials \subseteq Node \X Node

VARIABLES
    height,             \* [Node -> nBestHeight]
    nAskedForBlocks,    \* [Node -> whether the static counter is above 0]
    mapAlreadyAskedFor, \* [Node -> [block -> time]]
    cnode,              \* [Node -> [Node -> the CNode the first has for the
                        \* second]]
    channel             \* [Node -> [Node -> messages on their way]]

vars == <<height, nAskedForBlocks, mapAlreadyAskedFor, cnode, channel>>

Linked == Dials \cup {<<p[2], p[1]>> : p \in Dials}
Block == 1..MaxHeight
Never == -1     \* no block: 0 in hashContinue, NULL in pindexLastGetBlocksBegin
Now == 0
Past == -1

version == [type |-> "version"]
inv(ks) == [type |-> "inv", body |-> ks]
getblocks(k) == [type |-> "getblocks", body |-> k]
getdata(ks) == [type |-> "getdata", body |-> ks]
block(k) == [type |-> "block", body |-> k]

-----------------------------------------------------------------------------
(* CNode *)

(* dropped is no field of CNode: the orphan blocks received from the node.   *)
NotConnected ==
    [up |-> FALSE, fInbound |-> FALSE, nVersion |-> FALSE,
     setInventoryKnown |-> {},
     vInventoryToSend |-> <<>>, mapAskFor |-> <<>>, hashContinue |-> Never,
     lastGetBlocksBegin |-> Never, dropped |-> {}]

Connected(fInbound) ==
    [NotConnected EXCEPT !.up = TRUE, !.fInbound = fInbound]

vNodes(i) == {j \in Node : cnode[i][j].up}

AlreadyHave(i, k) == k <= height[i]

PushInventory(c, ks) ==
    [c EXCEPT !.vInventoryToSend =
        @ \o SelectSeq(ks, LAMBDA k : k \notin c.setInventoryKnown)]

(* Each retry is two minutes after the time of the last. *)
NextRequest(t) == IF t + 1 > Now THEN t + 1 ELSE Now

(* mapAskFor is ordered by time, and by the order of asking in one time. *)
Insert(mapAskFor, e) ==
    SelectSeq(mapAskFor, LAMBDA x : x.time <= e.time) \o <<e>>
        \o SelectSeq(mapAskFor, LAMBDA x : x.time > e.time)

(* fault: a block that another node was asked for is left to it *)
AskForOnce(i, c, ks) ==
    [c EXCEPT !.mapAskFor =
        FoldLeft(LAMBDA m, k : IF mapAlreadyAskedFor[i][k] > Past THEN m
                               ELSE Insert(m, [inv |-> k, time |-> Now]),
                 @, ks)]

(* AskFor, for every block of ks *)
AskFor(i, c, ks) ==
    [c EXCEPT !.mapAskFor =
        FoldLeft(LAMBDA m, k : Insert(m, [inv |-> k,
                        time |-> NextRequest(mapAlreadyAskedFor[i][k])]),
                 @, ks)]

(* PushGetBlocks leaves a request like the last one out. *)
PushGetBlocks(c, k) == IF c.lastGetBlocksBegin = k THEN <<>> ELSE <<getblocks(k)>>

(* The message from j is taken off its channel and ms are sent to it. *)
Reply(i, j, ms) ==
    channel' = [channel EXCEPT ![j][i] = Tail(@), ![i][j] = @ \o ms]

SetNode(i, j, c) == cnode' = [cnode EXCEPT ![i][j] = c]

-----------------------------------------------------------------------------
(* ProcessMessage at i of a message from j, under cs_main *)

Receives(i, j, type) ==
    /\ channel[j][i] # <<>>
    /\ Head(channel[j][i]).type = type

(* fault: the version is taken to be sent already *)
PushVersionNot(c) == <<>>

(* A node that was connected to sends its version now. *)
PushVersion(c) == IF c.fInbound THEN <<version>> ELSE <<>>

(* Only the first peer, or an only one, is asked for blocks. *)
ReceiveVersion(i, j) ==
    LET c == cnode[i][j]
        fAsk == ~nAskedForBlocks[i] \/ Cardinality(vNodes(i)) <= 1
    IN
    /\ Receives(i, j, "version")
    /\ nAskedForBlocks' = [nAskedForBlocks EXCEPT ![i] = @ \/ fAsk]
    /\ SetNode(i, j, [c EXCEPT !.nVersion = TRUE,
                               !.lastGetBlocksBegin = IF fAsk THEN height[i] ELSE @])
    /\ Reply(i, j, PushVersion(c)
                    \o (IF fAsk THEN PushGetBlocks(c, height[i]) ELSE <<>>))
    /\ UNCHANGED <<height, mapAlreadyAskedFor>>

(* Blocks that are not had are asked for.  If the last one is, the peer is   *)
(* asked for what follows it.                                                *)
ReceiveInv(i, j) ==
    LET c == cnode[i][j]
        ks == Head(channel[j][i]).body
        new == SelectSeq(ks, LAMBDA k : ~AlreadyHave(i, k))
        more == AlreadyHave(i, Last(ks))
    IN
    /\ Receives(i, j, "inv")
    /\ \A k \in Range(new) : mapAlreadyAskedFor[i][k] < MaxAhead
    /\ mapAlreadyAskedFor' = [mapAlreadyAskedFor EXCEPT ![i] = [k \in Block |->
            IF k \in Range(new) THEN NextRequest(@[k]) ELSE @[k]]]
    /\ SetNode(i, j, [AskFor(i, c, new) EXCEPT
            !.setInventoryKnown = @ \cup Range(ks),
            !.lastGetBlocksBegin = IF more THEN Last(ks) ELSE @])
    /\ Reply(i, j, IF more THEN PushGetBlocks(c, Last(ks)) ELSE <<>>)
    /\ UNCHANGED <<height, nAskedForBlocks>>

(* fault: the end of the chain is not looked for *)
BatchEndUnchecked(i, k) == k + nLimit

(* The last of the blocks after k that go into one answer *)
BatchEnd(i, k) == Min({height[i], k + nLimit})

(* The blocks after the one named, if it is known; the last of a full batch  *)
(* is remembered.                                                            *)
ReceiveGetBlocks(i, j) ==
    LET c == cnode[i][j]
        k == Head(channel[j][i]).body
        last == BatchEnd(i, k)
    IN
    /\ Receives(i, j, "getblocks")
    /\ SetNode(i, j, [PushInventory(c, [n \in 1..(last - k) |-> k + n]) EXCEPT
            !.hashContinue = IF last = k + nLimit THEN last ELSE @])
    /\ Reply(i, j, <<>>)
    /\ UNCHANGED <<height, nAskedForBlocks, mapAlreadyAskedFor>>

(* The blocks asked for; after the last of a batch, the best block is        *)
(* announced once more.                                                      *)
ReceiveGetData(i, j) ==
    LET c == cnode[i][j]
        ks == SelectSeq(Head(channel[j][i]).body, LAMBDA k : AlreadyHave(i, k))
        Sent(k) == IF k = c.hashContinue
                   THEN <<block(k), inv(<<height[i]>>)>> ELSE <<block(k)>>
    IN
    /\ Receives(i, j, "getdata")
    /\ SetNode(i, j, [c EXCEPT !.hashContinue =
                                IF @ \in Range(ks) THEN Never ELSE @])
    /\ Reply(i, j, FlattenSeq([n \in DOMAIN ks |-> Sent(ks[n])]))
    /\ UNCHANGED <<height, nAskedForBlocks, mapAlreadyAskedFor>>

(* Every connection of i is gone, and what it kept in memory. *)
Dies(i) ==
    /\ cnode' = [a \in Node |-> [b \in Node |->
            IF i \in {a, b} THEN NotConnected ELSE cnode[a][b]]]
    /\ channel' = [a \in Node |-> [b \in Node |->
            IF i \in {a, b} THEN <<>> ELSE channel[a][b]]]
    /\ nAskedForBlocks' = [nAskedForBlocks EXCEPT ![i] = FALSE]
    /\ mapAlreadyAskedFor' = [mapAlreadyAskedFor EXCEPT ![i] = [k \in Block |-> Past]]
    /\ height' = height

(* ProcessBlock of a block that is had fails, so the time it was asked for   *)
(* is kept.                                                                  *)
BlockKnown(i, j, k) ==
    /\ AlreadyHave(i, k)
    /\ SetNode(i, j, [cnode[i][j] EXCEPT !.setInventoryKnown = @ \cup {k}])
    /\ Reply(i, j, <<>>)
    /\ UNCHANGED <<height, nAskedForBlocks, mapAlreadyAskedFor>>

Forgotten(i, k) == mapAlreadyAskedFor' = [mapAlreadyAskedFor EXCEPT ![i][k] = Past]

(* A block without its parent is dropped.  CheckWork fails for want of the   *)
(* parent; below nWorkHeight it does not look, and the block is taken for    *)
(* processed, but a node that has the genesis block only reads               *)
(* pindexBest->pprev->nBits on the way and dies.                             *)
BlockOrphan(i, j, k) ==
    /\ k > height[i] + 1
    /\ IF height[i] = 0 THEN Dies(i)
       ELSE /\ SetNode(i, j, [cnode[i][j] EXCEPT !.setInventoryKnown = @ \cup {k},
                                                 !.dropped = @ \cup {k}])
            /\ IF height[i] < nWorkHeight THEN Forgotten(i, k)
               ELSE UNCHANGED mapAlreadyAskedFor
            /\ Reply(i, j, <<>>)
            /\ UNCHANGED <<height, nAskedForBlocks>>

(* AcceptBlock announces the new best block to every node. *)
Announced(i, k) ==
    [j \in Node |-> IF j \in vNodes(i) THEN PushInventory(cnode[i][j], <<k>>)
                    ELSE cnode[i][j]]

BlockAccepted(i, j, k) ==
    /\ k = height[i] + 1
    /\ height' = [height EXCEPT ![i] = k]
    /\ cnode' = [cnode EXCEPT ![i] = [Announced(i, k) EXCEPT ![j] =
                    [cnode[i][j] EXCEPT !.setInventoryKnown = @ \cup {k}]]]
    /\ Forgotten(i, k)
    /\ Reply(i, j, <<>>)
    /\ UNCHANGED nAskedForBlocks

ReceiveBlock(i, j) ==
    /\ Receives(i, j, "block")
    /\ LET k == Head(channel[j][i]).body IN
         \/ BlockKnown(i, j, k)
         \/ BlockOrphan(i, j, k)
         \/ BlockAccepted(i, j, k)

ProcessMessage(i, j) ==
    \/ ReceiveVersion(i, j)
    \/ ReceiveInv(i, j)
    \/ ReceiveGetBlocks(i, j)
    \/ ReceiveGetData(i, j)
    \/ ReceiveBlock(i, j)

-----------------------------------------------------------------------------
(* SendMessages at i to j: the blocks to announce and those due to be asked  *)
(* for.                                                                      *)

Unannounced(c) ==
    FoldLeft(LAMBDA ks, k : IF k \in Range(ks) \cup c.setInventoryKnown
                            THEN ks ELSE Append(ks, k),
             <<>>, c.vInventoryToSend)

Due(c) == SelectSeq(c.mapAskFor, LAMBDA e : e.time <= Now)

SendMessages(i, j) ==
    LET c == cnode[i][j]
        vInv == Unannounced(c)
        due == Due(c)
        vGetData == SelectSeq([n \in DOMAIN due |-> due[n].inv],
                              LAMBDA k : ~AlreadyHave(i, k))
    IN
    /\ c.nVersion
    /\ c.vInventoryToSend # <<>> \/ due # <<>>
    /\ SetNode(i, j, [c EXCEPT
            !.setInventoryKnown = @ \cup Range(vInv),
            !.vInventoryToSend = <<>>,
            !.mapAskFor = SelectSeq(@, LAMBDA e : e.time > Now)])
    /\ mapAlreadyAskedFor' = [mapAlreadyAskedFor EXCEPT ![i] = [k \in Block |->
            IF \E n \in DOMAIN due : due[n].inv = k THEN Now ELSE @[k]]]
    /\ channel' = [channel EXCEPT ![i][j] = @
            \o (IF vInv = <<>> THEN <<>> ELSE <<inv(vInv)>>)
            \o (IF vGetData = <<>> THEN <<>> ELSE <<getdata(vGetData)>>)]
    /\ UNCHANGED <<height, nAskedForBlocks>>

-----------------------------------------------------------------------------
(* The surroundings *)

(* Two minutes pass. *)
Tick ==
    /\ \E i \in Node :
         \/ \E k \in Block : mapAlreadyAskedFor[i][k] > Past
         \/ \E j \in Node : \E n \in DOMAIN cnode[i][j].mapAskFor :
               cnode[i][j].mapAskFor[n].time > Now
    /\ mapAlreadyAskedFor' = [i \in Node |-> [k \in Block |->
            Max({mapAlreadyAskedFor[i][k] - 1, Past})]]
    /\ cnode' = [i \in Node |-> [j \in Node |-> [cnode[i][j] EXCEPT !.mapAskFor =
            [n \in DOMAIN @ |-> [@[n] EXCEPT !.time = Max({@ - 1, Now})]]]]]
    /\ UNCHANGED <<height, nAskedForBlocks, channel>>

Connect(i, j) ==
    /\ ~cnode[i][j].up
    /\ cnode' = [cnode EXCEPT ![i][j] = Connected(FALSE), ![j][i] = Connected(TRUE)]
    /\ channel' = [channel EXCEPT ![i][j] = <<version>>]
    /\ UNCHANGED <<height, nAskedForBlocks, mapAlreadyAskedFor>>

Disconnect(i, j) ==
    /\ cnode[i][j].up
    /\ cnode' = [cnode EXCEPT ![i][j] = NotConnected, ![j][i] = NotConnected]
    /\ channel' = [channel EXCEPT ![i][j] = <<>>, ![j][i] = <<>>]
    /\ UNCHANGED <<height, nAskedForBlocks, mapAlreadyAskedFor>>

(* A new best block is made by a node that has the chain. *)
NewBlock(i) ==
    /\ height[i] < MaxHeight
    /\ \A j \in Node : height[j] <= height[i]
    /\ height' = [height EXCEPT ![i] = @ + 1]
    /\ cnode' = [cnode EXCEPT ![i] = Announced(i, height[i] + 1)]
    /\ UNCHANGED <<nAskedForBlocks, mapAlreadyAskedFor, channel>>

-----------------------------------------------------------------------------
Init ==
    /\ height = StartHeight
    /\ nAskedForBlocks = [i \in Node |-> FALSE]
    /\ mapAlreadyAskedFor = [i \in Node |-> [k \in Block |-> Past]]
    /\ cnode = [i \in Node |-> [j \in Node |-> NotConnected]]
    /\ channel = [i \in Node |-> [j \in Node |-> <<>>]]

Next ==
    \/ \E p \in Linked :
         \/ ProcessMessage(p[1], p[2])
         \/ SendMessages(p[1], p[2])
    \/ \E p \in Dials :
         \/ Connect(p[1], p[2])
         \/ Disconnect(p[1], p[2])
    \/ \E i \in Node : NewBlock(i)
    \/ Tick

Spec == Init /\ [][Next]_vars

(* The message thread of each node goes on, and time passes; nobody has to   *)
(* connect, to stay connected or to make a block.                            *)
FairSpec ==
    /\ Spec
    /\ \A p \in Linked : WF_vars(\/ ProcessMessage(p[1], p[2])
                                 \/ SendMessages(p[1], p[2]))
    /\ WF_vars(Tick)

-----------------------------------------------------------------------------
(* Properties *)

Message ==
    [type : {"version"}]
        \cup [type : {"inv", "getdata"}, body : Seq(Block)]
        \cup [type : {"getblocks"}, body : {0} \cup Block]
        \cup [type : {"block"}, body : Block]

(* The fields are in their types, nothing is on its way without a            *)
(* connection, and both ends agree on whether there is one.                  *)
TypeOK ==
    /\ height \in [Node -> 0..MaxHeight]
    /\ nAskedForBlocks \in [Node -> BOOLEAN]
    /\ mapAlreadyAskedFor \in [Node -> [Block -> Past..MaxAhead]]
    /\ \A i, j \in Node :
         LET c == cnode[i][j] IN
         /\ c.setInventoryKnown \cup Range(c.vInventoryToSend) \cup c.dropped
                \subseteq Block
         /\ c.mapAskFor \in Seq([inv : Block, time : Now..MaxAhead])
         /\ {c.hashContinue, c.lastGetBlocksBegin} \subseteq {Never, 0} \cup Block
         /\ c.up = cnode[j][i].up
         /\ ~c.up => c = NotConnected /\ channel[i][j] = <<>>
         /\ channel[i][j] \in Seq(Message)

(* Block k is on its way from j to i: about to be announced, announced,      *)
(* waiting in mapAskFor, asked for or sent.                                  *)
OnItsWay(i, j, k) ==
    \/ k \in Range(cnode[j][i].vInventoryToSend)
    \/ \E m \in Range(channel[j][i]) : m.type = "inv" /\ k \in Range(m.body)
    \/ \E e \in Range(cnode[i][j].mapAskFor) : e.inv = k
    \/ \E m \in Range(channel[i][j]) : m.type = "getdata" /\ k \in Range(m.body)
    \/ \E m \in Range(channel[j][i]) : m.type = "block" /\ m.body = k

(* j has still to see a getblocks of i that block k is an answer to. *)
Requested(i, j, k) ==
    \E m \in Range(channel[i][j]) :
        /\ m.type = "getblocks"
        /\ m.body < k /\ k <= m.body + nLimit

(* Block k is one j has announced to i, or the answer to i's last getblocks. *)
Owed(i, j, k) ==
    LET s == cnode[i][j].lastGetBlocksBegin IN
    /\ AlreadyHave(j, k)
    /\ \/ k \in cnode[j][i].setInventoryKnown
       \/ s # Never /\ s < k /\ k <= s + nLimit

(* A peer announces a block once and answers a getblocks once.  From then    *)
(* on, while they stay connected, the block is had, or on its way, or was    *)
(* dropped because it arrived before its parent: no handler loses track of   *)
(* it, whatever other peers announce, deliver or fail to deliver.            *)
NothingForgotten ==
    \A p \in Linked, k \in Block :
        LET i == p[1]
            j == p[2]
        IN Owed(i, j, k) => \/ AlreadyHave(i, k)
                            \/ Requested(i, j, k) \/ OnItsWay(i, j, k)
                            \/ k \in cnode[i][j].dropped

(* A block on its way arrives: again and again no node is waiting for one    *)
(* that its peer has, and requests do not go round for ever.  With           *)
(* NothingForgotten, every block owed is had or dropped in the end.          *)
RequestsAnswered ==
    \A p \in Linked : []<>(\A k \in Block :
        Requested(p[1], p[2], k) \/ OnItsWay(p[1], p[2], k)
            => AlreadyHave(p[1], k) \/ ~AlreadyHave(p[2], k))

(* "When this block is requested, we'll send an inv that'll make them        *)
(* getblocks the next batch of inventory" (messages.cpp:533): two nodes that *)
(* stay connected end with the same chain, however many batches that takes.  *)
DownloadContinues ==
    \A p \in Dials :
        <>[]cnode[p[1]][p[2]].up => <>[](height[p[1]] = height[p[2]])

=============================================================================
