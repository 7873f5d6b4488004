------------------------------- MODULE Nodes -------------------------------
(***************************************************************************)
(* The life of a CNode in net.cpp: made by a thread that opens outbound    *)
(* connections or accepted by the socket thread, used by the socket and    *)
(* message threads under reference counts, taken off vNodes, held for 15   *)
(* minutes and deleted; and the semaphore that bounds outbound             *)
(* connections.  With -connect there is no semaphore, and fShutdown ends   *)
(* the threads: neither is modelled.                                       *)
(*                                                                         *)
(* Each step runs from one access to memory shared without cs_vNodes to    *)
(* the next.  What is not modelled may go either way at any look: the      *)
(* contents of vSend and vRecv, the sockets, the bans, and which address   *)
(* addrman offers.                                                         *)
(***************************************************************************)
EXTENDS Integers, FiniteSets

CONSTANTS
    Node,                       \* the CNode objects there is memory for
    Addr,                       \* addresses of peers
    Opener,                     \* ThreadOpenConnections2 and
                                \* ThreadOpenAddedConnections2
    NoNode,
    nMaxOutbound,               \* what semOutbound starts from
    nMaxInbound                 \* -maxconnections less the outbound ones

ASSUME BoundAssumption ==
    /\ nMaxOutbound \in Nat
    /\ nMaxInbound \in Nat
    /\ NoNode \notin Node
    /\ IsFiniteSet(Node) /\ IsFiniteSet(Opener)
    /\ Addr # {}

VARIABLES
    node,           \* [Node -> the fields of CNode the threads share]
    semOutbound,
    socket,         \* [pc, held]: the socket thread and its vNodesCopy
    message,        \* [pc, held]: the message thread and its vNodesCopy
    open            \* [Opener -> [pc, addr, pnode, count]]

vars == <<node, semOutbound, socket, message, open>>

-----------------------------------------------------------------------------
(* CNode                                                                     *)

(* state is "none" before new and after delete, "connected" on vNodes and    *)
(* "disconnected" on vNodesDisconnected; released says that nReleaseTime has *)
(* passed; raced remembers that an AddRef wrote over another thread's.       *)
Fresh(addr, fInbound) ==
    [state |-> "connected", addr |-> addr, fInbound |-> fInbound,
     fDisconnect |-> FALSE, fHasGrant |-> FALSE, fNetworkNode |-> FALSE,
     nRefCount |-> 1, released |-> TRUE, raced |-> FALSE]

AnyAddr == CHOOSE a \in Addr : TRUE

(* Memory some thread may still be writing to is not used again. *)
NoMemory(raced) ==
    [Fresh(AnyAddr, FALSE) EXCEPT
        !.state = "none", !.nRefCount = 0, !.raced = raced]

vNodes == {n \in Node : node[n].state = "connected"}
vNodesDisconnected == {n \in Node : node[n].state = "disconnected"}
Unused == {n \in Node : node[n].state = "none" /\ ~node[n].raced}
Outbound == {n \in vNodes : ~node[n].fInbound}

(* GetRefCount() <= 0 *)
Unreferenced(n) == node[n].nRefCount <= 0 /\ node[n].released

AddRefs(ns) ==
    [n \in Node |-> IF n \in ns
                    THEN [node[n] EXCEPT !.nRefCount = @ + 1] ELSE node[n]]

Releases(ns) ==
    [n \in Node |-> IF n \in ns
                    THEN [node[n] EXCEPT !.nRefCount = @ - 1] ELSE node[n]]

-----------------------------------------------------------------------------
(* The socket thread                                                         *)

(* Fault: only the nodes this program connected to are released. *)
ReleasedIfNetworkNode(c) == c.fNetworkNode

ReleasedOnDisconnect(c) == c.fNetworkNode \/ c.fInbound

Disconnected(c) ==
    [c EXCEPT !.state = "disconnected", !.fDisconnect = TRUE,
              !.fHasGrant = FALSE, !.released = FALSE,
              !.nRefCount = IF ReleasedOnDisconnect(c) THEN @ - 1 ELSE @]

(* The top of the loop, under cs_vNodes.  A node whose buffers are empty and *)
(* that nobody uses is disconnected too.  A node is deleted when the thread  *)
(* gets its four locks: only the message thread may be holding one.          *)
DisconnectNodes ==
    /\ socket.pc = "top"
    /\ \E idle \in SUBSET {n \in vNodes : Unreferenced(n)} :
         LET leaving == idle \cup {n \in vNodes : node[n].fDisconnect}
             grants == {n \in leaving : node[n].fHasGrant}
             done == {n \in vNodesDisconnected : Unreferenced(n)}
         IN \E locked \in SUBSET (done \cap message.held) :
              /\ semOutbound' = semOutbound + Cardinality(grants)
              /\ node' = [n \in Node |->
                   IF n \in leaving THEN Disconnected(node[n])
                   ELSE IF n \in done \ locked THEN NoMemory(node[n].raced)
                   ELSE node[n]]
    /\ socket' = [socket EXCEPT !.pc = "select"]
    /\ UNCHANGED <<message, open>>

(* After select, a peer waiting at the listening socket is accepted unless   *)
(* there are too many or it is banned; then every node is given a reference. *)
(* Which memory the node is made in does not matter.                         *)
BeginService ==
    /\ socket.pc = "select"
    /\ \/ /\ node' = AddRefs(vNodes)
          /\ socket' = [pc |-> "serving", held |-> vNodes]
       \/ /\ Cardinality({n \in vNodes : node[n].fInbound}) < nMaxInbound
          /\ Unused # {}
          /\ LET new == CHOOSE n \in Unused : TRUE IN
               /\ \E a \in Addr :
                    node' = [AddRefs(vNodes) EXCEPT ![new] =
                                [Fresh(a, TRUE) EXCEPT !.nRefCount = @ + 1]]
               /\ socket' = [pc |-> "serving", held |-> vNodes \cup {new}]
    /\ UNCHANGED <<semOutbound, message, open>>

(* An end of file, an error, a full buffer or inactivity. *)
ServiceFails(n) ==
    /\ socket.pc = "serving"
    /\ n \in socket.held
    /\ ~node[n].fDisconnect
    /\ node' = [node EXCEPT ![n].fDisconnect = TRUE]
    /\ UNCHANGED <<semOutbound, socket, message, open>>

EndService ==
    /\ socket.pc = "serving"
    /\ socket' = [pc |-> "top", held |-> {}]
    /\ node' = Releases(socket.held)
    /\ UNCHANGED <<semOutbound, message, open>>

(* The 15 minutes after a node was taken off vNodes.  From the moment a      *)
(* thread that opens connections has the pointer to the moment it drops it,  *)
(* nothing in it blocks, so that is taken to be shorter.                     *)
ReleaseTimePasses(n) ==
    /\ n \in vNodesDisconnected
    /\ ~node[n].released
    /\ \A o \in Opener : open[o].pnode # n
    /\ node' = [node EXCEPT ![n].released = TRUE]
    /\ UNCHANGED <<semOutbound, socket, message, open>>

-----------------------------------------------------------------------------
(* The message thread                                                        *)

(* Fault: the copy of vNodes is taken without references. *)
BeginMessagesUncounted ==
    /\ message.pc = "sleep"
    /\ message' = [pc |-> "busy", held |-> vNodes]
    /\ UNCHANGED <<node, semOutbound, socket, open>>

BeginMessages ==
    /\ message.pc = "sleep"
    /\ message' = [pc |-> "busy", held |-> vNodes]
    /\ node' = AddRefs(vNodes)
    /\ UNCHANGED <<semOutbound, socket, open>>

(* ProcessMessages disconnects a peer, by itself or through Misbehaving. *)
MessageDisconnects(n) ==
    /\ message.pc = "busy"
    /\ n \in message.held
    /\ ~node[n].fDisconnect
    /\ node' = [node EXCEPT ![n].fDisconnect = TRUE]
    /\ UNCHANGED <<semOutbound, socket, message, open>>

EndMessages ==
    /\ message.pc = "busy"
    /\ message' = [pc |-> "sleep", held |-> {}]
    /\ node' = Releases(message.held)
    /\ UNCHANGED <<semOutbound, socket, open>>

-----------------------------------------------------------------------------
(* The threads that open connections                                         *)

Idle == [pc |-> "wait", addr |-> AnyAddr, pnode |-> NoNode, count |-> 0]

Return(o) == open' = [open EXCEPT ![o] = Idle]

ReleaseGrant(o) ==
    /\ Return(o)
    /\ semOutbound' = semOutbound + 1

(* semOutbound->wait() *)
WaitGrant(o) ==
    /\ open[o].pc = "wait"
    /\ semOutbound > 0
    /\ semOutbound' = semOutbound - 1
    /\ open' = [open EXCEPT ![o].pc = "choose"]
    /\ UNCHANGED <<node, socket, message>>

(* An address to connect to, if one is left that is not connected to; the    *)
(* address may also be banned.                                               *)
Choose(o) ==
    /\ open[o].pc = "choose"
    /\ \/ ReleaseGrant(o)
       \/ /\ \E a \in Addr :
               /\ \A n \in vNodes : node[n].addr # a
               /\ open' = [open EXCEPT ![o].pc = "find", ![o].addr = a]
          /\ UNCHANGED semOutbound
    /\ UNCHANGED <<node, socket, message>>

(* ConnectNode looks again, now for the port too: a peer that connected to   *)
(* us has another.                                                           *)
FindNode(o) ==
    LET found == {n \in Outbound : node[n].addr = open[o].addr} IN
    /\ open[o].pc = "find"
    /\ \/ /\ found = {}
          /\ open' = [open EXCEPT ![o].pc = "dial"]
       \/ \E n \in found :
            open' = [open EXCEPT ![o].pc = "addref", ![o].pnode = n]
    /\ UNCHANGED <<node, semOutbound, socket, message>>

(* nRefCount++ without cs_vNodes: a read, then a write that another thread's *)
(* update may be lost to, or that may be lost to another's.                  *)
AddRefReads(o) ==
    /\ open[o].pc = "addref"
    /\ open' = [open EXCEPT ![o].pc = "addref2",
                            ![o].count = node[open[o].pnode].nRefCount]
    /\ UNCHANGED <<node, semOutbound, socket, message>>

AddRefWrites(o) ==
    LET n == open[o].pnode IN
    /\ open[o].pc = "addref2"
    /\ \/ node' = node
       \/ node' = [node EXCEPT ![n].nRefCount = open[o].count + 1,
                               ![n].raced = @ \/ node[n].nRefCount # open[o].count]
    /\ open' = [open EXCEPT ![o].pc = "grant", ![o].count = 0]
    /\ UNCHANGED <<semOutbound, socket, message>>

(* ConnectSocket fails, or the new node is put on vNodes. *)
ConnectSocket(o) ==
    /\ open[o].pc = "dial"
    /\ \/ /\ ReleaseGrant(o)
          /\ node' = node
       \/ /\ Unused # {}
          /\ LET n == CHOOSE n \in Unused : TRUE IN
               /\ node' = [node EXCEPT ![n] = Fresh(open[o].addr, FALSE)]
               /\ open' = [open EXCEPT ![o].pc = "grant", ![o].pnode = n]
          /\ UNCHANGED semOutbound
    /\ UNCHANGED <<socket, message>>

(* Fault: the grant passed in is released, and the node told it has one. *)
TestGrantReleases(o) ==
    /\ open[o].pc = "grant"
    /\ open' = [open EXCEPT ![o].pc = "setgrant"]
    /\ semOutbound' = semOutbound + 1
    /\ UNCHANGED <<node, socket, message>>

(* The node may have been given another thread's grant. *)
TestGrant(o) ==
    /\ open[o].pc = "grant"
    /\ IF node[open[o].pnode].fHasGrant
       THEN /\ open' = [open EXCEPT ![o].pc = "network"]
            /\ semOutbound' = semOutbound + 1
       ELSE /\ open' = [open EXCEPT ![o].pc = "setgrant"]
            /\ UNCHANGED semOutbound
    /\ UNCHANGED <<node, socket, message>>

SetGrant(o) ==
    /\ open[o].pc = "setgrant"
    /\ node' = [node EXCEPT ![open[o].pnode].fHasGrant = TRUE]
    /\ open' = [open EXCEPT ![o].pc = "network"]
    /\ UNCHANGED <<semOutbound, socket, message>>

SetNetworkNode(o) ==
    /\ open[o].pc = "network"
    /\ node' = [node EXCEPT ![open[o].pnode].fNetworkNode = TRUE]
    /\ Return(o)
    /\ UNCHANGED <<semOutbound, socket, message>>

-----------------------------------------------------------------------------
Init ==
    /\ node = [n \in Node |-> NoMemory(FALSE)]
    /\ semOutbound = nMaxOutbound
    /\ socket = [pc |-> "top", held |-> {}]
    /\ message = [pc |-> "sleep", held |-> {}]
    /\ open = [o \in Opener |-> Idle]

ThreadSocketHandler ==
    \/ DisconnectNodes
    \/ BeginService
    \/ \E n \in Node : ServiceFails(n)
    \/ EndService

ThreadMessageHandler ==
    \/ BeginMessages
    \/ \E n \in Node : MessageDisconnects(n)
    \/ EndMessages

ThreadOpenConnections(o) ==
    \/ WaitGrant(o)
    \/ Choose(o)
    \/ FindNode(o)
    \/ AddRefReads(o)
    \/ AddRefWrites(o)
    \/ ConnectSocket(o)
    \/ TestGrant(o)
    \/ SetGrant(o)
    \/ SetNetworkNode(o)

Next ==
    \/ ThreadSocketHandler
    \/ ThreadMessageHandler
    \/ \E o \in Opener : ThreadOpenConnections(o)
    \/ \E n \in Node : ReleaseTimePasses(n)

Spec == Init /\ [][Next]_vars

(* The socket and message threads never stop in their loops, and time passes. *)
FairSpec ==
    /\ Spec
    /\ WF_vars(ThreadSocketHandler)
    /\ WF_vars(ThreadMessageHandler)
    /\ \A n \in Node : WF_vars(ReleaseTimePasses(n))

-----------------------------------------------------------------------------
(* Properties                                                                *)

CNode == [state : {"none", "connected", "disconnected"}, addr : Addr,
          fInbound : BOOLEAN, fDisconnect : BOOLEAN, fHasGrant : BOOLEAN,
          fNetworkNode : BOOLEAN, nRefCount : Int,
          released : BOOLEAN, raced : BOOLEAN]

Opening == [pc : {"wait", "choose", "find", "addref", "addref2", "dial",
                  "grant", "setgrant", "network"},
            addr : Addr, pnode : Node \cup {NoNode}, count : Int]

(* The fields are in their types, and a thread has a node from ConnectNode   *)
(* exactly while it is dealing with one.                                     *)
TypeOK ==
    /\ node \in [Node -> CNode]
    /\ semOutbound \in Nat
    /\ socket \in [pc : {"top", "select", "serving"},
                   held : SUBSET Node]
    /\ message \in [pc : {"busy", "sleep"}, held : SUBSET Node]
    /\ open \in [Opener -> Opening]
    /\ \A o \in Opener :
         open[o].pc \in {"addref", "addref2", "grant", "setgrant", "network"}
            <=> open[o].pnode # NoNode

(* "wait until threads are done using it" (net.cpp:552): no node is deleted  *)
(* while a thread has it in its vNodesCopy or a pointer to it from           *)
(* ConnectNode.  The exception is a node whose count was written over by the *)
(* AddRef ConnectNode does without cs_vNodes: that one may be deleted under  *)
(* a message thread that is busy for more than 15 minutes.                   *)
NoUseAfterDelete ==
    \A n \in Node :
        node[n].state = "none" /\ ~node[n].raced =>
            /\ n \notin socket.held \cup message.held
            /\ \A o \in Opener : open[o].pnode # n

(* semOutbound bounds the outbound connections: every one of them uses up    *)
(* one of nMaxOutbound, whatever two threads do to one node at a time.       *)
OutboundBounded ==
    Cardinality(Outbound) + semOutbound <= nMaxOutbound

(* A peer that connected to us and is to be disconnected is taken off vNodes *)
(* and deleted: its count comes back to 0.  Nothing but delete takes the two *)
(* flags back, so each time they are set, delete follows.                    *)
InboundFreed ==
    \A n \in Node : []<>~(node[n].fInbound /\ node[n].fDisconnect)

=============================================================================
