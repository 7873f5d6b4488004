---------------------------- MODULE NodesProofs ----------------------------
(***************************************************************************)
(* For any number of nodes, addresses and opening threads: the fields keep *)
(* their types, no node is deleted while a thread uses it, and semOutbound *)
(* bounds the outbound connections.                                        *)
(***************************************************************************)
EXTENDS Nodes, FiniteSetTheorems, TLAPS

(* The references the socket and message threads have to n. *)
Held(n) ==
    (IF n \in socket.held THEN 1 ELSE 0) + (IF n \in message.held THEN 1 ELSE 0)

(* A thread between its loops holds no node. *)
Resting ==
    /\ socket.pc # "serving" => socket.held = {}
    /\ message.pc = "sleep" => message.held = {}

(* While a node's count was not written over, it covers the references of    *)
(* both threads and, as long as the node is on vNodes, one more.             *)
Counted ==
    \A n \in Node : ~node[n].raced =>
        /\ node[n].state = "connected" => node[n].nRefCount >= 1 + Held(n)
        /\ node[n].state = "disconnected" => node[n].nRefCount >= Held(n)
        /\ node[n].state = "none" => Held(n) = 0

(* A node a thread has from ConnectNode is on vNodes or in its 15 minutes. *)
Pointed ==
    \A o \in Opener : open[o].pnode # NoNode =>
        \/ node[open[o].pnode].state = "connected"
        \/ /\ node[open[o].pnode].state = "disconnected"
           /\ ~node[open[o].pnode].released

LifeInv == TypeOK /\ Resting /\ Counted /\ Pointed

(* The threads that have passed wait() and not given their grant away, and   *)
(* the nodes on vNodes that have one.                                        *)
Granted == {o \in Opener : open[o].pc \notin {"wait", "network"}}
WithGrant == {n \in vNodes : node[n].fHasGrant}

GrantsCounted ==
    semOutbound + Cardinality(Granted) + Cardinality(WithGrant) <= nMaxOutbound

(* A node without a grant is about to get one from the thread that made it. *)
Accounted ==
    \A n \in Outbound :
        \/ node[n].fHasGrant
        \/ \E o \in Opener : open[o].pc \in {"grant", "setgrant"} /\ open[o].pnode = n

GrantInv == TypeOK /\ GrantsCounted /\ Accounted

-----------------------------------------------------------------------------
(* Types *)

(* A node made by new, and the memory of none, are CNodes. *)
LEMMA FreshType ==
    /\ AnyAddr \in Addr
    /\ \A a \in Addr, b \in BOOLEAN : Fresh(a, b) \in CNode
    /\ \A b \in BOOLEAN : NoMemory(b) \in CNode
<1>1. AnyAddr \in Addr
  BY BoundAssumption DEF AnyAddr
<1>2. \A a \in Addr, b \in BOOLEAN : Fresh(a, b) \in CNode
  BY DEF Fresh, CNode
<1>3. \A c \in CNode, k \in Int, b \in BOOLEAN :
         [c EXCEPT !.state = "none", !.nRefCount = k, !.raced = b] \in CNode
  BY DEF CNode
<1>4. ASSUME NEW b \in BOOLEAN
      PROVE  NoMemory(b) \in CNode
  <2>1. Fresh(AnyAddr, FALSE) \in CNode
    BY <1>1, <1>2
  <2>2. 0 \in Int
    OBVIOUS
  <2> QED
    BY <2>1, <2>2, <1>3, Zenon DEF NoMemory
<1> QED
  BY <1>1, <1>2, <1>4

(* What the steps of a node change leaves it a CNode. *)
LEMMA ChangeType ==
    ASSUME NEW c \in CNode
    PROVE  /\ Disconnected(c) \in CNode
           /\ [c EXCEPT !.nRefCount = @ + 1] \in CNode
           /\ [c EXCEPT !.nRefCount = @ - 1] \in CNode
           /\ [c EXCEPT !.fDisconnect = TRUE] \in CNode
           /\ [c EXCEPT !.released = TRUE] \in CNode
           /\ [c EXCEPT !.fHasGrant = TRUE] \in CNode
           /\ [c EXCEPT !.fNetworkNode = TRUE] \in CNode
<1>1. \A k \in Int :
         [c EXCEPT !.state = "disconnected", !.fDisconnect = TRUE, !.fHasGrant = FALSE,
                   !.released = FALSE, !.nRefCount = k] \in CNode
  BY DEF CNode
<1>2. c.nRefCount \in Int /\ c.nRefCount - 1 \in Int /\ c.nRefCount + 1 \in Int
  BY DEF CNode
<1>3. Disconnected(c) \in CNode
  <2>1. CASE ReleasedOnDisconnect(c)
    BY <1>1, <1>2, <2>1, Zenon DEF Disconnected
  <2>2. CASE ~ReleasedOnDisconnect(c)
    BY <1>1, <1>2, <2>2, Zenon DEF Disconnected
  <2> QED
    BY <2>1, <2>2
<1>4. /\ [c EXCEPT !.nRefCount = @ + 1] \in CNode
      /\ [c EXCEPT !.nRefCount = @ - 1] \in CNode
  BY DEF CNode
<1>5. /\ [c EXCEPT !.fDisconnect = TRUE] \in CNode
      /\ [c EXCEPT !.released = TRUE] \in CNode
      /\ [c EXCEPT !.fHasGrant = TRUE] \in CNode
      /\ [c EXCEPT !.fNetworkNode = TRUE] \in CNode
  BY DEF CNode
<1> QED
  BY <1>3, <1>4, <1>5

(* AddRef and Release for a set of nodes. *)
LEMMA RefsType ==
    ASSUME node \in [Node -> CNode], NEW ns
    PROVE  AddRefs(ns) \in [Node -> CNode] /\ Releases(ns) \in [Node -> CNode]
BY ChangeType DEF AddRefs, Releases

(* Sets of nodes and of opening threads are finite. *)
LEMMA Finite ==
    /\ \A S \in SUBSET Node : IsFiniteSet(S) /\ Cardinality(S) \in Nat
    /\ \A S \in SUBSET Opener : IsFiniteSet(S) /\ Cardinality(S) \in Nat
BY BoundAssumption, FS_Subset, FS_CardinalityType

(* The initial state has the types. *)
LEMMA TypeInit == Init => TypeOK
<1> SUFFICES ASSUME Init PROVE TypeOK
  OBVIOUS
<1>1. node \in [Node -> CNode]
  BY FreshType DEF Init
<1>2. semOutbound \in Nat
  BY BoundAssumption DEF Init
<1>3. /\ socket \in [pc : {"top", "select", "serving"}, held : SUBSET Node]
      /\ message \in [pc : {"busy", "sleep"}, held : SUBSET Node]
  BY DEF Init
<1>4. open \in [Opener -> Opening]
  BY FreshType DEF Init, Idle, Opening
<1>5. \A o \in Opener :
         open[o].pc \in {"addref", "addref2", "grant", "setgrant", "network"}
            <=> open[o].pnode # NoNode
  BY DEF Init, Idle
<1> QED
  BY <1>1, <1>2, <1>3, <1>4, <1>5 DEF TypeOK

(* Every step of every thread keeps the types. *)
LEMMA TypeStep == TypeOK /\ [Next]_vars => TypeOK'
<1> SUFFICES ASSUME TypeOK, [Next]_vars PROVE TypeOK'
  OBVIOUS
<1> USE DEF TypeOK, Opening
<1>0. \A o \in Opener : open[o].pnode # NoNode =>
                         /\ open[o].pnode \in Node
                         /\ node[open[o].pnode] \in CNode
  OBVIOUS
<1>1. CASE DisconnectNodes
  <2>1. PICK idle \in SUBSET {n \in vNodes : Unreferenced(n)} :
          LET leaving == idle \cup {n \in vNodes : node[n].fDisconnect}
              grants == {n \in leaving : node[n].fHasGrant}
              done == {n \in vNodesDisconnected : Unreferenced(n)}
          IN \E locked \in SUBSET (done \cap message.held) :
               /\ semOutbound' = semOutbound + Cardinality(grants)
               /\ node' = [n \in Node |->
                    IF n \in leaving THEN Disconnected(node[n])
                    ELSE IF n \in done \ locked THEN NoMemory(node[n].raced)
                    ELSE node[n]]
    BY <1>1 DEF DisconnectNodes
  <2> DEFINE leaving == idle \cup {n \in vNodes : node[n].fDisconnect}
             grants == {n \in leaving : node[n].fHasGrant}
             done == {n \in vNodesDisconnected : Unreferenced(n)}
  <2>2. PICK locked \in SUBSET (done \cap message.held) :
               /\ semOutbound' = semOutbound + Cardinality(grants)
               /\ node' = [n \in Node |->
                    IF n \in leaving THEN Disconnected(node[n])
                    ELSE IF n \in done \ locked THEN NoMemory(node[n].raced)
                    ELSE node[n]]
    BY <2>1
  <2>3. grants \in SUBSET Node
    BY DEF vNodes
  <2>4. semOutbound' \in Nat
    BY <2>2, <2>3, Finite
  <2>5. \A n \in Node : node[n] \in CNode /\ node[n].raced \in BOOLEAN
    BY DEF CNode
  <2> HIDE DEF leaving, grants, done
  <2>6. node' \in [Node -> CNode]
    BY <2>2, <2>5, FreshType, ChangeType
  <2> QED
    BY <1>1, <2>4, <2>6 DEF DisconnectNodes
<1>2. CASE BeginService
  <2>1. vNodes \in SUBSET Node
    BY DEF vNodes
  <2>2. CASE node' = AddRefs(vNodes) /\ socket' = [pc |-> "serving", held |-> vNodes]
    BY <1>2, <2>1, <2>2, RefsType DEF BeginService
  <2>3. CASE /\ Unused # {}
             /\ LET new == CHOOSE n \in Unused : TRUE IN
                  /\ \E a \in Addr :
                       node' = [AddRefs(vNodes) EXCEPT ![new] =
                                   [Fresh(a, TRUE) EXCEPT !.nRefCount = @ + 1]]
                  /\ socket' = [pc |-> "serving", held |-> vNodes \cup {new}]
    <3> DEFINE new == CHOOSE n \in Unused : TRUE
    <3>1. new \in Node
      BY <2>3 DEF Unused
    <3>2. \A a \in Addr : [Fresh(a, TRUE) EXCEPT !.nRefCount = @ + 1] \in CNode
      BY FreshType, ChangeType
    <3> HIDE DEF new
    <3>3. node' \in [Node -> CNode]
      <4>1. PICK a \in Addr : node' = [AddRefs(vNodes) EXCEPT ![new] =
                                   [Fresh(a, TRUE) EXCEPT !.nRefCount = @ + 1]]
        BY <2>3 DEF new
      <4> QED
        BY <3>1, <3>2, <4>1, RefsType
    <3>4. socket' = [pc |-> "serving", held |-> vNodes \cup {new}]
      BY <2>3 DEF new
    <3> QED
      BY <1>2, <2>1, <3>1, <3>3, <3>4 DEF BeginService
  <2> QED
    BY <1>2, <2>2, <2>3 DEF BeginService
<1>3. ASSUME NEW n \in Node, ServiceFails(n) PROVE TypeOK'
  BY <1>3, ChangeType DEF ServiceFails
<1>4. CASE EndService
  BY <1>4, RefsType DEF EndService
<1>5. ASSUME NEW n \in Node, ReleaseTimePasses(n) PROVE TypeOK'
  BY <1>5, ChangeType DEF ReleaseTimePasses
<1>6. CASE BeginMessages
  BY <1>6, RefsType DEF BeginMessages, vNodes
<1>7. ASSUME NEW n \in Node, MessageDisconnects(n) PROVE TypeOK'
  BY <1>7, ChangeType DEF MessageDisconnects
<1>8. CASE EndMessages
  BY <1>8, RefsType DEF EndMessages
<1>9. ASSUME NEW o \in Opener, WaitGrant(o) PROVE TypeOK'
  BY <1>9 DEF WaitGrant
<1>10. ASSUME NEW o \in Opener, Choose(o) PROVE TypeOK'
  BY <1>10, FreshType DEF Choose, ReleaseGrant, Return, Idle
<1>11. ASSUME NEW o \in Opener, FindNode(o) PROVE TypeOK'
  BY <1>11, BoundAssumption DEF FindNode, Outbound, vNodes
<1>12. ASSUME NEW o \in Opener, AddRefReads(o) PROVE TypeOK'
  <2>1. open[o].pnode # NoNode /\ node[open[o].pnode].nRefCount \in Int
    BY <1>0, <1>12 DEF AddRefReads, CNode
  <2>2. PICK k \in Int : open' = [open EXCEPT ![o].pc = "addref2", ![o].count = k]
    BY <1>12, <2>1 DEF AddRefReads
  <2>3. open' \in [Opener -> Opening]
    <3>1. \A r \in Opening : [r EXCEPT !.pc = "addref2", !.count = k] \in Opening
      OBVIOUS
    <3>2. open' = [open EXCEPT ![o] = [@ EXCEPT !.pc = "addref2", !.count = k]]
      BY <2>2
    <3> HIDE DEF Opening
    <3> QED
      BY <3>1, <3>2
  <2>4. \A p \in Opener :
           open'[p].pc \in {"addref", "addref2", "grant", "setgrant", "network"}
              <=> open'[p].pnode # NoNode
    BY <2>1, <2>2
  <2> QED
    BY <1>12, <2>3, <2>4 DEF AddRefReads
<1>13. ASSUME NEW o \in Opener, AddRefWrites(o) PROVE TypeOK'
  <2>1. open[o].pnode \in Node /\ open[o].count + 1 \in Int
    BY <1>0, <1>13 DEF AddRefWrites
  <2>2. \A c \in CNode, k \in Int, b \in BOOLEAN :
           [c EXCEPT !.nRefCount = k, !.raced = b] \in CNode
    BY DEF CNode
  <2>3. node' \in [Node -> CNode]
    <3> DEFINE n == open[o].pnode
               b == node[n].raced \/ node[n].nRefCount # open[o].count
    <3>1. CASE node' = node
      BY <3>1
    <3>2. CASE node' = [node EXCEPT ![n] = [@ EXCEPT !.nRefCount = open[o].count + 1,
                                                     !.raced = b]]
      <4>1. b \in BOOLEAN
        OBVIOUS
      <4> HIDE DEF n, b
      <4>2. [node[n] EXCEPT !.nRefCount = open[o].count + 1, !.raced = b] \in CNode
        BY <2>1, <2>2, <4>1 DEF n
      <4> QED
        BY <2>1, <3>2, <4>2 DEF n
    <3> QED
      BY <1>13, <3>1, <3>2 DEF AddRefWrites
  <2>4. \A r \in Opening, k \in Int : [r EXCEPT !.pc = "grant", !.count = k] \in Opening
    OBVIOUS
  <2>5. open' = [open EXCEPT ![o] = [@ EXCEPT !.pc = "grant", !.count = 0]]
    BY <1>13 DEF AddRefWrites
  <2>6. [open[o] EXCEPT !.pc = "grant", !.count = 0] \in Opening
    <3> HIDE DEF Opening
    <3>1. open[o] \in Opening /\ 0 \in Int
      OBVIOUS
    <3> QED
      BY <2>4, <3>1, Zenon
  <2>7. open' \in [Opener -> Opening]
    <3> HIDE DEF Opening
    <3> QED
      BY <2>5, <2>6
  <2>8. \A p \in Opener :
           open'[p].pc \in {"addref", "addref2", "grant", "setgrant", "network"}
              <=> open'[p].pnode # NoNode
    BY <1>13, <2>1, <2>5, BoundAssumption DEF AddRefWrites
  <2> QED
    BY <1>13, <2>3, <2>7, <2>8 DEF AddRefWrites
<1>14. ASSUME NEW o \in Opener, ConnectSocket(o) PROVE TypeOK'
  <2>1. CASE ReleaseGrant(o) /\ node' = node
    BY <1>14, <2>1, FreshType DEF ConnectSocket, ReleaseGrant, Return, Idle
  <2>2. CASE /\ Unused # {}
             /\ LET n == CHOOSE n \in Unused : TRUE IN
                  /\ node' = [node EXCEPT ![n] = Fresh(open[o].addr, FALSE)]
                  /\ open' = [open EXCEPT ![o].pc = "grant", ![o].pnode = n]
             /\ UNCHANGED semOutbound
    <3> DEFINE n == CHOOSE n \in Unused : TRUE
    <3>1. n \in Node
      BY <2>2 DEF Unused
    <3>2. /\ node' = [node EXCEPT ![n] = Fresh(open[o].addr, FALSE)]
          /\ open' = [open EXCEPT ![o].pc = "grant", ![o].pnode = n]
      BY <2>2
    <3>3. Fresh(open[o].addr, FALSE) \in CNode
      <4>1. open[o].addr \in Addr
        OBVIOUS
      <4> QED
        BY <4>1, FreshType, Zenon
    <3> HIDE DEF n
    <3> QED
      BY <1>14, <2>2, <3>1, <3>2, <3>3, BoundAssumption DEF ConnectSocket
  <2> QED
    BY <1>14, <2>1, <2>2 DEF ConnectSocket
<1>15. ASSUME NEW o \in Opener, TestGrant(o) PROVE TypeOK'
  BY <1>15 DEF TestGrant
<1>16. ASSUME NEW o \in Opener, SetGrant(o) PROVE TypeOK'
  BY <1>16, ChangeType DEF SetGrant
<1>17. ASSUME NEW o \in Opener, SetNetworkNode(o) PROVE TypeOK'
  <2>1. open[o].pnode \in Node
    BY <1>0, <1>17 DEF SetNetworkNode
  <2>2. node' \in [Node -> CNode]
    BY <1>17, <2>1, ChangeType DEF SetNetworkNode
  <2> QED
    BY <1>17, <2>2, FreshType DEF SetNetworkNode, Return, Idle
<1>18. CASE UNCHANGED vars
  BY <1>18 DEF vars
<1> QED
  BY <1>1, <1>2, <1>3, <1>4, <1>5, <1>6, <1>7, <1>8, <1>9, <1>10, <1>11, <1>12,
     <1>13, <1>14, <1>15, <1>16, <1>17, <1>18
  DEF Next, ThreadSocketHandler, ThreadMessageHandler, ThreadOpenConnections

-----------------------------------------------------------------------------
(* References *)

(* AddRef and Release of a set of nodes change nothing but the counts. *)
LEMMA RefsEffect ==
    ASSUME TypeOK, NEW ns, NEW n \in Node
    PROVE  /\ AddRefs(ns)[n].state = node[n].state
           /\ AddRefs(ns)[n].released = node[n].released
           /\ AddRefs(ns)[n].raced = node[n].raced
           /\ AddRefs(ns)[n].fInbound = node[n].fInbound
           /\ AddRefs(ns)[n].fHasGrant = node[n].fHasGrant
           /\ AddRefs(ns)[n].nRefCount = node[n].nRefCount + (IF n \in ns THEN 1 ELSE 0)
           /\ Releases(ns)[n].state = node[n].state
           /\ Releases(ns)[n].released = node[n].released
           /\ Releases(ns)[n].raced = node[n].raced
           /\ Releases(ns)[n].fInbound = node[n].fInbound
           /\ Releases(ns)[n].fHasGrant = node[n].fHasGrant
           /\ Releases(ns)[n].nRefCount = node[n].nRefCount - (IF n \in ns THEN 1 ELSE 0)
<1>1. node[n] \in CNode
  BY DEF TypeOK
<1>2. CASE n \in ns
  <2>1. /\ AddRefs(ns)[n] = [node[n] EXCEPT !.nRefCount = @ + 1]
        /\ Releases(ns)[n] = [node[n] EXCEPT !.nRefCount = @ - 1]
    BY <1>2 DEF AddRefs, Releases
  <2> QED
    BY <1>1, <1>2, <2>1 DEF CNode
<1>3. CASE n \notin ns
  <2>1. AddRefs(ns)[n] = node[n] /\ Releases(ns)[n] = node[n]
    BY <1>3 DEF AddRefs, Releases
  <2> QED
    BY <1>1, <1>3, <2>1 DEF CNode
<1> QED
  BY <1>2, <1>3

(* The initial state satisfies the invariant: nothing is held. *)
LEMMA LifeInit == Init => LifeInv
<1> SUFFICES ASSUME Init PROVE LifeInv
  OBVIOUS
<1>1. Resting
  BY DEF Init, Resting
<1>2. Counted
  <2>1. \A n \in Node : node[n].state = "none"
    BY DEF Init, NoMemory, Fresh
  <2>2. \A n \in Node : Held(n) = 0
    BY DEF Init, Held
  <2> QED
    BY <2>1, <2>2 DEF Counted
<1>3. Pointed
  BY DEF Init, Idle, Pointed
<1> QED
  BY <1>1, <1>2, <1>3, TypeInit DEF LifeInv

(* What the loop's top does to one node: taken off vNodes, deleted or left. *)
LEMMA DisconnectEffect ==
    ASSUME TypeOK, DisconnectNodes, NEW n \in Node
    PROVE  \/ node'[n] = node[n]
           \/ /\ node[n].state = "connected"
              /\ node'[n].state = "disconnected"
              /\ ~node'[n].released
              /\ node'[n].raced = node[n].raced
              /\ node'[n].nRefCount >= node[n].nRefCount - 1
           \/ /\ node[n].state = "disconnected"
              /\ Unreferenced(n)
              /\ node'[n].state = "none"
              /\ node'[n].raced = node[n].raced
<1> DEFINE leaving(idle) == idle \cup {m \in vNodes : node[m].fDisconnect}
           done == {m \in vNodesDisconnected : Unreferenced(m)}
<1>1. PICK idle \in SUBSET {m \in vNodes : Unreferenced(m)} :
        \E locked \in SUBSET (done \cap message.held) :
           node' = [m \in Node |->
                      IF m \in leaving(idle) THEN Disconnected(node[m])
                      ELSE IF m \in done \ locked THEN NoMemory(node[m].raced)
                      ELSE node[m]]
  BY Zenon DEF DisconnectNodes
<1>2. PICK locked \in SUBSET (done \cap message.held) :
           node' = [m \in Node |->
                      IF m \in leaving(idle) THEN Disconnected(node[m])
                      ELSE IF m \in done \ locked THEN NoMemory(node[m].raced)
                      ELSE node[m]]
  BY <1>1
<1>3. node[n] \in CNode
  BY DEF TypeOK
<1>4. CASE n \in leaving(idle)
  <2>1. node'[n] = Disconnected(node[n]) /\ node[n].state = "connected"
    BY <1>2, <1>4 DEF vNodes
  <2>2. /\ Disconnected(node[n]).state = "disconnected"
        /\ ~Disconnected(node[n]).released
        /\ Disconnected(node[n]).raced = node[n].raced
        /\ Disconnected(node[n]).nRefCount =
             IF ReleasedOnDisconnect(node[n]) THEN node[n].nRefCount - 1 ELSE node[n].nRefCount
    BY <1>3 DEF Disconnected, CNode
  <2> QED
    BY <1>3, <2>1, <2>2 DEF CNode
<1>5. CASE n \notin leaving(idle) /\ n \in done \ locked
  <2>1. /\ node'[n] = NoMemory(node[n].raced)
        /\ node[n].state = "disconnected" /\ Unreferenced(n)
    BY <1>2, <1>5 DEF vNodesDisconnected
  <2> QED
    BY <2>1 DEF NoMemory, Fresh
<1>6. CASE n \notin leaving(idle) /\ n \notin done \ locked
  BY <1>2, <1>6
<1> QED
  BY <1>4, <1>5, <1>6

(* A step of a thread that leaves held, state, nRefCount, released and raced *)
(* alone and takes no pointer disturbs nothing.                              *)
LEMMA LifeFrame ==
    ASSUME LifeInv,
           UNCHANGED <<socket, message>>,
           \A n \in Node : /\ node'[n].state = node[n].state
                           /\ node'[n].nRefCount = node[n].nRefCount
                           /\ node'[n].released = node[n].released
                           /\ node'[n].raced = node[n].raced,
           \A o \in Opener : open'[o].pnode \in {open[o].pnode, NoNode}
    PROVE  Resting' /\ Counted' /\ Pointed'
<1>1. Resting'
  BY DEF LifeInv, Resting
<1>2. Counted'
  BY DEF LifeInv, Counted, Held
<1>3. Pointed'
  BY DEF LifeInv, Pointed, TypeOK, Opening
<1> QED
  BY <1>1, <1>2, <1>3

(* Every step keeps the invariant.  The cases are the actions; a step that   *)
(* leaves held, state, nRefCount, released and raced alone disturbs nothing. *)
LEMMA LifeStep == LifeInv /\ [Next]_vars => LifeInv'
<1> SUFFICES ASSUME LifeInv, [Next]_vars
             PROVE  Resting' /\ Counted' /\ Pointed'
  BY TypeStep DEF LifeInv
<1> USE DEF LifeInv
<1>0. /\ \A n \in Node : node[n] \in CNode /\ node[n].nRefCount \in Int
      /\ \A o \in Opener : open[o].pnode # NoNode => open[o].pnode \in Node
      /\ \A o \in Opener : open[o].pnode \in Node => open[o].pnode # NoNode
      /\ NoNode \notin Node
  BY BoundAssumption DEF TypeOK, CNode, Opening
<1>a. TypeOK'
  BY TypeStep
<1>1. CASE DisconnectNodes
  <2>1. UNCHANGED <<message, open>> /\ socket.pc = "top" /\ socket'.held = socket.held
        /\ socket'.pc = "select"
    BY <1>1 DEF DisconnectNodes, TypeOK
  <2>2. Resting'
    BY <2>1 DEF Resting
  <2>3. Counted'
    <3> SUFFICES ASSUME NEW n \in Node, ~node'[n].raced
                 PROVE  /\ node'[n].state = "connected" => node'[n].nRefCount >= 1 + Held(n)'
                        /\ node'[n].state = "disconnected" => node'[n].nRefCount >= Held(n)'
                        /\ node'[n].state = "none" => Held(n)' = 0
      BY DEF Counted
    <3>1. Held(n)' = Held(n) /\ Held(n) \in 0..2
      BY <2>1 DEF Held
    <3>2. node'[n].nRefCount \in Int
      BY <1>a DEF TypeOK, CNode
    <3> QED
      BY <1>0, <1>1, <3>1, <3>2, DisconnectEffect DEF Counted, Unreferenced
  <2>4. Pointed'
    BY <1>0, <1>1, <2>1, DisconnectEffect DEF Pointed, Unreferenced
  <2> QED
    BY <2>2, <2>3, <2>4
<1>2. CASE BeginService
  <2>0. /\ UNCHANGED <<message, open>> /\ socket.held = {}
        /\ \A n \in Node : Held(n) = IF n \in message.held THEN 1 ELSE 0
    BY <1>2 DEF BeginService, Resting, Held
  <2>1. CASE node' = AddRefs(vNodes) /\ socket' = [pc |-> "serving", held |-> vNodes]
    <3>1. Resting' /\ Pointed'
      BY <1>0, <2>0, <2>1, RefsEffect DEF Resting, Pointed
    <3>2. \A n \in Node : Held(n)' = Held(n) + (IF n \in vNodes THEN 1 ELSE 0)
      BY <2>0, <2>1 DEF Held
    <3>3. Counted'
      BY <1>0, <2>0, <2>1, <3>2, RefsEffect DEF Counted, vNodes
    <3> QED
      BY <3>1, <3>3
  <2>2. CASE /\ Unused # {}
             /\ LET new == CHOOSE n \in Unused : TRUE IN
                  /\ \E a \in Addr :
                       node' = [AddRefs(vNodes) EXCEPT ![new] =
                                   [Fresh(a, TRUE) EXCEPT !.nRefCount = @ + 1]]
                  /\ socket' = [pc |-> "serving", held |-> vNodes \cup {new}]
    <3>1. PICK new \in Unused, a \in Addr :
             /\ node' = [AddRefs(vNodes) EXCEPT ![new] =
                             [Fresh(a, TRUE) EXCEPT !.nRefCount = @ + 1]]
             /\ socket' = [pc |-> "serving", held |-> vNodes \cup {new}]
      BY <2>2
    <3>2. new \in Node /\ node[new].state = "none" /\ Held(new) = 0
      BY DEF Unused, Counted
    <3>3. /\ node'[new].state = "connected" /\ node'[new].nRefCount = 2
          /\ ~node'[new].raced
      BY <3>1, <3>2 DEF Fresh, AddRefs
    <3>4. \A n \in Node \ {new} : node'[n] = AddRefs(vNodes)[n]
      BY <3>1, <3>2 DEF AddRefs
    <3>5. Resting' /\ Pointed'
      <4>1. Resting'
        BY <2>0, <3>1 DEF Resting
      <4>2. \A o \in Opener : open[o].pnode # new
        BY <1>0, <3>2 DEF Pointed
      <4> QED
        BY <1>0, <2>0, <3>4, <4>1, <4>2, RefsEffect DEF Pointed
    <3>6. /\ \A n \in Node \ {new} : Held(n)' = Held(n) + (IF n \in vNodes THEN 1 ELSE 0)
          /\ Held(new)' = 1
      <4>1. new \notin message.held
        BY <2>0, <3>2
      <4> QED
        BY <2>0, <3>1, <3>2, <4>1 DEF Held
    <3>7. Counted'
      <4> SUFFICES ASSUME NEW n \in Node, ~node'[n].raced
                   PROVE  /\ node'[n].state = "connected" => node'[n].nRefCount >= 1 + Held(n)'
                          /\ node'[n].state = "disconnected" => node'[n].nRefCount >= Held(n)'
                          /\ node'[n].state = "none" => Held(n)' = 0
        BY DEF Counted
      <4>1. CASE n = new
        BY <3>3, <3>6, <4>1
      <4>2. CASE n # new
        <5>1. /\ node'[n].state = node[n].state
              /\ node'[n].raced = node[n].raced
              /\ node'[n].nRefCount = node[n].nRefCount + (IF n \in vNodes THEN 1 ELSE 0)
          BY <3>4, <4>2, RefsEffect
        <5>2. Held(n)' = Held(n) + (IF n \in vNodes THEN 1 ELSE 0) /\ Held(n) \in {0, 1}
          BY <2>0, <3>6, <4>2
        <5> QED
          BY <1>0, <5>1, <5>2 DEF Counted, vNodes
      <4> QED
        BY <4>1, <4>2
    <3> QED
      BY <3>5, <3>7
  <2> QED
    BY <1>2, <2>1, <2>2 DEF BeginService
<1>3. ASSUME NEW n \in Node, ServiceFails(n) PROVE Resting' /\ Counted' /\ Pointed'
  <2>1. \A m \in Node : /\ node'[m].state = node[m].state
                        /\ node'[m].nRefCount = node[m].nRefCount
                        /\ node'[m].released = node[m].released
                        /\ node'[m].raced = node[m].raced
    BY <1>0, <1>3 DEF ServiceFails, CNode, TypeOK
  <2> QED
    BY <1>3, <2>1, LifeFrame DEF ServiceFails
<1>4. CASE EndService
  <2>0. /\ UNCHANGED <<message, open>> /\ node' = Releases(socket.held)
        /\ socket' = [pc |-> "top", held |-> {}]
    BY <1>4 DEF EndService
  <2>1. Resting' /\ Pointed'
    BY <1>0, <2>0, RefsEffect DEF Resting, Pointed
  <2>2. \A n \in Node : Held(n)' = Held(n) - (IF n \in socket.held THEN 1 ELSE 0)
    BY <2>0 DEF Held
  <2>3. \A n \in Node : Held(n) \in 0..2 /\ (n \in socket.held => Held(n) >= 1)
    BY DEF Held
  <2>4. Counted'
    BY <1>0, <2>0, <2>2, <2>3, RefsEffect DEF Counted
  <2> QED
    BY <2>1, <2>4
<1>5. ASSUME NEW n \in Node, ReleaseTimePasses(n) PROVE Resting' /\ Counted' /\ Pointed'
  <2>1. UNCHANGED <<socket, message, open>> /\ \A o \in Opener : open[o].pnode # n
    BY <1>5 DEF ReleaseTimePasses
  <2>2. /\ \A m \in Node : /\ node'[m].state = node[m].state
                           /\ node'[m].nRefCount = node[m].nRefCount
                           /\ node'[m].raced = node[m].raced
        /\ \A m \in Node \ {n} : node'[m] = node[m]
    BY <1>0, <1>5 DEF ReleaseTimePasses, CNode, TypeOK
  <2>3. Resting' /\ Counted'
    BY <2>1, <2>2 DEF Resting, Counted, Held
  <2>4. Pointed'
    BY <1>0, <2>1, <2>2 DEF Pointed
  <2> QED
    BY <2>3, <2>4
<1>6. CASE BeginMessages
  <2>0. /\ UNCHANGED <<socket, open>> /\ message.held = {}
        /\ node' = AddRefs(vNodes) /\ message' = [pc |-> "busy", held |-> vNodes]
    BY <1>6 DEF BeginMessages, Resting
  <2>1. Resting' /\ Pointed'
    BY <1>0, <2>0, RefsEffect DEF Resting, Pointed
  <2>2. \A n \in Node : Held(n)' = Held(n) + (IF n \in vNodes THEN 1 ELSE 0)
    BY <2>0 DEF Held
  <2>3. \A n \in Node : Held(n) \in 0..2
    BY DEF Held
  <2>4. Counted'
    BY <1>0, <2>0, <2>2, <2>3, RefsEffect DEF Counted, vNodes
  <2> QED
    BY <2>1, <2>4
<1>7. ASSUME NEW n \in Node, MessageDisconnects(n) PROVE Resting' /\ Counted' /\ Pointed'
  <2>1. \A m \in Node : /\ node'[m].state = node[m].state
                        /\ node'[m].nRefCount = node[m].nRefCount
                        /\ node'[m].released = node[m].released
                        /\ node'[m].raced = node[m].raced
    BY <1>0, <1>7 DEF MessageDisconnects, CNode, TypeOK
  <2> QED
    BY <1>7, <2>1, LifeFrame DEF MessageDisconnects
<1>8. CASE EndMessages
  <2>0. /\ UNCHANGED <<socket, open>> /\ node' = Releases(message.held)
        /\ message' = [pc |-> "sleep", held |-> {}]
    BY <1>8 DEF EndMessages
  <2>1. Resting' /\ Pointed'
    BY <1>0, <2>0, RefsEffect DEF Resting, Pointed
  <2>2. \A n \in Node : Held(n)' = Held(n) - (IF n \in message.held THEN 1 ELSE 0)
    BY <2>0 DEF Held
  <2>3. \A n \in Node : Held(n) \in 0..2 /\ (n \in message.held => Held(n) >= 1)
    BY DEF Held
  <2>4. Counted'
    BY <1>0, <2>0, <2>2, <2>3, RefsEffect DEF Counted
  <2> QED
    BY <2>1, <2>4
<1>9. ASSUME NEW o \in Opener, WaitGrant(o) PROVE Resting' /\ Counted' /\ Pointed'
  <2>1. \A p \in Opener : open'[p].pnode = open[p].pnode
    BY <1>9 DEF WaitGrant, TypeOK, Opening
  <2> QED
    BY <1>9, <2>1, LifeFrame DEF WaitGrant
<1>10. ASSUME NEW o \in Opener, Choose(o) PROVE Resting' /\ Counted' /\ Pointed'
  <2>1. \A p \in Opener : open'[p].pnode \in {open[p].pnode, NoNode}
    BY <1>10 DEF Choose, ReleaseGrant, Return, Idle, TypeOK, Opening
  <2> QED
    BY <1>10, <2>1, LifeFrame DEF Choose
<1>11. ASSUME NEW o \in Opener, FindNode(o) PROVE Resting' /\ Counted' /\ Pointed'
  <2>1. UNCHANGED <<node, socket, message>>
    BY <1>11 DEF FindNode
  <2>2. \A p \in Opener : \/ open'[p].pnode = open[p].pnode
                          \/ node[open'[p].pnode].state = "connected"
    <3> TAKE p \in Opener
    <3>1. CASE p # o
      BY <1>11, <3>1 DEF FindNode, TypeOK
    <3>2. CASE p = o
      <4>1. open[o] \in Opening
        BY DEF TypeOK
      <4>2. CASE open' = [open EXCEPT ![o].pc = "dial"]
        BY <3>2, <4>1, <4>2 DEF TypeOK, Opening
      <4>3. ASSUME NEW n \in Outbound, open' = [open EXCEPT ![o].pc = "addref", ![o].pnode = n]
            PROVE  node[open'[o].pnode].state = "connected"
        <5>1. open'[o].pnode = n
          BY <4>1, <4>3 DEF TypeOK, Opening
        <5> QED
          BY <5>1 DEF Outbound, vNodes
      <4> QED
        BY <1>11, <3>2, <4>2, <4>3 DEF FindNode
    <3> QED
      BY <3>1, <3>2
  <2>3. Resting' /\ Counted'
    BY <2>1 DEF Resting, Counted, Held
  <2>4. Pointed'
    BY <2>1, <2>2 DEF Pointed
  <2> QED
    BY <2>3, <2>4
<1>12. ASSUME NEW o \in Opener, AddRefReads(o) PROVE Resting' /\ Counted' /\ Pointed'
  <2>1. \A p \in Opener : open'[p].pnode = open[p].pnode
    BY <1>12 DEF AddRefReads, TypeOK, Opening
  <2> QED
    BY <1>12, <2>1, LifeFrame DEF AddRefReads
<1>13. ASSUME NEW o \in Opener, AddRefWrites(o) PROVE Resting' /\ Counted' /\ Pointed'
  <2>1. /\ \A p \in Opener : open'[p].pnode = open[p].pnode
        /\ UNCHANGED <<socket, message>>
        /\ open[o].pnode \in Node
    BY <1>0, <1>13 DEF AddRefWrites, TypeOK, Opening
  <2>2. CASE node' = node
    BY <2>1, <2>2, LifeFrame
  <2>3. CASE node' = [node EXCEPT ![open[o].pnode].nRefCount = open[o].count + 1,
                                  ![open[o].pnode].raced =
                                      @ \/ node[open[o].pnode].nRefCount # open[o].count]
    <3> DEFINE n == open[o].pnode
    <3>1. open[o].count \in Int
      BY DEF TypeOK, Opening
    <3>2. /\ \A m \in Node \ {n} : node'[m] = node[m]
          /\ \A m \in Node : /\ node'[m].state = node[m].state
                             /\ node'[m].released = node[m].released
          /\ node'[n].nRefCount = open[o].count + 1
          /\ ~node'[n].raced => ~node[n].raced /\ node[n].nRefCount = open[o].count
      BY <1>0, <2>1, <2>3 DEF CNode, TypeOK
    <3> HIDE DEF n
    <3>3. Resting' /\ Pointed'
      BY <1>0, <2>1, <3>2 DEF Resting, Pointed
    <3>4. \A m \in Node : Held(m)' = Held(m) /\ Held(m) \in 0..2
      BY <2>1 DEF Held
    <3>5. Counted'
      BY <1>0, <2>1, <3>1, <3>2, <3>4 DEF Counted, n
    <3> QED
      BY <3>3, <3>5
  <2> QED
    BY <1>13, <2>2, <2>3 DEF AddRefWrites
<1>14. ASSUME NEW o \in Opener, ConnectSocket(o) PROVE Resting' /\ Counted' /\ Pointed'
  <2>1. CASE ReleaseGrant(o) /\ node' = node
    <3>1. \A p \in Opener : open'[p].pnode \in {open[p].pnode, NoNode}
      BY <2>1 DEF ReleaseGrant, Return, Idle, TypeOK
    <3> QED
      BY <1>14, <2>1, <3>1, LifeFrame DEF ConnectSocket
  <2>2. CASE /\ Unused # {}
             /\ LET n == CHOOSE n \in Unused : TRUE IN
                  /\ node' = [node EXCEPT ![n] = Fresh(open[o].addr, FALSE)]
                  /\ open' = [open EXCEPT ![o].pc = "grant", ![o].pnode = n]
    <3>1. PICK n \in Unused :
             /\ node' = [node EXCEPT ![n] = Fresh(open[o].addr, FALSE)]
             /\ open' = [open EXCEPT ![o].pc = "grant", ![o].pnode = n]
      BY <2>2
    <3>2. /\ n \in Node /\ node[n].state = "none" /\ Held(n) = 0
          /\ UNCHANGED <<socket, message>>
      BY <1>14 DEF Unused, Counted, ConnectSocket
    <3>3. /\ node'[n].state = "connected" /\ node'[n].nRefCount = 1
          /\ \A m \in Node \ {n} : node'[m] = node[m]
          /\ \A p \in Opener : open'[p].pnode \in {open[p].pnode, n}
      BY <3>1, <3>2 DEF Fresh, TypeOK, Opening
    <3>4. \A m \in Node : Held(m)' = Held(m)
      BY <3>2 DEF Held
    <3>5. Resting' /\ Counted'
      BY <3>2, <3>3, <3>4 DEF Resting, Counted
    <3>6. Pointed'
      BY <1>0, <3>2, <3>3 DEF Pointed
    <3> QED
      BY <3>5, <3>6
  <2> QED
    BY <1>14, <2>1, <2>2 DEF ConnectSocket
<1>15. ASSUME NEW o \in Opener, TestGrant(o) PROVE Resting' /\ Counted' /\ Pointed'
  <2>1. \A p \in Opener : open'[p].pnode = open[p].pnode
    BY <1>15 DEF TestGrant, TypeOK, Opening
  <2> QED
    BY <1>15, <2>1, LifeFrame DEF TestGrant
<1>16. ASSUME NEW o \in Opener, SetGrant(o) PROVE Resting' /\ Counted' /\ Pointed'
  <2>1. /\ \A p \in Opener : open'[p].pnode = open[p].pnode
        /\ open[o].pnode \in Node
    BY <1>0, <1>16 DEF SetGrant, TypeOK, Opening
  <2>2. \A m \in Node : /\ node'[m].state = node[m].state
                        /\ node'[m].nRefCount = node[m].nRefCount
                        /\ node'[m].released = node[m].released
                        /\ node'[m].raced = node[m].raced
    BY <1>0, <1>16, <2>1 DEF SetGrant, CNode, TypeOK
  <2> QED
    BY <1>16, <2>1, <2>2, LifeFrame DEF SetGrant
<1>17. ASSUME NEW o \in Opener, SetNetworkNode(o) PROVE Resting' /\ Counted' /\ Pointed'
  <2>1. /\ \A p \in Opener : open'[p].pnode \in {open[p].pnode, NoNode}
        /\ open[o].pnode \in Node
    BY <1>0, <1>17 DEF SetNetworkNode, Return, Idle, TypeOK
  <2>2. \A m \in Node : /\ node'[m].state = node[m].state
                        /\ node'[m].nRefCount = node[m].nRefCount
                        /\ node'[m].released = node[m].released
                        /\ node'[m].raced = node[m].raced
    BY <1>0, <1>17, <2>1 DEF SetNetworkNode, CNode, TypeOK
  <2> QED
    BY <1>17, <2>1, <2>2, LifeFrame DEF SetNetworkNode
<1>18. CASE UNCHANGED vars
  BY <1>18, LifeFrame DEF vars
<1> QED
  BY <1>1, <1>2, <1>3, <1>4, <1>5, <1>6, <1>7, <1>8, <1>9, <1>10, <1>11, <1>12,
     <1>13, <1>14, <1>15, <1>16, <1>17, <1>18
  DEF Next, ThreadSocketHandler, ThreadMessageHandler, ThreadOpenConnections

(* The fields of the nodes and of the threads keep their types, and a thread *)
(* that opens connections has a node exactly while it is dealing with one.   *)
THEOREM FieldsTyped == Spec => []TypeOK
<1>1. Init => TypeOK
  BY TypeInit
<1>2. TypeOK /\ [Next]_vars => TypeOK'
  BY TypeStep
<1> QED
  BY <1>1, <1>2, PTL DEF Spec

(* A node the socket thread's loop deletes is used by no thread, whatever    *)
(* the threads' steps interleave to, as long as its count was not written    *)
(* over by the AddRef of ConnectNode, which does not take cs_vNodes.         *)
THEOREM DeletedUnused == Spec => []NoUseAfterDelete
<1>1. Init => LifeInv
  BY LifeInit
<1>2. LifeInv /\ [Next]_vars => LifeInv'
  BY LifeStep
<1>3. LifeInv => NoUseAfterDelete
  <2> SUFFICES ASSUME LifeInv, NEW n \in Node, node[n].state = "none", ~node[n].raced
               PROVE  /\ n \notin socket.held \cup message.held
                      /\ \A o \in Opener : open[o].pnode # n
    BY DEF NoUseAfterDelete
  <2>1. Held(n) = 0
    BY DEF LifeInv, Counted
  <2>2. n \notin socket.held \cup message.held
    BY <2>1 DEF Held
  <2>3. \A o \in Opener : open[o].pnode # n
    BY BoundAssumption DEF LifeInv, Pointed
  <2> QED
    BY <2>2, <2>3
<1> QED
  BY <1>1, <1>2, <1>3, PTL DEF Spec

-----------------------------------------------------------------------------
(* Grants *)

(* The step leaves alone what decides which nodes are outbound and granted. *)
GrantFieldsKept ==
    \A n \in Node : /\ node'[n].state = node[n].state
                    /\ node'[n].fInbound = node[n].fInbound
                    /\ node'[n].fHasGrant = node[n].fHasGrant

(* The sets that are counted are finite. *)
LEMMA GrantSets ==
    /\ Granted \in SUBSET Opener /\ IsFiniteSet(Granted) /\ Cardinality(Granted) \in Nat
    /\ WithGrant \in SUBSET Node /\ IsFiniteSet(WithGrant) /\ Cardinality(WithGrant) \in Nat
BY Finite DEF Granted, WithGrant, vNodes

(* A step that moves no grant keeps the account. *)
LEMMA GrantFrame ==
    ASSUME GrantInv,
           semOutbound' = semOutbound,
           GrantFieldsKept,
           \A o \in Opener : /\ open'[o].pc \in {"wait", "network"}
                                  <=> open[o].pc \in {"wait", "network"}
                             /\ open[o].pc \in {"grant", "setgrant"} =>
                                   /\ open'[o].pc \in {"grant", "setgrant"}
                                   /\ open'[o].pnode = open[o].pnode
    PROVE  GrantsCounted' /\ Accounted'
<1>1. Granted' = Granted
  BY DEF Granted
<1>2. WithGrant' = WithGrant
  BY DEF WithGrant, vNodes, GrantFieldsKept
<1>3. GrantsCounted'
  BY <1>1, <1>2 DEF GrantInv, GrantsCounted
<1>4. Accounted'
  BY DEF GrantInv, Accounted, Outbound, vNodes, GrantFieldsKept
<1> QED
  BY <1>3, <1>4

(* A thread that posts the semaphore gives up its grant; if it had a node,   *)
(* that node has another grant.                                              *)
LEMMA GrantPosted ==
    ASSUME GrantInv, NEW o \in Opener,
           open[o].pc \notin {"wait", "network"},
           open[o].pc \in {"grant", "setgrant"} => node[open[o].pnode].fHasGrant,
           semOutbound' = semOutbound + 1,
           GrantFieldsKept,
           open'[o].pc \in {"wait", "network"},
           \A p \in Opener \ {o} : open'[p] = open[p]
    PROVE  GrantsCounted' /\ Accounted'
<1>1. Granted' = Granted \ {o} /\ o \in Granted
  BY DEF Granted
<1>2. WithGrant' = WithGrant
  BY DEF WithGrant, vNodes, GrantFieldsKept
<1>3. Cardinality(Granted') = Cardinality(Granted) - 1
  BY <1>1, GrantSets, FS_RemoveElement
<1>4. GrantsCounted'
  BY <1>2, <1>3, GrantSets, BoundAssumption DEF GrantInv, GrantsCounted, TypeOK
<1>5. Accounted'
  <2> SUFFICES ASSUME NEW n \in Outbound', ~node'[n].fHasGrant
               PROVE  \E p \in Opener : /\ open'[p].pc \in {"grant", "setgrant"}
                                        /\ open'[p].pnode = n
    BY DEF Accounted
  <2>1. n \in Outbound /\ ~node[n].fHasGrant
    BY DEF Outbound, vNodes, GrantFieldsKept
  <2>2. PICK p \in Opener : open[p].pc \in {"grant", "setgrant"} /\ open[p].pnode = n
    BY <2>1 DEF GrantInv, Accounted
  <2>3. p # o
    BY <2>1, <2>2
  <2> QED
    BY <2>2, <2>3
<1> QED
  BY <1>4, <1>5

(* Initially every grant is in the semaphore. *)
LEMMA GrantInit == Init => GrantInv
<1> SUFFICES ASSUME Init PROVE GrantInv
  OBVIOUS
<1>1. \A n \in Node : node[n].state = "none"
  BY DEF Init, NoMemory, Fresh
<1>2. WithGrant = {} /\ Granted = {}
  BY <1>1 DEF Init, WithGrant, Granted, vNodes, Idle
<1>3. GrantsCounted
  BY <1>2, FS_EmptySet, BoundAssumption DEF Init, GrantsCounted
<1>4. Accounted
  BY <1>1 DEF Accounted, Outbound, vNodes
<1> QED
  BY <1>3, <1>4, TypeInit DEF GrantInv

(* What the loop's top does to the grants: a node that leaves vNodes takes   *)
(* its grant with it, back to the semaphore.                                 *)
LEMMA DisconnectGrants ==
    ASSUME GrantInv, DisconnectNodes
    PROVE  GrantsCounted' /\ Accounted'
<1> DEFINE leaving(idle) == idle \cup {m \in vNodes : node[m].fDisconnect}
           grants(idle) == {n \in leaving(idle) : node[n].fHasGrant}
           done == {m \in vNodesDisconnected : Unreferenced(m)}
<1>1. PICK idle \in SUBSET {m \in vNodes : Unreferenced(m)} :
        \E locked \in SUBSET (done \cap message.held) :
           /\ semOutbound' = semOutbound + Cardinality(grants(idle))
           /\ node' = [m \in Node |->
                      IF m \in leaving(idle) THEN Disconnected(node[m])
                      ELSE IF m \in done \ locked THEN NoMemory(node[m].raced)
                      ELSE node[m]]
  BY Zenon DEF DisconnectNodes
<1>2. PICK locked \in SUBSET (done \cap message.held) :
           node' = [m \in Node |->
                      IF m \in leaving(idle) THEN Disconnected(node[m])
                      ELSE IF m \in done \ locked THEN NoMemory(node[m].raced)
                      ELSE node[m]]
  BY <1>1
<1>3. semOutbound' = semOutbound + Cardinality(grants(idle)) /\ open' = open
  BY <1>1 DEF DisconnectNodes
<1>4. leaving(idle) \in SUBSET vNodes
  OBVIOUS
<1>5. \A n \in Node : node'[n].state = "connected" =>
                         n \notin leaving(idle) /\ node'[n] = node[n]
  <2> SUFFICES ASSUME NEW n \in Node, node'[n].state = "connected"
               PROVE  n \notin leaving(idle) /\ node'[n] = node[n]
    OBVIOUS
  <2>1. node[n] \in CNode
    BY DEF GrantInv, TypeOK
  <2>2. Disconnected(node[n]).state # "connected"
    BY <2>1 DEF Disconnected, CNode
  <2>3. NoMemory(node[n].raced).state # "connected"
    BY DEF NoMemory, Fresh
  <2> HIDE DEF leaving, done
  <2> QED
    BY <1>2, <2>2, <2>3
<1>6. \A n \in vNodes \ leaving(idle) : node'[n] = node[n] /\ node[n].state = "connected"
  <2>1. \A n \in vNodes : n \in Node /\ n \notin done /\ node[n].state = "connected"
    BY DEF vNodes, vNodesDisconnected
  <2> HIDE DEF leaving, done
  <2> QED
    BY <1>2, <2>1
<1>7. WithGrant' = WithGrant \ grants(idle) /\ grants(idle) \in SUBSET WithGrant
  BY <1>4, <1>5, <1>6 DEF WithGrant, vNodes
<1>8. Granted' = Granted
  BY <1>3 DEF Granted
<1> HIDE DEF grants, leaving
<1>9. Cardinality(WithGrant') = Cardinality(WithGrant) - Cardinality(grants(idle))
      /\ Cardinality(grants(idle)) \in Nat
  <2>1. WithGrant \cap grants(idle) = grants(idle)
    BY <1>7
  <2>2. Cardinality(grants(idle)) \in Nat
    BY <1>7, GrantSets, FS_Subset, FS_CardinalityType
  <2>3. Cardinality(WithGrant \ grants(idle)) =
           Cardinality(WithGrant) - Cardinality(WithGrant \cap grants(idle))
    BY GrantSets, FS_Difference, Zenon
  <2> QED
    BY <1>7, <2>1, <2>2, <2>3
<1>10. GrantsCounted'
  BY <1>3, <1>8, <1>9, GrantSets, BoundAssumption DEF GrantInv, GrantsCounted, TypeOK
<1>11. Accounted'
  BY <1>3, <1>5 DEF GrantInv, Accounted, Outbound, vNodes
<1> QED
  BY <1>10, <1>11

(* Every step keeps the account. *)
LEMMA GrantStep == GrantInv /\ [Next]_vars => GrantInv'
<1> SUFFICES ASSUME GrantInv, [Next]_vars
             PROVE  GrantsCounted' /\ Accounted'
  BY TypeStep DEF GrantInv
<1>0. /\ TypeOK
      /\ \A n \in Node : node[n] \in CNode
      /\ node \in [Node -> CNode] /\ open \in [Opener -> Opening]
      /\ \A o \in Opener : open[o].pc \in {"addref", "addref2", "grant", "setgrant", "network"}
                              => open[o].pnode \in Node
  BY DEF GrantInv, TypeOK, Opening
<1>1. CASE DisconnectNodes
  BY <1>1, DisconnectGrants
<1>2. CASE BeginService
  <2>0. UNCHANGED <<semOutbound, open>>
    BY <1>2 DEF BeginService
  <2>1. CASE node' = AddRefs(vNodes)
    <3>1. GrantFieldsKept
      BY <1>0, <2>1, RefsEffect DEF GrantFieldsKept
    <3> QED
      BY <2>0, <3>1, GrantFrame
  <2>2. CASE /\ Unused # {}
             /\ LET new == CHOOSE n \in Unused : TRUE IN
                  \E a \in Addr :
                     node' = [AddRefs(vNodes) EXCEPT ![new] =
                                   [Fresh(a, TRUE) EXCEPT !.nRefCount = @ + 1]]
    <3>1. PICK new \in Unused, a \in Addr :
             node' = [AddRefs(vNodes) EXCEPT ![new] =
                             [Fresh(a, TRUE) EXCEPT !.nRefCount = @ + 1]]
      BY <2>2
    <3>2. new \in Node /\ node[new].state = "none"
      BY DEF Unused
    <3>3. node'[new].fInbound /\ ~node'[new].fHasGrant
      BY <3>1, <3>2 DEF Fresh, AddRefs
    <3>4. \A n \in Node \ {new} : /\ node'[n].state = node[n].state
                                  /\ node'[n].fInbound = node[n].fInbound
                                  /\ node'[n].fHasGrant = node[n].fHasGrant
      <4>1. \A n \in Node \ {new} : node'[n] = AddRefs(vNodes)[n]
        BY <3>1, <3>2 DEF AddRefs
      <4> QED
        BY <1>0, <4>1, RefsEffect
    <3>5. WithGrant' = WithGrant /\ Granted' = Granted
      BY <2>0, <3>2, <3>3, <3>4 DEF WithGrant, Granted, vNodes
    <3>6. GrantsCounted'
      BY <2>0, <3>5 DEF GrantInv, GrantsCounted
    <3>7. Accounted'
      BY <2>0, <3>2, <3>3, <3>4 DEF GrantInv, Accounted, Outbound, vNodes
    <3> QED
      BY <3>6, <3>7
  <2> QED
    BY <1>2, <2>1, <2>2 DEF BeginService
<1>3. ASSUME NEW n \in Node, ServiceFails(n) PROVE GrantsCounted' /\ Accounted'
  <2>1. GrantFieldsKept
    BY <1>0, <1>3 DEF ServiceFails, GrantFieldsKept, CNode
  <2> QED
    BY <1>3, <2>1, GrantFrame DEF ServiceFails
<1>4. CASE EndService
  <2>1. GrantFieldsKept
    BY <1>0, <1>4, RefsEffect DEF EndService, GrantFieldsKept
  <2> QED
    BY <1>4, <2>1, GrantFrame DEF EndService
<1>5. ASSUME NEW n \in Node, ReleaseTimePasses(n) PROVE GrantsCounted' /\ Accounted'
  <2>1. GrantFieldsKept
    BY <1>0, <1>5 DEF ReleaseTimePasses, GrantFieldsKept, CNode
  <2> QED
    BY <1>5, <2>1, GrantFrame DEF ReleaseTimePasses
<1>6. CASE BeginMessages
  <2>1. GrantFieldsKept
    BY <1>0, <1>6, RefsEffect DEF BeginMessages, GrantFieldsKept
  <2> QED
    BY <1>6, <2>1, GrantFrame DEF BeginMessages
<1>7. ASSUME NEW n \in Node, MessageDisconnects(n) PROVE GrantsCounted' /\ Accounted'
  <2>1. GrantFieldsKept
    BY <1>0, <1>7 DEF MessageDisconnects, GrantFieldsKept, CNode
  <2> QED
    BY <1>7, <2>1, GrantFrame DEF MessageDisconnects
<1>8. CASE EndMessages
  <2>1. GrantFieldsKept
    BY <1>0, <1>8, RefsEffect DEF EndMessages, GrantFieldsKept
  <2> QED
    BY <1>8, <2>1, GrantFrame DEF EndMessages
<1>9. ASSUME NEW o \in Opener, WaitGrant(o) PROVE GrantsCounted' /\ Accounted'
  <2>1. /\ open[o].pc = "wait" /\ open'[o].pc = "choose"
        /\ \A p \in Opener \ {o} : open'[p] = open[p]
        /\ node' = node /\ semOutbound' = semOutbound - 1
    BY <1>0, <1>9 DEF WaitGrant, Opening
  <2>2. Granted' = Granted \cup {o} /\ o \notin Granted
    BY <2>1 DEF Granted
  <2>3. Cardinality(Granted') = Cardinality(Granted) + 1
    BY <2>2, GrantSets, FS_AddElement
  <2>4. WithGrant' = WithGrant
    BY <2>1 DEF WithGrant, vNodes
  <2>5. GrantsCounted'
    BY <1>0, <2>1, <2>3, <2>4, GrantSets, BoundAssumption DEF GrantInv, GrantsCounted, TypeOK
  <2>6. Accounted'
    BY <2>1 DEF GrantInv, Accounted, Outbound, vNodes
  <2> QED
    BY <2>5, <2>6
<1>10. ASSUME NEW o \in Opener, Choose(o) PROVE GrantsCounted' /\ Accounted'
  <2>0. GrantFieldsKept /\ open[o].pc = "choose"
    BY <1>10 DEF Choose, GrantFieldsKept
  <2>1. CASE ReleaseGrant(o)
    <3>1. /\ open'[o].pc = "wait" /\ semOutbound' = semOutbound + 1
          /\ \A p \in Opener \ {o} : open'[p] = open[p]
      BY <1>0, <2>1 DEF ReleaseGrant, Return, Idle
    <3> QED
      BY <2>0, <3>1, GrantPosted
  <2>2. CASE /\ \E a \in Addr : open' = [open EXCEPT ![o].pc = "find", ![o].addr = a]
             /\ UNCHANGED semOutbound
    <3>1. /\ open'[o].pc = "find"
          /\ \A p \in Opener \ {o} : open'[p] = open[p]
      BY <1>0, <2>2 DEF Opening
    <3> QED
      BY <2>0, <2>2, <3>1, GrantFrame
  <2> QED
    BY <1>10, <2>1, <2>2 DEF Choose
<1>11. ASSUME NEW o \in Opener, FindNode(o) PROVE GrantsCounted' /\ Accounted'
  <2>1. /\ GrantFieldsKept /\ semOutbound' = semOutbound
        /\ open[o].pc = "find" /\ open'[o].pc \in {"dial", "addref"}
        /\ \A p \in Opener \ {o} : open'[p] = open[p]
    BY <1>0, <1>11 DEF FindNode, GrantFieldsKept, Opening
  <2> QED
    BY <2>1, GrantFrame
<1>12. ASSUME NEW o \in Opener, AddRefReads(o) PROVE GrantsCounted' /\ Accounted'
  <2>1. /\ GrantFieldsKept /\ semOutbound' = semOutbound
        /\ open[o].pc = "addref" /\ open'[o].pc = "addref2"
        /\ \A p \in Opener \ {o} : open'[p] = open[p]
    BY <1>0, <1>12 DEF AddRefReads, GrantFieldsKept, Opening
  <2> QED
    BY <2>1, GrantFrame
<1>13. ASSUME NEW o \in Opener, AddRefWrites(o) PROVE GrantsCounted' /\ Accounted'
  <2>1. /\ semOutbound' = semOutbound
        /\ open[o].pc = "addref2" /\ open'[o].pc = "grant"
        /\ \A p \in Opener \ {o} : open'[p] = open[p]
    BY <1>0, <1>13 DEF AddRefWrites, Opening
  <2>2. GrantFieldsKept
    BY <1>0, <1>13 DEF AddRefWrites, GrantFieldsKept, CNode
  <2> QED
    BY <2>1, <2>2, GrantFrame
<1>14. ASSUME NEW o \in Opener, ConnectSocket(o) PROVE GrantsCounted' /\ Accounted'
  <2>0. open[o].pc = "dial"
    BY <1>14 DEF ConnectSocket
  <2>1. CASE ReleaseGrant(o) /\ node' = node
    <3>1. /\ GrantFieldsKept
          /\ open'[o].pc = "wait" /\ semOutbound' = semOutbound + 1
          /\ \A p \in Opener \ {o} : open'[p] = open[p]
      BY <1>0, <2>1 DEF ReleaseGrant, Return, Idle, GrantFieldsKept
    <3> QED
      BY <2>0, <3>1, GrantPosted
  <2>2. CASE /\ Unused # {}
             /\ LET n == CHOOSE n \in Unused : TRUE IN
                  /\ node' = [node EXCEPT ![n] = Fresh(open[o].addr, FALSE)]
                  /\ open' = [open EXCEPT ![o].pc = "grant", ![o].pnode = n]
             /\ UNCHANGED semOutbound
    <3>1. PICK n \in Unused :
             /\ node' = [node EXCEPT ![n] = Fresh(open[o].addr, FALSE)]
             /\ open' = [open EXCEPT ![o].pc = "grant", ![o].pnode = n]
      BY <2>2
    <3>2. n \in Node /\ node[n].state = "none"
      BY DEF Unused
    <3>3. /\ ~node'[n].fHasGrant
          /\ \A m \in Node \ {n} : node'[m] = node[m]
      BY <1>0, <3>1, <3>2 DEF Fresh
    <3>4. /\ open'[o].pc = "grant" /\ open'[o].pnode = n
          /\ \A p \in Opener \ {o} : open'[p] = open[p]
      BY <1>0, <3>1 DEF Opening
    <3>5. WithGrant' = WithGrant /\ Granted' = Granted
      BY <2>0, <3>2, <3>3, <3>4 DEF WithGrant, Granted, vNodes
    <3>6. GrantsCounted'
      BY <2>2, <3>5 DEF GrantInv, GrantsCounted
    <3>7. Accounted'
      BY <2>0, <3>2, <3>3, <3>4 DEF GrantInv, Accounted, Outbound, vNodes
    <3> QED
      BY <3>6, <3>7
  <2> QED
    BY <1>14, <2>1, <2>2 DEF ConnectSocket
<1>15. ASSUME NEW o \in Opener, TestGrant(o) PROVE GrantsCounted' /\ Accounted'
  <2>0. /\ GrantFieldsKept /\ open[o].pc = "grant"
        /\ \A p \in Opener \ {o} : open'[p] = open[p]
    BY <1>0, <1>15 DEF TestGrant, GrantFieldsKept
  <2>1. CASE node[open[o].pnode].fHasGrant
    <3>1. open'[o].pc = "network" /\ semOutbound' = semOutbound + 1
      BY <1>0, <1>15, <2>1 DEF TestGrant, Opening
    <3> QED
      BY <2>0, <2>1, <3>1, GrantPosted
  <2>2. CASE ~node[open[o].pnode].fHasGrant
    <3>1. /\ open'[o].pc = "setgrant" /\ semOutbound' = semOutbound
          /\ open'[o].pnode = open[o].pnode
      BY <1>0, <1>15, <2>2 DEF TestGrant, Opening
    <3> QED
      BY <2>0, <3>1, GrantFrame
  <2> QED
    BY <2>1, <2>2
<1>16. ASSUME NEW o \in Opener, SetGrant(o) PROVE GrantsCounted' /\ Accounted'
  <2> DEFINE n == open[o].pnode
  <2>0. /\ open[o].pc = "setgrant" /\ open'[o].pc = "network"
        /\ \A p \in Opener \ {o} : open'[p] = open[p]
        /\ semOutbound' = semOutbound /\ n \in Node
    BY <1>0, <1>16 DEF SetGrant, Opening
  <2>1. /\ node'[n].fHasGrant /\ node'[n].state = node[n].state
        /\ \A m \in Node \ {n} : node'[m] = node[m]
        /\ node'[n].fInbound = node[n].fInbound
    BY <1>0, <1>16, <2>0 DEF SetGrant, CNode
  <2> HIDE DEF n
  <2>2. Granted' = Granted \ {o} /\ o \in Granted
    BY <2>0 DEF Granted
  <2>3. Cardinality(Granted') = Cardinality(Granted) - 1
    BY <2>2, GrantSets, FS_RemoveElement
  <2>4. WithGrant' \in SUBSET (WithGrant \cup {n})
    BY <2>1 DEF WithGrant, vNodes
  <2>5. Cardinality(WithGrant') <= Cardinality(WithGrant) + 1 /\ Cardinality(WithGrant') \in Nat
    <3>1. /\ IsFiniteSet(WithGrant \cup {n})
          /\ Cardinality(WithGrant \cup {n}) <= Cardinality(WithGrant) + 1
          /\ Cardinality(WithGrant \cup {n}) \in Nat
      <4>1. /\ IsFiniteSet(WithGrant \cup {n})
            /\ Cardinality(WithGrant \cup {n}) =
                 IF n \in WithGrant THEN Cardinality(WithGrant) ELSE Cardinality(WithGrant) + 1
        BY GrantSets, FS_AddElement, Zenon
      <4> QED
        BY <4>1, GrantSets
    <3> QED
      BY <2>4, <3>1, GrantSets, FS_Subset, FS_CardinalityType
  <2>6. GrantsCounted'
    BY <1>0, <2>0, <2>3, <2>5, GrantSets, BoundAssumption DEF GrantInv, GrantsCounted, TypeOK
  <2>7. Accounted'
    BY <2>0, <2>1 DEF GrantInv, Accounted, Outbound, vNodes, n
  <2> QED
    BY <2>6, <2>7
<1>17. ASSUME NEW o \in Opener, SetNetworkNode(o) PROVE GrantsCounted' /\ Accounted'
  <2>1. /\ semOutbound' = semOutbound
        /\ open[o].pc = "network" /\ open'[o].pc = "wait"
        /\ \A p \in Opener \ {o} : open'[p] = open[p]
        /\ open[o].pnode \in Node
    BY <1>0, <1>17 DEF SetNetworkNode, Return, Idle
  <2>2. GrantFieldsKept
    BY <1>0, <1>17, <2>1 DEF SetNetworkNode, GrantFieldsKept, CNode
  <2> QED
    BY <2>1, <2>2, GrantFrame
<1>18. CASE UNCHANGED vars
  BY <1>18, GrantFrame DEF vars, GrantFieldsKept
<1> QED
  BY <1>1, <1>2, <1>3, <1>4, <1>5, <1>6, <1>7, <1>8, <1>9, <1>10, <1>11, <1>12,
     <1>13, <1>14, <1>15, <1>16, <1>17, <1>18
  DEF Next, ThreadSocketHandler, ThreadMessageHandler, ThreadOpenConnections

(* The outbound nodes are among those with a grant and those that a thread   *)
(* with a grant is about to give it to.                                      *)
LEMMA OutboundCovered == GrantInv => OutboundBounded
<1> SUFFICES ASSUME GrantInv PROVE OutboundBounded
  OBVIOUS
<1> DEFINE given == {o \in Granted : open[o].pc \in {"grant", "setgrant"}}
           f == [o \in given |-> open[o].pnode]
           pointed == {open[o].pnode : o \in given}
<1>1. Outbound \in SUBSET (WithGrant \cup pointed)
  BY DEF GrantInv, Accounted, Outbound, WithGrant, Granted
<1>2. /\ IsFiniteSet(given) /\ Cardinality(given) <= Cardinality(Granted)
      /\ Cardinality(given) \in Nat
  BY GrantSets, FS_Subset, FS_CardinalityType
<1>3. f \in Surjection(given, pointed)
  BY DEF Surjection
<1> HIDE DEF given, f, pointed
<1>4. /\ IsFiniteSet(pointed) /\ Cardinality(pointed) <= Cardinality(given)
      /\ Cardinality(pointed) \in Nat
  BY <1>2, <1>3, FS_Surjection, FS_CardinalityType
<1>5. /\ IsFiniteSet(WithGrant \cup pointed)
      /\ Cardinality(WithGrant \cup pointed) <= Cardinality(WithGrant) + Cardinality(pointed)
      /\ Cardinality(WithGrant \cup pointed) \in Nat
  <2>1. Cardinality(WithGrant \cap pointed) \in Nat
    BY GrantSets, FS_Subset, FS_CardinalityType
  <2>2. /\ IsFiniteSet(WithGrant \cup pointed)
        /\ Cardinality(WithGrant \cup pointed) =
             Cardinality(WithGrant) + Cardinality(pointed) - Cardinality(WithGrant \cap pointed)
    BY <1>4, GrantSets, FS_Union, Zenon
  <2>3. Cardinality(WithGrant \cup pointed) \in Nat
    BY <2>2, FS_CardinalityType
  <2> QED
    BY <1>4, <2>1, <2>2, <2>3, GrantSets
<1>6. Cardinality(Outbound) <= Cardinality(WithGrant \cup pointed) /\ Cardinality(Outbound) \in Nat
  BY <1>1, <1>5, FS_Subset, FS_CardinalityType
<1> QED
  BY <1>2, <1>4, <1>5, <1>6, GrantSets, BoundAssumption
  DEF GrantInv, GrantsCounted, OutboundBounded, TypeOK

(* semOutbound bounds the outbound connections at nMaxOutbound, for any      *)
(* number of threads that open them, also when two of them find one node.    *)
THEOREM OutboundWithinLimit == Spec => []OutboundBounded
<1>1. Init => GrantInv
  BY GrantInit
<1>2. GrantInv /\ [Next]_vars => GrantInv'
  BY GrantStep
<1>3. GrantInv => OutboundBounded
  BY OutboundCovered
<1> QED
  BY <1>1, <1>2, <1>3, PTL DEF Spec

=============================================================================
