---------------------------- MODULE NetworkProofs ----------------------------
(***************************************************************************)
(* What TLAPS proves of Network for any listeners of any kinds and any     *)
(* number of DHCP retries and addresses: the type invariant, when a Modbus *)
(* task keeps good tags or an outdated socket, and that the web server     *)
(* does not miss the network's return.                                     *)
(***************************************************************************)
EXTENDS Network, TLAPS

-----------------------------------------------------------------------------
\* Only in its long delay has the network task used up its retries.
RetriesLeft == at # "delay" => retryCount <= Retries
TypeInv == TypeOK /\ RetriesLeft

LEMMA InitType == Init => TypeInv
<1> SUFFICES ASSUME Init
             PROVE  TypeInv
    OBVIOUS
<1> USE DEF Init, TypeOK
<1>1. retryCount \in 0 .. Retries + 1 /\ RetriesLeft
      BY NetworkAssumption DEF NetworkAssumption, RetriesLeft
<1>2. /\ opened \in [Listeners -> Addresses \cup {NoAddress}]
      /\ wasReset \in [Listeners -> BOOLEAN]
      /\ connected \in [Listeners -> BOOLEAN]
      OBVIOUS
<1>3. /\ pending \in [Listeners -> SUBSET Bits]
      /\ pc \in [Listeners -> {"wait", "check", "serve", "idle"}]
      /\ sock \in [Listeners -> {"closed", "init", "listen", "established", "close_wait"}]
      /\ quality \in [Listeners -> {"none", "good", "bad"}]
      OBVIOUS
<1> QED  BY <1>1, <1>2, <1>3 DEF TypeInv

\* The type invariant is inductive; one case per action.
LEMMA NextType == TypeInv /\ [Next]_vars => TypeInv'
<1> SUFFICES ASSUME TypeInv, [Next]_vars
             PROVE  TypeInv'
    OBVIOUS
<1> USE DEF TypeInv, TypeOK, RetriesLeft, Bits, network, address, tags, listener
<1>1. ASSUME Environment
      PROVE  TypeInv'
  <2>1. ASSUME Plug \/ PeerFlips \/ \E a \in Addresses : SetAddress(a)
        PROVE  TypeInv'
        BY <2>1 DEF Plug, PeerFlips, SetAddress
  <2>2. ASSUME NEW l \in Listeners, PeerConnects(l) \/ PeerCloses(l) \/ Drop(l)
        PROVE  TypeInv'
    <3>1. PICK st \in {"closed", "established", "close_wait"} : SocketMoves(l, st)
          BY <2>2 DEF PeerConnects, PeerCloses, Drop
    <3>2. wasReset' \in [Listeners -> BOOLEAN]
          BY <2>2 DEF PeerConnects, PeerCloses, Drop
    <3> QED  BY <3>1, <3>2 DEF SocketMoves, Socket
  <2> QED  BY <1>1, <2>1, <2>2 DEF Environment
<1>2. ASSUME NetworkTask
      PROVE  TypeInv'
  <2> USE NetworkAssumption DEF NetworkAssumption, Notify
  <2>1. ASSUME LinkLost
        PROVE  TypeInv'
        BY <2>1 DEF LinkLost
  <2>2. ASSUME LinkUp
        PROVE  TypeInv'
        BY <2>2 DEF LinkUp
  <2>3. ASSUME LinkStays
        PROVE  TypeInv'
        BY <2>3 DEF LinkStays
  <2>4. ASSUME DhcpRuns
        PROVE  TypeInv'
        BY <2>4 DEF DhcpRuns
  <2>5. ASSUME DhcpFails
        PROVE  TypeInv'
        BY <2>5 DEF DhcpFails
  <2>6. ASSUME DhcpGivesUp
        PROVE  TypeInv'
        BY <2>6 DEF DhcpGivesUp
  <2>7. ASSUME DhcpRestarts
        PROVE  TypeInv'
        BY <2>7 DEF DhcpRestarts
  <2>8. ASSUME NEW lease \in Addresses, DhcpAssigns(lease)
        PROVE  TypeInv'
        BY <2>8 DEF DhcpAssigns
  <2> QED  BY <1>2, <2>1, <2>2, <2>3, <2>4, <2>5, <2>6, <2>7, <2>8 DEF NetworkTask
<1>3. ASSUME NEW l \in Listeners, ListenerTask(l)
      PROVE  TypeInv'
  <2> USE DEF Environs, Consume, Goto, Socket, Disconnected
  <2>1. ASSUME WaitReady(l)
        PROVE  TypeInv'
        BY <2>1 DEF WaitReady
  <2>2. ASSUME WaitOther(l)
        PROVE  TypeInv'
        BY <2>2 DEF WaitOther
  <2>3. ASSUME CheckNothing(l)
        PROVE  TypeInv'
        BY <2>3 DEF CheckNothing
  <2>4. ASSUME Open(l)
        PROVE  TypeInv'
        BY <2>4 DEF Open
  <2>5. ASSUME Pass(l)
        PROVE  TypeInv'
        BY <2>5 DEF Pass
  <2>6. ASSUME Connect(l)
        PROVE  TypeInv'
        BY <2>6 DEF Connect
  <2>7. ASSUME Listen(l)
        PROVE  TypeInv'
        BY <2>7 DEF Listen
  <2>8. ASSUME ClientLeaves(l)
        PROVE  TypeInv'
        BY <2>8 DEF ClientLeaves
  <2>9. ASSUME ClientPoll(l)
        PROVE  TypeInv'
        BY <2>9 DEF ClientPoll
  <2>10. ASSUME ClientCloseWait(l)
        PROVE  TypeInv'
        BY <2>10 DEF ClientCloseWait
  <2>11. ASSUME ServerLeaves(l)
        PROVE  TypeInv'
        BY <2>11 DEF ServerLeaves
  <2>12. ASSUME ServerPoll(l)
        PROVE  TypeInv'
        BY <2>12 DEF ServerPoll
  <2>13. ASSUME BridgeLeaves(l)
        PROVE  TypeInv'
        BY <2>13 DEF BridgeLeaves
  <2>14. ASSUME BridgeIpChanged(l)
        PROVE  TypeInv'
        BY <2>14 DEF BridgeIpChanged
  <2>15. ASSUME BridgeTimeout(l)
        PROVE  TypeInv'
        BY <2>15 DEF BridgeTimeout
  <2>16. ASSUME BridgeForward(l)
        PROVE  TypeInv'
        BY <2>16 DEF BridgeForward
  <2>17. ASSUME BridgeCloseWait(l)
        PROVE  TypeInv'
        BY <2>17 DEF BridgeCloseWait
  <2>18. ASSUME WebTimeout(l)
        PROVE  TypeInv'
        BY <2>18 DEF WebTimeout
  <2>19. ASSUME WebNotified(l)
        PROVE  TypeInv'
        BY <2>19 DEF WebNotified
  <2> QED  BY <1>3, <2>1, <2>2, <2>3, <2>4, <2>5, <2>6, <2>7, <2>8, <2>9, <2>10, <2>11, <2>12, <2>13, <2>14, <2>15, <2>16, <2>17, <2>18, <2>19 DEF ListenerTask
<1>4. ASSUME UNCHANGED vars
      PROVE  TypeInv'
      BY <1>4 DEF vars
<1> QED  BY <1>1, <1>2, <1>3, <1>4 DEF Next

\* The retries of DHCP stay in bounds, and notification values hold only the
\* bits of network_task.h.
THEOREM TypeCorrect == Spec => []TypeOK
<1>1. TypeInv /\ [Next]_vars => TypeInv'
      BY NextType
<1> QED  BY InitType, <1>1, PTL DEF Spec, TypeInv

-----------------------------------------------------------------------------
\* The tasks of the two Modbus TCP roles.
Modbus(m) == kind[m] \in {"tcp_client", "tcp_server"}

(***************************************************************************)
(* The two properties, one listener at a time, with what makes them        *)
(* inductive.  A Modbus task waits with its socket closed, so the wait may *)
(* take IP_CHANGED away unread; and it has no socket before the chip has   *)
(* an address.  The configuration differs from the chip only by an address *)
(* that somebody entered, so a change that is not told leads to one.       *)
(***************************************************************************)
WaitsClosed(m) == Modbus(m) /\ pc[m] = "wait" => sock[m] = "closed"
NotYet(m) == chip = NoAddress => "READY" \notin pending[m] /\ (Modbus(m) => pc[m] = "wait")
AddressAnnounced(m) == Modbus(m) /\ Stale(m) => "IP_CHANGED" \in pending[m] \/ chip \in entered
GoodInSession(m) ==
  kind[m] = "tcp_client" /\ quality[m] = "good" =>
    /\ connected[m] /\ pc[m] # "wait"
    /\ sock[m] \in {"established", "close_wait"} \/ wasReset[m]
CfgIsKnown == chip # NoAddress /\ cfg # chip => cfg \in entered

ListenerInv(m) == WaitsClosed(m) /\ NotYet(m) /\ AddressAnnounced(m) /\ GoodInSession(m)
IInv == CfgIsKnown /\ \A m \in Listeners : ListenerInv(m)

LEMMA InitInv == Init => IInv
BY DEF Init, IInv, CfgIsKnown, ListenerInv, WaitsClosed, NotYet, AddressAnnounced, Stale,
       GoodInSession

\* Listeners have no part in the addresses.
LEMMA NextCfg == TypeOK /\ CfgIsKnown /\ [Next]_vars => CfgIsKnown'
<1> SUFFICES ASSUME TypeOK, CfgIsKnown, [Next]_vars
             PROVE  CfgIsKnown'
    OBVIOUS
<1> USE DEF CfgIsKnown, address
<1>1. ASSUME NEW a \in Addresses, SetAddress(a)
      PROVE  CfgIsKnown'
      BY <1>1 DEF SetAddress
<1>2. ASSUME NEW lease \in Addresses, DhcpAssigns(lease)
      PROVE  CfgIsKnown'
      BY <1>2 DEF DhcpAssigns
<1>3. CASE LinkUp
      BY <1>3 DEF LinkUp
<1>4. ASSUME UNCHANGED address
      PROVE  CfgIsKnown'
      BY <1>4
<1>5. ASSUME \/ Plug \/ PeerFlips
             \/ \E l \in Listeners : PeerConnects(l) \/ PeerCloses(l) \/ Drop(l)
      PROVE  UNCHANGED address
      BY <1>5 DEF Plug, PeerFlips, PeerConnects, PeerCloses, Drop, SocketMoves
<1>6. ASSUME LinkLost \/ LinkStays \/ DhcpRuns \/ DhcpFails \/ DhcpGivesUp \/ DhcpRestarts
      PROVE  UNCHANGED address
      BY <1>6 DEF LinkLost, LinkStays, DhcpRuns, DhcpFails, DhcpGivesUp, DhcpRestarts
<1>7. ASSUME NEW l \in Listeners, ListenerTask(l)
      PROVE  UNCHANGED address
      BY <1>7 DEF ListenerTask, WaitReady, WaitOther, CheckNothing, Open, Pass, Connect, Listen,
             ClientLeaves, ClientPoll, ClientCloseWait, ServerLeaves, ServerPoll, BridgeLeaves,
             BridgeIpChanged, BridgeTimeout, BridgeForward, BridgeCloseWait, WebTimeout,
             WebNotified, Environs
<1>8. CASE UNCHANGED vars
      BY <1>8 DEF vars
<1> QED  BY <1>1, <1>2, <1>3, <1>4, <1>5, <1>6, <1>7, <1>8 DEF Next, Environment, NetworkTask

\* A step keeps the invariant of every listener m, its own or another's.
LEMMA NextInv == TypeOK /\ IInv /\ [Next]_vars => IInv'
<1> SUFFICES ASSUME TypeOK, IInv, [Next]_vars, NEW m \in Listeners
             PROVE  ListenerInv(m)'
    BY NextCfg DEF IInv
<1> USE NetworkAssumption
    DEF NetworkAssumption, TypeOK, Bits, network, address, tags, listener, Modbus, Stale,
        ListenerInv, WaitsClosed, NotYet, AddressAnnounced, GoodInSession
<1>0. ListenerInv(m) /\ CfgIsKnown
      BY DEF IInv
<1>1. ASSUME Environment
      PROVE  ListenerInv(m)'
  <2>1. ASSUME Plug \/ PeerFlips \/ \E a \in Addresses : SetAddress(a)
        PROVE  ListenerInv(m)'
        BY <1>0, <2>1 DEF Plug, PeerFlips, SetAddress
  <2>2. ASSUME NEW l \in Listeners, PeerConnects(l) \/ PeerCloses(l) \/ Drop(l)
        PROVE  ListenerInv(m)'
        BY <1>0, <2>2 DEF PeerConnects, PeerCloses, Drop, SocketMoves, Socket
  <2> QED  BY <1>1, <2>1, <2>2 DEF Environment
<1>2. ASSUME NetworkTask
      PROVE  ListenerInv(m)'
  <2> USE DEF Notify
  <2>1. ASSUME LinkLost \/ LinkUp
        PROVE  ListenerInv(m)'
        BY <1>0, <2>1 DEF LinkLost, LinkUp, CfgIsKnown
  <2>2. ASSUME LinkStays \/ DhcpRuns
        PROVE  ListenerInv(m)'
        BY <1>0, <2>2 DEF LinkStays, DhcpRuns
  <2>3. ASSUME DhcpFails \/ DhcpGivesUp \/ DhcpRestarts
        PROVE  ListenerInv(m)'
        BY <1>0, <2>3 DEF DhcpFails, DhcpGivesUp, DhcpRestarts
  <2>4. ASSUME NEW lease \in Addresses, DhcpAssigns(lease)
        PROVE  ListenerInv(m)'
        BY <1>0, <2>4 DEF DhcpAssigns, CfgIsKnown
  <2> QED  BY <1>2, <2>1, <2>2, <2>3, <2>4 DEF NetworkTask
<1>3. ASSUME NEW l \in Listeners, ListenerTask(l)
      PROVE  ListenerInv(m)'
  <2> USE DEF Environs, Consume, Goto, Socket, Disconnected, Connecting, ModbusClients, Bridges, WebServers
  <2>1. ASSUME WaitReady(l)
        PROVE  ListenerInv(m)'
        BY <1>0, <2>1 DEF WaitReady
  <2>2. ASSUME WaitOther(l)
        PROVE  ListenerInv(m)'
        BY <1>0, <2>2 DEF WaitOther
  <2>3. ASSUME CheckNothing(l)
        PROVE  ListenerInv(m)'
        BY <1>0, <2>3 DEF CheckNothing
  <2>4. ASSUME Open(l)
        PROVE  ListenerInv(m)'
        BY <1>0, <2>4 DEF Open
  <2>5. ASSUME Pass(l)
        PROVE  ListenerInv(m)'
        BY <1>0, <2>5 DEF Pass
  <2>6. ASSUME Connect(l)
        PROVE  ListenerInv(m)'
        BY <1>0, <2>6 DEF Connect
  <2>7. ASSUME Listen(l)
        PROVE  ListenerInv(m)'
        BY <1>0, <2>7 DEF Listen
  <2>8. ASSUME ClientLeaves(l)
        PROVE  ListenerInv(m)'
        BY <1>0, <2>8 DEF ClientLeaves
  <2>9. ASSUME ClientPoll(l)
        PROVE  ListenerInv(m)'
        BY <1>0, <2>9 DEF ClientPoll
  <2>10. ASSUME ClientCloseWait(l)
        PROVE  ListenerInv(m)'
        BY <1>0, <2>10 DEF ClientCloseWait
  <2>11. ASSUME ServerLeaves(l)
        PROVE  ListenerInv(m)'
        BY <1>0, <2>11 DEF ServerLeaves
  <2>12. ASSUME ServerPoll(l)
        PROVE  ListenerInv(m)'
        BY <1>0, <2>12 DEF ServerPoll
  <2>13. ASSUME BridgeLeaves(l)
        PROVE  ListenerInv(m)'
        BY <1>0, <2>13 DEF BridgeLeaves
  <2>14. ASSUME BridgeIpChanged(l)
        PROVE  ListenerInv(m)'
        BY <1>0, <2>14 DEF BridgeIpChanged
  <2>15. ASSUME BridgeTimeout(l)
        PROVE  ListenerInv(m)'
        BY <1>0, <2>15 DEF BridgeTimeout
  <2>16. ASSUME BridgeForward(l)
        PROVE  ListenerInv(m)'
        BY <1>0, <2>16 DEF BridgeForward
  <2>17. ASSUME BridgeCloseWait(l)
        PROVE  ListenerInv(m)'
        BY <1>0, <2>17 DEF BridgeCloseWait
  <2>18. ASSUME WebTimeout(l)
        PROVE  ListenerInv(m)'
        BY <1>0, <2>18 DEF WebTimeout
  <2>19. ASSUME WebNotified(l)
        PROVE  ListenerInv(m)'
        BY <1>0, <2>19 DEF WebNotified
  <2> QED  BY <1>3, <2>1, <2>2, <2>3, <2>4, <2>5, <2>6, <2>7, <2>8, <2>9, <2>10, <2>11, <2>12, <2>13, <2>14, <2>15, <2>16, <2>17, <2>18, <2>19 DEF ListenerTask
<1>4. ASSUME UNCHANGED vars
      PROVE  ListenerInv(m)'
      BY <1>0, <1>4 DEF vars
<1> QED  BY <1>1, <1>2, <1>3, <1>4 DEF Next

LEMMA Inductive == Spec => []IInv
<1>1. TypeOK /\ IInv /\ [Next]_vars => IInv'
      BY NextInv
<1> QED  BY InitInv, TypeCorrect, <1>1, PTL DEF Spec

\* The tags of a Modbus client are GOOD only within the session they were
\* read in, or after its reset: of the ways a session ends, that is the one
\* after which the code leaves them GOOD (modbus_tcp_client.c:387-401).
THEOREM GoodOnlyWhileConnected == Spec => []GoodWhileConnected
<1>1. IInv => GoodWhileConnected
      BY DEF IInv, ListenerInv, GoodInSession, GoodWhileConnected, ModbusClients
<1> QED  BY Inductive, <1>1, PTL

\* A Modbus task keeps a socket of an earlier address only until it reads
\* the bit that says so, or because the chip took up an address that a form
\* or command had entered before, the one change that may go untold.
THEOREM SocketsFollow == Spec => []SocketsFollowAddress
<1>1. IInv => SocketsFollowAddress
      BY DEF IInv, ListenerInv, AddressAnnounced, Modbus, SocketsFollowAddress
<1> QED  BY Inductive, <1>1, PTL

-----------------------------------------------------------------------------
(* The web server follows the network *)

\* The address is configured, as far as the network task knows.
Configured == linkWasUp /\ (dhcp => client = "leased")

\* Whoever has been told NOT_READY since has been told READY as well.
ToldReady(l) == "NOT_READY" \in pending[l] => "READY" \in pending[l]
IdleIsTold(l) == l \in WebServers /\ pc[l] = "idle" => "READY" \in pending[l]
FollowInv ==
  /\ at # "link" => dhcp
  /\ Configured => \A l \in Listeners : ToldReady(l) /\ IdleIsTold(l)

LEMMA NetworkTaskFollows ==
  ASSUME TypeOK, FollowInv, NetworkTask
  PROVE  FollowInv'
<1> USE DEF FollowInv, Configured, ToldReady, IdleIsTold, WebServers, tags, listener
<1>t. pending \in [Listeners -> SUBSET Bits]
      BY DEF TypeOK
\* The address is lost: nobody is owed anything.
<1>1. CASE LinkLost
      BY <1>1 DEF LinkLost
<1>2. CASE DhcpGivesUp
      BY <1>2 DEF DhcpGivesUp
\* The address is there: everybody is told.
<1>3. ASSUME NEW bits, Notify(bits), "READY" \in bits, kind' = kind, pc' = pc
      PROVE  \A l \in Listeners : (ToldReady(l) /\ IdleIsTold(l))'
      BY <1>3 DEF Notify
<1>4. CASE LinkUp
  <2>1. CASE dhcp
        BY <1>4, <2>1 DEF LinkUp
  <2>2. CASE ~dhcp
        BY <1>3, <1>4, <2>2 DEF LinkUp
  <2> QED  BY <2>1, <2>2
<1>5. ASSUME NEW lease \in Addresses, DhcpAssigns(lease)
      PROVE  FollowInv'
  <2>1. /\ Notify({"READY"} \cup IF lease # cfg THEN {"IP_CHANGED"} ELSE {})
        /\ kind' = kind /\ pc' = pc /\ at' = "link"
        BY <1>5 DEF DhcpAssigns
  <2> QED  BY <1>3, <2>1
\* Nothing is told, and what is configured does not become so.
<1>6. CASE LinkStays \/ DhcpRuns \/ DhcpFails \/ DhcpRestarts
      BY <1>6 DEF LinkStays, DhcpRuns, DhcpFails, DhcpRestarts
<1> QED  BY <1>1, <1>2, <1>4, <1>5, <1>6 DEF NetworkTask

\* A listener takes its bits: it owes nothing to what it has read, and the
\* web server goes idle only for a NOT_READY that no READY came with.
LEMMA ListenerFollows ==
  ASSUME TypeOK, FollowInv, NEW l \in Listeners, ListenerTask(l)
  PROVE  FollowInv'
<1>1. UNCHANGED <<network, kind>>
      BY DEF ListenerTask, WaitReady, WaitOther, CheckNothing, Open, Pass, Connect, Listen,
             ClientLeaves, ClientPoll, ClientCloseWait, ServerLeaves, ServerPoll, BridgeLeaves,
             BridgeIpChanged, BridgeTimeout, BridgeForward, BridgeCloseWait, WebTimeout,
             WebNotified, Environs
<1>2. pending \in [Listeners -> SUBSET Bits]
      /\ pc \in [Listeners -> {"wait", "check", "serve", "idle"}]
      BY DEF TypeOK
<1>3. \/ pending' = pending
      \/ Consume(l)
      BY DEF ListenerTask, WaitReady, WaitOther, CheckNothing, Open, Pass, Connect, Listen,
             ClientLeaves, ClientPoll, ClientCloseWait, ServerLeaves, ServerPoll, BridgeLeaves,
             BridgeIpChanged, BridgeTimeout, BridgeForward, BridgeCloseWait, WebTimeout,
             WebNotified, Environs
<1>4. \/ WebNotified(l)
      \/ \E p \in {"wait", "check", "serve"} : Goto(l, p)
      \/ (WaitOther(l) \/ BridgeTimeout(l)) /\ pc' = pc /\ pc[l] = "wait"
      BY DEF ListenerTask, WaitReady, WaitOther, CheckNothing, Open, Pass, Connect, Listen,
             ClientLeaves, ClientPoll, ClientCloseWait, ServerLeaves, ServerPoll, BridgeLeaves,
             BridgeIpChanged, BridgeTimeout, BridgeForward, BridgeCloseWait, WebTimeout, listener
<1>5. SUFFICES ASSUME Configured, NEW m \in Listeners
               PROVE  (ToldReady(m) /\ IdleIsTold(m))'
      BY <1>1 DEF FollowInv, Configured, network
<1>6. ToldReady(m) /\ IdleIsTold(m)
      BY <1>5 DEF FollowInv
<1>7. CASE m # l
  <2>1. pending'[m] = pending[m]
        BY <1>2, <1>3, <1>7 DEF Consume
  <2>2. pc'[m] = pc[m]
        BY <1>2, <1>4, <1>7 DEF WebNotified, Goto
  <2> QED  BY <1>1, <1>6, <2>1, <2>2 DEF ToldReady, IdleIsTold, WebServers
<1>8. CASE m = l
  <2>1. ToldReady(m)'
        BY <1>2, <1>3, <1>6, <1>8 DEF Consume, ToldReady
  <2>2. CASE WebNotified(l)
    <3>1. pc'[l] = IF "READY" \in pending[l] THEN "serve"
                   ELSE IF "NOT_READY" \in pending[l] THEN "idle" ELSE pc[l]
          BY <1>2, <2>2 DEF WebNotified, Goto
    <3>2. pc'[l] # "idle"
          BY <1>6, <1>8, <2>2, <3>1 DEF WebNotified, ToldReady, IdleIsTold
    <3> QED  BY <1>8, <2>1, <3>2 DEF IdleIsTold
  <2>3. CASE ~WebNotified(l)
    <3>1. pc'[l] # "idle"
          BY <1>2, <1>4, <2>3 DEF Goto
    <3> QED  BY <1>8, <2>1, <3>1 DEF IdleIsTold
  <2> QED  BY <2>2, <2>3
<1> QED  BY <1>7, <1>8

(***************************************************************************)
(* A web server that has stopped serving has a READY waiting whenever the  *)
(* network is ready: however NOT_READY and READY were merged into one      *)
(* value, over any sequence of leases, losses and retries, it does not     *)
(* take the one for the other (http_server_task.c:98-116).                 *)
(***************************************************************************)
THEOREM WebServerIsTold ==
  Spec => [](NetworkReady => \A l \in WebServers : pc[l] = "idle" => "READY" \in pending[l])
<1> DEFINE Told == NetworkReady => \A l \in WebServers : pc[l] = "idle" => "READY" \in pending[l]
<1>1. Init => FollowInv
      BY DEF Init, FollowInv, Configured
<1>2. TypeOK /\ FollowInv /\ [Next]_vars => FollowInv'
  <2> SUFFICES ASSUME TypeOK, FollowInv, [Next]_vars
               PROVE  FollowInv'
      OBVIOUS
  <2>1. CASE Environment \/ UNCHANGED vars
    <3>1. UNCHANGED <<network, kind, pending, pc>>
          BY <2>1 DEF Environment, Plug, PeerFlips, SetAddress, PeerConnects, PeerCloses, Drop,
                      SocketMoves, listener, vars
    <3> QED  BY <3>1 DEF FollowInv, Configured, ToldReady, IdleIsTold, WebServers, network
  <2> QED  BY <2>1, NetworkTaskFollows, ListenerFollows DEF Next
<1>3. FollowInv => Told
      BY DEF FollowInv, Configured, NetworkReady, IdleIsTold, WebServers
<1> QED  BY <1>1, <1>2, <1>3, TypeCorrect, PTL DEF Spec
===============================================================================
