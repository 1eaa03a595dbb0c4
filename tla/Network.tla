------------------------------- MODULE Network -------------------------------
(***************************************************************************)
(* The network task and the tasks that follow it                           *)
(* (src/src/network/network_task.c, src/src/modbus/modbus_tcp_client.c,    *)
(* modbus_tcp_server.c, src/src/serial-to-tcp/serial_to_tcp.c and          *)
(* src/src/http-server/http_server_task.c).                                *)
(* The network task polls the link, runs the DHCP client and sets bits in  *)
(* the notification value of every registered task (eSetBits: bits of      *)
(* several notifications add up).  A listener waits for the bit READY,     *)
(* works on its socket, and goes back to waiting when it reads NOT_READY   *)
(* or IP_CHANGED; xTaskNotifyWait hands it all bits and clears them.       *)
(*                                                                         *)
(* The chip's address and that of the configuration in RAM are two things: *)
(* forms and commands set the second, a lease sets both, and a static      *)
(* link-up copies the second to the first.                                 *)
(*                                                                         *)
(* The listeners share nothing but the notifications.  The link, the peer, *)
(* the WIZnet sockets and the WIZnet DHCP client are the environment.      *)
(* Bits for the link itself are left out: no listener acts on them.        *)
(***************************************************************************)
EXTENDS Naturals

CONSTANTS Listeners,   \* the registered tasks
          Kinds,       \* the kinds of task among them
          Retries,     \* DHCP_RETRY_COUNT
          Addresses,   \* IP addresses
          NoAddress    \* a chip, or a socket, without one

ASSUME NetworkAssumption ==
    /\ NoAddress \notin Addresses
    /\ Kinds \subseteq {"tcp_client", "tcp_server", "s2tcp_client", "s2tcp_server", "http"}
    /\ Retries \in Nat

VARIABLES link,        \* the PHY link is on
          peer,        \* the remote Modbus server, or TCP server, answers
          linkWasUp,   \* link_was_up
          dhcp,        \* s_dhcp_enabled
          client,      \* the state of the DHCP client
          retryCount,  \* s_dhcp_retry_count
          at,          \* where the network task is
          kind,        \* listener |-> its kind
          pending,     \* listener |-> the bits of its notification value
          pc,          \* listener |-> where it is
          sock,        \* listener |-> the status of its socket
          cfg,         \* the address in g_sys_cfg.net_info
          chip,        \* the address network_initialize has given to the chip
          opened,      \* listener |-> the chip's address when it opened its socket
          connected,   \* listener |-> its local flag connected or was_connected
          quality,     \* listener |-> the quality it last wrote to its tags
\* ... and of the behaviour so far, for the properties
          entered,     \* the addresses that forms and commands have entered
          wasReset     \* listener |-> its last session was reset

network == <<linkWasUp, dhcp, client, retryCount, at>>
address == <<cfg, chip, entered>>
tags == <<quality, wasReset>>
listener == <<pc, sock, opened, connected, tags>>
vars == <<link, peer, network, address, kind, pending, listener>>

Bits == {"READY", "NOT_READY", "IP_CHANGED"}
ModbusClients == {l \in Listeners : kind[l] = "tcp_client"}
Bridges == {l \in Listeners : kind[l] \in {"s2tcp_client", "s2tcp_server"}}
Connecting == {l \in Listeners : kind[l] \in {"tcp_client", "s2tcp_client"}}
WebServers == {l \in Listeners : kind[l] = "http"}

TypeOK == /\ link \in BOOLEAN /\ peer \in BOOLEAN
          /\ linkWasUp \in BOOLEAN /\ dhcp \in BOOLEAN
          /\ client \in {"stopped", "asking", "leased"}
          /\ retryCount \in 0 .. Retries + 1
          /\ at \in {"link", "run", "delay"}
          /\ kind \in [Listeners -> Kinds]
          /\ pending \in [Listeners -> SUBSET Bits]
          /\ pc \in [Listeners -> {"wait", "check", "serve", "idle"}]
          /\ sock \in [Listeners -> {"closed", "init", "listen", "established", "close_wait"}]
          /\ cfg \in Addresses
          /\ chip \in Addresses \cup {NoAddress}
          /\ opened \in [Listeners -> Addresses \cup {NoAddress}]
          /\ connected \in [Listeners -> BOOLEAN]
          /\ quality \in [Listeners -> {"none", "good", "bad"}]
          /\ entered \subseteq Addresses
          /\ wasReset \in [Listeners -> BOOLEAN]

Init == /\ link \in BOOLEAN /\ peer \in BOOLEAN
        /\ linkWasUp = FALSE /\ dhcp \in BOOLEAN
        /\ client = "stopped" /\ retryCount = 0
        /\ at = "link"
        /\ kind \in [Listeners -> Kinds]
        /\ pending = [l \in Listeners |-> {}]
        /\ pc = [l \in Listeners |-> "wait"]
        /\ sock = [l \in Listeners |-> "closed"]
        /\ cfg \in Addresses /\ chip = NoAddress
        /\ opened = [l \in Listeners |-> NoAddress]
        /\ connected = [l \in Listeners |-> FALSE]
        /\ quality = [l \in Listeners |-> "none"]
        /\ entered = {} /\ wasReset = [l \in Listeners |-> FALSE]

-----------------------------------------------------------------------------
(***************************************************************************)
(* The environment.                                                        *)
(***************************************************************************)
Plug == link' = ~link /\ UNCHANGED <<peer, network, address, kind, pending, listener>>
PeerFlips == peer' = ~peer /\ UNCHANGED <<link, network, address, kind, pending, listener>>

\* A form or a command sets the address of the configuration, in RAM.
SetAddress(a) == /\ cfg' = a /\ entered' = entered \cup {a}
                 /\ UNCHANGED <<link, peer, network, chip, kind, pending, listener>>

\* The socket gets status s; it has an address from socket() to close().
Socket(l, s) == /\ sock' = [sock EXCEPT ![l] = s]
                /\ opened' = [opened EXCEPT ![l] = IF s = "closed" THEN NoAddress
                                                  ELSE IF sock[l] = "closed" THEN chip ELSE @]

\* The chip moves a socket by itself: a peer connects, closes, or resets.
SocketMoves(l, s) == /\ Socket(l, s)
                     /\ UNCHANGED <<link, peer, network, address, kind, pending, pc, connected, quality>>
PeerConnects(l) == /\ link /\ sock[l] = "listen"
                   /\ SocketMoves(l, "established") /\ UNCHANGED wasReset
PeerCloses(l) == /\ link /\ sock[l] = "established"
                 /\ SocketMoves(l, "close_wait") /\ UNCHANGED wasReset
Drop(l) == /\ sock[l] \in {"established", "close_wait"}
           /\ SocketMoves(l, "closed")
           /\ wasReset' = [wasReset EXCEPT ![l] = TRUE]

Environment == \/ Plug
               \/ PeerFlips
               \/ \E a \in Addresses : SetAddress(a)
               \/ \E l \in Listeners : PeerConnects(l) \/ PeerCloses(l) \/ Drop(l)

-----------------------------------------------------------------------------
(***************************************************************************)
(* The network task.                                                       *)
(***************************************************************************)
\* network_send_notification
Notify(bits) == pending' = [l \in Listeners |-> pending[l] \cup bits]

\* The link is lost; looked at again a second later.
LinkLost == /\ at = "link" /\ ~link /\ linkWasUp
            /\ linkWasUp' = FALSE
            /\ client' = IF dhcp THEN "stopped" ELSE client
            /\ Notify({"NOT_READY"})
            /\ UNCHANGED <<link, peer, dhcp, retryCount, at, address, kind, listener>>

\* The link is up: network_dhcp_init or network_static_init, which gives the
\* chip the address that the configuration has now and tells of READY alone.
LinkUp == /\ at = "link" /\ link /\ ~linkWasUp
          /\ linkWasUp' = TRUE
          /\ \/ /\ dhcp
                /\ client' = "asking" /\ retryCount' = 0 /\ at' = "run"
                /\ UNCHANGED <<chip, pending>>
             \/ /\ ~dhcp
                /\ chip' = cfg /\ Notify({"READY"})
                /\ UNCHANGED <<client, retryCount, at>>
          /\ UNCHANGED <<link, peer, dhcp, cfg, entered, kind, listener>>

LinkStays == /\ at = "link" /\ link /\ linkWasUp /\ dhcp
             /\ at' = "run"
             /\ UNCHANGED <<link, peer, linkWasUp, dhcp, client, retryCount, address, kind, pending, listener>>

\* DHCP_run has nothing new, or a lease that expires.
DhcpRuns == /\ at = "run"
            /\ \/ client' = client
               \/ client = "leased" /\ client' = "asking"
            /\ at' = "link"
            /\ UNCHANGED <<link, peer, linkWasUp, dhcp, retryCount, address, kind, pending, listener>>

\* network_dhcp_assign, called by DHCP_run: a lease, or a renewal under
\* another address.  Whether it changed is asked of the configuration.
DhcpAssigns(lease) ==
    /\ at = "run" /\ link
    /\ client = "asking" \/ (client = "leased" /\ lease # chip)
    /\ client' = "leased" /\ retryCount' = 0 /\ at' = "link"
    /\ cfg' = lease /\ chip' = lease
    /\ Notify({"READY"} \cup IF lease # cfg THEN {"IP_CHANGED"} ELSE {})
    /\ UNCHANGED <<link, peer, linkWasUp, dhcp, entered, kind, listener>>

\* DHCP_run fails, with retries left.
DhcpFails == /\ at = "run" /\ client = "asking" /\ retryCount < Retries
             /\ retryCount' = retryCount + 1
             /\ at' = "link"
             /\ UNCHANGED <<link, peer, linkWasUp, dhcp, client, address, kind, pending, listener>>

\* DHCP_run fails once too often.
DhcpGivesUp == /\ at = "run" /\ client = "asking" /\ retryCount >= Retries
               /\ retryCount' = retryCount + 1
               /\ client' = "stopped"
               /\ at' = "delay"
               /\ Notify({"NOT_READY"})
               /\ UNCHANGED <<link, peer, linkWasUp, dhcp, address, kind, listener>>

\* Were it like this, the retries would never start over.
DhcpRestartsCounting == /\ at = "delay"
                        /\ client' = "asking" /\ at' = "link"
                        /\ UNCHANGED <<link, peer, linkWasUp, dhcp, retryCount, address, kind, pending, listener>>

\* Ten seconds later DHCP starts again.
DhcpRestarts == /\ at = "delay"
                /\ retryCount' = 0 /\ client' = "asking" /\ at' = "link"
                /\ UNCHANGED <<link, peer, linkWasUp, dhcp, address, kind, pending, listener>>

NetworkTask == \/ LinkLost
               \/ LinkUp
               \/ LinkStays
               \/ DhcpRuns
               \/ \E lease \in Addresses : DhcpAssigns(lease)
               \/ DhcpFails
               \/ DhcpGivesUp
               \/ DhcpRestarts

-----------------------------------------------------------------------------
(***************************************************************************)
(* What every listener does.                                               *)
(***************************************************************************)
\* xTaskNotifyWait(0, UINT32_MAX, ...): all bits are taken at once.
Consume(l) == pending' = [pending EXCEPT ![l] = {}]
Goto(l, p) == pc' = [pc EXCEPT ![l] = p]
Environs == <<link, peer, network, address, kind>>

\* wait_for_network_ready: only READY ends it, whatever else came with it.
WaitReady(l) == /\ pc[l] = "wait" /\ "READY" \in pending[l]
                /\ Consume(l)
                /\ Goto(l, IF kind[l] = "http" THEN "serve" ELSE "check")
                /\ UNCHANGED <<Environs, sock, opened, connected, tags>>

WaitOther(l) == /\ pc[l] = "wait" /\ pending[l] # {} /\ "READY" \notin pending[l]
                /\ Consume(l)
                /\ UNCHANGED <<Environs, listener>>

\* Nothing to act on: on to the socket, the bits taken.
CheckNothing(l) == /\ pc[l] = "check" /\ pending[l] \cap {"NOT_READY", "IP_CHANGED"} = {}
                   /\ Consume(l) /\ Goto(l, "serve")
                   /\ UNCHANGED <<Environs, sock, opened, connected, tags>>

\* A new socket: SOCK_CLOSED in every task's switch.  socket() and listen()
\* are taken to succeed: they fail for arguments that the code never passes.
Open(l) == /\ pc[l] = "serve" /\ kind[l] # "http" /\ sock[l] = "closed"
           /\ Socket(l, "init") /\ Goto(l, "check")
           /\ UNCHANGED <<Environs, pending, connected, tags>>

\* SOCK_LISTEN and the other states a switch has no case for.
Pass(l) == /\ pc[l] = "serve" /\ sock[l] = "listen"
           /\ Goto(l, "check")
           /\ UNCHANGED <<Environs, pending, sock, opened, connected, tags>>

\* connect() succeeds when the peer is there; else the socket ends closed.
Connect(l) == /\ pc[l] = "serve" /\ sock[l] = "init" /\ l \in Connecting
              /\ Socket(l, IF link /\ peer THEN "established" ELSE "closed")
              /\ Goto(l, "check")
              /\ UNCHANGED <<Environs, pending, connected, tags>>

\* listen(); the bridge then leaves S2TCP_STATE_CONNECTED.
Listen(l) == /\ pc[l] = "serve" /\ kind[l] # "http" /\ sock[l] = "init" /\ l \notin Connecting
             /\ Socket(l, "listen")
             /\ connected' = [connected EXCEPT ![l] = FALSE]
             /\ Goto(l, "check")
             /\ UNCHANGED <<Environs, pending, tags>>

-----------------------------------------------------------------------------
(***************************************************************************)
(* The Modbus TCP client.                                                  *)
(***************************************************************************)
\* if (connected) { mark_all_tags_bad(); connected = false; }
Disconnected(l) == /\ connected' = [connected EXCEPT ![l] = FALSE]
                   /\ quality' = [quality EXCEPT ![l] = IF connected[l] THEN "bad" ELSE @]
                   /\ wasReset' = [wasReset EXCEPT ![l] = FALSE]

\* NOT_READY or IP_CHANGED: both branches do the same.
ClientLeaves(l) == /\ l \in ModbusClients /\ pc[l] = "check"
                   /\ pending[l] \cap {"NOT_READY", "IP_CHANGED"} # {}
                   /\ Consume(l) /\ Goto(l, "wait")
                   /\ Socket(l, "closed") /\ Disconnected(l)
                   /\ UNCHANGED Environs

\* SOCK_ESTABLISHED: all enabled requests are polled, at least one of them a
\* read; a read that fails marks its tags bad.
ClientPoll(l) == /\ l \in ModbusClients /\ pc[l] = "serve" /\ sock[l] = "established"
                 /\ connected' = [connected EXCEPT ![l] = TRUE]
                 /\ quality' = [quality EXCEPT ![l] = IF link /\ peer THEN "good" ELSE "bad"]
                 /\ wasReset' = [wasReset EXCEPT ![l] = FALSE]
                 /\ Goto(l, "check")
                 /\ UNCHANGED <<Environs, pending, sock, opened>>

\* Were it like this, a session the server ends would leave its tags GOOD.
ClientCloseWaitUnmarked(l) == /\ l \in ModbusClients /\ pc[l] = "serve" /\ sock[l] = "close_wait"
                              /\ Socket(l, "closed")
                              /\ connected' = [connected EXCEPT ![l] = FALSE]
                              /\ Goto(l, "check")
                              /\ UNCHANGED <<Environs, pending, tags>>

\* Were it like this, the client would never leave SOCK_CLOSE_WAIT.
ClientCloseWaitStays(l) == /\ l \in ModbusClients /\ pc[l] = "serve" /\ sock[l] = "close_wait"
                           /\ Disconnected(l)
                           /\ Goto(l, "check")
                           /\ UNCHANGED <<Environs, pending, sock, opened>>

ClientCloseWait(l) == /\ l \in ModbusClients /\ pc[l] = "serve" /\ sock[l] = "close_wait"
                      /\ Socket(l, "closed") /\ Disconnected(l)
                      /\ Goto(l, "check")
                      /\ UNCHANGED <<Environs, pending>>

\* Were it like this, the server would keep its socket, as the bridge does.
ServerLeavesOpen(l) == /\ kind[l] = "tcp_server" /\ pc[l] = "check"
                       /\ pending[l] \cap {"NOT_READY", "IP_CHANGED"} # {}
                       /\ Consume(l) /\ Goto(l, "wait")
                       /\ UNCHANGED <<Environs, sock, opened, connected, tags>>

\* The Modbus TCP server.
ServerLeaves(l) == /\ kind[l] = "tcp_server" /\ pc[l] = "check"
                   /\ pending[l] \cap {"NOT_READY", "IP_CHANGED"} # {}
                   /\ Consume(l) /\ Goto(l, "wait") /\ Socket(l, "closed")
                   /\ UNCHANGED <<Environs, connected, tags>>

\* nmbs_server_poll: the connection is kept, or ended after an error.
ServerPoll(l) == /\ kind[l] = "tcp_server" /\ pc[l] = "serve"
                 /\ \/ sock[l] = "established" /\ UNCHANGED <<sock, opened>>
                    \/ sock[l] \in {"established", "close_wait"} /\ Socket(l, "closed")
                 /\ Goto(l, "check")
                 /\ UNCHANGED <<Environs, pending, connected, tags>>

\* The serial to TCP bridge.  NOT_READY leaves the socket open for a grace
\* period, the wait's 30 seconds.
BridgeLeaves(l) == /\ l \in Bridges /\ pc[l] = "check" /\ "NOT_READY" \in pending[l]
                   /\ Consume(l) /\ Goto(l, "wait")
                   /\ UNCHANGED <<Environs, sock, opened, connected, tags>>

BridgeIpChanged(l) == /\ l \in Bridges /\ pc[l] = "check"
                      /\ "IP_CHANGED" \in pending[l] /\ "NOT_READY" \notin pending[l]
                      /\ Consume(l) /\ Goto(l, "wait")
                      /\ IF connected[l] THEN Socket(l, "closed") ELSE UNCHANGED <<sock, opened>>
                      /\ connected' = [connected EXCEPT ![l] = FALSE]
                      /\ UNCHANGED <<Environs, tags>>

BridgeTimeout(l) == /\ l \in Bridges /\ pc[l] = "wait" /\ connected[l]
                    /\ Socket(l, "closed")
                    /\ connected' = [connected EXCEPT ![l] = FALSE]
                    /\ UNCHANGED <<Environs, pending, pc, tags>>

\* SOCK_ESTABLISHED: bytes both ways; a send that fails closes the socket.
BridgeForward(l) == /\ l \in Bridges /\ pc[l] = "serve" /\ sock[l] = "established"
                    /\ \/ UNCHANGED <<sock, opened>>
                       \/ Socket(l, "closed")
                    /\ connected' = [connected EXCEPT ![l] = TRUE]
                    /\ Goto(l, "check")
                    /\ UNCHANGED <<Environs, pending, tags>>

BridgeCloseWait(l) == /\ l \in Bridges /\ pc[l] = "serve" /\ sock[l] = "close_wait"
                      /\ Socket(l, "closed")
                      /\ connected' = [connected EXCEPT ![l] = FALSE]
                      /\ Goto(l, "check")
                      /\ UNCHANGED <<Environs, pending, tags>>

\* The web server: it starts after 30 seconds in any case, and then takes
\* every bit in turn, READY after NOT_READY.
WebTimeout(l) == /\ l \in WebServers /\ pc[l] = "wait"
                 /\ Goto(l, "serve")
                 /\ UNCHANGED <<Environs, pending, sock, opened, connected, tags>>

\* Were it like this, NOT_READY would win over a READY that came after it.
WebNotifiedDown(l) == /\ l \in WebServers /\ pc[l] \in {"serve", "idle"} /\ pending[l] # {}
                      /\ Consume(l)
                      /\ Goto(l, IF "NOT_READY" \in pending[l] THEN "idle"
                                 ELSE IF "READY" \in pending[l] THEN "serve" ELSE pc[l])
                      /\ UNCHANGED <<Environs, sock, opened, connected, tags>>

WebNotified(l) == /\ l \in WebServers /\ pc[l] \in {"serve", "idle"} /\ pending[l] # {}
                  /\ Consume(l)
                  /\ Goto(l, IF "READY" \in pending[l] THEN "serve"
                             ELSE IF "NOT_READY" \in pending[l] THEN "idle" ELSE pc[l])
                  /\ UNCHANGED <<Environs, sock, opened, connected, tags>>

ListenerTask(l) ==
    \/ WaitReady(l) \/ WaitOther(l) \/ CheckNothing(l)
    \/ Open(l) \/ Pass(l) \/ Connect(l) \/ Listen(l)
    \/ ClientLeaves(l) \/ ClientPoll(l) \/ ClientCloseWait(l)
    \/ ServerLeaves(l) \/ ServerPoll(l)
    \/ BridgeLeaves(l) \/ BridgeIpChanged(l) \/ BridgeTimeout(l)
    \/ BridgeForward(l) \/ BridgeCloseWait(l)
    \/ WebTimeout(l) \/ WebNotified(l)

Next == \/ Environment
        \/ NetworkTask
        \/ \E l \in Listeners : ListenerTask(l)

Spec == Init /\ [][Next]_vars

\* Every task is scheduled; the environment owes nothing.
FairSpec == /\ Spec
            /\ WF_vars(NetworkTask)
            /\ \A l \in Listeners : WF_vars(ListenerTask(l))

-----------------------------------------------------------------------------
(***************************************************************************)
(* Properties.                                                             *)
(***************************************************************************)
\* The network is ready: the link is up and the address configured.
NetworkReady == link /\ linkWasUp /\ (dhcp => client = "leased")

\* Tags of the Modbus client are GOOD only as long as the session they were
\* read in: whatever else ends it, NOT_READY, IP_CHANGED, the server's
\* closing, read in whatever order, marks them BAD before the task waits or
\* reconnects (modbus_tcp_client.c:280-307, 364-373).  A reset is the one
\* exception: it shows as SOCK_CLOSED, which marks nothing (:387-401).
GoodWhileConnected ==
    \A l \in ModbusClients :
        quality[l] = "good" =>
            /\ connected[l] /\ pc[l] # "wait"
            /\ sock[l] \in {"established", "close_wait"} \/ wasReset[l]

\* "On disconnect, all mapped tags are marked BAD and reconnection is
\* attempted after a delay" (modbus_tcp_client.c:209-210): a client that has
\* opened its next socket has no GOOD tags of the last session.
BadBeforeReconnecting ==
    \A l \in ModbusClients : sock[l] = "init" => quality[l] # "good"

\* The socket was opened under another address than the chip has now.
Stale(l) == sock[l] # "closed" /\ opened[l] # chip

\* The Modbus tasks do not go on with a socket of an earlier address: as
\* long as it is open, the bit that closes it is still to be read, however
\* READY, NOT_READY and IP_CHANGED were merged.  They may where the chip has
\* taken up an address that a form or command entered: that one is not
\* announced, for the configuration has it already (network_task.c:135-139),
\* or the link-up asks nothing (:199-222).
SocketsFollowAddress ==
    \A l \in Listeners :
        kind[l] \in {"tcp_client", "tcp_server"} /\ Stale(l) =>
            "IP_CHANGED" \in pending[l] \/ chip \in entered

\* "NETWORK_NOTIFY_IP_CHANGED ... IP address changed", one of the events that
\* "abstract away DHCP vs static IP complexity" (network_task.h:22-33): when
\* the chip gets another address, all listeners are told of it.
AddressChangesAreTold ==
    [][chip # NoAddress /\ chip' # chip =>
         \A l \in Listeners : "IP_CHANGED" \in pending'[l]]_vars

\* The web server works again once the network stays ready: no order or
\* merging of notifications leaves it idle (http_server_task.c:98-116).
WebServerResumes ==
    <>[]NetworkReady => <>[](\A l \in WebServers : pc[l] = "serve")

\* A Modbus client in its inner loop reads good values again and again once
\* link and peer stay up and connections are no longer lost: it never sticks
\* in a state of the socket.
ClientReconnects ==
    \A l \in Listeners :
        (/\ <>[](kind[l] = "tcp_client" /\ pc[l] # "wait" /\ link /\ peer)
         /\ <>[][~Drop(l) /\ ~PeerCloses(l)]_vars)
        => []<><<ClientPoll(l) /\ quality'[l] = "good">>_vars

\* What a reader expects of every listener: it works again once the network
\* stays ready.
ListenersResume ==
    <>[]NetworkReady => \A l \in Listeners : []<>(pc[l] # "wait")
===============================================================================
