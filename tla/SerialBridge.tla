---------------------------- MODULE SerialBridge ----------------------------
(***************************************************************************)
(* The bytes of the serial to TCP bridge                                   *)
(* (src/src/serial-to-tcp/serial_to_tcp.c): what the task copies between   *)
(* the UART and its socket while the peer connects, sends, closes and      *)
(* resets and the network comes and goes.                                  *)
(*                                                                         *)
(* The bytes of each direction are numbered in the order they are made.    *)
(* The WIZnet socket is external, as the task uses it: recv, send and      *)
(* connect fail once the connection is gone.  Left out: the local port's   *)
(* number, and the pauses of the loop.                                     *)
(***************************************************************************)
EXTENDS Integers, Sequences, SequencesExt

CONSTANTS Modes,       \* configured modes: server, client
          BufferSize,  \* TCP_BUFFER_SIZE and UART_BUFFER_SIZE
          FifoDepth,   \* of the UART
          MaxBytes,    \* bound on the bytes of each direction
          MaxFaults    \* bound on faults: resets, closings, notifications, outages

ASSUME BridgeAssumption == /\ Modes \subseteq {"server", "client"}
                           /\ BufferSize \in Nat \ {0} /\ FifoDepth \in Nat \ {0}

VARIABLES mode,
          pc,           \* where the task is
          state,        \* ctx.state
          wasConnected, \* was_connected
          pending,      \* notification bits not yet read
          sr, con,      \* the socket's status and its Sn_IR_CON
          rx,           \* received by the socket, not yet read
          fifo,         \* received by the UART, not yet read
          buf, sent,    \* s_uart_buf and how much of it is sent
          toUart, toTcp,\* history: the bytes handed on, in order
          made,         \* bytes made: [peer, device]
          gone,         \* history: bytes lost with a connection, or by the full UART
          up,           \* the address is configured and the peer can be reached
          faults

task == <<pc, state, wasConnected, pending>>
socket == <<sr, con, rx, toTcp>>
serial == <<fifo, buf, sent, toUart>>
outside == <<made, up, faults>>
vars == <<mode, task, socket, serial, outside, gone>>

Init == /\ mode \in Modes
        /\ pc = "wait" /\ state = "initializing" /\ wasConnected = FALSE
        /\ pending = {}
        /\ sr = "closed" /\ con = FALSE /\ rx = <<>> /\ toTcp = <<>>
        /\ fifo = <<>> /\ buf = <<>> /\ sent = 0 /\ toUart = <<>>
        /\ made = [peer |-> 0, device |-> 0]
        /\ gone = [peer |-> {}, device |-> {}]
        /\ up \in BOOLEAN
        /\ faults = 0

First(q, k) == SubSeq(q, 1, k)
Rest(q, k) == SubSeq(q, k + 1, Len(q))
Least(a, b) == IF a < b THEN a ELSE b
Unsent == Rest(buf, sent)

\* The connection is lost, with what the socket had received.
Lose == /\ sr' = "closed" /\ con' = FALSE /\ rx' = <<>>
        /\ gone' = [gone EXCEPT !.peer = @ \cup ToSet(rx)]

-----------------------------------------------------------------------------
(* Outside the task. *)
Fault == faults < MaxFaults /\ faults' = faults + 1

PeerConnects == /\ up /\ sr = "listen"
                /\ sr' = "established" /\ con' = TRUE
                /\ UNCHANGED <<mode, task, rx, toTcp, serial, outside, gone>>

PeerSends == /\ sr = "established" /\ made.peer < MaxBytes
             /\ made' = [made EXCEPT !.peer = @ + 1]
             /\ rx' = Append(rx, made.peer + 1)
             /\ UNCHANGED <<mode, task, sr, con, toTcp, serial, up, faults, gone>>

PeerCloses == /\ Fault
              /\ sr = "established"
              /\ sr' = "close_wait"
              /\ UNCHANGED <<mode, task, con, rx, toTcp, serial, made, up, gone>>

Reset == /\ Fault
         /\ sr \in {"established", "close_wait"}
         /\ Lose
         /\ UNCHANGED <<mode, task, toTcp, serial, made, up>>

\* Of a full UART the byte is lost.
DeviceSends ==
  /\ made.device < MaxBytes
  /\ made' = [made EXCEPT !.device = @ + 1]
  /\ IF Len(fifo) < FifoDepth
     THEN fifo' = Append(fifo, made.device + 1) /\ UNCHANGED gone
     ELSE gone' = [gone EXCEPT !.device = @ \cup {made.device + 1}] /\ UNCHANGED fifo
  /\ UNCHANGED <<mode, task, socket, buf, sent, toUart, up, faults>>

\* The network task's notifications, merged until they are read.
Notify == /\ \/ Fault /\ \E b \in {"NOT_READY", "IP_CHANGED"} : pending' = pending \cup {b}
             \/ pending' = pending \cup {"READY"} /\ UNCHANGED faults
          /\ UNCHANGED <<mode, pc, state, wasConnected, socket, serial, made, up, gone>>

Outage == /\ \/ up /\ Fault
             \/ ~up /\ UNCHANGED faults
          /\ up' = ~up
          /\ UNCHANGED <<mode, task, socket, serial, made, gone>>
-----------------------------------------------------------------------------
(* The task. *)
Goto(from, to) == pc = from /\ pc' = to

\* wait_for_network_ready: a value with READY ends the wait, whatever else it
\* holds; after 30 seconds a connection that was there is closed.
WaitReads == /\ pending # {}
             /\ Goto("wait", IF "READY" \in pending THEN "check" ELSE "wait")
             /\ pending' = {}
             /\ UNCHANGED <<mode, state, wasConnected, socket, serial, outside, gone>>

WaitTimesOut == /\ Goto("wait", "wait")
                /\ wasConnected
                /\ Lose
                /\ state' = "initializing"
                /\ wasConnected' = FALSE
                /\ UNCHANGED <<mode, pending, toTcp, serial, outside>>

\* The inner loop reads the notifications.
NotReady == /\ Goto("check", "wait")
            /\ "NOT_READY" \in pending
            /\ pending' = {}
            /\ UNCHANGED <<mode, state, wasConnected, socket, serial, outside, gone>>

IpChanged == /\ Goto("check", "wait")
             /\ "IP_CHANGED" \in pending /\ "NOT_READY" \notin pending
             /\ pending' = {}
             /\ IF wasConnected THEN Lose /\ state' = "initializing"
                                ELSE UNCHANGED <<sr, con, rx, gone, state>>
             /\ wasConnected' = FALSE
             /\ UNCHANGED <<mode, toTcp, serial, outside>>

\* The socket's status selects what is handled.
Handle == /\ pc = "check"
          /\ pending \subseteq {"READY"}
          /\ pending' = {}
          /\ pc' = CASE sr = "established" -> "recv"
                     [] sr = "close_wait" -> "drain"
                     [] OTHER -> sr
          /\ state' = IF sr = "established" /\ con THEN "connected" ELSE state
          /\ con' = (con /\ sr # "established")
          /\ UNCHANGED <<mode, wasConnected, sr, rx, toTcp, serial, outside, gone>>

\* Bytes that the socket has received go to the UART one by one.
Forward == LET k == Least(Len(rx), BufferSize)
           IN  /\ toUart' = toUart \o First(rx, k)
               /\ rx' = Rest(rx, k)
               /\ UNCHANGED <<mode, state, wasConnected, pending, sr, con, toTcp, fifo, buf, sent,
                              outside, gone>>

Recv == rx # <<>> /\ Goto("recv", "uart") /\ Forward

RecvNothing == /\ rx = <<>> /\ Goto("recv", "uart")
               /\ UNCHANGED <<mode, state, wasConnected, pending, socket, serial, outside, gone>>

\* recv fails: the connection was reset after its size was read.
RecvFails == /\ sr = "closed" /\ Goto("recv", "track")
             /\ UNCHANGED <<mode, state, wasConnected, pending, socket, serial, outside, gone>>

ReadUart == /\ Goto("uart", IF fifo = <<>> THEN "track" ELSE "send")
            /\ LET k == Least(Len(fifo), BufferSize)
               IN  buf' = First(fifo, k) /\ fifo' = Rest(fifo, k)
            /\ sent' = 0
            /\ UNCHANGED <<mode, state, wasConnected, pending, socket, toUart, outside, gone>>

\* Were it like this, the rest of a send that was cut short would begin with
\* the first byte again (InOrder).
SendFromStart ==
  /\ sr \in {"established", "close_wait"}
  /\ \E k \in 1 .. Len(Unsent) :
       /\ Goto("send", IF k = Len(Unsent) THEN "track" ELSE "send")
       /\ toTcp' = toTcp \o First(buf, k)
       /\ sent' = sent + k
  /\ UNCHANGED <<mode, state, wasConnected, pending, sr, con, rx, fifo, buf, toUart, outside, gone>>

\* send takes what there is room for: one byte at least, as long as a peer that
\* is connected keeps reading.  Were it to stop, the loop would spin (c:156-165).
Send == /\ sr \in {"established", "close_wait"}
        /\ \E k \in 1 .. Len(Unsent) :
             /\ Goto("send", IF k = Len(Unsent) THEN "track" ELSE "send")
             /\ toTcp' = toTcp \o First(Unsent, k)
             /\ sent' = sent + k
        /\ UNCHANGED <<mode, state, wasConnected, pending, sr, con, rx, fifo, buf, toUart, outside, gone>>

\* The socket is closed, and the bytes that are left in the buffer are lost.
SendFails == /\ sr = "closed" /\ Goto("send", "track")
             /\ gone' = [gone EXCEPT !.device = @ \cup ToSet(Unsent)]
             /\ buf' = <<>> /\ sent' = 0
             /\ UNCHANGED <<mode, state, wasConnected, pending, socket, fifo, toUart, outside>>

\* Were it like this, what does not fit into one buffer would be lost
\* (Complete).
DrainOnce == rx # <<>> /\ Goto("drain", "disconnect") /\ Forward

\* SOCK_CLOSE_WAIT: all that the peer sent before it closed.
Drain == rx # <<>> /\ Goto("drain", "drain") /\ Forward

\* Nothing is left, or recv failed.
Drained == /\ rx = <<>> /\ Goto("drain", "disconnect")
           /\ UNCHANGED <<mode, state, wasConnected, pending, socket, serial, outside, gone>>

\* Were it like this, the socket would stay in SOCK_CLOSE_WAIT (KeepsServing).
DisconnectForgotten == /\ Goto("disconnect", "track")
                       /\ state' = "connecting"
                       /\ UNCHANGED <<mode, wasConnected, pending, socket, serial, outside, gone>>

\* disconnect ends with the socket closed, also when it fails by timeout.
Disconnect == /\ Goto("disconnect", "track")
              /\ sr' = "closed" /\ con' = FALSE /\ rx' = <<>>
              /\ state' \in {state, "connecting"}
              /\ UNCHANGED <<mode, wasConnected, pending, toTcp, serial, outside, gone>>

\* SOCK_INIT: listen or connect.
Listen == /\ mode = "server" /\ Goto("init", "track")
          /\ sr' = "listen" /\ state' = "connecting"
          /\ UNCHANGED <<mode, wasConnected, pending, con, rx, toTcp, serial, outside, gone>>

Connect == /\ mode = "client" /\ Goto("init", "track")
           /\ IF up THEN sr' = "established" /\ con' = TRUE
                    ELSE sr' = "closed" /\ UNCHANGED con
           /\ UNCHANGED <<mode, state, wasConnected, pending, rx, toTcp, serial, outside, gone>>

\* SOCK_CLOSED: a socket is opened, or not without an address.
Open == /\ Goto("closed", "track")
        /\ sr' = (IF up THEN "init" ELSE "closed")
        /\ UNCHANGED <<mode, state, wasConnected, pending, con, rx, toTcp, serial, outside, gone>>

Listening == /\ Goto("listen", "track")
             /\ UNCHANGED <<mode, state, wasConnected, pending, socket, serial, outside, gone>>

Track == /\ Goto("track", "check")
         /\ wasConnected' = (state = "connected")
         /\ UNCHANGED <<mode, state, pending, socket, serial, outside, gone>>

Task == \/ WaitReads \/ WaitTimesOut \/ NotReady \/ IpChanged \/ Handle
        \/ Recv \/ RecvNothing \/ RecvFails \/ ReadUart \/ Send \/ SendFails
        \/ Drain \/ Drained \/ Disconnect \/ Listen \/ Connect \/ Open \/ Listening \/ Track

Next == \/ Task
        \/ PeerConnects \/ PeerSends \/ PeerCloses \/ Reset \/ DeviceSends \/ Notify \/ Outage

Spec == Init /\ [][Next]_vars

\* The task is scheduled; a peer that can reach the server connects (and, in
\* Send, keeps reading).
FairSpec == Spec /\ WF_vars(Task) /\ WF_vars(PeerConnects)

-----------------------------------------------------------------------------
(* Properties *)

(***************************************************************************)
(* In both directions the bytes come out in the order in which they went   *)
(* in, and none twice, however reads and sends are cut into pieces and     *)
(* connections follow each other.                                          *)
(***************************************************************************)
InOrder == \A q \in {toUart, toTcp} : \A i, j \in DOMAIN q : i < j => q[i] < q[j]

(***************************************************************************)
(* No byte disappears: what the peer sent is passed on, or waits, or was   *)
(* lost with a connection that was reset or given up, never in an orderly  *)
(* close; what the device sent is passed on, or waits, or was lost in a    *)
(* send that failed or before a full UART.                                 *)
(***************************************************************************)
Complete ==
  /\ 1 .. made.peer = ToSet(toUart) \cup ToSet(rx) \cup gone.peer
  /\ 1 .. made.device = ToSet(toTcp) \cup ToSet(Unsent) \cup ToSet(fifo) \cup gone.device

(***************************************************************************)
(* Once the network stays ready and connections are no longer broken, the  *)
(* bytes of the device reach the peer again and again: no state of the     *)
(* socket and no error path stops the task for good.                       *)
(***************************************************************************)
KeepsServing ==
  (/\ <>[](up /\ pc # "wait")
   /\ <>[][~PeerCloses /\ ~Reset]_vars)
     => []<>(fifo = <<>>)
=============================================================================
