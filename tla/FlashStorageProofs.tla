-------------------------- MODULE FlashStorageProofs -------------------------
(***************************************************************************)
(* What TLAPS proves of FlashStorage for any writers and images: the type  *)
(* invariant, the handshake of the two cores, that neither core can run a  *)
(* task or an interrupt while the flash is busy, that the two tasks        *)
(* implement FlashService, and that the handshake cannot hang.             *)
(***************************************************************************)
EXTENDS FlashStorage, TLAPS

\* The coordinator has a command from the moment it receives it.
CmdInHand == cpc # "receive" => cmd \in Writers
TypeInv == TypeOK /\ CmdInHand

LEMMA InitType == Init => TypeInv
BY DEF Init, TypeInv, TypeOK, CmdInHand, CoordPoints, GuardPoints, GuardStates, Requests

\* The type invariant is inductive; one case per group of actions.
LEMMA NextType == TypeInv /\ [Next]_vars => TypeInv'
<1> SUFFICES ASSUME TypeInv, [Next]_vars
             PROVE  TypeInv'
    OBVIOUS
<1> USE DEF TypeInv, TypeOK, CmdInHand, Requests
<1>1. ASSUME NEW w \in Writers, WriterNext(w)
      PROVE  TypeInv'
  <2>1. ASSUME NEW i \in Images, NEW a \in BOOLEAN, Call(w, i, a)
        PROVE  TypeInv'
        BY <2>1 DEF Call, coordVars, guardVars
  <2>2. ASSUME Send(w)
        PROVE  TypeInv'
        BY <2>2 DEF Send, coordVars, guardVars, resultVars
  <2>3. ASSUME Return(w)
        PROVE  TypeInv'
        BY <2>3 DEF Return, coordVars, guardVars
  <2> QED  BY <1>1, <2>1, <2>2, <2>3 DEF WriterNext
<1>2. ASSUME CoordNext
      PROVE  TypeInv'
  <2> USE DEF Coord, CoordPoints, GuardStates, guardVars, writerVars, resultVars
  <2>1. ASSUME CoordReceive
        PROVE  TypeInv'
        BY <2>1 DEF CoordReceive
  <2>2. ASSUME CoordNotify \/ CoordReady \/ CoordClaim \/ CoordFinish
        PROVE  TypeInv'
        BY <2>2 DEF CoordNotify, CoordReady, CoordClaim, CoordFinish
  <2>5. ASSUME CoordMask \/ CoordUnmask
        PROVE  TypeInv'
        BY <2>5 DEF CoordMask, CoordUnmask
  <2>3. ASSUME CoordErase \/ CoordProgram \/ CoordProgrammed
        PROVE  TypeInv'
        BY <2>3 DEF CoordErase, CoordProgram, CoordProgrammed
  <2>4. ASSUME CoordRefuse \/ CoordReport \/ CoordGive
        PROVE  TypeInv'
        BY <2>4 DEF CoordRefuse, CoordReport, CoordGive
  <2> QED  BY <1>2, <2>1, <2>2, <2>3, <2>4, <2>5 DEF CoordNext
<1>3. ASSUME GuardNext
      PROVE  TypeInv'
  <2> USE DEF Guard, GuardPoints, GuardStates, coordVars, writerVars, resultVars
  <2>1. ASSUME GuardTake \/ GuardReady \/ GuardEnter
        PROVE  TypeInv'
        BY <2>1 DEF GuardTake, GuardReady, GuardEnter
  <2>2. ASSUME GuardWait \/ GuardExec \/ GuardReset
        PROVE  TypeInv'
        BY <2>2 DEF GuardWait, GuardExec, GuardReset
  <2>3. ASSUME GuardMask \/ GuardUnmask
        PROVE  TypeInv'
        BY <2>3 DEF GuardMask, GuardUnmask
  <2> QED  BY <1>3, <2>1, <2>2, <2>3 DEF GuardNext
<1>4. ASSUME PowerLoss
      PROVE  TypeInv'
      BY <1>4 DEF PowerLoss, CoordPoints, GuardPoints, GuardStates
<1>5. ASSUME UNCHANGED vars
      PROVE  TypeInv'
      BY <1>5 DEF vars
<1> QED  BY <1>1, <1>2, <1>3, <1>4, <1>5 DEF Next

(***************************************************************************)
(* The variables have their types in every reachable state; in particular  *)
(* the command queue never holds more than the one command its length      *)
(* allows.                                                                 *)
(***************************************************************************)
THEOREM TypeCorrect == Spec => []TypeOK
<1>1. TypeInv => TypeOK
      BY DEF TypeInv
<1> QED  BY <1>1, InitType, NextType, PTL DEF Spec

-----------------------------------------------------------------------------
LEMMA InitHandshake == Init => Handshake
BY DEF Init, Handshake, InterruptsFollow, GuardState, CoordState, Notification,
       Ready, InRamLoop, Claimed, Cores

\* Each step keeps the handshake, given the types.
LEMMA NextHandshake == TypeInv /\ Handshake /\ [Next]_vars => Handshake'
<1> SUFFICES ASSUME TypeInv, Handshake, [Next]_vars
             PROVE  Handshake'
    OBVIOUS
<1>t. /\ masked \in [Cores -> BOOLEAN]
      /\ cpc \in CoordPoints
      /\ gpc \in GuardPoints
      /\ guard \in GuardStates
      BY DEF TypeInv, TypeOK
<1> USE DEF Handshake, InterruptsFollow, GuardState, CoordState, Notification,
            Ready, InRamLoop, Claimed, Cores
<1>1. ASSUME NEW w \in Writers, WriterNext(w)
      PROVE  Handshake'
      BY <1>1 DEF WriterNext, Call, Send, Return, coordVars, guardVars
<1>2. ASSUME CoordNext
      PROVE  Handshake'
  <2> USE <1>t DEF Coord, CoordPoints, GuardPoints, GuardStates,
                   guardVars, writerVars, resultVars
  <2>1. ASSUME CoordReceive \/ CoordRefuse \/ CoordReport \/ CoordGive
        PROVE  Handshake'
        BY <2>1 DEF CoordReceive, CoordRefuse, CoordReport, CoordGive
  <2>2. ASSUME CoordNotify
        PROVE  Handshake'
        BY <2>2 DEF CoordNotify
  <2>3. ASSUME CoordReady
        PROVE  Handshake'
        BY <2>3 DEF CoordReady
  <2>4. ASSUME CoordMask
        PROVE  Handshake'
        BY <2>4 DEF CoordMask
  <2>5. ASSUME CoordClaim
        PROVE  Handshake'
        BY <2>5 DEF CoordClaim
  <2>6. ASSUME CoordErase \/ CoordProgram \/ CoordProgrammed
        PROVE  Handshake'
        BY <2>6 DEF CoordErase, CoordProgram, CoordProgrammed
  <2>7. ASSUME CoordFinish
        PROVE  Handshake'
        BY <2>7 DEF CoordFinish
  <2>8. ASSUME CoordUnmask
        PROVE  Handshake'
        BY <2>8 DEF CoordUnmask
  <2> QED  BY <1>2, <2>1, <2>2, <2>3, <2>4, <2>5, <2>6, <2>7, <2>8 DEF CoordNext
<1>3. ASSUME GuardNext
      PROVE  Handshake'
  <2> USE <1>t DEF Guard, CoordPoints, GuardPoints, GuardStates,
                   coordVars, writerVars, resultVars
  <2>1. ASSUME GuardTake
        PROVE  Handshake'
        BY <2>1 DEF GuardTake
  <2>2. ASSUME GuardMask \/ GuardUnmask
        PROVE  Handshake'
        BY <2>2 DEF GuardMask, GuardUnmask
  <2>3. ASSUME GuardReady \/ GuardReset
        PROVE  Handshake'
        BY <2>3 DEF GuardReady, GuardReset
  <2>4. ASSUME GuardEnter \/ GuardWait \/ GuardExec
        PROVE  Handshake'
        BY <2>4 DEF GuardEnter, GuardWait, GuardExec
  <2> QED  BY <1>3, <2>1, <2>2, <2>3, <2>4 DEF GuardNext
<1>4. ASSUME PowerLoss
      PROVE  Handshake'
      BY <1>4 DEF PowerLoss
<1>5. ASSUME UNCHANGED vars
      PROVE  Handshake'
      BY <1>5 DEF vars
<1> QED  BY <1>1, <1>2, <1>3, <1>4, <1>5 DEF Next

(***************************************************************************)
(* The handshake of the coordinator and the guard is an invariant.         *)
(***************************************************************************)
THEOREM HandshakeHolds == Spec => []Handshake
<1>1. Init => TypeInv /\ Handshake
      BY InitType, InitHandshake
<1>2. TypeInv /\ Handshake /\ [Next]_vars => (TypeInv /\ Handshake)'
      BY NextType, NextHandshake
<1> QED  BY <1>1, <1>2, PTL DEF Spec

(***************************************************************************)
(* While the flash is erased or programmed no interrupt and no task but    *)
(* the guard runs: both cores have their interrupts disabled, the guard is *)
(* at the call of its loop or in the loop, and once it is in the loop, in  *)
(* RAM, it stays there until the flash is idle again.  That it is in RAM   *)
(* when the erasing begins is not a theorem: CoresInRam is violated.       *)
(***************************************************************************)
THEOREM NobodyElseRuns ==
  Spec => /\ []OnlyTheGuardRuns
          /\ [][Busy /\ Busy' /\ gpc \in InRamLoop => gpc' \in InRamLoop]_vars
<1>1. TypeOK /\ Handshake => OnlyTheGuardRuns
      BY DEF TypeOK, Handshake, InterruptsFollow, GuardState, CoordState, OnlyTheGuardRuns, Busy,
             Ready, InRamLoop, Claimed, Cores, GuardPoints
<1>2. OnlyTheGuardRuns /\ [Next]_vars
        => [Busy /\ Busy' /\ gpc \in InRamLoop => gpc' \in InRamLoop]_vars
  <2> SUFFICES ASSUME OnlyTheGuardRuns, Next, Busy, Busy', gpc \in InRamLoop
               PROVE  gpc' \in InRamLoop
      OBVIOUS
  <2>1. guard = "EXECUTING"
        BY DEF OnlyTheGuardRuns
  <2>2. ASSUME NEW w \in Writers, WriterNext(w)
        PROVE  gpc' \in InRamLoop
        BY <2>2 DEF WriterNext, Call, Send, Return, guardVars
  <2>3. ASSUME CoordNext
        PROVE  gpc' \in InRamLoop
        BY <2>3 DEF CoordNext, CoordReceive, CoordRefuse, CoordNotify, CoordReady, CoordMask,
                    CoordClaim, CoordErase, CoordProgram, CoordProgrammed, CoordFinish,
                    CoordUnmask, CoordReport, CoordGive, guardVars
  <2>4. ASSUME GuardNext
        PROVE  gpc' \in InRamLoop
        BY <2>1, <2>4 DEF GuardNext, GuardTake, GuardMask, GuardReady, GuardEnter, GuardWait,
                          GuardExec, GuardReset, GuardUnmask, Guard, InRamLoop
  <2>5. ASSUME PowerLoss
        PROVE  gpc' \in InRamLoop
        BY <2>5 DEF PowerLoss, Busy
  <2> QED  BY <2>2, <2>3, <2>4, <2>5 DEF Next
<1> QED  BY <1>1, <1>2, TypeCorrect, HandshakeHolds, PTL DEF Spec

-----------------------------------------------------------------------------
(* The refinement of FlashService. *)

\* Every call is in one place: with its writer, in the queue, with the
\* coordinator, or answered.
AnsweredOnce ==
  /\ cpc = "receive" => cmd = Nobody
  /\ cpc # "receive" => wpc[cmd] = "wait" /\ ~given[cmd]
  /\ cpc \notin {"receive", "give"} => ~success[cmd]
  /\ cpc \notin {"receive", "check", "give"} => request[cmd].aligned
  /\ Len(queue) > 0 => /\ wpc[queue[1]] = "wait" /\ queue[1] # cmd
                       /\ ~given[queue[1]] /\ ~success[queue[1]]
  /\ \A w \in Writers : /\ wpc[w] = "send" => ~given[w] /\ ~success[w]
                        /\ given[w] => wpc[w] = "wait"
SectorFollows == /\ cpc = "erasing" => sector = Blank
                 /\ cpc = "programming" => sector = Partial
CallInv == AnsweredOnce /\ SectorFollows

LEMMA InitCall == Init => CallInv
BY DEF Init, CallInv, AnsweredOnce, SectorFollows

\* A queue of length one.
LEMMA OneQueued ==
  ASSUME NEW q \in Seq(Writers), q # <<>>, Len(q) <= 1
  PROVE  Len(q) = 1 /\ Head(q) = q[1] /\ Len(Tail(q)) = 0
<1>1. Head(q) = q[1] /\ 1 \in DOMAIN q
      OBVIOUS
<1>2. Len(q) \in Nat /\ DOMAIN q = 1 .. Len(q)
      OBVIOUS
<1>3. Len(q) = 1
      BY <1>1, <1>2
<1>4. Len(Tail(q)) = Len(q) - 1
      OBVIOUS
<1> QED  BY <1>1, <1>3, <1>4

LEMMA NextCall == TypeInv /\ CallInv /\ [Next]_vars => CallInv'
<1> SUFFICES ASSUME TypeInv, CallInv, [Next]_vars
             PROVE  CallInv'
    OBVIOUS
<1>t. /\ cpc \in CoordPoints /\ wpc \in [Writers -> {"idle", "send", "wait"}]
      /\ request \in [Writers -> Requests]
      /\ given \in [Writers -> BOOLEAN] /\ success \in [Writers -> BOOLEAN]
      /\ queue \in Seq(Writers) /\ Len(queue) <= 1
      /\ cpc # "receive" => cmd \in Writers
      /\ Nobody \notin Writers
      /\ Len(queue) > 0 => queue[1] \in Writers
      BY SectorValues DEF TypeInv, TypeOK, CmdInHand
<1> USE DEF CallInv, AnsweredOnce, SectorFollows
<1>1. ASSUME NEW w \in Writers, WriterNext(w)
      PROVE  CallInv'
  <2>1. ASSUME NEW i \in Images, NEW a \in BOOLEAN, Call(w, i, a)
        PROVE  CallInv'
        BY <1>t, <2>1 DEF Call, coordVars, guardVars
  <2>2. ASSUME Send(w)
        PROVE  CallInv'
        BY <1>t, <2>2 DEF Send, coordVars, guardVars, resultVars
  <2>3. ASSUME Return(w)
        PROVE  CallInv'
        BY <1>t, <2>3 DEF Return, coordVars, guardVars
  <2> QED  BY <1>1, <2>1, <2>2, <2>3 DEF WriterNext
<1>2. ASSUME CoordNext
      PROVE  CallInv'
  <2> USE DEF Coord, guardVars, writerVars, resultVars
  <2>1. ASSUME CoordReceive
        PROVE  CallInv'
    <3>1. Len(queue) > 0 /\ Head(queue) = queue[1] /\ Len(queue') = 0
      <4>1. queue \in Seq(Writers) /\ queue # <<>> /\ queue' = Tail(queue) /\ Len(queue) <= 1
            BY <1>t, <2>1 DEF CoordReceive
      <4> QED  BY <4>1, OneQueued
    <3>2. /\ cpc' = "check" /\ cmd' = queue[1] /\ queue[1] \in Writers
          /\ UNCHANGED <<sector, wpc, request, given, success>>
          BY <1>t, <2>1, <3>1 DEF CoordReceive
    <3>3. SectorFollows'
          BY <3>2
    <3>4. AnsweredOnce'
          BY <3>1, <3>2
    <3> QED  BY <3>3, <3>4
  <2>2. ASSUME CoordRefuse \/ CoordNotify \/ CoordReady \/ CoordMask \/ CoordClaim
        PROVE  CallInv'
        BY <1>t, <2>2 DEF CoordRefuse, CoordNotify, CoordReady, CoordMask, CoordClaim
  <2>3. ASSUME CoordErase \/ CoordProgram \/ CoordProgrammed
        PROVE  CallInv'
        BY <1>t, <2>3 DEF CoordErase, CoordProgram, CoordProgrammed
  <2>4. ASSUME CoordFinish \/ CoordUnmask \/ CoordReport \/ CoordGive
        PROVE  CallInv'
        BY <1>t, <2>4 DEF CoordFinish, CoordUnmask, CoordReport, CoordGive
  <2> QED  BY <1>2, <2>1, <2>2, <2>3, <2>4 DEF CoordNext
<1>3. ASSUME GuardNext
      PROVE  CallInv'
      BY <1>3 DEF GuardNext, Guard, GuardTake, GuardMask, GuardReady, GuardEnter, GuardWait,
                  GuardExec, GuardReset, GuardUnmask, coordVars, writerVars, resultVars
<1>4. ASSUME PowerLoss
      PROVE  CallInv'
      BY <1>4 DEF PowerLoss
<1>5. ASSUME UNCHANGED vars
      PROVE  CallInv'
      BY <1>5 DEF vars
<1> QED  BY <1>1, <1>2, <1>3, <1>4, <1>5 DEF Next

\* The mapping of Service, written out.
Calling == [w \in Writers |-> CallOf(w)]
Serving == IF Busy THEN {cmd} ELSE {}

LEMMA CallStates ==
  ASSUME NEW w \in Writers, wpc[w] # "idle"
  PROVE  Calling[w] = [state |-> StateOf(w), image |-> request[w].image,
                       aligned |-> request[w].aligned]
BY DEF Calling, CallOf

LEMMA InitService == Init => Service!Init
<1> SUFFICES ASSUME Init
             PROVE  Service!Init
    OBVIOUS
<1>1. Calling = [w \in Writers |-> Service!Idle]
      BY DEF Init, Calling, CallOf, Service!Idle
<1>2. Serving = {}
      BY DEF Init, Serving, Busy
<1> QED  BY <1>1, <1>2 DEF Init, Service!Init, Calling, Serving

\* A step that leaves every call, and what is served, as it was.
ServiceStutters == UNCHANGED <<sector, Calling, Serving>>

LEMMA StepService ==
  ASSUME TypeInv, CallInv, [Next]_vars
  PROVE  [Service!Next]_(Service!vars)
<1>t. /\ cpc \in CoordPoints /\ wpc \in [Writers -> {"idle", "send", "wait"}]
      /\ request \in [Writers -> Requests]
      /\ given \in [Writers -> BOOLEAN] /\ success \in [Writers -> BOOLEAN]
      /\ queue \in Seq(Writers) /\ Len(queue) <= 1
      /\ cpc # "receive" => cmd \in Writers
      /\ Nobody \notin Writers
      /\ Len(queue) > 0 => queue[1] \in Writers
      BY SectorValues DEF TypeInv, TypeOK, CmdInHand
<1>a. AnsweredOnce /\ SectorFollows
      BY DEF CallInv
<1>s. ServiceStutters => [Service!Next]_(Service!vars)
      BY DEF ServiceStutters, Service!vars, Calling, Serving
\* A step in which no CallOf changes.
<1>c. (\A w \in Writers : CallOf(w)' = CallOf(w)) => Calling' = Calling
      BY DEF Calling
<1>1. ASSUME NEW w \in Writers, WriterNext(w)
      PROVE  [Service!Next]_(Service!vars)
  <2>1. ASSUME NEW i \in Images, NEW a \in BOOLEAN, Call(w, i, a)
        PROVE  Service!Call(w, i, a)
    <3>1. /\ wpc[w] = "idle" /\ cmd # w /\ ~given[w]
          BY <1>t, <1>a, <2>1 DEF Call, AnsweredOnce
    <3>2. /\ wpc' = [wpc EXCEPT ![w] = "send"]
          /\ request' = [request EXCEPT ![w] = [image |-> i, aligned |-> a]]
          /\ success' = [success EXCEPT ![w] = FALSE]
          /\ UNCHANGED <<sector, cmd, cpc, given>>
          BY <2>1 DEF Call, coordVars
    <3>3. CallOf(w)' = [state |-> "called", image |-> i, aligned |-> a]
          BY <1>t, <3>1, <3>2 DEF CallOf, StateOf
    <3>4. \A v \in Writers : v # w => CallOf(v)' = CallOf(v)
          BY <1>t, <3>2 DEF CallOf, StateOf
    <3>5. Calling[w] = Service!Idle
          BY <3>1 DEF Calling, CallOf, Service!Idle
    <3>6. Calling' = [Calling EXCEPT ![w] = [state |-> "called", image |-> i, aligned |-> a]]
          BY <3>3, <3>4 DEF Calling
    <3>7. Serving' = Serving
          BY <3>2 DEF Serving, Busy
    <3> QED  BY <3>2, <3>5, <3>6, <3>7 DEF Service!Call, Calling, Serving
  <2>2. ASSUME Send(w)
        PROVE  ServiceStutters
    <3>1. \A v \in Writers : CallOf(v)' = CallOf(v)
          BY <1>t, <2>2 DEF Send, CallOf, StateOf, coordVars, resultVars
    <3> QED  BY <1>c, <2>2, <3>1 DEF Send, ServiceStutters, Serving, Busy, coordVars
  <2>3. ASSUME Return(w)
        PROVE  Service!Return(w)
    <3>1. /\ wpc[w] = "wait" /\ given[w]
          /\ wpc' = [wpc EXCEPT ![w] = "idle"]
          /\ given' = [given EXCEPT ![w] = FALSE]
          /\ UNCHANGED <<sector, cmd, cpc, request, success>>
          BY <2>3 DEF Return, coordVars
    <3>2. Calling[w].state \in {"written", "refused"}
      <4>1. wpc[w] # "idle"
            BY <3>1
      <4>2. Calling[w] = [state |-> StateOf(w), image |-> request[w].image,
                          aligned |-> request[w].aligned]
            BY <4>1, CallStates
      <4>3. StateOf(w) \in {"written", "refused"}
            BY <3>1 DEF StateOf
      <4> QED  BY <4>2, <4>3
    <3>3. CallOf(w)' = Service!Idle
          BY <1>t, <3>1 DEF CallOf, Service!Idle
    <3>4. \A v \in Writers : v # w => CallOf(v)' = CallOf(v)
          BY <1>t, <3>1 DEF CallOf, StateOf
    <3>5. Calling' = [Calling EXCEPT ![w] = Service!Idle]
          BY <3>3, <3>4 DEF Calling
    <3>6. Serving' = Serving
          BY <3>1 DEF Serving, Busy
    <3> QED  BY <3>1, <3>2, <3>5, <3>6 DEF Service!Return, Calling, Serving
  <2> QED  BY <1>1, <1>s, <2>1, <2>2, <2>3 DEF WriterNext, Service!Next
<1>2. ASSUME CoordNext
      PROVE  [Service!Next]_(Service!vars)
  <2> USE DEF Coord, guardVars, writerVars, resultVars
  \* Steps that do not change the state of the call in hand.
  <2>1. ASSUME \/ CoordReceive \/ CoordNotify \/ CoordReady \/ CoordMask \/ CoordClaim
               \/ CoordFinish \/ CoordUnmask \/ CoordReport \/ CoordGive
        PROVE  ServiceStutters
    <3>1. sector' = sector /\ Serving' = Serving
      <4>1. ~Busy /\ ~Busy'
            BY <2>1 DEF Busy, CoordReceive, CoordNotify, CoordReady, CoordMask, CoordClaim,
                        CoordFinish, CoordUnmask, CoordReport, CoordGive
      <4>2. sector' = sector
            BY <2>1 DEF CoordReceive, CoordNotify, CoordReady, CoordMask, CoordClaim,
                        CoordFinish, CoordUnmask, CoordReport, CoordGive
      <4> QED  BY <4>1, <4>2 DEF Serving
    <3>2. \A w \in Writers : CallOf(w)' = CallOf(w)
      <4>1. CASE CoordReceive
        <5>1. Head(queue) = queue[1] /\ queue[1] \in Writers
              BY <1>t, <4>1 DEF CoordReceive
        <5> QED  BY <1>t, <1>a, <4>1, <5>1 DEF CoordReceive, CallOf, StateOf, AnsweredOnce
      <4>2. CASE CoordNotify \/ CoordReady \/ CoordMask \/ CoordClaim
            BY <4>2 DEF CallOf, StateOf, CoordNotify, CoordReady, CoordMask, CoordClaim
      <4>3. CASE CoordFinish \/ CoordUnmask
            BY <4>3 DEF CallOf, StateOf, CoordFinish, CoordUnmask
      <4>4. CASE CoordReport
            BY <1>t, <4>4 DEF CallOf, StateOf, CoordReport
      <4>5. CASE CoordGive
            BY <1>t, <4>5 DEF CallOf, StateOf, CoordGive
      <4> QED  BY <2>1, <4>1, <4>2, <4>3, <4>4, <4>5
    <3> QED  BY <1>c, <3>1, <3>2 DEF ServiceStutters
  <2>2. ASSUME CoordRefuse
        PROVE  Service!Refuse(cmd)
    <3>1. /\ cpc = "check" /\ cpc' = "give" /\ ~request[cmd].aligned /\ cmd \in Writers
          /\ success' = [success EXCEPT ![cmd] = FALSE]
          /\ UNCHANGED <<sector, cmd, wpc, request, given>>
          /\ wpc[cmd] = "wait" /\ ~given[cmd] /\ ~success[cmd]
          BY <1>t, <1>a, <2>2 DEF CoordRefuse, AnsweredOnce
    <3>2. /\ Calling[cmd] = [state |-> "called", image |-> request[cmd].image,
                             aligned |-> request[cmd].aligned]
          BY <3>1, CallStates DEF StateOf
    <3>3. CallOf(cmd)' = [state |-> "refused", image |-> request[cmd].image,
                          aligned |-> request[cmd].aligned]
          BY <1>t, <3>1 DEF CallOf, StateOf
    <3>4. \A v \in Writers : v # cmd => CallOf(v)' = CallOf(v)
          BY <1>t, <3>1 DEF CallOf, StateOf
    <3>e. [Calling[cmd] EXCEPT !.state = "refused"] = CallOf(cmd)'
          BY <3>2, <3>3
    <3>5. Calling' = [Calling EXCEPT ![cmd] = [@ EXCEPT !.state = "refused"]]
          BY <3>1, <3>4, <3>e DEF Calling
    <3>6. Serving' = Serving
          BY <3>1 DEF Serving, Busy
    <3> QED  BY <3>1, <3>2, <3>5, <3>6 DEF Service!Refuse, Calling, Serving
  <2>3. ASSUME CoordErase
        PROVE  Service!Erase(cmd)
    <3>1. /\ cpc = "claimed" /\ cpc' = "erasing" /\ sector' = Blank /\ cmd \in Writers
          /\ UNCHANGED <<cmd, wpc, request, given, success>>
          /\ wpc[cmd] = "wait" /\ ~given[cmd] /\ ~success[cmd] /\ request[cmd].aligned
          BY <1>t, <1>a, <2>3 DEF CoordErase, AnsweredOnce
    <3>e. /\ Calling[cmd] = [state |-> StateOf(cmd), image |-> request[cmd].image,
                                aligned |-> request[cmd].aligned]
          /\ StateOf(cmd) = "called"
      <4>1. wpc[cmd] # "idle"
            BY <3>1
      <4> QED  BY <3>1, <4>1, CallStates DEF StateOf
    <3>2. Calling[cmd].state = "called" /\ Calling[cmd].aligned
          BY <3>1, <3>e
    <3>3. \A v \in Writers : CallOf(v)' = CallOf(v)
          BY <3>1 DEF CallOf, StateOf
    <3>4. Serving = {} /\ Serving' = {cmd}
          BY <3>1 DEF Serving, Busy
    <3> QED  BY <1>c, <3>1, <3>2, <3>3, <3>4 DEF Service!Erase, Calling, Serving
  <2>4. ASSUME CoordProgram
        PROVE  Service!Program(cmd)
    <3>1. /\ cpc = "erasing" /\ cpc' = "programming" /\ sector = Blank /\ sector' = Partial
          /\ UNCHANGED <<cmd, wpc, request, given, success>>
          BY <1>a, <2>4 DEF CoordProgram, SectorFollows
    <3>2. \A v \in Writers : CallOf(v)' = CallOf(v)
          BY <3>1 DEF CallOf, StateOf
    <3>3. Serving = {cmd} /\ Serving' = {cmd}
          BY <3>1 DEF Serving, Busy
    <3> QED  BY <1>c, <3>1, <3>2, <3>3 DEF Service!Program, Calling, Serving
  <2>5. ASSUME CoordProgrammed
        PROVE  Service!Finish(cmd)
    <3>1. /\ cpc = "programming" /\ cpc' = "finish" /\ cmd \in Writers
          /\ sector = Partial /\ sector' = request[cmd].image
          /\ UNCHANGED <<cmd, wpc, request, given, success>>
          /\ wpc[cmd] = "wait" /\ ~given[cmd] /\ ~success[cmd]
          BY <1>t, <1>a, <2>5 DEF CoordProgrammed, AnsweredOnce, SectorFollows
    <3>2. Calling[cmd] = [state |-> "called", image |-> request[cmd].image,
                          aligned |-> request[cmd].aligned]
          BY <3>1, CallStates DEF StateOf
    <3>3. CallOf(cmd)' = [state |-> "written", image |-> request[cmd].image,
                          aligned |-> request[cmd].aligned]
          BY <3>1 DEF CallOf, StateOf
    <3>4. \A v \in Writers : v # cmd => CallOf(v)' = CallOf(v)
          BY <3>1 DEF CallOf, StateOf
    <3>e. [Calling[cmd] EXCEPT !.state = "written"] = CallOf(cmd)'
          BY <3>2, <3>3
    <3>5. Calling' = [Calling EXCEPT ![cmd] = [@ EXCEPT !.state = "written"]]
          BY <3>1, <3>4, <3>e DEF Calling
    <3>6. Serving = {cmd} /\ Serving' = {}
          BY <3>1 DEF Serving, Busy
    <3>7. sector' = Calling[cmd].image
          BY <3>1, <3>2
    <3> QED  BY <3>1, <3>5, <3>6, <3>7 DEF Service!Finish, Calling, Serving
  <2>6. cpc # "receive" => cmd \in Writers
        BY <1>t
  <2> QED  BY <1>2, <1>s, <2>1, <2>2, <2>3, <2>4, <2>5, <2>6
           DEF CoordNext, CoordRefuse, CoordErase, CoordProgram, CoordProgrammed, Service!Next
<1>3. ASSUME GuardNext
      PROVE  ServiceStutters
  <2>1. UNCHANGED <<sector, cmd, cpc, wpc, request, given, success>>
        BY <1>3 DEF GuardNext, GuardTake, GuardMask, GuardReady, GuardEnter, GuardWait,
                    GuardExec, GuardReset, GuardUnmask, coordVars, writerVars, resultVars
  <2> QED  BY <2>1 DEF ServiceStutters, Calling, CallOf, StateOf, Serving, Busy
<1>4. ASSUME PowerLoss
      PROVE  Service!PowerLoss
  <2>1. Calling' = [w \in Writers |-> Service!Idle] /\ Serving' = {} /\ sector' = sector
        BY <1>4 DEF PowerLoss, Calling, CallOf, Service!Idle, Serving, Busy
  <2> QED  BY <2>1 DEF Service!PowerLoss, Calling, Serving
<1>5. ASSUME UNCHANGED vars
      PROVE  ServiceStutters
      BY <1>5 DEF vars, ServiceStutters, Calling, CallOf, StateOf, Serving, Busy
<1> QED  BY <1>1, <1>2, <1>3, <1>4, <1>5, <1>s DEF Next, Service!Next

(***************************************************************************)
(* The two tasks, with their queue, notifications and handshake, implement *)
(* what flash_storage_write promises, for any number of callers: a call    *)
(* that is told true has had its own image programmed, one that is told    *)
(* false has changed nothing, and calls do not mix, whenever power fails.  *)
(***************************************************************************)
THEOREM ServiceImplemented == Spec => ServiceSpec
<1>1. TypeInv /\ CallInv /\ [Next]_vars => (TypeInv /\ CallInv)' /\ [Service!Next]_(Service!vars)
      BY NextType, NextCall, StepService
<1> QED  BY <1>1, InitType, InitCall, InitService, PTL DEF Spec, ServiceSpec, Service!Spec

-----------------------------------------------------------------------------
(* The handshake cannot hang *)

\* The guards of the coordinator's and of the guard task's statements.
CoordCanGo == \/ cpc = "receive" /\ queue # <<>>
              \/ cpc = "spin" /\ guard = "WAITING_FOR_CMD"
              \/ cpc \notin {"receive", "spin"}
GuardCanGo == \/ gpc = "take" /\ notified > 0
              \/ gpc = "wait" /\ guard # "WAITING_FOR_CMD"
              \/ gpc = "exec" /\ guard # "EXECUTING"
              \/ gpc \notin {"take", "wait", "exec"}

\* Something is left to do: a call, or the way of the guard out of its loop.
AtRest == cpc = "receive" /\ queue = <<>> /\ gpc = "take"

\* The coordinator spins only while the guard has been called, is on its way
\* into the loop, or is there.
GuardIsCalled == cpc = "spin" => \/ notified = 1
                                 \/ gpc \in {"mask", "ready"}
                                 \/ guard = "WAITING_FOR_CMD"
CalledInv == TypeInv /\ Handshake /\ GuardIsCalled

LEMMA NextCalled == CalledInv /\ [Next]_vars => CalledInv'
<1> SUFFICES ASSUME CalledInv, [Next]_vars
             PROVE  GuardIsCalled'
    BY NextType, NextHandshake DEF CalledInv
<1> USE DEF CalledInv, GuardIsCalled, Handshake, GuardState, Notification, Ready, InRamLoop
<1>1. ASSUME NEW w \in Writers, WriterNext(w)
      PROVE  GuardIsCalled'
      BY <1>1 DEF WriterNext, Call, Send, Return, coordVars, guardVars
<1>2. ASSUME CoordNext
      PROVE  GuardIsCalled'
  <2>1. ASSUME CoordNotify
        PROVE  GuardIsCalled'
        BY <2>1 DEF CoordNotify, Coord
  <2>2. ASSUME ~CoordNotify
        PROVE  cpc' # "spin"
        BY <1>2, <2>2 DEF CoordNext, CoordReceive, CoordRefuse, CoordReady, CoordMask, CoordClaim,
                          CoordErase, CoordProgram, CoordProgrammed, CoordFinish, CoordUnmask,
                          CoordReport, CoordGive, Coord
  <2> QED  BY <2>1, <2>2
\* The guard takes the notification only into the loop, and leaves the loop
\* only by a DONE that the coordinator wrote before it called again.
<1>3. ASSUME GuardNext
      PROVE  GuardIsCalled'
      BY <1>3 DEF GuardNext, GuardTake, GuardMask, GuardReady, GuardEnter, GuardWait,
                  GuardExec, GuardReset, GuardUnmask, Guard, coordVars
<1>4. ASSUME PowerLoss
      PROVE  GuardIsCalled'
      BY <1>4 DEF PowerLoss
<1>5. ASSUME UNCHANGED vars
      PROVE  GuardIsCalled'
      BY <1>5 DEF vars
<1> QED  BY <1>1, <1>2, <1>3, <1>4, <1>5 DEF Next

LEMMA AlwaysCalled == Spec => []CalledInv
<1>1. Init => CalledInv
      BY InitType, InitHandshake DEF Init, CalledInv, GuardIsCalled
<1> QED  BY <1>1, NextCalled, PTL DEF Spec

(***************************************************************************)
(* Never do the two cores wait for each other: while a command is queued   *)
(* or in hand, or core 1 is held, coordinator or guard can go on.          *)
(***************************************************************************)
THEOREM HandshakeGoesOn == Spec => [](AtRest \/ CoordCanGo \/ GuardCanGo)
<1>1. CalledInv => AtRest \/ CoordCanGo \/ GuardCanGo
  <2> SUFFICES ASSUME CalledInv, ~CoordCanGo, ~GuardCanGo
               PROVE  AtRest
      OBVIOUS
  <2> USE DEF CalledInv, Handshake, GuardState, CoordState, Notification, Ready, InRamLoop, Claimed
  <2>1. \/ cpc = "receive" /\ queue = <<>>
        \/ cpc = "spin" /\ guard # "WAITING_FOR_CMD"
        BY DEF CoordCanGo
  <2>2. gpc = "take"
        BY <2>1 DEF GuardCanGo
  <2>3. cpc # "spin"
        BY <2>1, <2>2 DEF GuardCanGo, GuardIsCalled
  <2> QED  BY <2>1, <2>2, <2>3 DEF AtRest
<1> QED  BY <1>1, AlwaysCalled, PTL

\* How many steps coordinator and guard have before them until the command
\* in hand is answered and both are where they began.
CoordLeft == [receive |-> 0, give |-> 1, report |-> 2, unmask |-> 3, finish |-> 4,
              programming |-> 5, erasing |-> 6, claimed |-> 7, claim |-> 8, mask |-> 9,
              spin |-> 10, check |-> 19]
GuardLeft == [take |-> 0, unmask |-> 1, reset |-> 2, exec |-> 3, wait |-> 4, enter |-> 5,
              ready |-> 6, mask |-> 7]
StepsLeft == CoordLeft[cpc] + GuardLeft[gpc] + 8 * notified

(***************************************************************************)
(* Nor do they keep each other busy: every step of coordinator or guard    *)
(* brings both nearer to the answer, but for the step that receives the    *)
(* next command.  With HandshakeGoesOn, a command in hand is answered      *)
(* within a fixed number of steps of the two tasks.                        *)
(***************************************************************************)
THEOREM HandshakeComesToAnEnd ==
  Spec => [][(CoordNext \/ GuardNext) /\ ~CoordReceive => StepsLeft' < StepsLeft]_vars
<1> DEFINE Nearer == (CoordNext \/ GuardNext) /\ ~CoordReceive => StepsLeft' < StepsLeft
<1>1. CalledInv /\ [Next]_vars => [Nearer]_vars
  <2> SUFFICES ASSUME CalledInv
               PROVE  Nearer
      OBVIOUS
  <2>1. /\ cpc \in CoordPoints /\ gpc \in GuardPoints
        /\ notified \in {0, 1}
        BY DEF CalledInv, TypeInv, TypeOK, Handshake, Notification
  <2>2. CoordLeft[cpc] \in Nat /\ GuardLeft[gpc] \in Nat
        BY <2>1 DEF CoordLeft, GuardLeft, CoordPoints, GuardPoints
  <2>3. ASSUME CoordNotify
        PROVE  StepsLeft' < StepsLeft
    <3>1. notified' = notified + 1 /\ gpc' = gpc /\ cpc = "check" /\ cpc' = "spin"
          BY <2>3 DEF CoordNotify, Coord
    <3> QED  BY <2>1, <2>2, <3>1 DEF StepsLeft, CoordLeft
  <2>4. ASSUME CoordNext, ~CoordReceive, ~CoordNotify
        PROVE  StepsLeft' < StepsLeft
    <3>1. /\ notified' = notified /\ gpc' = gpc
          /\ CoordLeft[cpc'] \in Nat /\ CoordLeft[cpc'] < CoordLeft[cpc]
          BY <2>4 DEF CoordNext, CoordRefuse, CoordReady, CoordMask, CoordClaim, CoordErase,
                      CoordProgram, CoordProgrammed, CoordFinish, CoordUnmask, CoordReport,
                      CoordGive, Coord, CoordLeft, guardVars
    <3> QED  BY <2>1, <2>2, <3>1 DEF StepsLeft
  <2>5. ASSUME GuardTake
        PROVE  StepsLeft' < StepsLeft
    <3>1. /\ notified > 0 /\ notified' = 0 /\ gpc = "take" /\ gpc' = "mask"
          /\ cpc' = cpc
          BY <2>5 DEF GuardTake, Guard, coordVars
    <3> QED  BY <2>1, <2>2, <3>1 DEF StepsLeft, GuardLeft
  <2>6. ASSUME GuardNext, ~GuardTake
        PROVE  StepsLeft' < StepsLeft
    <3>1. /\ notified' = notified /\ cpc' = cpc
          /\ GuardLeft[gpc'] \in Nat /\ GuardLeft[gpc'] < GuardLeft[gpc]
          BY <2>6 DEF GuardNext, GuardMask, GuardReady, GuardEnter, GuardWait, GuardExec,
                      GuardReset, GuardUnmask, Guard, GuardLeft, coordVars
    <3> QED  BY <2>1, <2>2, <3>1 DEF StepsLeft
  <2> QED  BY <2>3, <2>4, <2>5, <2>6
<1> QED  BY <1>1, AlwaysCalled, PTL DEF Spec
=============================================================================
