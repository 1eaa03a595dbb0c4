---------------------------- MODULE FlashStorage ----------------------------
(***************************************************************************)
(* Flash writes on a running dual-core system                              *)
(* (src/src/pico-flash-storage/pico_flash_storage.c).  Code runs from the  *)
(* flash that is written, so while the flash is busy neither core may      *)
(* fetch from it: the coordinator task on core 0 performs the write with   *)
(* the interrupts of core 0 disabled, and the guard task holds core 1 in a *)
(* loop in RAM with the interrupts of core 1 disabled.  Between announcing *)
(* itself (point enter) and the loop (wait) the guard still runs from      *)
(* flash.  The two synchronise by a task notification and the variable     *)
(* g_guard_state.                                                          *)
(*                                                                         *)
(* The model has one sector.  The caller's buffer holds one image from the *)
(* call to its return; ConfigStore shows what config_save_to_flash does    *)
(* with a buffer that several callers share.  Any number of steps of the   *)
(* two cores interleave: no step takes a known time.                       *)
(***************************************************************************)
EXTENDS Naturals, Sequences

CONSTANTS Writers,   \* tasks that call flash_storage_write
          Images,    \* the contents they write
          Blank,     \* an erased sector
          Partial,   \* a sector of which some pages are programmed
          Nobody     \* no writer

ASSUME SectorValues == /\ Blank \notin Images
                       /\ Partial \notin Images \cup {Blank}
                       /\ Nobody \notin Writers

VARIABLES sector,    \* content of the configuration sector
          queue,     \* s_flash_queue, of length one
          cmd,       \* cmd of vFlashCoordinatorTask
          cpc,       \* where the coordinator is
          gpc,       \* where the guard is
          guard,     \* g_guard_state
          notified,  \* the guard's notification count
          masked,    \* core |-> are its interrupts disabled?
          wpc,       \* where each writer is
          request,   \* writer |-> image and alignment of its call
          given,     \* writer |-> has completion_sem been given?
          success    \* writer |-> success

coordVars == <<cmd, cpc>>
guardVars == <<gpc, guard, notified>>
writerVars == <<wpc, request>>
resultVars == <<given, success>>
vars == <<sector, queue, cmd, cpc, gpc, guard, notified, masked, wpc, request, given, success>>

Cores == {0, 1}
Requests == [image : Images, aligned : BOOLEAN]
CoordPoints == {"receive", "check", "spin", "mask", "claim", "claimed", "erasing",
                "programming", "finish", "unmask", "report", "give"}
GuardPoints == {"take", "mask", "ready", "enter", "wait", "exec", "reset", "unmask"}
GuardStates == {"IDLE", "WAITING_FOR_CMD", "EXECUTING", "DONE"}

TypeOK == /\ sector \in Images \cup {Blank, Partial}
          /\ queue \in Seq(Writers) /\ Len(queue) <= 1
          /\ cmd \in Writers \cup {Nobody}
          /\ cpc \in CoordPoints
          /\ gpc \in GuardPoints
          /\ guard \in GuardStates
          /\ notified \in Nat
          /\ masked \in [Cores -> BOOLEAN]
          /\ wpc \in [Writers -> {"idle", "send", "wait"}]
          /\ request \in [Writers -> Requests]
          /\ given \in [Writers -> BOOLEAN]
          /\ success \in [Writers -> BOOLEAN]

\* flash_storage_init.  The sector may have been programmed before.
Init == /\ sector \in Images \cup {Blank}
        /\ \E i \in Images : request = [w \in Writers |-> [image |-> i, aligned |-> TRUE]]
        /\ queue = <<>>
        /\ cmd = Nobody
        /\ cpc = "receive"
        /\ gpc = "take"
        /\ guard = "IDLE"
        /\ notified = 0
        /\ masked = [k \in Cores |-> FALSE]
        /\ wpc = [w \in Writers |-> "idle"]
        /\ given = [w \in Writers |-> FALSE]
        /\ success = [w \in Writers |-> FALSE]

-----------------------------------------------------------------------------
(* flash_storage_write.  A writer is an ordinary task: it needs a core.    *)

CanRun == \E k \in Cores : ~masked[k]

Call(w, i, a) ==
  /\ CanRun
  /\ wpc[w] = "idle"
  /\ wpc' = [wpc EXCEPT ![w] = "send"]
  /\ request' = [request EXCEPT ![w] = [image |-> i, aligned |-> a]]
  /\ success' = [success EXCEPT ![w] = FALSE]
  /\ UNCHANGED <<sector, queue, coordVars, guardVars, masked, given>>

\* Were it like this, the queue would hold more than one command (TypeOK).
SendAnyway(w) == /\ CanRun
                 /\ wpc[w] = "send"
                 /\ wpc' = [wpc EXCEPT ![w] = "wait"]
                 /\ queue' = Append(queue, w)
                 /\ UNCHANGED <<sector, coordVars, guardVars, masked, request, resultVars>>

Send(w) == /\ CanRun
           /\ wpc[w] = "send"
           /\ queue = <<>>
           /\ wpc' = [wpc EXCEPT ![w] = "wait"]
           /\ queue' = <<w>>
           /\ UNCHANGED <<sector, coordVars, guardVars, masked, request, resultVars>>

Return(w) == /\ CanRun
             /\ wpc[w] = "wait"
             /\ given[w]
             /\ wpc' = [wpc EXCEPT ![w] = "idle"]
             /\ given' = [given EXCEPT ![w] = FALSE]
             /\ UNCHANGED <<sector, queue, coordVars, guardVars, masked, request, success>>

-----------------------------------------------------------------------------
(* vFlashCoordinatorTask, on core 0 *)

Coord(from, to) == cpc = from /\ cpc' = to

CoordReceive == /\ Coord("receive", "check")
                /\ queue # <<>>
                /\ cmd' = Head(queue)
                /\ queue' = Tail(queue)
                /\ UNCHANGED <<sector, guardVars, masked, writerVars, resultVars>>

\* Were it like this, a refused call would be told it succeeded (ServiceSpec).
CoordRefuseAsSuccess ==
  /\ Coord("check", "give")
  /\ ~request[cmd].aligned
  /\ success' = [success EXCEPT ![cmd] = TRUE]
  /\ UNCHANGED <<sector, queue, cmd, guardVars, masked, writerVars, given>>

\* Were it like this, a refused call would wait for ever (QueuedIsAnswered).
CoordRefuseSilently ==
  /\ Coord("check", "receive")
  /\ ~request[cmd].aligned
  /\ cmd' = Nobody
  /\ UNCHANGED <<sector, queue, guardVars, masked, writerVars, resultVars>>

CoordRefuse == /\ Coord("check", "give")
               /\ ~request[cmd].aligned
               /\ success' = [success EXCEPT ![cmd] = FALSE]
               /\ UNCHANGED <<sector, queue, cmd, guardVars, masked, writerVars, given>>

CoordNotify == /\ Coord("check", "spin")
               /\ request[cmd].aligned
               /\ notified' = notified + 1
               /\ UNCHANGED <<sector, queue, cmd, gpc, guard, masked, writerVars, resultVars>>

\* Were it like this, the DONE of the write before would pass for readiness
\* (OnlyTheGuardRuns).
CoordReadyEarly == /\ Coord("spin", "mask")
                   /\ guard # "IDLE"
                   /\ UNCHANGED <<sector, queue, cmd, guardVars, masked, writerVars, resultVars>>

CoordReady == /\ Coord("spin", "mask")
              /\ guard = "WAITING_FOR_CMD"
              /\ UNCHANGED <<sector, queue, cmd, guardVars, masked, writerVars, resultVars>>

CoordMask == /\ Coord("mask", "claim")
             /\ masked' = [masked EXCEPT ![0] = TRUE]
             /\ UNCHANGED <<sector, queue, cmd, guardVars, writerVars, resultVars>>

CoordClaim == /\ Coord("claim", "claimed")
              /\ guard' = "EXECUTING"
              /\ UNCHANGED <<sector, queue, cmd, gpc, notified, masked, writerVars, resultVars>>

CoordErase == /\ Coord("claimed", "erasing")
              /\ sector' = Blank
              /\ UNCHANGED <<queue, cmd, guardVars, masked, writerVars, resultVars>>

CoordProgram == /\ Coord("erasing", "programming")
                /\ sector' = Partial
                /\ UNCHANGED <<queue, cmd, guardVars, masked, writerVars, resultVars>>

CoordProgrammed == /\ Coord("programming", "finish")
                   /\ sector' = request[cmd].image
                   /\ UNCHANGED <<queue, cmd, guardVars, masked, writerVars, resultVars>>

\* Were it like this, the guard would spin for ever (InterruptsComeBack).
CoordFinishForgotten == /\ Coord("finish", "unmask")
                        /\ UNCHANGED <<sector, queue, cmd, guardVars, masked, writerVars, resultVars>>

CoordFinish == /\ Coord("finish", "unmask")
               /\ guard' = "DONE"
               /\ UNCHANGED <<sector, queue, cmd, gpc, notified, masked, writerVars, resultVars>>

CoordUnmask == /\ Coord("unmask", "report")
               /\ masked' = [masked EXCEPT ![0] = FALSE]
               /\ UNCHANGED <<sector, queue, cmd, guardVars, writerVars, resultVars>>

CoordReport == /\ Coord("report", "give")
               /\ success' = [success EXCEPT ![cmd] = TRUE]
               /\ UNCHANGED <<sector, queue, cmd, guardVars, masked, writerVars, given>>

CoordGive == /\ Coord("give", "receive")
             /\ given' = [given EXCEPT ![cmd] = TRUE]
             /\ cmd' = Nobody
             /\ UNCHANGED <<sector, queue, guardVars, masked, writerVars, success>>

-----------------------------------------------------------------------------
(* vFlashGuardTask, on core 1; prvGuardWaitLoop is the points wait and exec *)

Guard(from, to) == gpc = from /\ gpc' = to

GuardTake == /\ Guard("take", "mask")
             /\ notified > 0
             /\ notified' = 0
             /\ UNCHANGED <<sector, queue, coordVars, guard, masked, writerVars, resultVars>>

GuardMask == /\ Guard("mask", "ready")
             /\ masked' = [masked EXCEPT ![1] = TRUE]
             /\ UNCHANGED <<sector, queue, coordVars, guard, notified, writerVars, resultVars>>

GuardReady == /\ Guard("ready", "enter")
              /\ guard' = "WAITING_FOR_CMD"
              /\ UNCHANGED <<sector, queue, coordVars, notified, masked, writerVars, resultVars>>

GuardEnter == /\ Guard("enter", "wait")
              /\ UNCHANGED <<sector, queue, coordVars, guard, notified, masked, writerVars, resultVars>>

GuardWait == /\ Guard("wait", "exec")
             /\ guard # "WAITING_FOR_CMD"
             /\ UNCHANGED <<sector, queue, coordVars, guard, notified, masked, writerVars, resultVars>>

GuardExec == /\ Guard("exec", "reset")
             /\ guard # "EXECUTING"
             /\ UNCHANGED <<sector, queue, coordVars, guard, notified, masked, writerVars, resultVars>>

GuardReset == /\ Guard("reset", "unmask")
              /\ guard' = "IDLE"
              /\ UNCHANGED <<sector, queue, coordVars, notified, masked, writerVars, resultVars>>

GuardUnmask == /\ Guard("unmask", "take")
               /\ masked' = [masked EXCEPT ![1] = FALSE]
               /\ UNCHANGED <<sector, queue, coordVars, guard, notified, writerVars, resultVars>>

-----------------------------------------------------------------------------
\* Power fails, or the watchdog fires, at any moment: only flash survives.
PowerLoss == /\ queue' = <<>>
             /\ cmd' = Nobody
             /\ cpc' = "receive"
             /\ gpc' = "take"
             /\ guard' = "IDLE"
             /\ notified' = 0
             /\ masked' = [k \in Cores |-> FALSE]
             /\ wpc' = [w \in Writers |-> "idle"]
             /\ given' = [w \in Writers |-> FALSE]
             /\ success' = [w \in Writers |-> FALSE]
             /\ UNCHANGED <<sector, request>>

WriterNext(w) == \/ \E i \in Images, a \in BOOLEAN : Call(w, i, a)
                 \/ Send(w) \/ Return(w)
CoordNext == \/ CoordReceive \/ CoordRefuse \/ CoordNotify \/ CoordReady \/ CoordMask
             \/ CoordClaim \/ CoordErase \/ CoordProgram \/ CoordProgrammed
             \/ CoordFinish \/ CoordUnmask \/ CoordReport \/ CoordGive
GuardNext == \/ GuardTake \/ GuardMask \/ GuardReady \/ GuardEnter
             \/ GuardWait \/ GuardExec \/ GuardReset \/ GuardUnmask

Next == (\E w \in Writers : WriterNext(w)) \/ CoordNext \/ GuardNext \/ PowerLoss

Spec == Init /\ [][Next]_vars

\* Both tasks have the highest priority of the system, each on a core of
\* its own.  A writer whose semaphore is given is ready: it may find both
\* cores held for the write of another caller any number of times, but it
\* runs when a core is free again (strong fairness).
Fairness == /\ WF_vars(CoordNext)
            /\ WF_vars(GuardNext)
            /\ \A w \in Writers : SF_vars(Return(w))

FairSpec == Spec /\ Fairness

-----------------------------------------------------------------------------
(* Properties *)

\* The flash hardware is erasing or programming: code cannot be fetched.
Busy == cpc \in {"erasing", "programming"}

InRamLoop == {"wait", "exec"}

(***************************************************************************)
(* While the flash is busy no interrupt and no task but the guard can run: *)
(* both cores have their interrupts disabled, and the guard has called its *)
(* loop or is about to, and cannot leave it.  Whether it is in RAM by then *)
(* is CoresInRam.                                                          *)
(***************************************************************************)
OnlyTheGuardRuns == Busy => /\ \A k \in Cores : masked[k]
                            /\ gpc \in {"enter"} \cup InRamLoop
                            /\ guard = "EXECUTING"

(***************************************************************************)
(* "Both cores are IRQ disabled and in RAM" (c:139): while the flash is    *)
(* busy core 1 is in the loop that is placed in RAM.                       *)
(***************************************************************************)
CoresInRam == Busy => (\A k \in Cores : masked[k]) /\ gpc \in InRamLoop

(***************************************************************************)
(* The handshake: what each task may conclude from its own position and    *)
(* g_guard_state.  In particular the coordinator, once it has seen         *)
(* WAITING_FOR_CMD, finds the guard at its loop until it writes DONE, and  *)
(* a DONE or a notification left over from one write is never taken for    *)
(* the readiness of the next.                                              *)
(***************************************************************************)
Claimed == {"claimed", "erasing", "programming", "finish"}
Ready == {"enter"} \cup InRamLoop

InterruptsFollow == /\ masked[0] <=> cpc \in Claimed \cup {"claim", "unmask"}
                    /\ masked[1] <=> gpc \notin {"take", "mask"}
GuardState == /\ gpc \notin Ready \cup {"reset"} => guard = "IDLE"
              /\ gpc \in {"enter", "wait"} => guard # "IDLE"
              /\ gpc = "exec" => guard \in {"EXECUTING", "DONE"}
              /\ gpc = "reset" => guard = "DONE"
CoordState == /\ cpc \in {"mask", "claim"} => guard = "WAITING_FOR_CMD" /\ notified = 0
              /\ cpc \in Claimed => guard = "EXECUTING" /\ notified = 0
              /\ cpc \notin Claimed => guard # "EXECUTING"
              /\ guard = "WAITING_FOR_CMD" => cpc \in {"spin", "mask", "claim"}
Notification == /\ notified \in {0, 1}
                /\ notified = 1 => cpc = "spin" /\ guard # "WAITING_FOR_CMD" /\ gpc # "mask" /\ gpc # "ready"
                /\ gpc \in {"mask", "ready"} => cpc = "spin"
Handshake == InterruptsFollow /\ GuardState /\ CoordState /\ Notification

(***************************************************************************)
(* A command that was queued is answered, unless the power fails: the      *)
(* handshake of the two cores cannot hang.                                 *)
(***************************************************************************)
QueuedIsAnswered == \A w \in Writers : wpc[w] = "wait" ~> wpc[w] = "idle"

(***************************************************************************)
(* Interrupts never stay disabled, on either core.                         *)
(***************************************************************************)
InterruptsComeBack == \A k \in Cores : []<>~masked[k]

(***************************************************************************)
(* Refinement: every step is one step of FlashService, or none.  A call is *)
(* written from the moment its last page is programmed.                    *)
(***************************************************************************)
StateOf(w) ==
  IF success[w] \/ (cmd = w /\ cpc \in {"finish", "unmask", "report"}) THEN "written"
  ELSE IF given[w] \/ (cmd = w /\ cpc = "give") THEN "refused" ELSE "called"
CallOf(w) ==
  IF wpc[w] = "idle" THEN [state |-> "idle"]
  ELSE [state |-> StateOf(w), image |-> request[w].image, aligned |-> request[w].aligned]

Service == INSTANCE FlashService
             WITH call <- [w \in Writers |-> CallOf(w)],
                  serving <- IF Busy THEN {cmd} ELSE {}
ServiceSpec == Service!Spec
=============================================================================
