---------------------------- MODULE FlashService ----------------------------
(***************************************************************************)
(* What flash_storage_write promises to its callers: calls are served one  *)
(* at a time; a call that returns true has erased the sector and programmed*)
(* its own image after it was made; a call that returns false has changed  *)
(* nothing.  A power loss may strike between any two steps and leaves the  *)
(* sector as it is.  FlashStorage implements this specification with two   *)
(* tasks, one on each core.                                                *)
(***************************************************************************)
CONSTANTS Writers,   \* tasks that write to flash
          Images,    \* what they may write
          Blank,     \* the content of an erased sector
          Partial    \* the content of a sector while it is programmed

VARIABLES sector,    \* content of the sector
          call,      \* writer |-> the call it is in
          serving    \* the calls being served, at most one

vars == <<sector, call, serving>>

Idle == [state |-> "idle"]
Calls == [state : {"called", "written", "refused"}, image : Images, aligned : BOOLEAN]

Init == /\ sector \in Images \cup {Blank}
        /\ call = [w \in Writers |-> Idle]
        /\ serving = {}

Call(w, i, a) ==
  /\ call[w] = Idle
  /\ call' = [call EXCEPT ![w] = [state |-> "called", image |-> i, aligned |-> a]]
  /\ UNCHANGED <<sector, serving>>

Erase(w) == /\ serving = {}
            /\ call[w].state = "called"
            /\ call[w].aligned
            /\ serving' = {w}
            /\ sector' = Blank
            /\ UNCHANGED call

Program(w) == /\ serving = {w}
              /\ sector = Blank
              /\ sector' = Partial
              /\ UNCHANGED <<call, serving>>

Finish(w) == /\ serving = {w}
             /\ sector = Partial
             /\ sector' = call[w].image
             /\ call' = [call EXCEPT ![w] = [@ EXCEPT !.state = "written"]]
             /\ serving' = {}

Refuse(w) == /\ call[w].state = "called"
             /\ ~call[w].aligned
             /\ call' = [call EXCEPT ![w] = [@ EXCEPT !.state = "refused"]]
             /\ UNCHANGED <<sector, serving>>

Return(w) == /\ call[w].state \in {"written", "refused"}
             /\ call' = [call EXCEPT ![w] = Idle]
             /\ UNCHANGED <<sector, serving>>

PowerLoss == /\ call' = [w \in Writers |-> Idle]
             /\ serving' = {}
             /\ UNCHANGED sector

Next == \/ \E w \in Writers :
             \/ \E i \in Images, a \in BOOLEAN : Call(w, i, a)
             \/ Erase(w) \/ Program(w) \/ Finish(w)
             \/ Refuse(w) \/ Return(w)
        \/ PowerLoss

Spec == Init /\ [][Next]_vars
=============================================================================
