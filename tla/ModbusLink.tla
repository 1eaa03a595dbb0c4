----------------------------- MODULE ModbusLink -----------------------------
(***************************************************************************)
(* Two bridges over Modbus: a server (ModbusServer), and a client with one *)
(* request, which it runs again and again                                  *)
(* (src/src/modbus/modbus_request_processor.c).  Other masters use the     *)
(* server between the client's polls; the server serves one request at a   *)
(* time.  A response may be lost, or come after the client's timeout, when *)
(* it is discarded.                                                        *)
(*                                                                         *)
(* The client's tags change at once: the way through its own tag database  *)
(* is TagDatabase.  A request is one that the web form can store and that  *)
(* a client sends (no write to a read-only data type).                     *)
(***************************************************************************)
EXTENDS ModbusServer

CONSTANT Polls  \* the requests considered

ASSUME LinkAssumption ==
  Polls \subseteq [op : {"read", "write"}, type : BlockTypes, start : Nat,
                   count : 1 .. MaxRegs, encoding : Encodings, handles : Mappings]
ASSUME WritesAreAllowed == \A p \in Polls : p.op = "write" => p.type \in WriteTypes

VARIABLES poll,      \* modbus_request_config_t of the client's request
          theirs,    \* handle |-> data type of the client's tag
          tags,      \* handle |-> value of the client's tag
          quality,   \* handle |-> its quality
          asked,     \* the client waits for a response
          answer     \* history: the last served request is the client's, and it took the response

clientVars == <<poll, theirs, tags, quality, asked, answer>>
vars == <<serverVars, clientVars>>

TypeOK == /\ ServerTypeOK
          /\ poll \in Polls
          /\ theirs \in Typings
          /\ tags \in [Handles -> Words]
          /\ quality \in [Handles -> {"GOOD", "BAD", "UNCERTAIN"}]
          /\ asked \in BOOLEAN
          /\ answer \in BOOLEAN

Init == /\ ServerInit
        /\ poll \in Polls
        /\ theirs \in Typings
        /\ tags = [h \in Handles |-> ZeroWord]
        /\ quality = [h \in Handles |-> "UNCERTAIN"]
        /\ asked = FALSE
        /\ answer = FALSE

PollIsCoil == poll.type \in CoilTypes
Marked(q) == [h \in Handles |->
                IF Exists(theirs, h) /\ \E k \in 0 .. poll.count - 1 : poll.handles[k] = h
                THEN q ELSE quality[h]]

\* What the client sends: modbus_map_from_tags, for a write.
Sent == IF poll.op = "read" THEN Zeros(poll.count)
        ELSE IF PollIsCoil THEN CoilsFromTags(poll.handles, theirs, tags, poll.count)
        ELSE modbus_map_from_tags(poll.handles, theirs, tags, poll.count, poll.encoding)

ClientAsks == /\ ~asked
              /\ asked' = TRUE
              /\ answer' = FALSE
              /\ Serve(poll.type, poll.start, poll.count, poll.op, Sent)
              /\ UNCHANGED <<poll, theirs, tags, quality>>

\* modbus_mark_mapped_tags_bad: after a read that failed.
MarkBad == IF poll.op = "read"
           THEN /\ tags' = DummyToTags(poll.handles, theirs, tags, poll.count)
                /\ quality' = Marked("BAD")
           ELSE UNCHANGED <<tags, quality>>

ClientRefused == /\ ~asked
                 /\ answer' = FALSE
                 /\ Refuse(poll.type, poll.start, poll.count, poll.op)
                 /\ MarkBad
                 /\ UNCHANGED <<poll, theirs, asked>>

ClientTimesOut == /\ asked
                  /\ asked' = FALSE
                  /\ MarkBad
                  /\ UNCHANGED <<serverVars, poll, theirs, answer>>

\* modbus_map_to_tags, after a read that succeeded.  A tag is marked GOOD
\* when it was written.
Taking(h) == \E k \in 0 .. poll.count - 1 :
               /\ poll.handles[k] = h
               /\ Exists(theirs, h)
               /\ PollIsCoil
                  \/ RegIdx(poll.handles, theirs, poll.count)[k] + Size(theirs[h]) <= poll.count
ClientTakes ==
  /\ asked
  /\ req = Idle
  /\ asked' = FALSE
  /\ answer' = TRUE
  /\ IF poll.op = "read"
     THEN /\ tags' = IF PollIsCoil
                     THEN CoilsToTags(poll.handles, theirs, tags, poll.count, regs)
                     ELSE modbus_map_to_tags(poll.handles, theirs, tags, poll.count,
                                             poll.encoding, regs)
          /\ quality' = [h \in Handles |-> IF Taking(h) THEN "GOOD" ELSE quality[h]]
     ELSE UNCHANGED <<tags, quality>>
  /\ UNCHANGED <<serverVars, poll, theirs>>

\* Another task of the client's bridge writes a tag, of a request that
\* sends it; a tag that a request reads has no other source.
ClientProduces(h, w) ==
  /\ ~asked
  /\ poll.op = "write"
  /\ Exists(theirs, h)
  /\ tags' = [tags EXCEPT ![h] = w]
  /\ quality' = [quality EXCEPT ![h] = "GOOD"]
  /\ answer' = FALSE
  /\ UNCHANGED <<serverVars, poll, theirs, asked>>

\* Another master.  A request that is refused changes nothing.
MasterAsks(t, address, n, op, data) ==
  /\ ~asked
  /\ Serve(t, address, n, op, data)
  /\ answer' = FALSE
  /\ UNCHANGED <<poll, theirs, tags, quality, asked>>
MasterReads(t, address, n) == MasterAsks(t, address, n, "read", Zeros(n))
MasterWrites(t, address, n) ==
  \E data \in IF t = "COIL" THEN [0 .. n - 1 -> {Off, On}]
              ELSE Data(address, n) :
    MasterAsks(t, address, n, "write", data)

Next == \/ ClientAsks \/ ClientRefused \/ ClientTakes \/ ClientTimesOut
        \/ \E h \in Handles, w \in Samples : ClientProduces(h, w)
        \/ \E t \in BlockTypes, p \in Addresses, n \in 1 .. MaxRegs : MasterReads(t, p, n)
        \/ \E t \in WriteTypes, p \in Addresses, n \in 1 .. MaxRegs : MasterWrites(t, p, n)
        \/ Loop /\ UNCHANGED clientVars
        \/ Others /\ UNCHANGED clientVars

Spec == Init /\ [][Next]_vars
-----------------------------------------------------------------------------
(* Properties *)

\* Every tag once; and every register is of exactly one tag.  The entry of the
\* second register of a 32-bit tag is not mapped: a tag there would be passed
\* over to send, but would move reg_idx on after a read.
Once(m, n) == \A j, k \in 0 .. n - 1 : m[j] = m[k] => j = k \/ m[j] = Unmapped
Packed == \A k \in 0 .. poll.count - 1 :
            Exists(theirs, poll.handles[k])
              <=> (PollIsCoil \/ ~Taken(poll.handles, theirs, poll.count)[k])

\* The two tags at the client's register k, when both begin there, have one
\* type, and have their registers within the request.
AgreeAt(k) ==
  LET mine == LastEntry(k)
      its == poll.handles[k]
      comparable ==
        /\ Exists(type, mine) /\ Exists(theirs, its)
        /\ type[mine] = theirs[its]
        /\ ~TakenInBlock[last.offset + k] /\ ~CutOff(k)
        /\ ~Taken(poll.handles, theirs, poll.count)[k]
  IN IF LastIsCoil
     THEN Exists(type, mine) /\ Exists(theirs, its) => ToCoil(value[mine]) = ToCoil(tags[its])
     ELSE comparable => IF type[mine] = "UINT32" THEN value[mine] = tags[its]
                        ELSE ToRegister(type[mine], value[mine]) = ToRegister(type[mine], tags[its])

Exchanged == /\ Settled(poll.op)
             /\ answer
             /\ Aligned
             /\ poll.encoding = LastBlock.encoding
             /\ Once(poll.handles, poll.count)
             /\ Once(LastBlock.handles, LastBlock.count)

(***************************************************************************)
(* After a poll that succeeded, reading or writing, tags of one type that  *)
(* the two bridges lay over the same registers are equal, in every         *)
(* encoding, wherever the request lies in the block, provided no register  *)
(* of the request is without a tag.                                        *)
(***************************************************************************)
ClientMirrorsServer ==
  Exchanged /\ Packed => \A k \in 0 .. poll.count - 1 : AgreeAt(k)

(***************************************************************************)
(* The same with registers left out: "Reg/Coil 0 through Reg/Coil 9        *)
(* correspond to the registers starting at Start Address", and "Not Mapped"*)
(* skips one (docs/wiki/Web-Interface:-Modbus-RTU.md:71-72).               *)
(***************************************************************************)
EntriesAreRegisters ==
  Exchanged => \A k \in 0 .. poll.count - 1 : AgreeAt(k)
=============================================================================
