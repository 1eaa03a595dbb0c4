---------------------------- MODULE ModbusServer ----------------------------
(***************************************************************************)
(* A Modbus server of the bridge (src/src/modbus/modbus_tcp_server.c; the  *)
(* callbacks of modbus_rtu_slave.c are the same): memory blocks laid over  *)
(* tags, and the loops of modbus_tag_mapping.c that fill a response from   *)
(* the tags or a request into them.  The tags are those of TagDatabase,    *)
(* seen from one task: a read returns the value of the moment, a write     *)
(* goes into the bounded queue and takes effect later, or is dropped when  *)
(* the queue is full, which the server does not report.                    *)
(*                                                                         *)
(* One pass of a loop is one step, so other producers and the database     *)
(* task run in between.  Quality and handles that change their tag are     *)
(* TagDatabase's.  A request is one the protocol library accepts: a known  *)
(* function code, quantity at least 1.                                     *)
(***************************************************************************)
EXTENDS ModbusMapping, Sequences

CONSTANTS BlockLists,   \* the configurations of memory blocks considered
          Typings,      \* the types of the tags considered
          Addresses,    \* addresses a master asks for
          Data(_, _),   \* what a master may write: address, number of registers |-> buffers
          Samples,      \* bound of the model: values other producers write
          QueueLength   \* TAG_DB_QUEUE_LENGTH

CoilTypes == {"COIL", "DISCRETE"}
RegisterTypes == {"HOLDING", "INPUT"}
WriteTypes == {"COIL", "HOLDING"}
BlockTypes == CoilTypes \cup RegisterTypes
Blocks == [enabled : BOOLEAN, type : BlockTypes, start : Nat, count : 1 .. MaxRegs,
           writable : BOOLEAN, encoding : Encodings, handles : Mappings]

ASSUME ServerAssumption == /\ BlockLists \subseteq Seq(Blocks)
                           /\ Typings \subseteq [Handles -> Types \cup {"NONE"}]
                           /\ Addresses \subseteq Nat
                           /\ \A address \in Addresses, n \in 1 .. MaxRegs :
                                Data(address, n) \subseteq [0 .. n - 1 -> Registers]
                           /\ Samples \subseteq Words
                           /\ QueueLength \in Nat \ {0}

VARIABLES blocks,  \* memory_blocks of s_server_config, read once at the start
          type,    \* handle |-> data type of its tag, "NONE" if deleted
          value,   \* handle |-> value of its tag
          queue,   \* s_tag_db_queue: writes accepted and not yet applied
          req,     \* the request in the callback's hands
          i,       \* the loop counter
          skip,    \* skip_next
          regs,    \* the registers of the request or of the response
          last,    \* history: the request served last
          before,  \* history: the tags when it arrived, if it is a write
          calm     \* history: since then nothing else wrote tags, nothing was dropped

config == <<blocks, type>>
loop == <<req, i, skip, regs>>
history == <<last, before, calm>>
serverVars == <<config, value, queue, loop, history>>

Idle == [op |-> "none", block |-> 0, offset |-> 0, count |-> 0]
Requests == [op : {"read", "write"}, block : Nat, offset : Nat, count : Nat]
Buffers == UNION {[0 .. n - 1 -> Registers] : n \in 0 .. MaxRegs}

ServerTypeOK == /\ blocks \in BlockLists
                /\ type \in Typings
                /\ value \in [Handles -> Words]
                /\ queue \in Seq([handle : Handles, value : Words])
                /\ Len(queue) <= QueueLength
                /\ req \in Requests \cup {Idle}
                /\ i \in Nat
                /\ skip \in BOOLEAN
                /\ regs \in Buffers
                /\ last \in Requests \cup {Idle}
                /\ before \in [Handles -> Words]
                /\ calm \in BOOLEAN

NoValues == [h \in Handles |-> ZeroWord]

ServerInit == /\ blocks \in BlockLists
              /\ type \in Typings
              /\ value = NoValues
              /\ queue = <<>>
              /\ req = Idle
              /\ i = 0
              /\ skip = FALSE
              /\ regs = [k \in {} |-> Off]
              /\ last = Idle
              /\ before = NoValues
              /\ calm = FALSE

-----------------------------------------------------------------------------
\* find_server_memory_block: the first enabled block of the type that holds
\* the whole range.
\* Were it like this, a range could leave its block (StaysInBlock).
CoveringStart(t, address, n) ==
  {b \in DOMAIN blocks : /\ blocks[b].enabled /\ blocks[b].type = t
                         /\ blocks[b].start <= address
                         /\ address < blocks[b].start + blocks[b].count}

Covering(t, address, n) ==
  {b \in DOMAIN blocks : /\ blocks[b].enabled /\ blocks[b].type = t
                         /\ blocks[b].start <= address
                         /\ address + n <= blocks[b].start + blocks[b].count}
Found(t, address, n) ==
  {b \in Covering(t, address, n) : \A c \in Covering(t, address, n) : b <= c}

Allowed(b, op) == op = "write" => blocks[b].writable

\* ILLEGAL_DATA_ADDRESS or ILLEGAL_FUNCTION: nothing changes.
Refuse(t, address, n, op) ==
  /\ req = Idle
  /\ \A b \in Found(t, address, n) : ~Allowed(b, op)
  /\ UNCHANGED serverVars

\* What the histories hold: nothing, once something else has written.
Watch(op) == /\ last' = Idle
             /\ before' = IF op = "write" THEN value ELSE NoValues
             /\ calm' = TRUE
Disturb == last' = Idle /\ before' = NoValues /\ calm' = FALSE

\* A callback up to the first pass of its loop.
Serve(t, address, n, op, data) ==
  /\ req = Idle
  /\ \E b \in Found(t, address, n) :
       /\ Allowed(b, op)
       /\ req' = [op |-> op, block |-> b, offset |-> address - blocks[b].start, count |-> n]
  /\ i' = 0
  /\ skip' = FALSE
  /\ regs' = data
  /\ IF queue = <<>> THEN Watch(op) ELSE Disturb
  /\ UNCHANGED <<config, value, queue>>

Block == blocks[req.block]
Entry == Block.handles[req.offset + i]
IsCoil == Block.type \in CoilTypes
IsWide == ~IsCoil /\ type[Entry] = "UINT32"
HasNext == i + 1 < req.count

\* In a loop of operation op, at a register still to do.
At(op) == /\ req.op = op
          /\ i < req.count
          /\ i' = i + 1
          /\ UNCHANGED <<config, req>>
AtTag(op) == At(op) /\ ~skip /\ Exists(type, Entry)
Set(h, w) == [handle |-> h, value |-> w]

\* A register that the tag before it took.
Skip(op) == /\ At(op)
            /\ skip
            /\ skip' = FALSE
            /\ UNCHANGED <<value, queue, regs, history>>

\* Not mapped, or mapped to a tag that is gone: reads as 0, not written.
PassNoTag(op) == /\ At(op)
                 /\ ~skip
                 /\ ~Exists(type, Entry)
                 /\ UNCHANGED <<value, queue, skip, regs, history>>

\* A 32-bit tag whose second register is outside the request.
PassCut(op) == /\ AtTag(op)
               /\ IsWide /\ ~HasNext
               /\ UNCHANGED <<value, queue, skip, regs, history>>

ReadCoil == /\ AtTag("read")
            /\ IsCoil
            /\ regs' = [regs EXCEPT ![i] = ToCoil(value[Entry])]
            /\ UNCHANGED <<value, queue, skip, history>>

ReadOne == /\ AtTag("read")
           /\ ~IsCoil /\ ~IsWide
           /\ regs' = [regs EXCEPT ![i] = ToRegister(type[Entry], value[Entry])]
           /\ UNCHANGED <<value, queue, skip, history>>

\* Were it like this, the second register would be taken for the next tag
\* (ReadsFollowTheMap).
ReadTwoUnskipped ==
  /\ AtTag("read")
  /\ IsWide /\ HasNext
  /\ LET pair == encode_uint32(value[Entry], Block.encoding) IN
       regs' = [regs EXCEPT ![i] = pair[1], ![i + 1] = pair[2]]
  /\ UNCHANGED <<value, queue, skip, history>>

ReadTwo == /\ AtTag("read")
           /\ IsWide /\ HasNext
           /\ LET pair == encode_uint32(value[Entry], Block.encoding) IN
                regs' = [regs EXCEPT ![i] = pair[1], ![i + 1] = pair[2]]
           /\ skip' = TRUE
           /\ UNCHANGED <<value, queue, history>>

\* Were it like this, a full queue would grow (TypeOK).
WriteAnyway(h, w) == queue' = Append(queue, Set(h, w)) /\ UNCHANGED history

\* tag_db_write: the caller ignores that a full queue drops the write.
Write(h, w) == IF Len(queue) < QueueLength
               THEN queue' = Append(queue, Set(h, w)) /\ UNCHANGED history
               ELSE queue' = queue /\ Disturb

WriteCoil == /\ AtTag("write")
             /\ IsCoil
             /\ Write(Entry, FromRegister("BOOL", regs[i]))
             /\ UNCHANGED <<value, skip, regs>>

WriteOne == /\ AtTag("write")
            /\ ~IsCoil /\ ~IsWide
            /\ Write(Entry, FromRegister(type[Entry], regs[i]))
            /\ UNCHANGED <<value, skip, regs>>

\* Were it like this, half of a 32-bit tag could be written (WritesLand).
WriteTwoUnbounded ==
  /\ AtTag("write")
  /\ IsWide
  /\ Write(Entry, decode_uint32(regs[i], IF HasNext THEN regs[i + 1] ELSE Off, Block.encoding))
  /\ skip' = TRUE
  /\ UNCHANGED <<value, regs>>

WriteTwo == /\ AtTag("write")
            /\ IsWide /\ HasNext
            /\ Write(Entry, decode_uint32(regs[i], regs[i + 1], Block.encoding))
            /\ skip' = TRUE
            /\ UNCHANGED <<value, regs>>

\* The callback returns NMBS_ERROR_NONE, and the library sends the response.
Respond == /\ req # Idle
           /\ i = req.count
           /\ req' = Idle
           /\ i' = 0
           /\ skip' = FALSE
           /\ last' = IF calm THEN req ELSE Idle
           /\ UNCHANGED <<config, value, queue, regs, before, calm>>

-----------------------------------------------------------------------------
(* The rest of the program: other producers, and vTagDatabaseTask.          *)

Produce(h, w) ==
  /\ type[h] # "NONE"
  /\ Len(queue) < QueueLength
  /\ queue' = Append(queue, Set(h, w))
  /\ Disturb
  /\ UNCHANGED <<config, value, loop>>

Apply == /\ queue # <<>>
         /\ value' = [value EXCEPT ![Head(queue).handle] = Head(queue).value]
         /\ queue' = Tail(queue)
         /\ UNCHANGED <<config, loop, history>>

Zeros(n) == [k \in 0 .. n - 1 |-> Off]
Pass(op) == Skip(op) \/ PassNoTag(op) \/ PassCut(op)
Loop == \/ \E op \in {"read", "write"} : Pass(op)
        \/ ReadCoil \/ ReadOne \/ ReadTwo
        \/ WriteCoil \/ WriteOne \/ WriteTwo
        \/ Respond

Others == Apply \/ \E h \in Handles, w \in Samples : Produce(h, w)

-----------------------------------------------------------------------------
(* Properties *)

(***************************************************************************)
(* The loops stay within the arrays they run over: every handle they look  *)
(* up is one of the block's, and every register they touch, the second one *)
(* of a 32-bit tag too, is one of the request's.                           *)
(***************************************************************************)
StaysInBlock ==
  req # Idle /\ i < req.count =>
    /\ req.block \in DOMAIN blocks
    /\ req.offset + i < Block.count
    /\ req.offset + i \in DOMAIN Block.handles
    /\ i \in DOMAIN regs
    /\ HasNext => i + 1 \in DOMAIN regs

\* The request served last, while nothing has disturbed what it left.
Settled(op) == req = Idle /\ last.op = op /\ queue = <<>>
LastBlock == blocks[last.block]
LastEntry(k) == LastBlock.handles[last.offset + k]
LastIsCoil == LastBlock.type \in CoilTypes
TakenInBlock == Taken(LastBlock.handles, type, LastBlock.count)

\* The request does not begin in the second register of a 32-bit tag.
Aligned == LastIsCoil \/ ~TakenInBlock[last.offset]
CutOff(k) == /\ ~LastIsCoil
             /\ k = last.count - 1
             /\ ~TakenInBlock[last.offset + k]
             /\ Exists(type, LastEntry(k))
             /\ type[LastEntry(k)] = "UINT32"

(***************************************************************************)
(* A response shows the block's layout, whatever part of it is asked for:  *)
(* a request that begins at a tag reads the registers that the whole block *)
(* has at those addresses, as modbus_map_from_tags lays the same mapping   *)
(* out, but for a 32-bit tag that the request cuts off, which reads 0.     *)
(***************************************************************************)
ReadsFollowTheMap ==
  Settled("read") /\ Aligned =>
    LET image == IF LastIsCoil
                 THEN CoilsFromTags(LastBlock.handles, type, value, LastBlock.count)
                 ELSE modbus_map_from_tags(LastBlock.handles, type, value,
                                           LastBlock.count, LastBlock.encoding)
    IN \A k \in 0 .. last.count - 1 :
         regs[k] = IF CutOff(k) THEN Off ELSE image[last.offset + k]

(***************************************************************************)
(* A write that was acknowledged, and lost nothing to a full queue, has    *)
(* set every tag that it holds all registers of to what a read of those    *)
(* registers will return, and no other tag: half a 32-bit value is never   *)
(* written, and unmapped addresses are discarded.                          *)
(***************************************************************************)
Canonical(t, r) == CASE t = "BOOL"   -> IF r # Off THEN On ELSE Off
                     [] t = "UINT8"  -> <<0, r[2]>>
                     [] t = "UINT16" -> r
Shows(h, k) ==
  IF LastIsCoil THEN ToCoil(value[h]) = Canonical("BOOL", regs[k])
  ELSE IF type[h] = "UINT32"
       THEN encode_uint32(value[h], LastBlock.encoding) = <<regs[k], regs[k + 1]>>
       ELSE ToRegister(type[h], value[h]) = Canonical(type[h], regs[k])
Held(h) == {k \in 0 .. last.count - 1 :
              /\ LastEntry(k) = h
              /\ LastIsCoil \/ ~TakenInBlock[last.offset + k]
              /\ ~CutOff(k)}
WritesLand ==
  Settled("write") /\ Aligned =>
    \A h \in Handles : IF Exists(type, h) /\ Held(h) # {} THEN Shows(h, Last(Held(h)))
                       ELSE value[h] = before[h]
=============================================================================
