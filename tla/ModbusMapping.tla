---------------------------- MODULE ModbusMapping ----------------------------
(***************************************************************************)
(* How tags and Modbus registers are laid over each other                  *)
(* (src/src/modbus/modbus_tag_mapping.c), as operators without state: the  *)
(* encodings of a 32-bit value in two registers, the conversions of one    *)
(* tag, and the two passes of a client over its mapping.                   *)
(*                                                                         *)
(* A register is its two bytes, and a tag value the four bytes of its      *)
(* union tag_value_t, both from the most significant byte on.  INT16 is    *)
(* converted as UINT16, and INT32 and FLOAT are moved as UINT32.  A coil   *)
(* is the register of a BOOL, <<0, 0>> or <<0, 1>>.  A mapping is a        *)
(* function on 0 .. MaxRegs - 1, as tag_handles is.                        *)
(***************************************************************************)
EXTENDS Naturals

CONSTANTS Byte,      \* the values of a byte; 0 and 1 are enough to model
          Handles,   \* tag handles
          Unmapped,  \* MODBUS_TAG_MAP_INVALID
          MaxRegs    \* MODBUS_MAX_REG_COUNT

ASSUME MappingAssumption == /\ {0, 1} \subseteq Byte
                            /\ Unmapped \notin Handles
                            /\ MaxRegs \in Nat \ {0}

Registers == Byte \X Byte
Words == Byte \X Byte \X Byte \X Byte
Types == {"BOOL", "UINT8", "UINT16", "UINT32"}
Encodings == {"ABCD", "BADC", "CDAB", "DCBA"}
Mappings == [0 .. MaxRegs - 1 -> Handles \cup {Unmapped}]

Off == <<0, 0>>
On == <<0, 1>>
ZeroWord == <<0, 0, 0, 0>>
High(w) == <<w[1], w[2]>>
Low(w) == <<w[3], w[4]>>

-----------------------------------------------------------------------------
swap16(r) == <<r[2], r[1]>>

LowFirst(e) == e \in {"BADC", "DCBA"}
InRegister(e, r) == IF e \in {"CDAB", "DCBA"} THEN swap16(r) ELSE r

encode_uint32(w, e) ==
  IF LowFirst(e) THEN <<InRegister(e, Low(w)), InRegister(e, High(w))>>
  ELSE <<InRegister(e, High(w)), InRegister(e, Low(w))>>

\* Were it like this, the words of DCBA would come back exchanged (WritesLand,
\* ClientMirrorsServer).
decode_uint32_DCBA(r, s, e) ==
  LET hi == InRegister(e, IF e = "BADC" THEN s ELSE r)
      lo == InRegister(e, IF e = "BADC" THEN r ELSE s)
  IN <<hi[1], hi[2], lo[1], lo[2]>>

decode_uint32(r, s, e) ==
  LET hi == InRegister(e, IF LowFirst(e) THEN s ELSE r)
      lo == InRegister(e, IF LowFirst(e) THEN r ELSE s)
  IN <<hi[1], hi[2], lo[1], lo[2]>>

\* The register of a tag that takes one, and the value it takes from one.
ToRegister(t, w) == CASE t = "BOOL"   -> <<0, IF w[4] # 0 THEN 1 ELSE 0>>
                      [] t = "UINT8"  -> <<0, w[4]>>
                      [] t = "UINT16" -> Low(w)
FromRegister(t, r) == CASE t = "BOOL"   -> <<0, 0, 0, IF r # Off THEN 1 ELSE 0>>
                        [] t = "UINT8"  -> <<0, 0, 0, r[2]>>
                        [] t = "UINT16" -> <<0, 0, r[1], r[2]>>

\* A coil reads as set when any member of the union is not zero.
ToCoil(w) == IF w # ZeroWord THEN On ELSE Off

-----------------------------------------------------------------------------
(* The client, over its mapping m, with the types and values of its tags.   *)
(* A tag that does not exist has no type.                                   *)

Exists(type, h) == h # Unmapped /\ type[h] \in Types

\* modbus_map_from_tags for holding registers, to send: by position, where a
\* 32-bit tag takes its register and the next.
Taken(m, type, n) ==
  LET taken[i \in 0 .. n - 1] ==
        /\ i > 0
        /\ ~taken[i - 1]
        /\ Exists(type, m[i - 1])
        /\ type[m[i - 1]] = "UINT32"
  IN taken

modbus_map_from_tags(m, type, value, n, e) ==
  LET taken == Taken(m, type, n)
      pair(i) == encode_uint32(value[m[i]], e)
  IN [i \in 0 .. n - 1 |->
        IF taken[i] THEN pair(i - 1)[2]
        ELSE IF ~Exists(type, m[i]) THEN Off
        ELSE IF type[m[i]] # "UINT32" THEN ToRegister(type[m[i]], value[m[i]])
        ELSE IF i + 1 < n THEN pair(i)[1]
        ELSE IF LowFirst(e) THEN pair(i)[1] ELSE pair(i)[2]]

\* modbus_map_to_tags, with what a read returned: reg_idx runs over the
\* registers, and only a tag that takes some moves it on.
Size(t) == IF t = "UINT32" THEN 2 ELSE 1

\* Were it like this, a 32-bit tag would move reg_idx on by one register
\* (ClientMirrorsServer).
RegIdxByOne(m, type, n) ==
  LET idx[i \in 0 .. n] ==
        IF i = 0 THEN 0
        ELSE idx[i - 1] + (IF Exists(type, m[i - 1]) THEN 1 ELSE 0)
  IN idx

RegIdx(m, type, n) ==
  LET idx[i \in 0 .. n] ==
        IF i = 0 THEN 0
        ELSE IF Exists(type, m[i - 1]) /\ idx[i - 1] + Size(type[m[i - 1]]) <= n
             THEN idx[i - 1] + Size(type[m[i - 1]])
             ELSE idx[i - 1]
  IN idx

\* The last entry that writes a tag decides: the queue keeps the order.
Last(S) == CHOOSE i \in S : \A j \in S : j <= i

modbus_map_to_tags(m, type, value, n, e, regs) ==
  LET idx == RegIdx(m, type, n)
      writers(h) == {i \in 0 .. n - 1 : m[i] = h /\ idx[i] + Size(type[h]) <= n}
      written(h) == LET r == idx[Last(writers(h))] IN
                    IF type[h] = "UINT32" THEN decode_uint32(regs[r], regs[r + 1], e)
                    ELSE FromRegister(type[h], regs[r])
  IN [h \in Handles |->
        IF Exists(type, h) /\ writers(h) # {} THEN written(h) ELSE value[h]]

\* The same two for coils, where every entry is one coil.
CoilsFromTags(m, type, value, n) ==
  [i \in 0 .. n - 1 |-> IF Exists(type, m[i]) THEN ToCoil(value[m[i]]) ELSE Off]

CoilsToTags(m, type, value, n, coils) ==
  LET writers(h) == {i \in 0 .. n - 1 : m[i] = h}
  IN [h \in Handles |->
        IF Exists(type, h) /\ writers(h) # {}
        THEN FromRegister("BOOL", coils[Last(writers(h))]) ELSE value[h]]

\* modbus_mark_mapped_tags_bad, the value: a dummy of zeros.
DummyToTags(m, type, value, n) ==
  [h \in Handles |-> IF Exists(type, h) /\ \E i \in 0 .. n - 1 : m[i] = h
                     THEN ZeroWord ELSE value[h]]
=============================================================================
