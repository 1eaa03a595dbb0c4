---------------------------- MODULE MCModbusLink ----------------------------
(***************************************************************************)
(* Instances of ModbusLink for TLC: a holding block of three registers,    *)
(* writable or not, and a coil block of two, over two tags.                *)
(***************************************************************************)
EXTENDS ModbusLink
LOCAL INSTANCE TLC

CONSTANTS a, b, none

Map(x, y, z) == (0 :> x) @@ (1 :> y) @@ (2 :> z)

Holding(m, w) == [enabled |-> TRUE, type |-> "HOLDING", start |-> 1, count |-> 3,
                  writable |-> w, encoding |-> "DCBA", handles |-> m]
Coils == [enabled |-> TRUE, type |-> "COIL", start |-> 1, count |-> 2,
          writable |-> TRUE, encoding |-> "ABCD", handles |-> Map(b, a, none)]
MCBlockLists == {<<Holding(Map(a, none, b), TRUE)>>,
                 <<Holding(Map(b, a, none), TRUE)>>,
                 <<Coils, Holding(Map(a, b, none), FALSE)>>}

Typing(s, t) == (a :> s) @@ (b :> t)
MCTypings == {Typing("UINT32", "UINT8"), Typing("UINT16", "NONE")}

Poll(o, t, n, e, m) == [op |-> o, type |-> t, start |-> 1, count |-> n,
                        encoding |-> e, handles |-> m]
MCPolls == {Poll("read", "HOLDING", 3, "DCBA", Map(a, none, b)),
            Poll("write", "HOLDING", 3, "DCBA", Map(b, a, none)),
            Poll("read", "COIL", 2, "ABCD", Map(b, a, none)),
            Poll("write", "COIL", 2, "ABCD", Map(a, b, none))}

MCGapPolls == {Poll("read", "HOLDING", 3, "DCBA", Map(none, a, none))}

MCSamples == {<<0, 1, 2, 3>>}
MCRegisters == <<<<0, 1>>, <<2, 3>>, <<0, 1>>, <<2, 3>>, <<0, 1>>>>
MCData(address, n) == {[k \in 0 .. n - 1 |-> MCRegisters[address + k]]}
=============================================================================
