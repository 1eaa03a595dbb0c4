---------------------------- MODULE ModbusProofs ----------------------------
(***************************************************************************)
(* Theorems about the Modbus side, for any blocks, mappings, tags, data    *)
(* and number of registers: the encodings invert each other; every         *)
(* variable has its type and the server's loops stay within the block and  *)
(* the buffer they run over (invariant Bounds); a response shows the       *)
(* block's layout (ReadInv, on top of Bounds); an acknowledged write lands *)
(* (WriteInv, on top of ReadInv); and client and server show each other's  *)
(* tags (LinkInv, on top of WriteInv).                                     *)
(*                                                                         *)
(* What the two recursive passes of a client compute is proved by          *)
(* induction over the position, from the least element of a set of natural *)
(* numbers.                                                                *)
(***************************************************************************)
EXTENDS ModbusLink, WellFoundedInduction, TLAPS

(***************************************************************************)
(* What encode_uint32 puts into two registers, decode_uint32 takes out,    *)
(* for every value and each of the four encodings.                         *)
(***************************************************************************)
THEOREM DecodeInvertsEncode ==
  ASSUME NEW w \in Words, NEW e \in Encodings
  PROVE  LET pair == encode_uint32(w, e) IN decode_uint32(pair[1], pair[2], e) = w
<1>1. w = <<w[1], w[2], w[3], w[4]>>
  BY DEF Words
<1> QED
  BY <1>1 DEF Encodings, encode_uint32, decode_uint32, LowFirst, InRegister, swap16, High, Low

(***************************************************************************)
(* And the other way round: two registers that a master wrote are read     *)
(* back unchanged.                                                         *)
(***************************************************************************)
THEOREM EncodeInvertsDecode ==
  ASSUME NEW r \in Registers, NEW s \in Registers, NEW e \in Encodings
  PROVE  encode_uint32(decode_uint32(r, s, e), e) = <<r, s>>
<1>1. r = <<r[1], r[2]>> /\ s = <<s[1], s[2]>>
  BY DEF Registers
<1> QED
  BY <1>1 DEF Encodings, encode_uint32, decode_uint32, LowFirst, InRegister, swap16, High, Low


-----------------------------------------------------------------------------
(* Induction over the natural numbers, in the form of sets.                 *)

Below == {ss \in Nat \X Nat : ss[1] < ss[2]}

LEMMA BelowIsWellFounded == IsWellFoundedOn(Below, Nat)
  BY NatLessThanWellFounded, Zenon DEF OpToRel, Below

LEMMA Least ==
  ASSUME NEW S, S \subseteq Nat, S # {}
  PROVE  \E m \in S : \A k \in S : m <= k
<1>1. PICK x \in S : \A y \in S : ~ (<<y, x>> \in Below)
  BY BelowIsWellFounded, WFMin, Zenon
<1>2. ASSUME NEW y \in S
      PROVE  x <= y
  <2>1. ~(<<y, x>> \in Below) /\ x \in Nat /\ y \in Nat
    BY <1>1
  <2>2. y < x => <<y, x>> \in Below
    BY <2>1 DEF Below
  <2> QED
    BY <2>1, <2>2
<1> QED
  BY <1>2

LEMMA Induction ==
  ASSUME NEW S, 0 \in S, \A n \in Nat : n \in S => n + 1 \in S
  PROVE  Nat \subseteq S
<1> SUFFICES ASSUME Nat \ S # {}
             PROVE  FALSE
  OBVIOUS
<1>1. PICK m \in Nat \ S : \A k \in Nat \ S : m <= k
  BY Least
<1>2. m # 0 /\ m - 1 \in Nat /\ ~(m <= m - 1)
  BY <1>1
<1>3. m - 1 \in S
  BY <1>1, <1>2
<1>4. (m - 1) + 1 = m
  BY <1>1
<1> QED
  BY <1>1, <1>2, <1>3, <1>4

\* Last(S) of a bounded set that is not empty.
LEMMA LastIsMaximal ==
  ASSUME NEW n \in Nat, NEW S, S \subseteq 0 .. n - 1, S # {}
  PROVE  Last(S) \in S /\ \A j \in S : j <= Last(S)
<1> DEFINE R == {n - j : j \in S}
<1>1. R \subseteq Nat /\ R # {}
  OBVIOUS
<1> HIDE DEF R
<1>2. PICK r \in R : \A x \in R : r <= x
  BY <1>1, Least
<1>3. PICK m \in S : r = n - m
  BY <1>2 DEF R
<1>4. \A j \in S : j <= m
  <2> SUFFICES ASSUME NEW j \in S PROVE j <= m
    OBVIOUS
  <2>1. n - j \in R
    BY DEF R
  <2>2. n - m <= n - j
    BY <1>2, <1>3, <2>1
  <2> QED
    BY <2>2
<1> QED
  BY <1>4 DEF Last

-----------------------------------------------------------------------------
(* The two recursive functions of a client's passes: each is the one that   *)
(* its definition names.                                                    *)

TakenAt(f, m, ty, k) == /\ k > 0
                        /\ ~f[k - 1]
                        /\ Exists(ty, m[k - 1])
                        /\ ty[m[k - 1]] = "UINT32"
IsTaken(f, m, ty, n) == f = [k \in 0 .. n - 1 |-> TakenAt(f, m, ty, k)]

LEMMA TakenExists ==
  ASSUME NEW m, NEW ty, NEW n \in Nat
  PROVE  \E f : IsTaken(f, m, ty, n)
<1> DEFINE S == {k \in Nat : \E f : f = [j \in 0 .. k - 1 |-> TakenAt(f, m, ty, j)]}
<1>1. 0 \in S
  <2> DEFINE nothing == [j \in {} |-> FALSE]
  <2>1. 0 .. 0 - 1 = {}
    OBVIOUS
  <2>2. nothing = [j \in 0 .. 0 - 1 |-> TakenAt(nothing, m, ty, j)]
    BY <2>1
  <2> QED
    BY <2>2
<1>2. ASSUME NEW k \in Nat, k \in S
      PROVE  k + 1 \in S
  <2>1. PICK f : f = [j \in 0 .. k - 1 |-> TakenAt(f, m, ty, j)]
    BY <1>2
  <2> DEFINE g == [j \in 0 .. k |-> IF j = k THEN TakenAt(f, m, ty, k) ELSE f[j]]
  <2>2. ASSUME NEW j \in 0 .. k
        PROVE  TakenAt(g, m, ty, j) = TakenAt(f, m, ty, j) /\ g[j] = TakenAt(f, m, ty, j)
    <3>1. j > 0 => g[j - 1] = f[j - 1]
      OBVIOUS
    <3>2. TakenAt(g, m, ty, j) = TakenAt(f, m, ty, j)
      BY <3>1 DEF TakenAt
    <3>3. CASE j = k
      BY <3>2, <3>3
    <3>4. CASE j # k
      <4>1. j \in 0 .. k - 1
        BY <3>4
      <4>2. f[j] = TakenAt(f, m, ty, j)
        BY <2>1, <4>1
      <4>3. g[j] = f[j]
        BY <3>4
      <4> QED
        BY <3>2, <4>2, <4>3
    <3> QED
      BY <3>3, <3>4
  <2>3. g = [j \in 0 .. k |-> TakenAt(g, m, ty, j)]
    BY <2>2
  <2>4. 0 .. k = 0 .. (k + 1) - 1
    OBVIOUS
  <2> HIDE DEF g
  <2> QED
    BY <2>3, <2>4
<1> HIDE DEF S
<1>3. Nat \subseteq S
  BY <1>1, <1>2, Induction
<1> QED
  BY <1>3 DEF S, IsTaken

LEMMA TakenIs ==
  ASSUME NEW m, NEW ty, NEW n \in Nat
  PROVE  Taken(m, ty, n) = [k \in 0 .. n - 1 |-> TakenAt(Taken(m, ty, n), m, ty, k)]
<1>1. PICK g : IsTaken(g, m, ty, n)
  BY TakenExists
<1>2. Taken(m, ty, n) = CHOOSE f : IsTaken(f, m, ty, n)
  BY Zenon DEF Taken, TakenAt, IsTaken
<1> QED
  BY <1>1, <1>2, Zenon DEF IsTaken

\* What the loops compare with: the first register is of no tag before it,
\* and the one after a tag is that tag's if the tag takes two.
LEMMA TakenNext ==
  ASSUME NEW m, NEW ty, NEW n \in Nat
  PROVE  /\ Taken(m, ty, n) \in [0 .. n - 1 -> BOOLEAN]
         /\ n > 0 => ~Taken(m, ty, n)[0]
         /\ \A k \in 0 .. n - 1 : k + 1 < n =>
              (Taken(m, ty, n)[k + 1]
                 <=> ~Taken(m, ty, n)[k] /\ Exists(ty, m[k]) /\ ty[m[k]] = "UINT32")
<1> DEFINE T == Taken(m, ty, n)
<1>1. T = [k \in 0 .. n - 1 |-> TakenAt(T, m, ty, k)]
  BY TakenIs
<1> HIDE DEF T
<1>2. \A k \in 0 .. n - 1 : TakenAt(T, m, ty, k) \in BOOLEAN
  BY DEF TakenAt
<1>3. T \in [0 .. n - 1 -> BOOLEAN]
  BY <1>1, <1>2
<1>4. n > 0 => ~T[0]
  BY <1>1 DEF TakenAt
<1>5. ASSUME NEW k \in 0 .. n - 1, k + 1 < n
      PROVE  T[k + 1] <=> ~T[k] /\ Exists(ty, m[k]) /\ ty[m[k]] = "UINT32"
  <2>1. k + 1 \in 0 .. n - 1 /\ (k + 1) - 1 = k /\ k + 1 > 0
    BY <1>5
  <2>2. T[k + 1] = TakenAt(T, m, ty, k + 1)
    BY <1>1, <2>1
  <2> QED
    BY <2>1, <2>2 DEF TakenAt
<1> QED
  BY <1>3, <1>4, <1>5 DEF T

IdxAt(f, m, ty, n, k) ==
  IF k = 0 THEN 0
  ELSE IF Exists(ty, m[k - 1]) /\ f[k - 1] + Size(ty[m[k - 1]]) <= n
       THEN f[k - 1] + Size(ty[m[k - 1]])
       ELSE f[k - 1]
IsIdx(f, m, ty, n) == f = [k \in 0 .. n |-> IdxAt(f, m, ty, n, k)]

LEMMA IdxExists ==
  ASSUME NEW m, NEW ty, NEW n \in Nat
  PROVE  \E f : IsIdx(f, m, ty, n)
<1> DEFINE S == {k \in Nat : \E f : f = [j \in 0 .. k |-> IdxAt(f, m, ty, n, j)]}
<1>1. 0 \in S
  <2> DEFINE start == [j \in 0 .. 0 |-> 0]
  <2>1. \A j \in 0 .. 0 : IdxAt(start, m, ty, n, j) = 0
    BY DEF IdxAt
  <2>2. start = [j \in 0 .. 0 |-> IdxAt(start, m, ty, n, j)]
    BY <2>1
  <2> QED
    BY <2>2
<1>2. ASSUME NEW k \in Nat, k \in S
      PROVE  k + 1 \in S
  <2>1. PICK f : f = [j \in 0 .. k |-> IdxAt(f, m, ty, n, j)]
    BY <1>2
  <2> DEFINE g == [j \in 0 .. k + 1 |-> IF j = k + 1 THEN IdxAt(f, m, ty, n, k + 1) ELSE f[j]]
  <2>2. ASSUME NEW j \in 0 .. k + 1
        PROVE  IdxAt(g, m, ty, n, j) = IdxAt(f, m, ty, n, j) /\ g[j] = IdxAt(f, m, ty, n, j)
    <3>1. j # 0 => g[j - 1] = f[j - 1]
      OBVIOUS
    <3>2. IdxAt(g, m, ty, n, j) = IdxAt(f, m, ty, n, j)
      BY <3>1 DEF IdxAt
    <3>3. CASE j = k + 1
      BY <3>2, <3>3
    <3>4. CASE j # k + 1
      <4>1. j \in 0 .. k
        BY <3>4
      <4>2. f[j] = IdxAt(f, m, ty, n, j)
        BY <2>1, <4>1
      <4>3. g[j] = f[j]
        BY <3>4
      <4> QED
        BY <3>2, <4>2, <4>3
    <3> QED
      BY <3>3, <3>4
  <2>3. g = [j \in 0 .. k + 1 |-> IdxAt(g, m, ty, n, j)]
    BY <2>2
  <2> HIDE DEF g
  <2> QED
    BY <2>3
<1> HIDE DEF S
<1>3. Nat \subseteq S
  BY <1>1, <1>2, Induction
<1> QED
  BY <1>3 DEF S, IsIdx

LEMMA IdxIs ==
  ASSUME NEW m, NEW ty, NEW n \in Nat
  PROVE  RegIdx(m, ty, n) = [k \in 0 .. n |-> IdxAt(RegIdx(m, ty, n), m, ty, n, k)]
<1>1. PICK g : IsIdx(g, m, ty, n)
  BY IdxExists
<1>2. RegIdx(m, ty, n) = CHOOSE f : IsIdx(f, m, ty, n)
  BY Zenon DEF RegIdx, IdxAt, IsIdx
<1> QED
  BY <1>1, <1>2, Zenon DEF IsIdx

\* reg_idx counts registers, and never passes the end of the request.
LEMMA IdxType ==
  ASSUME NEW m, NEW ty, NEW n \in Nat
  PROVE  RegIdx(m, ty, n) \in [0 .. n -> 0 .. n]
<1> DEFINE X == RegIdx(m, ty, n)
<1>1. X = [k \in 0 .. n |-> IdxAt(X, m, ty, n, k)]
  BY IdxIs
<1> HIDE DEF X
<1> DEFINE S == {k \in Nat : k <= n => X[k] \in 0 .. n}
<1>2. 0 \in S
  BY <1>1 DEF IdxAt
<1>3. ASSUME NEW k \in Nat, k \in S
      PROVE  k + 1 \in S
  <2> SUFFICES ASSUME k + 1 <= n
               PROVE  X[k + 1] \in 0 .. n
    OBVIOUS
  <2>1. X[k + 1] = IdxAt(X, m, ty, n, k + 1) /\ (k + 1) - 1 = k /\ k + 1 # 0
    BY <1>1
  <2>2. X[k] \in 0 .. n
    BY <1>3
  <2>3. Size(ty[m[k]]) \in Nat
    BY DEF Size
  <2> QED
    BY <2>1, <2>2, <2>3 DEF IdxAt
<1> HIDE DEF S
<1>4. Nat \subseteq S
  BY <1>2, <1>3, Induction
<1>5. \A k \in 0 .. n : X[k] \in 0 .. n
  BY <1>4 DEF S
<1> QED
  BY <1>1, <1>5 DEF X

\* Where every register is of exactly one tag, reg_idx is at the entry, or
\* one ahead at the second register of a 32-bit tag.
LEMMA IdxOfPacked ==
  ASSUME NEW m, NEW ty, NEW n \in Nat,
         \A k \in 0 .. n - 1 : Exists(ty, m[k]) <=> ~Taken(m, ty, n)[k]
  PROVE  \A k \in 0 .. n - 1 :
           RegIdx(m, ty, n)[k] = IF Taken(m, ty, n)[k] THEN k + 1 ELSE k
<1> DEFINE X == RegIdx(m, ty, n)
           T == Taken(m, ty, n)
<1>1. X = [k \in 0 .. n |-> IdxAt(X, m, ty, n, k)]
  BY IdxIs
<1>2. /\ T \in [0 .. n - 1 -> BOOLEAN]
      /\ n > 0 => ~T[0]
      /\ \A k \in 0 .. n - 1 : k + 1 < n =>
           (T[k + 1] <=> ~T[k] /\ Exists(ty, m[k]) /\ ty[m[k]] = "UINT32")
  BY TakenNext
<1>3. \A k \in 0 .. n - 1 : Exists(ty, m[k]) <=> ~T[k]
  OBVIOUS
<1> HIDE DEF X, T
<1> DEFINE S == {k \in Nat : k < n => X[k] = IF T[k] THEN k + 1 ELSE k}
<1>4. 0 \in S
  BY <1>1, <1>2 DEF IdxAt
<1>5. ASSUME NEW k \in Nat, k \in S
      PROVE  k + 1 \in S
  <2> SUFFICES ASSUME k + 1 < n
               PROVE  X[k + 1] = IF T[k + 1] THEN (k + 1) + 1 ELSE k + 1
    OBVIOUS
  <2>1. X[k + 1] = IdxAt(X, m, ty, n, k + 1) /\ (k + 1) - 1 = k /\ k + 1 # 0
    BY <1>1
  <2>2. X[k] = IF T[k] THEN k + 1 ELSE k
    BY <1>5
  <2>3. k \in 0 .. n - 1
    OBVIOUS
  <2>4. CASE T[k]
    <3>1. ~Exists(ty, m[k]) /\ ~T[k + 1]
      BY <1>2, <1>3, <2>3, <2>4
    <3> QED
      BY <2>1, <2>2, <2>4, <3>1 DEF IdxAt
  <2>5. CASE ~T[k]
    <3>1. Exists(ty, m[k]) /\ (T[k + 1] <=> ty[m[k]] = "UINT32")
      BY <1>2, <1>3, <2>3, <2>5
    <3>2. k + Size(ty[m[k]]) <= n /\ Size(ty[m[k]]) = IF ty[m[k]] = "UINT32" THEN 2 ELSE 1
      BY DEF Size
    <3>3. X[k + 1] = k + Size(ty[m[k]])
      BY <2>1, <2>2, <2>5, <3>1, <3>2 DEF IdxAt
    <3> QED
      BY <3>1, <3>2, <3>3
  <2> QED
    BY <2>4, <2>5
<1> HIDE DEF S
<1>6. Nat \subseteq S
  BY <1>4, <1>5, Induction
<1> QED
  BY <1>6 DEF S, X, T

-----------------------------------------------------------------------------
(* What the conversions return.                                             *)

LEMMA Constants == Off \in Registers /\ On \in Registers /\ ZeroWord \in Words
  BY MappingAssumption DEF Off, On, ZeroWord, Registers, Words

LEMMA RegisterOfWord ==
  ASSUME NEW w \in Words
  PROVE  /\ \A t \in Types \ {"UINT32"} : ToRegister(t, w) \in Registers
         /\ ToCoil(w) \in Registers
         /\ \A e \in Encodings : encode_uint32(w, e)[1] \in Registers
                                 /\ encode_uint32(w, e)[2] \in Registers
<1>1. w[1] \in Byte /\ w[2] \in Byte /\ w[3] \in Byte /\ w[4] \in Byte
  BY DEF Words
<1>2. High(w) \in Registers /\ Low(w) \in Registers
  BY <1>1 DEF High, Low, Registers
<1>3. \A e \in Encodings, r \in Registers : InRegister(e, r) \in Registers
  BY DEF InRegister, swap16, Registers
<1>4. ASSUME NEW t \in Types \ {"UINT32"}
      PROVE  ToRegister(t, w) \in Registers
  BY <1>1, <1>2, MappingAssumption DEF ToRegister, Types, Registers
<1>5. \A e \in Encodings : encode_uint32(w, e)[1] \in Registers
                           /\ encode_uint32(w, e)[2] \in Registers
  BY <1>2, <1>3 DEF encode_uint32
<1>6. ToCoil(w) \in Registers
  BY Constants DEF ToCoil
<1> QED
  BY <1>4, <1>5, <1>6

LEMMA WordOfRegister ==
  ASSUME NEW r \in Registers
  PROVE  /\ \A t \in Types \ {"UINT32"} : FromRegister(t, r) \in Words
         /\ \A s \in Registers, e \in Encodings : decode_uint32(r, s, e) \in Words
<1>1. \A s \in Registers : s[1] \in Byte /\ s[2] \in Byte
  BY DEF Registers
<1>2. ASSUME NEW t \in Types \ {"UINT32"}
      PROVE  FromRegister(t, r) \in Words
  BY <1>1, MappingAssumption DEF FromRegister, Types, Words
<1>3. ASSUME NEW s \in Registers, NEW e \in Encodings
      PROVE  decode_uint32(r, s, e) \in Words
  <2>1. \A x \in Registers : InRegister(e, x) \in Registers
    BY DEF InRegister, swap16, Registers
  <2> QED
    BY <1>1, <2>1 DEF decode_uint32, Words
<1> QED
  BY <1>2, <1>3

\* Of one that has a tag: the type is no "NONE".
LEMMA TypeOfTag ==
  ASSUME NEW ty, ty \in [Handles -> Types \cup {"NONE"}],
         NEW h \in Handles \cup {Unmapped}, Exists(ty, h)
  PROVE  h \in Handles /\ ty[h] \in Types
  BY DEF Exists

LEMMA FromTagsType ==
  ASSUME NEW m \in Mappings, NEW ty \in [Handles -> Types \cup {"NONE"}],
         NEW v \in [Handles -> Words], NEW n \in 0 .. MaxRegs, NEW e \in Encodings
  PROVE  /\ modbus_map_from_tags(m, ty, v, n, e) \in [0 .. n - 1 -> Registers]
         /\ CoilsFromTags(m, ty, v, n) \in [0 .. n - 1 -> Registers]
<1>1. n \in Nat /\ \A k \in 0 .. n - 1 : k \in 0 .. MaxRegs - 1
  BY MappingAssumption
<1>2. \A k \in 0 .. n - 1 : m[k] \in Handles \cup {Unmapped}
  BY <1>1 DEF Mappings
<1> DEFINE T == Taken(m, ty, n)
<1>3. /\ T \in [0 .. n - 1 -> BOOLEAN]
      /\ n > 0 => ~T[0]
      /\ \A k \in 0 .. n - 1 : k + 1 < n =>
           (T[k + 1] <=> ~T[k] /\ Exists(ty, m[k]) /\ ty[m[k]] = "UINT32")
  BY <1>1, TakenNext
<1> HIDE DEF T
<1> DEFINE pair(k) == encode_uint32(v[m[k]], e)
           R(k) == IF T[k] THEN pair(k - 1)[2]
                   ELSE IF ~Exists(ty, m[k]) THEN Off
                   ELSE IF ty[m[k]] # "UINT32" THEN ToRegister(ty[m[k]], v[m[k]])
                   ELSE IF k + 1 < n THEN pair(k)[1]
                   ELSE IF LowFirst(e) THEN pair(k)[1] ELSE pair(k)[2]
<1>4. ASSUME NEW k \in 0 .. n - 1, Exists(ty, m[k])
      PROVE  /\ m[k] \in Handles /\ ty[m[k]] \in Types
             /\ pair(k)[1] \in Registers /\ pair(k)[2] \in Registers
             /\ ty[m[k]] # "UINT32" => ToRegister(ty[m[k]], v[m[k]]) \in Registers
             /\ ToCoil(v[m[k]]) \in Registers
  <2>1. m[k] \in Handles /\ ty[m[k]] \in Types
    BY <1>2, <1>4, TypeOfTag
  <2>2. v[m[k]] \in Words
    BY <2>1
  <2> QED
    BY <2>1, <2>2, RegisterOfWord
<1>5. ASSUME NEW k \in 0 .. n - 1
      PROVE  R(k) \in Registers
  <2>1. CASE T[k]
    <3>1. k > 0
      BY <1>3, <2>1
    <3>2. k - 1 \in 0 .. n - 1 /\ (k - 1) + 1 < n /\ (k - 1) + 1 = k
      BY <3>1
    <3>3. Exists(ty, m[k - 1])
      BY <1>3, <2>1, <3>2
    <3> QED
      BY <1>4, <2>1, <3>2, <3>3
  <2>2. CASE ~T[k] /\ ~Exists(ty, m[k])
    BY <2>2, Constants
  <2>3. CASE ~T[k] /\ Exists(ty, m[k])
    <3> HIDE DEF pair
    <3> QED
      BY <1>4, <2>3
  <2> QED
    BY <2>1, <2>2, <2>3
<1>6. modbus_map_from_tags(m, ty, v, n, e) = [k \in 0 .. n - 1 |-> R(k)]
  BY DEF modbus_map_from_tags, T
<1> HIDE DEF R
<1>7. modbus_map_from_tags(m, ty, v, n, e) \in [0 .. n - 1 -> Registers]
  BY <1>5, <1>6
<1>8. CoilsFromTags(m, ty, v, n) \in [0 .. n - 1 -> Registers]
  BY <1>4, Constants DEF CoilsFromTags
<1> QED
  BY <1>7, <1>8

\* modbus_map_to_tags, with the local definitions named.
Writers(m, ty, n, h) == {k \in 0 .. n - 1 : m[k] = h /\ RegIdx(m, ty, n)[k] + Size(ty[h]) <= n}
LEMMA ToTagsIs ==
  ASSUME NEW m, NEW ty, NEW v, NEW n, NEW e, NEW r, NEW h \in Handles
  PROVE  modbus_map_to_tags(m, ty, v, n, e, r)[h] =
           LET W == Writers(m, ty, n, h)
               x == RegIdx(m, ty, n)[Last(W)]
           IN IF Exists(ty, h) /\ W # {}
              THEN IF ty[h] = "UINT32" THEN decode_uint32(r[x], r[x + 1], e)
                   ELSE FromRegister(ty[h], r[x])
              ELSE v[h]
  BY DEF modbus_map_to_tags, Writers

LEMMA ToTagsType ==
  ASSUME NEW m \in Mappings, NEW ty \in [Handles -> Types \cup {"NONE"}],
         NEW v \in [Handles -> Words], NEW n \in 0 .. MaxRegs, NEW e \in Encodings,
         NEW r \in [0 .. n - 1 -> Registers]
  PROVE  /\ modbus_map_to_tags(m, ty, v, n, e, r) \in [Handles -> Words]
         /\ CoilsToTags(m, ty, v, n, r) \in [Handles -> Words]
         /\ DummyToTags(m, ty, v, n) \in [Handles -> Words]
<1>1. n \in Nat
  BY MappingAssumption
<1>2. ASSUME NEW h \in Handles
      PROVE  modbus_map_to_tags(m, ty, v, n, e, r)[h] \in Words
  <2> DEFINE W == Writers(m, ty, n, h)
             x == RegIdx(m, ty, n)[Last(W)]
  <2>1. CASE ~(Exists(ty, h) /\ W # {})
    BY <2>1, ToTagsIs
  <2>2. CASE Exists(ty, h) /\ W # {}
    <3>1. W \subseteq 0 .. n - 1
      BY DEF Writers
    <3>2. Last(W) \in W
      BY <1>1, <2>2, <3>1, LastIsMaximal
    <3>3. Last(W) \in 0 .. n /\ x + Size(ty[h]) <= n
      BY <1>1, <3>2 DEF Writers
    <3>4. x \in 0 .. n
      BY <1>1, <3>3, IdxType
    <3>5. ty[h] \in Types
      BY <2>2 DEF Exists
    <3> HIDE DEF x, W
    <3>6. modbus_map_to_tags(m, ty, v, n, e, r)[h] =
            IF ty[h] = "UINT32" THEN decode_uint32(r[x], r[x + 1], e)
            ELSE FromRegister(ty[h], r[x])
      BY <2>2, ToTagsIs DEF x, W
    <3>7. CASE ty[h] = "UINT32"
      <4>1. x \in 0 .. n - 1 /\ x + 1 \in 0 .. n - 1
        BY <1>1, <3>3, <3>4, <3>7 DEF Size
      <4>2. r[x] \in Registers /\ r[x + 1] \in Registers
        BY <4>1
      <4> QED
        BY <3>6, <3>7, <4>2, WordOfRegister
    <3>8. CASE ty[h] # "UINT32"
      <4>1. x \in 0 .. n - 1
        BY <1>1, <3>3, <3>4, <3>8 DEF Size
      <4>2. r[x] \in Registers
        BY <4>1
      <4> QED
        BY <3>5, <3>6, <3>8, <4>2, WordOfRegister
    <3> QED
      BY <3>7, <3>8
  <2> QED
    BY <2>1, <2>2
<1>3. modbus_map_to_tags(m, ty, v, n, e, r) \in [Handles -> Words]
  BY <1>2 DEF modbus_map_to_tags
<1>4. CoilsToTags(m, ty, v, n, r) \in [Handles -> Words]
  <2>1. ASSUME NEW h \in Handles, {k \in 0 .. n - 1 : m[k] = h} # {}
        PROVE  FromRegister("BOOL", r[Last({k \in 0 .. n - 1 : m[k] = h})]) \in Words
    <3> DEFINE W == {k \in 0 .. n - 1 : m[k] = h}
    <3>1. W \subseteq 0 .. n - 1 /\ W # {}
      BY <2>1
    <3> HIDE DEF W
    <3>2. Last(W) \in 0 .. n - 1
      BY <1>1, <3>1, LastIsMaximal
    <3>3. r[Last(W)] \in Registers
      BY <3>2
    <3>4. "BOOL" \in Types \ {"UINT32"}
      BY DEF Types
    <3> QED
      BY <3>3, <3>4, WordOfRegister DEF W
  <2> QED
    BY <2>1 DEF CoilsToTags
<1>5. DummyToTags(m, ty, v, n) \in [Handles -> Words]
  BY Constants DEF DummyToTags
<1> QED
  BY <1>3, <1>4, <1>5

-----------------------------------------------------------------------------
(* Types, and the bounds of the server's loops.                             *)

\* A request in hand lies in its block, and its buffer has one register for
\* each of its addresses.
InHand == /\ req.op \in {"read", "write"}
          /\ req.block \in DOMAIN blocks
          /\ req.offset \in Nat
          /\ req.count \in 1 .. MaxRegs
          /\ i \in 0 .. req.count
          /\ req.offset + req.count <= Block.count
          /\ regs \in [0 .. req.count - 1 -> Registers]

\* The buffer stays the client's until the client has taken it.
Asking == asked => regs \in [0 .. poll.count - 1 -> Registers]

Bounds == TypeOK /\ (req # Idle => InHand) /\ Asking

LEMMA PollType ==
  ASSUME poll \in Polls
  PROVE  /\ poll.op \in {"read", "write"}
         /\ poll.type \in BlockTypes
         /\ poll.start \in Nat
         /\ poll.count \in 1 .. MaxRegs /\ poll.count \in Nat
         /\ poll.encoding \in Encodings
         /\ poll.handles \in Mappings
<1>1. poll \in [op : {"read", "write"}, type : BlockTypes, start : Nat,
                count : 1 .. MaxRegs, encoding : Encodings, handles : Mappings]
  BY LinkAssumption
<1> QED
  BY <1>1, MappingAssumption

LEMMA TypingType ==
  /\ type \in Typings => type \in [Handles -> Types \cup {"NONE"}]
  /\ theirs \in Typings => theirs \in [Handles -> Types \cup {"NONE"}]
  BY ServerAssumption

LEMMA BlockType ==
  ASSUME blocks \in BlockLists, NEW b \in DOMAIN blocks
  PROVE  /\ b \in Nat
         /\ blocks[b].start \in Nat
         /\ blocks[b].count \in 1 .. MaxRegs /\ blocks[b].count \in Nat
         /\ blocks[b].type \in BlockTypes
         /\ blocks[b].encoding \in Encodings
         /\ blocks[b].handles \in Mappings
<1>1. blocks \in Seq(Blocks)
  BY ServerAssumption
<1>2. b \in Nat /\ blocks[b] \in Blocks
  BY <1>1
<1> QED
  BY <1>2, MappingAssumption DEF Blocks

LEMMA SentType ==
  ASSUME TypeOK
  PROVE  Sent \in [0 .. poll.count - 1 -> Registers]
<1>1. /\ poll.count \in 0 .. MaxRegs
      /\ poll.encoding \in Encodings
      /\ poll.handles \in Mappings
  BY PollType, MappingAssumption DEF TypeOK
<1>2. theirs \in [Handles -> Types \cup {"NONE"}] /\ tags \in [Handles -> Words]
  BY TypingType DEF TypeOK
<1>3. Zeros(poll.count) \in [0 .. poll.count - 1 -> Registers]
  BY Constants DEF Zeros
<1> QED
  BY <1>1, <1>2, <1>3, FromTagsType DEF Sent

LEMMA NoValuesType == NoValues \in [Handles -> Words]
  BY Constants DEF NoValues

\* A block that was found holds the whole range.
LEMMA ServedIsInBlock ==
  ASSUME ServerTypeOK, NEW t, NEW address \in Nat, NEW n \in 1 .. MaxRegs,
         NEW op \in {"read", "write"}, NEW data \in [0 .. n - 1 -> Registers],
         Serve(t, address, n, op, data)
  PROVE  ServerTypeOK' /\ InHand' /\ regs' = data /\ req'.count = n
<1>1. PICK b \in Found(t, address, n) :
        req' = [op |-> op, block |-> b, offset |-> address - blocks[b].start, count |-> n]
  BY DEF Serve
<1>2. /\ b \in DOMAIN blocks
      /\ blocks[b].start <= address
      /\ address + n <= blocks[b].start + blocks[b].count
  BY <1>1 DEF Found, Covering
<1>3. b \in Nat /\ blocks[b].start \in Nat /\ blocks[b].count \in Nat
  BY <1>2, BlockType DEF ServerTypeOK
<1>4. n \in Nat
  BY MappingAssumption
<1>5. /\ req'.op = op
      /\ req'.block = b
      /\ req'.offset = address - blocks[b].start
      /\ req'.count = n
  BY <1>1
<1>6. /\ blocks' = blocks /\ type' = type /\ value' = value /\ queue' = queue
      /\ i' = 0 /\ skip' = FALSE /\ regs' = data
  BY DEF Serve, config
<1>7. InHand'
  BY <1>2, <1>3, <1>4, <1>5, <1>6 DEF InHand, Block
<1>8. req' \in Requests
  BY <1>1, <1>2, <1>3, <1>4 DEF Requests
<1>9. last' = Idle /\ before' \in [Handles -> Words] /\ calm' \in BOOLEAN
  BY NoValuesType DEF Serve, Watch, Disturb, ServerTypeOK
<1>10. regs' \in Buffers
  BY <1>4, <1>6, MappingAssumption DEF Buffers
<1> QED
  BY <1>5, <1>6, <1>7, <1>8, <1>9, <1>10 DEF ServerTypeOK

LEMMA InitInBounds == Init => Bounds
<1> SUFFICES ASSUME Init PROVE Bounds
  OBVIOUS
<1>1. /\ blocks \in BlockLists /\ type \in Typings /\ value = NoValues /\ queue = <<>>
      /\ req = Idle /\ i = 0 /\ skip = FALSE /\ regs = [k \in {} |-> Off]
      /\ last = Idle /\ before = NoValues /\ calm = FALSE
  BY DEF Init, ServerInit
<1>2. [k \in {} |-> Off] \in Buffers
  <2>1. 0 \in 0 .. MaxRegs /\ 0 .. 0 - 1 = {}
    BY MappingAssumption
  <2>2. [k \in {} |-> Off] \in [0 .. 0 - 1 -> Registers]
    BY <2>1
  <2> QED
    BY <2>1, <2>2 DEF Buffers
<1>3. ServerTypeOK
  <2>1. <<>> \in Seq([handle : Handles, value : Words]) /\ Len(<<>>) <= QueueLength
    BY ServerAssumption
  <2> QED
    BY <1>1, <1>2, <2>1, NoValuesType DEF ServerTypeOK
<1>4. TypeOK
  BY <1>3, Constants DEF TypeOK, Init
<1> QED
  BY <1>1, <1>4 DEF Bounds, Asking, Init

\* The entry of a loop's position, and the registers a loop may touch.
LEMMA EntryType ==
  ASSUME Bounds, req # Idle, i < req.count
  PROVE  /\ Block.encoding \in Encodings
         /\ i \in 0 .. req.count - 1
         /\ HasNext => i + 1 \in 0 .. req.count - 1
         /\ req.offset + i \in 0 .. MaxRegs - 1
         /\ req.offset + i \in 0 .. Block.count - 1
         /\ Entry \in Handles \cup {Unmapped}
         /\ Exists(type, Entry) => /\ Entry \in Handles
                                   /\ type[Entry] \in Types
                                   /\ value[Entry] \in Words
<1>1. InHand /\ blocks \in BlockLists
  BY DEF Bounds, TypeOK, ServerTypeOK
<1>2. /\ Block.encoding \in Encodings
      /\ Block.count \in 1 .. MaxRegs /\ Block.count \in Nat
      /\ Block.handles \in Mappings
  BY <1>1, BlockType DEF InHand, Block
<1>3. /\ i \in 0 .. req.count - 1
      /\ HasNext => i + 1 \in 0 .. req.count - 1
      /\ req.offset + i \in 0 .. MaxRegs - 1
      /\ req.offset + i \in 0 .. Block.count - 1
  BY <1>1, <1>2, MappingAssumption DEF InHand, HasNext
<1>4. Entry \in Handles \cup {Unmapped}
  BY <1>2, <1>3 DEF Mappings, Entry
<1>5. Exists(type, Entry) => Entry \in Handles /\ type[Entry] \in Types /\ value[Entry] \in Words
  BY <1>4, TypingType DEF Bounds, TypeOK, ServerTypeOK, Exists
<1> QED
  BY <1>2, <1>3, <1>4, <1>5

\* A pass of a loop, from what it does to the registers, the queue and the
\* histories.
LEMMA PassStaysInBounds ==
  ASSUME Bounds, NEW op \in {"read", "write"}, At(op),
         regs' \in [0 .. req.count - 1 -> Registers],
         queue' \in Seq([handle : Handles, value : Words]), Len(queue') <= QueueLength,
         value' = value, skip' \in BOOLEAN,
         UNCHANGED history \/ Disturb,
         UNCHANGED clientVars
  PROVE  Bounds'
<1>1. /\ blocks' = blocks /\ type' = type /\ req' = req /\ req.op = op
      /\ i < req.count /\ i' = i + 1
  BY DEF At, config
<1>2. req # Idle /\ InHand
  BY <1>1 DEF Idle, Bounds
<1>3. InHand'
  <2>1. req.count \in Nat /\ i \in Nat
    BY <1>2, MappingAssumption DEF InHand
  <2>2. i' \in 0 .. req.count
    BY <1>1, <2>1
  <2> QED
    BY <1>1, <1>2, <2>2 DEF InHand, Block
<1>4. regs' \in Buffers
  <2>1. req.count \in 0 .. MaxRegs
    BY <1>2, MappingAssumption DEF InHand
  <2> QED
    BY <2>1 DEF Buffers
<1>5. ServerTypeOK
  BY DEF Bounds, TypeOK
<1>6. last' \in Requests \cup {Idle} /\ before' \in [Handles -> Words] /\ calm' \in BOOLEAN
  BY <1>5, NoValuesType DEF history, Disturb, ServerTypeOK
<1>7. ServerTypeOK'
  <2>1. i' \in Nat
    BY <1>1, <1>5 DEF ServerTypeOK
  <2> QED
    BY <1>1, <1>4, <1>5, <1>6, <2>1 DEF ServerTypeOK
<1>8. TypeOK'
  BY <1>7 DEF TypeOK, clientVars, Bounds
<1>9. Asking'
  <2> SUFFICES ASSUME asked
               PROVE  regs' \in [0 .. poll.count - 1 -> Registers]
    BY DEF Asking, clientVars
  <2>1. DOMAIN regs = 0 .. poll.count - 1 /\ DOMAIN regs = 0 .. req.count - 1
    BY <1>2 DEF Bounds, Asking, InHand
  <2> QED
    BY <2>1
<1> QED
  BY <1>1, <1>3, <1>8, <1>9 DEF Bounds

LEMMA WriteIntoQueue ==
  ASSUME ServerTypeOK, NEW h \in Handles, NEW w \in Words, Write(h, w)
  PROVE  /\ queue' \in Seq([handle : Handles, value : Words])
         /\ Len(queue') <= QueueLength
         /\ UNCHANGED history \/ Disturb
<1>1. Set(h, w) \in [handle : Handles, value : Words]
  BY DEF Set
<1>2. /\ queue \in Seq([handle : Handles, value : Words])
      /\ Len(queue) \in Nat /\ Len(queue) <= QueueLength
      /\ QueueLength \in Nat
  BY ServerAssumption DEF ServerTypeOK
<1>3. CASE Len(queue) < QueueLength
  <2>1. queue' = Append(queue, Set(h, w)) /\ UNCHANGED history
    BY <1>3 DEF Write
  <2>2. Len(queue') = Len(queue) + 1 /\ queue' \in Seq([handle : Handles, value : Words])
    BY <1>1, <1>2, <2>1
  <2> QED
    BY <1>2, <1>3, <2>1, <2>2
<1>4. CASE ~(Len(queue) < QueueLength)
  BY <1>2, <1>4 DEF Write
<1> QED
  BY <1>3, <1>4

LEMMA LoopStaysInBounds ==
  ASSUME Bounds, Loop, UNCHANGED clientVars
  PROVE  Bounds'
<1>1. CASE Respond
  <2>1. /\ req' = Idle /\ i' = 0 /\ skip' = FALSE /\ regs' = regs
        /\ blocks' = blocks /\ type' = type /\ value' = value /\ queue' = queue
        /\ last' \in {req, Idle} /\ before' = before /\ calm' = calm
    BY <1>1 DEF Respond, config
  <2> QED
    BY <2>1 DEF Bounds, TypeOK, ServerTypeOK, Asking, clientVars
<1> DEFINE R == [0 .. req.count - 1 -> Registers]
           Q == Seq([handle : Handles, value : Words])
<1>2. ASSUME NEW op \in {"read", "write"}, At(op)
      PROVE  /\ req # Idle /\ i < req.count /\ InHand /\ req.op = op
             /\ regs \in R
             /\ queue \in Q /\ Len(queue) <= QueueLength
             /\ skip \in BOOLEAN
             /\ ServerTypeOK
  BY <1>2 DEF At, Idle, Bounds, InHand, TypeOK, ServerTypeOK
<1>3. ASSUME NEW op \in {"read", "write"}, Pass(op)
      PROVE  Bounds'
  <2>1. /\ At(op) /\ value' = value /\ queue' = queue /\ regs' = regs
        /\ skip' \in {FALSE, skip} /\ UNCHANGED history
    BY <1>3 DEF Pass, Skip, PassNoTag, PassCut, AtTag
  <2> QED
    BY <2>1, <1>2, PassStaysInBounds
<1>4. CASE ReadCoil \/ ReadOne
  <2>1. /\ AtTag("read") /\ value' = value /\ queue' = queue /\ skip' = skip
        /\ UNCHANGED history
    BY <1>4 DEF ReadCoil, ReadOne
  <2>2. At("read") /\ Exists(type, Entry)
    BY <2>1 DEF AtTag
  <2>3. Entry \in Handles /\ type[Entry] \in Types /\ value[Entry] \in Words
    BY <1>2, <2>2, EntryType
  <2>4. CASE ReadCoil
    <3>1. ToCoil(value[Entry]) \in Registers
      BY <2>3, RegisterOfWord
    <3>2. regs' \in R
      BY <1>2, <2>2, <2>4, <3>1 DEF ReadCoil
    <3> QED
      BY <1>2, <2>1, <2>2, <3>2, PassStaysInBounds
  <2>5. CASE ReadOne
    <3>1. type[Entry] # "UINT32"
      BY <2>5 DEF ReadOne, IsWide
    <3>2. ToRegister(type[Entry], value[Entry]) \in Registers
      BY <2>3, <3>1, RegisterOfWord
    <3>3. regs' \in R
      BY <1>2, <2>2, <2>5, <3>2 DEF ReadOne
    <3> QED
      BY <1>2, <2>1, <2>2, <3>3, PassStaysInBounds
  <2> QED
    BY <1>4, <2>4, <2>5
<1>5. CASE ReadTwo
  <2> DEFINE pair == encode_uint32(value[Entry], Block.encoding)
  <2>1. /\ At("read") /\ Exists(type, Entry) /\ value' = value /\ queue' = queue
        /\ skip' = TRUE /\ UNCHANGED history
        /\ regs' = [regs EXCEPT ![i] = pair[1], ![i + 1] = pair[2]]
    BY <1>5 DEF ReadTwo, AtTag
  <2>2. value[Entry] \in Words /\ Block.encoding \in Encodings
    BY <1>2, <2>1, EntryType
  <2>3. pair[1] \in Registers /\ pair[2] \in Registers
    BY <2>2, RegisterOfWord
  <2> HIDE DEF pair
  <2>4. regs' \in R
    BY <1>2, <2>1, <2>3
  <2> QED
    BY <1>2, <2>1, <2>4, PassStaysInBounds
<1>6. CASE WriteCoil \/ WriteOne \/ WriteTwo
  <2>1. /\ At("write") /\ Exists(type, Entry) /\ value' = value /\ regs' = regs
        /\ skip' \in {skip, TRUE}
    BY <1>6 DEF WriteCoil, WriteOne, WriteTwo, AtTag
  <2>2. /\ Entry \in Handles /\ type[Entry] \in Types /\ Block.encoding \in Encodings
        /\ i \in 0 .. req.count - 1
        /\ HasNext => i + 1 \in 0 .. req.count - 1
    BY <1>2, <2>1, EntryType
  <2>3. regs[i] \in Registers /\ (HasNext => regs[i + 1] \in Registers)
    BY <1>2, <2>1, <2>2
  <2>4. PICK w \in Words : Write(Entry, w)
    <3>1. CASE WriteCoil
      <4>1. Write(Entry, FromRegister("BOOL", regs[i])) /\ "BOOL" \in Types \ {"UINT32"}
        BY <3>1 DEF WriteCoil, Types
      <4> QED
        BY <2>3, <4>1, WordOfRegister
    <3>2. CASE WriteOne
      <4>1. Write(Entry, FromRegister(type[Entry], regs[i])) /\ type[Entry] # "UINT32"
        BY <3>2 DEF WriteOne, IsWide
      <4> QED
        BY <2>2, <2>3, <4>1, WordOfRegister
    <3>3. CASE WriteTwo
      <4>1. Write(Entry, decode_uint32(regs[i], regs[i + 1], Block.encoding)) /\ HasNext
        BY <3>3 DEF WriteTwo
      <4> QED
        BY <2>2, <2>3, <4>1, WordOfRegister
    <3> QED
      BY <1>6, <3>1, <3>2, <3>3
  <2>5. /\ queue' \in Q /\ Len(queue') <= QueueLength
        /\ UNCHANGED history \/ Disturb
    BY <1>2, <2>1, <2>2, <2>4, WriteIntoQueue
  <2> QED
    BY <1>2, <2>1, <2>5, PassStaysInBounds
<1> QED
  BY <1>1, <1>3, <1>4, <1>5, <1>6 DEF Loop

LEMMA OthersStayInBounds ==
  ASSUME Bounds, Others, UNCHANGED clientVars
  PROVE  Bounds'
<1> DEFINE Q == Seq([handle : Handles, value : Words])
<1>1. ServerTypeOK /\ queue \in Q /\ Len(queue) <= QueueLength /\ QueueLength \in Nat
  BY ServerAssumption DEF Bounds, TypeOK, ServerTypeOK
<1>2. /\ blocks' = blocks /\ type' = type /\ req' = req /\ i' = i /\ skip' = skip /\ regs' = regs
  BY DEF Others, Apply, Produce, config, loop
<1>3. /\ value' \in [Handles -> Words]
      /\ queue' \in Q /\ Len(queue') <= QueueLength
      /\ UNCHANGED history \/ Disturb
  <2>1. CASE Apply
    <3>1. queue # <<>> /\ queue' = Tail(queue) /\ UNCHANGED history
          /\ value' = [value EXCEPT ![Head(queue).handle] = Head(queue).value]
      BY <2>1 DEF Apply
    <3>2. \A E : queue \in Seq(E) =>
            /\ Head(queue) \in E
            /\ Tail(queue) \in Seq(E)
            /\ Len(Tail(queue)) = Len(queue) - 1 /\ Len(queue) \in Nat
      BY <3>1
    <3>3. /\ Head(queue) \in [handle : Handles, value : Words]
          /\ queue' \in Q
          /\ Len(queue') = Len(queue) - 1 /\ Len(queue) \in Nat
      BY <1>1, <3>1, <3>2
    <3>4. value' \in [Handles -> Words]
      BY <1>1, <3>1, <3>3 DEF ServerTypeOK
    <3> QED
      BY <1>1, <3>1, <3>3, <3>4
  <2>2. ASSUME NEW h \in Handles, NEW w \in Samples, Produce(h, w)
        PROVE  /\ value' = value /\ Disturb
               /\ queue' \in Q /\ Len(queue') <= QueueLength
    <3>1. Set(h, w) \in [handle : Handles, value : Words]
      BY ServerAssumption DEF Set
    <3>2. queue' = Append(queue, Set(h, w)) /\ Len(queue) < QueueLength /\ value' = value /\ Disturb
      BY <2>2 DEF Produce
    <3>3. queue' \in Q /\ Len(queue') = Len(queue) + 1 /\ Len(queue) \in Nat
      BY <1>1, <3>1, <3>2
    <3> QED
      BY <1>1, <3>2, <3>3
  <2>3. value \in [Handles -> Words]
    BY <1>1 DEF ServerTypeOK
  <2> HIDE DEF Q
  <2> QED
    BY <2>1, <2>2, <2>3 DEF Others
<1>4. last' \in Requests \cup {Idle} /\ before' \in [Handles -> Words] /\ calm' \in BOOLEAN
  BY <1>1, <1>3, NoValuesType DEF history, Disturb, ServerTypeOK
<1>5. ServerTypeOK'
  BY <1>1, <1>2, <1>3, <1>4 DEF ServerTypeOK
<1> QED
  BY <1>2, <1>5 DEF Bounds, TypeOK, InHand, Block, Asking, clientVars

LEMMA StepStaysInBounds == Bounds /\ [Next]_vars => Bounds'
<1> SUFFICES ASSUME Bounds, [Next]_vars
             PROVE  Bounds'
  OBVIOUS
<1>1. TypeOK /\ ServerTypeOK
  BY DEF Bounds, TypeOK
<1>2. ASSUME NEW t, NEW address \in Nat, NEW n \in 1 .. MaxRegs,
             NEW op \in {"read", "write"}, NEW data \in [0 .. n - 1 -> Registers],
             Serve(t, address, n, op, data),
             UNCHANGED <<poll, theirs, tags, quality>>, asked' \in BOOLEAN, answer' \in BOOLEAN,
             asked' => n = poll.count
      PROVE  Bounds'
  <2>1. ServerTypeOK' /\ InHand' /\ regs' = data
    BY <1>1, <1>2, ServedIsInBlock
  <2> QED
    BY <1>1, <1>2, <2>1 DEF Bounds, TypeOK, Asking
<1>3. CASE ClientAsks
  <2>1. /\ Serve(poll.type, poll.start, poll.count, poll.op, Sent)
        /\ UNCHANGED <<poll, theirs, tags, quality>> /\ asked' = TRUE /\ answer' = FALSE
    BY <1>3 DEF ClientAsks
  <2>2. /\ poll.start \in Nat /\ poll.count \in 1 .. MaxRegs /\ poll.op \in {"read", "write"}
        /\ Sent \in [0 .. poll.count - 1 -> Registers]
    BY <1>1, PollType, SentType DEF TypeOK
  <2> QED
    BY <1>2, <2>1, <2>2
\* What the client does with its tags.
<1>4. ASSUME UNCHANGED <<serverVars, poll, theirs>>,
             tags' \in [Handles -> Words],
             quality' \in [Handles -> {"GOOD", "BAD", "UNCERTAIN"}],
             asked' \in {asked, FALSE}, answer' \in BOOLEAN
      PROVE  Bounds'
  <2>1. /\ blocks' = blocks /\ type' = type /\ value' = value /\ queue' = queue /\ req' = req
        /\ i' = i /\ skip' = skip /\ regs' = regs /\ last' = last /\ before' = before
        /\ calm' = calm /\ poll' = poll /\ theirs' = theirs
    BY <1>4 DEF serverVars, config, loop, history
  <2>2. ServerTypeOK'
    BY <1>1, <2>1 DEF ServerTypeOK
  <2>3. TypeOK'
    <3>1. asked' \in BOOLEAN
      BY <1>1, <1>4 DEF TypeOK
    <3> QED
      BY <1>1, <1>4, <2>1, <2>2, <3>1 DEF TypeOK
  <2>4. req' # Idle => InHand'
    BY <2>1 DEF Bounds, InHand, Block
  <2>5. Asking'
    BY <1>4, <2>1 DEF Bounds, Asking
  <2> QED
    BY <2>3, <2>4, <2>5 DEF Bounds
<1>5. /\ poll.count \in 0 .. MaxRegs /\ poll.encoding \in Encodings /\ poll.handles \in Mappings
      /\ theirs \in [Handles -> Types \cup {"NONE"}] /\ tags \in [Handles -> Words]
      /\ quality \in [Handles -> {"GOOD", "BAD", "UNCERTAIN"}]
      /\ asked \in BOOLEAN /\ answer \in BOOLEAN
  BY <1>1, PollType, TypingType, MappingAssumption DEF TypeOK
<1>6. MarkBad => /\ tags' \in [Handles -> Words]
                 /\ quality' \in [Handles -> {"GOOD", "BAD", "UNCERTAIN"}]
  <2>1. DummyToTags(poll.handles, theirs, tags, poll.count) \in [Handles -> Words]
    BY Constants, <1>5 DEF DummyToTags
  <2>2. Marked("BAD") \in [Handles -> {"GOOD", "BAD", "UNCERTAIN"}]
    BY <1>5 DEF Marked
  <2> QED
    BY <1>5, <2>1, <2>2 DEF MarkBad
<1>7. CASE ClientRefused \/ ClientTimesOut
  <2>1. UNCHANGED <<serverVars, poll, theirs>> /\ MarkBad /\ asked' \in {asked, FALSE}
        /\ answer' \in {FALSE, answer}
    BY <1>7 DEF ClientRefused, Refuse, ClientTimesOut
  <2> QED
    BY <1>4, <1>5, <1>6, <2>1
<1>8. CASE ClientTakes
  <2>1. UNCHANGED <<serverVars, poll, theirs>> /\ asked /\ asked' = FALSE /\ answer' = TRUE
    BY <1>8 DEF ClientTakes
  <2>2. regs \in [0 .. poll.count - 1 -> Registers]
    BY <2>1 DEF Bounds, Asking
  <2>3. tags' \in [Handles -> Words] /\ quality' \in [Handles -> {"GOOD", "BAD", "UNCERTAIN"}]
    <3>1. CASE poll.op = "read"
      <4>1. /\ tags' = IF PollIsCoil
                       THEN CoilsToTags(poll.handles, theirs, tags, poll.count, regs)
                       ELSE modbus_map_to_tags(poll.handles, theirs, tags, poll.count,
                                               poll.encoding, regs)
            /\ quality' = [h \in Handles |-> IF Taking(h) THEN "GOOD" ELSE quality[h]]
        BY <1>8, <3>1 DEF ClientTakes
      <4>2. tags' \in [Handles -> Words]
        BY <1>5, <2>2, <4>1, ToTagsType
      <4> QED
        BY <1>5, <4>1, <4>2
    <3>2. CASE poll.op # "read"
      BY <1>5, <1>8, <3>2 DEF ClientTakes
    <3> QED
      BY <3>1, <3>2
  <2> QED
    BY <1>4, <2>1, <2>3
<1>9. CASE \E h \in Handles, w \in Samples : ClientProduces(h, w)
  <2>1. PICK h \in Handles, w \in Samples : ClientProduces(h, w)
    BY <1>9
  <2>2. w \in Words
    BY ServerAssumption
  <2>3. /\ UNCHANGED <<serverVars, poll, theirs>> /\ asked' = asked /\ answer' = FALSE
        /\ tags' = [tags EXCEPT ![h] = w] /\ quality' = [quality EXCEPT ![h] = "GOOD"]
    BY <2>1 DEF ClientProduces
  <2>4. tags' \in [Handles -> Words] /\ quality' \in [Handles -> {"GOOD", "BAD", "UNCERTAIN"}]
    BY <1>5, <2>2, <2>3
  <2> QED
    BY <1>4, <2>3, <2>4
<1>10. ASSUME NEW t, NEW p \in Addresses, NEW n \in 1 .. MaxRegs, NEW op \in {"read", "write"},
             NEW data \in [0 .. n - 1 -> Registers],
             MasterAsks(t, p, n, op, data)
      PROVE  Bounds'
  <2>1. /\ Serve(t, p, n, op, data) /\ UNCHANGED <<poll, theirs, tags, quality>>
        /\ ~asked /\ asked' = asked /\ answer' = FALSE
    BY <1>10 DEF MasterAsks
  <2>2. p \in Nat
    BY ServerAssumption
  <2> QED
    BY <1>2, <1>5, <2>1, <2>2
<1>11. CASE \E t \in BlockTypes, p \in Addresses, n \in 1 .. MaxRegs : MasterReads(t, p, n)
  <2>1. \A n \in 1 .. MaxRegs : Zeros(n) \in [0 .. n - 1 -> Registers]
    BY Constants DEF Zeros
  <2> QED
    BY <1>10, <1>11, <2>1 DEF MasterReads
<1>12. CASE \E t \in WriteTypes, p \in Addresses, n \in 1 .. MaxRegs : MasterWrites(t, p, n)
  <2>1. PICK t \in WriteTypes, p \in Addresses, n \in 1 .. MaxRegs : MasterWrites(t, p, n)
    BY <1>12
  <2>2. PICK data \in IF t = "COIL" THEN [0 .. n - 1 -> {Off, On}] ELSE Data(p, n) :
          MasterAsks(t, p, n, "write", data)
    BY <2>1 DEF MasterWrites
  <2>3. data \in [0 .. n - 1 -> Registers]
    BY <2>2, Constants, ServerAssumption
  <2> QED
    BY <1>10, <2>2, <2>3
<1>13. CASE Loop /\ UNCHANGED clientVars
  BY <1>13, LoopStaysInBounds
<1>14. CASE Others /\ UNCHANGED clientVars
  BY <1>14, OthersStayInBounds
<1>15. CASE UNCHANGED vars
  <2>1. UNCHANGED <<serverVars, poll, theirs>> /\ tags' = tags /\ quality' = quality
        /\ asked' = asked /\ answer' = answer
    BY <1>15 DEF vars, clientVars
  <2> QED
    BY <1>4, <1>5, <2>1
<1> QED
  BY <1>3, <1>7, <1>8, <1>9, <1>11, <1>12, <1>13, <1>14, <1>15 DEF Next

(***************************************************************************)
(* Every variable has its type, whatever masters and client ask for; and   *)
(* the queue of the tag database holds no more than its length.            *)
(***************************************************************************)
THEOREM TypeCorrect == Spec => []TypeOK
<1>1. Init => Bounds
  BY InitInBounds
<1>2. Bounds /\ [Next]_vars => Bounds'
  BY StepStaysInBounds
<1>3. Bounds => TypeOK
  BY DEF Bounds
<1> QED
  BY <1>1, <1>2, <1>3, PTL DEF Spec

LEMMA BoundsSuffice == Bounds => StaysInBlock
<1> SUFFICES ASSUME Bounds, req # Idle, i < req.count
             PROVE  /\ req.block \in DOMAIN blocks
                    /\ req.offset + i < Block.count
                    /\ req.offset + i \in DOMAIN Block.handles
                    /\ i \in DOMAIN regs
                    /\ HasNext => i + 1 \in DOMAIN regs
  BY DEF StaysInBlock
<1>1. InHand /\ blocks \in BlockLists
  BY DEF Bounds, TypeOK, ServerTypeOK
<1>2. Block.handles \in Mappings /\ Block.count \in Nat
  BY <1>1, BlockType DEF InHand, Block
<1>3. /\ i \in 0 .. req.count - 1
      /\ HasNext => i + 1 \in 0 .. req.count - 1
      /\ req.offset + i \in 0 .. MaxRegs - 1
      /\ req.offset + i \in 0 .. Block.count - 1
  BY EntryType
<1>4. DOMAIN Block.handles = 0 .. MaxRegs - 1
  BY <1>2 DEF Mappings
<1>5. req.offset + i < Block.count
  BY <1>2, <1>3
<1> QED
  BY <1>1, <1>3, <1>4, <1>5 DEF InHand

(***************************************************************************)
(* The loops never look up a handle outside the block, nor touch a         *)
(* register outside the request, whatever master and client ask for.       *)
(***************************************************************************)
THEOREM ServerStaysInBlock == Spec => []StaysInBlock
<1>1. Init => Bounds
  BY InitInBounds
<1>2. Bounds /\ [Next]_vars => Bounds'
  BY StepStaysInBounds
<1>3. Bounds => StaysInBlock
  BY BoundsSuffice
<1> QED
  BY <1>1, <1>2, <1>3, PTL DEF Spec

-----------------------------------------------------------------------------
(* How a request r lies in its block, with the blocks bs, the types ty and  *)
(* the values v of the tags.                                                *)

InBlock(bs, r) == /\ r.block \in DOMAIN bs
                  /\ r.offset \in Nat
                  /\ r.count \in 1 .. MaxRegs
                  /\ r.offset + r.count <= bs[r.block].count
OfCoils(bs, r) == bs[r.block].type \in CoilTypes
EntryOf(bs, r, k) == bs[r.block].handles[r.offset + k]

\* A tag begins at register k of the request, or may.
Begins(bs, ty, r, k) ==
  OfCoils(bs, r) \/ ~Taken(bs[r.block].handles, ty, bs[r.block].count)[r.offset + k]
WideAt(bs, ty, r, k) == /\ ~OfCoils(bs, r)
                        /\ Begins(bs, ty, r, k)
                        /\ Exists(ty, EntryOf(bs, r, k))
                        /\ ty[EntryOf(bs, r, k)] = "UINT32"
CutAt(bs, ty, r, k) == WideAt(bs, ty, r, k) /\ k = r.count - 1
Image(bs, ty, v, r) ==
  LET B == bs[r.block] IN
  IF OfCoils(bs, r) THEN CoilsFromTags(B.handles, ty, v, B.count)
  ELSE modbus_map_from_tags(B.handles, ty, v, B.count, B.encoding)
Expected(bs, ty, v, r, k) == IF CutAt(bs, ty, r, k) THEN Off
                             ELSE Image(bs, ty, v, r)[r.offset + k]

\* The registers of a request, one after the other, as the loops meet them.
LEMMA Layout ==
  ASSUME NEW bs, bs \in BlockLists, NEW r, InBlock(bs, r), NEW ty, NEW v,
         NEW k \in 0 .. r.count - 1
  PROVE  LET h == EntryOf(bs, r, k)
             pair == encode_uint32(v[h], bs[r.block].encoding)
         IN
         /\ k + 1 < r.count => (Begins(bs, ty, r, k + 1) <=> ~WideAt(bs, ty, r, k))
         /\ Begins(bs, ty, r, k) /\ ~Exists(ty, h) => Expected(bs, ty, v, r, k) = Off
         /\ CutAt(bs, ty, r, k) => Expected(bs, ty, v, r, k) = Off
         /\ OfCoils(bs, r) /\ Exists(ty, h) => Expected(bs, ty, v, r, k) = ToCoil(v[h])
         /\ ~OfCoils(bs, r) /\ Begins(bs, ty, r, k) /\ Exists(ty, h) /\ ty[h] # "UINT32"
              => Expected(bs, ty, v, r, k) = ToRegister(ty[h], v[h])
         /\ WideAt(bs, ty, r, k) /\ k + 1 < r.count
              => /\ Expected(bs, ty, v, r, k) = pair[1]
                 /\ Expected(bs, ty, v, r, k + 1) = pair[2]
<1> DEFINE B == bs[r.block]
           n == B.count
           T == Taken(B.handles, ty, n)
           p == r.offset + k
           h == EntryOf(bs, r, k)
           pair == encode_uint32(v[h], B.encoding)
<1>1. n \in Nat
  <2>1. bs \in Seq(Blocks)
    BY ServerAssumption
  <2>2. bs[r.block] \in Blocks
    BY <2>1 DEF InBlock
  <2> QED
    BY <2>2, MappingAssumption DEF Blocks
<1>2. /\ r.count \in Nat /\ r.offset \in Nat /\ k \in Nat /\ k < r.count
      /\ p \in 0 .. n - 1
      /\ k + 1 < r.count => p + 1 \in 0 .. n - 1 /\ p + 1 < n
      /\ r.offset + (k + 1) = p + 1
      /\ (p + 1) - 1 = p
      /\ k = r.count - 1 => ~(k + 1 < r.count)
      /\ k + 1 < r.count => ~(k = r.count - 1)
      /\ h = B.handles[p]
  BY <1>1, MappingAssumption DEF InBlock, EntryOf
<1>3. /\ T \in [0 .. n - 1 -> BOOLEAN]
      /\ \A j \in 0 .. n - 1 : j + 1 < n =>
           (T[j + 1] <=> ~T[j] /\ Exists(ty, B.handles[j]) /\ ty[B.handles[j]] = "UINT32")
  BY <1>1, TakenNext
<1>4. /\ Begins(bs, ty, r, k) <=> OfCoils(bs, r) \/ ~T[p]
      /\ Begins(bs, ty, r, k + 1) <=> OfCoils(bs, r) \/ ~T[p + 1]
  BY <1>2 DEF Begins
<1>5. OfCoils(bs, r) => Image(bs, ty, v, r)[p] = IF Exists(ty, h) THEN ToCoil(v[h]) ELSE Off
  BY <1>2 DEF Image, CoilsFromTags
<1> DEFINE R(j) == IF T[j] THEN encode_uint32(v[B.handles[j - 1]], B.encoding)[2]
                   ELSE IF ~Exists(ty, B.handles[j]) THEN Off
                   ELSE IF ty[B.handles[j]] # "UINT32"
                        THEN ToRegister(ty[B.handles[j]], v[B.handles[j]])
                   ELSE IF j + 1 < n THEN encode_uint32(v[B.handles[j]], B.encoding)[1]
                   ELSE IF LowFirst(B.encoding)
                        THEN encode_uint32(v[B.handles[j]], B.encoding)[1]
                        ELSE encode_uint32(v[B.handles[j]], B.encoding)[2]
<1>6. ~OfCoils(bs, r) => Image(bs, ty, v, r) = [j \in 0 .. n - 1 |-> R(j)]
  BY DEF Image, modbus_map_from_tags
<1>7. ~OfCoils(bs, r) => Image(bs, ty, v, r)[p] = R(p)
  <2> HIDE DEF R
  <2> QED
    BY <1>2, <1>6
<1>8. ~OfCoils(bs, r) /\ k + 1 < r.count => Image(bs, ty, v, r)[p + 1] = R(p + 1)
  <2> HIDE DEF R
  <2> QED
    BY <1>2, <1>6
<1> HIDE DEF T
<1>9. ~OfCoils(bs, r) /\ ~T[p] /\ ~Exists(ty, h) => R(p) = Off
  BY <1>2
<1>10. ~OfCoils(bs, r) /\ ~T[p] /\ Exists(ty, h) /\ ty[h] # "UINT32"
         => R(p) = ToRegister(ty[h], v[h])
  BY <1>2
<1>11. ~OfCoils(bs, r) /\ ~T[p] /\ Exists(ty, h) /\ ty[h] = "UINT32" /\ k + 1 < r.count
         => R(p) = pair[1] /\ T[p + 1] /\ R(p + 1) = pair[2]
  BY <1>2, <1>3
<1>12. k + 1 < r.count => (Begins(bs, ty, r, k + 1) <=> ~WideAt(bs, ty, r, k))
  BY <1>2, <1>3, <1>4 DEF WideAt
<1>13. r.offset + (k + 1) = p + 1 /\ r.offset + k = p
  BY <1>2
<1> HIDE DEF R
<1>14. ASSUME WideAt(bs, ty, r, k), k + 1 < r.count
       PROVE  /\ Expected(bs, ty, v, r, k) = pair[1]
              /\ Expected(bs, ty, v, r, k + 1) = pair[2]
  <2>1. ~OfCoils(bs, r) /\ ~T[p] /\ Exists(ty, h) /\ ty[h] = "UINT32"
    BY <1>4, <1>14 DEF WideAt
  <2>2. ~CutAt(bs, ty, r, k)
    BY <1>2, <1>14 DEF CutAt
  <2>3. ~CutAt(bs, ty, r, k + 1)
    BY <1>4, <1>11, <1>14, <2>1 DEF CutAt, WideAt
  <2>4. /\ Image(bs, ty, v, r)[r.offset + k] = pair[1]
        /\ Image(bs, ty, v, r)[r.offset + (k + 1)] = pair[2]
    BY <1>7, <1>8, <1>11, <1>13, <1>14, <2>1
  <2> QED
    BY <2>2, <2>3, <2>4 DEF Expected
<1>15. CutAt(bs, ty, r, k) => Expected(bs, ty, v, r, k) = Off
  BY DEF Expected
<1>16. Begins(bs, ty, r, k) /\ ~Exists(ty, h) => Expected(bs, ty, v, r, k) = Off
  BY <1>4, <1>5, <1>7, <1>9 DEF Expected
<1>17. OfCoils(bs, r) /\ Exists(ty, h) => Expected(bs, ty, v, r, k) = ToCoil(v[h])
  BY <1>5 DEF Expected, CutAt, WideAt
<1>18. ~OfCoils(bs, r) /\ Begins(bs, ty, r, k) /\ Exists(ty, h) /\ ty[h] # "UINT32"
         => Expected(bs, ty, v, r, k) = ToRegister(ty[h], v[h])
  BY <1>4, <1>7, <1>10 DEF Expected, CutAt, WideAt
<1> QED
  BY <1>12, <1>14, <1>15, <1>16, <1>17, <1>18

-----------------------------------------------------------------------------
(* A response shows the block's layout.                                     *)

\* How far a read has come, while nothing has disturbed it.
ReadUpTo == \A k \in 0 .. req.count - 1 :
              regs[k] = IF k < i \/ (k = i /\ skip) THEN Expected(blocks, type, value, req, k)
                        ELSE Off
ReadAll == \A k \in 0 .. last.count - 1 : regs[k] = Expected(blocks, type, value, last, k)

\* skip_next is set at the second register of a 32-bit tag, and only there,
\* in a request that begins at a tag.
InStep == /\ req # Idle => last = Idle
          /\ last # Idle => InBlock(blocks, last)
          /\ req # Idle /\ Begins(blocks, type, req, 0) /\ i < req.count
               => (skip <=> ~Begins(blocks, type, req, i))

ReadsInOrder ==
  /\ req.op = "read" /\ calm =>
       queue = <<>> /\ (Begins(blocks, type, req, 0) => ReadUpTo)
  /\ last.op = "read" =>
       queue = <<>> /\ (Begins(blocks, type, last, 0) => ReadAll)

ReadInv == Bounds /\ InStep /\ ReadsInOrder

LEMMA InitReadInv == Init => ReadInv
<1> SUFFICES ASSUME Init PROVE ReadInv
  OBVIOUS
<1>1. req = Idle /\ last = Idle
  BY DEF Init, ServerInit
<1> QED
  BY <1>1, InitInBounds DEF ReadInv, InStep, ReadsInOrder, Idle

LEMMA ServeInStep ==
  ASSUME Bounds, NEW t, NEW address \in Nat, NEW n \in 1 .. MaxRegs,
         NEW op \in {"read", "write"}, NEW data \in [0 .. n - 1 -> Registers],
         Serve(t, address, n, op, data),
         op = "read" => data = Zeros(n)
  PROVE  InStep' /\ ReadsInOrder'
<1>1. /\ InHand' /\ regs' = data /\ req'.count = n
  BY ServedIsInBlock DEF Bounds, TypeOK
<1>2. /\ i' = 0 /\ skip' = FALSE /\ last' = Idle /\ queue' = queue /\ req'.op = op
      /\ blocks' = blocks /\ type' = type
      /\ calm' = TRUE => queue = <<>>
  BY DEF Serve, Watch, Disturb, config
<1>3. InStep'
  BY <1>2 DEF InStep
<1>4. op = "read" => ReadUpTo'
  BY <1>1, <1>2 DEF ReadUpTo, Zeros
<1> QED
  BY <1>2, <1>3, <1>4 DEF ReadsInOrder, Idle

\* skip_next over one pass.
LEMMA PassInStep ==
  ASSUME Bounds, InStep, NEW op \in {"read", "write"}, At(op),
         skip' \in BOOLEAN,
         skip' <=> ~skip /\ Exists(type, Entry) /\ IsWide /\ HasNext,
         last' = last \/ Disturb
  PROVE  InStep' /\ InBlock(blocks, req) /\ InBlock(blocks, req)'
<1>1. /\ blocks' = blocks /\ type' = type /\ req' = req /\ req.op = op
      /\ i < req.count /\ i' = i + 1
  BY DEF At, config
<1>2. req # Idle /\ last = Idle /\ last' = Idle /\ InHand /\ blocks \in BlockLists
  BY <1>1 DEF Idle, InStep, Disturb, Bounds, TypeOK, ServerTypeOK
<1>3. InBlock(blocks, req)
  BY <1>2 DEF InHand, InBlock, Block
<1>4. ASSUME Begins(blocks, type, req, 0), i' < req.count
      PROVE  skip' <=> ~Begins(blocks, type, req, i')
  <2>1. i \in 0 .. req.count - 1 /\ i + 1 < req.count
    BY <1>1, <1>2, <1>4, EntryType
  <2>2. skip <=> ~Begins(blocks, type, req, i)
    BY <1>1, <1>2, <1>4 DEF InStep
  <2>3. Begins(blocks, type, req, i + 1) <=> ~WideAt(blocks, type, req, i)
    BY <1>2, <1>3, <2>1, Layout
  <2>4. WideAt(blocks, type, req, i) <=> ~skip /\ Exists(type, Entry) /\ IsWide
    BY <2>2 DEF WideAt, IsWide, IsCoil, OfCoils, Entry, EntryOf, Block
  <2>5. HasNext
    BY <2>1 DEF HasNext
  <2> QED
    BY <1>1, <2>3, <2>4, <2>5
<1> QED
  BY <1>1, <1>2, <1>3, <1>4 DEF InStep

\* What a pass of the loop that reads puts into the registers: what the
\* layout expects there.
LEMMA PassReads ==
  ASSUME Bounds, InStep, At("read"), Begins(blocks, type, req, 0), ReadUpTo,
         blocks' = blocks, type' = type, value' = value, req' = req, i' = i + 1,
         \/ Skip("read") \/ PassNoTag("read") \/ PassCut("read")
         \/ ReadCoil \/ ReadOne \/ ReadTwo
  PROVE  ReadUpTo'
<1> DEFINE X(k) == Expected(blocks, type, value, req, k)
<1>1. /\ req # Idle /\ i < req.count /\ InHand /\ blocks \in BlockLists
      /\ skip \in BOOLEAN
  BY DEF At, Idle, Bounds, TypeOK, ServerTypeOK
<1>2. InBlock(blocks, req)
  BY <1>1 DEF InHand, InBlock, Block
<1>3. /\ i \in 0 .. req.count - 1 /\ req.count \in Nat
      /\ DOMAIN regs = 0 .. req.count - 1
      /\ HasNext <=> i + 1 < req.count
      /\ i + 1 < req.count => i # req.count - 1
      /\ ~(i + 1 < req.count) => i = req.count - 1
  BY <1>1, EntryType, MappingAssumption DEF InHand, HasNext
<1>4. (skip <=> ~Begins(blocks, type, req, i)) /\ (~skip => skip = FALSE)
  BY <1>1 DEF InStep
<1>5. /\ Entry = EntryOf(blocks, req, i)
      /\ IsCoil <=> OfCoils(blocks, req)
      /\ IsWide <=> ~OfCoils(blocks, req) /\ type[Entry] = "UINT32"
      /\ Block = blocks[req.block]
  BY DEF Entry, EntryOf, Block, IsCoil, OfCoils, IsWide
<1>6. /\ Begins(blocks, type, req, i) /\ ~Exists(type, Entry) => X(i) = Off
      /\ CutAt(blocks, type, req, i) => X(i) = Off
      /\ OfCoils(blocks, req) /\ Exists(type, Entry) => X(i) = ToCoil(value[Entry])
      /\ ~OfCoils(blocks, req) /\ Begins(blocks, type, req, i) /\ Exists(type, Entry)
           /\ type[Entry] # "UINT32" => X(i) = ToRegister(type[Entry], value[Entry])
      /\ WideAt(blocks, type, req, i) /\ i + 1 < req.count
           => /\ X(i) = encode_uint32(value[Entry], Block.encoding)[1]
              /\ X(i + 1) = encode_uint32(value[Entry], Block.encoding)[2]
  BY <1>1, <1>2, <1>3, <1>5, Layout
<1>7. WideAt(blocks, type, req, i) <=> ~skip /\ Exists(type, Entry) /\ IsWide
  BY <1>4, <1>5 DEF WideAt
<1>8. \A k \in 0 .. req.count - 1 :
        regs[k] = IF k < i \/ (k = i /\ skip) THEN X(k) ELSE Off
  BY DEF ReadUpTo
<1> HIDE DEF X
<1> SUFFICES \A k \in 0 .. req.count - 1 :
               regs'[k] = IF k < i + 1 \/ (k = i + 1 /\ skip') THEN X(k) ELSE Off
  BY DEF ReadUpTo, X
<1>9. CASE skip
  <2>1. regs' = regs /\ skip' = FALSE
    BY <1>9 DEF Skip, PassNoTag, PassCut, AtTag, ReadCoil, ReadOne, ReadTwo
  <2> QED
    BY <1>3, <1>8, <1>9, <2>1
<1>10. ASSUME ~skip, skip' = FALSE, regs' = [regs EXCEPT ![i] = X(i)]
       PROVE  \A k \in 0 .. req.count - 1 :
                regs'[k] = IF k < i + 1 \/ (k = i + 1 /\ skip') THEN X(k) ELSE Off
  BY <1>3, <1>8, <1>10
<1>11. ~skip => regs[i] = Off
  BY <1>3, <1>8
<1>12. ASSUME ~skip, skip' = FALSE, regs' = regs, X(i) = Off
       PROVE  \A k \in 0 .. req.count - 1 :
                regs'[k] = IF k < i + 1 \/ (k = i + 1 /\ skip') THEN X(k) ELSE Off
  BY <1>3, <1>8, <1>11, <1>12
<1>13. CASE ~skip /\ PassNoTag("read")
  <2>1. X(i) = Off /\ regs' = regs /\ skip' = skip
    BY <1>4, <1>6, <1>13 DEF PassNoTag
  <2> QED
    BY <1>4, <1>12, <1>13, <2>1
<1>14. CASE ~skip /\ PassCut("read")
  <2>1. CutAt(blocks, type, req, i)
    BY <1>3, <1>7, <1>14 DEF CutAt, PassCut, AtTag
  <2>2. regs' = regs /\ skip' = skip
    BY <1>14 DEF PassCut
  <2> QED
    BY <1>4, <1>6, <1>12, <1>14, <2>1, <2>2
<1>15. CASE ~skip /\ ReadCoil
  <2>1. regs' = [regs EXCEPT ![i] = X(i)] /\ skip' = skip
    BY <1>5, <1>6, <1>15 DEF ReadCoil, AtTag
  <2> QED
    BY <1>4, <1>10, <1>15, <2>1
<1>16. CASE ~skip /\ ReadOne
  <2>1. regs' = [regs EXCEPT ![i] = X(i)] /\ skip' = skip
    BY <1>4, <1>5, <1>6, <1>16 DEF ReadOne, AtTag
  <2> QED
    BY <1>4, <1>10, <1>16, <2>1
<1>17. CASE ~skip /\ ReadTwo
  <2>1. WideAt(blocks, type, req, i) /\ i + 1 < req.count
    BY <1>3, <1>7, <1>17 DEF ReadTwo, AtTag
  <2>2. regs' = [regs EXCEPT ![i] = X(i), ![i + 1] = X(i + 1)] /\ skip' = TRUE
    BY <1>6, <1>17, <2>1 DEF ReadTwo
  <2> QED
    BY <1>3, <1>8, <1>17, <2>1, <2>2
<1>18. CASE ~skip /\ Skip("read")
  BY <1>18 DEF Skip
<1> QED
  BY <1>9, <1>13, <1>14, <1>15, <1>16, <1>17, <1>18

LEMMA LoopReads ==
  ASSUME ReadInv, Loop
  PROVE  InStep' /\ ReadsInOrder'
<1>1. Bounds /\ InStep /\ ReadsInOrder
  BY DEF ReadInv
<1>2. CASE Respond
  <2>1. /\ req' = Idle /\ regs' = regs /\ req # Idle /\ i = req.count
        /\ blocks' = blocks /\ type' = type /\ value' = value /\ queue' = queue
        /\ last' = IF calm THEN req ELSE Idle
    BY <1>2 DEF Respond, config
  <2>2. InHand
    BY <1>1, <2>1 DEF Bounds
  <2>3. InBlock(blocks, req)
    BY <2>2 DEF InHand, InBlock, Block
  <2>4. InStep'
    BY <2>1, <2>3 DEF InStep
  <2>5. ReadsInOrder'
    <3>1. req'.op # "read"
      BY <2>1 DEF Idle
    <3>2. ASSUME last'.op = "read"
          PROVE  queue' = <<>> /\ (Begins(blocks, type, last', 0) => ReadAll')
      <4>1. calm /\ last' = req
        BY <2>1, <3>2 DEF Idle
      <4>2. queue = <<>> /\ (Begins(blocks, type, req, 0) => ReadUpTo)
        BY <1>1, <3>2, <4>1 DEF ReadsInOrder
      <4>3. \A k \in 0 .. req.count - 1 : k < i
        BY <2>1, <2>2, MappingAssumption DEF InHand
      <4>4. ReadUpTo => \A k \in 0 .. req.count - 1 :
                          regs[k] = Expected(blocks, type, value, req, k)
        BY <4>3 DEF ReadUpTo
      <4> QED
        BY <2>1, <4>1, <4>2, <4>4 DEF ReadAll
    <3> QED
      BY <2>1, <3>1, <3>2 DEF ReadsInOrder
  <2> QED
    BY <2>4, <2>5
<1>3. CASE ~Respond
  <2>1. PICK op \in {"read", "write"} :
          /\ At(op)
          /\ skip' \in BOOLEAN
          /\ skip' <=> ~skip /\ Exists(type, Entry) /\ IsWide /\ HasNext
          /\ last' = last \/ Disturb
    <3> DEFINE Wide == ~skip /\ Exists(type, Entry) /\ IsWide /\ HasNext
    <3>1. skip \in BOOLEAN
      BY <1>1 DEF Bounds, TypeOK, ServerTypeOK
    <3>2. ASSUME NEW op \in {"read", "write"}, Pass(op)
          PROVE  At(op) /\ skip' \in BOOLEAN /\ (skip' <=> Wide) /\ (last' = last \/ Disturb)
      <4>1. CASE Skip(op)
        BY <4>1 DEF Skip, history
      <4>2. CASE PassNoTag(op)
        BY <3>1, <4>2 DEF PassNoTag, history
      <4>3. CASE PassCut(op)
        BY <3>1, <4>3 DEF PassCut, AtTag, history
      <4> QED
        BY <3>2, <4>1, <4>2, <4>3 DEF Pass
    <3>3. CASE ReadCoil \/ ReadOne
      BY <3>1, <3>3 DEF ReadCoil, ReadOne, AtTag, history, IsWide
    <3>4. CASE ReadTwo
      BY <3>1, <3>4 DEF ReadTwo, AtTag, history
    <3>5. CASE WriteCoil \/ WriteOne
      BY <3>1, <3>5 DEF WriteCoil, WriteOne, AtTag, Write, history, IsWide
    <3>6. CASE WriteTwo
      BY <3>1, <3>6 DEF WriteTwo, AtTag, Write, history
    <3> HIDE DEF Wide
    <3> QED
      BY <1>3, <3>2, <3>3, <3>4, <3>5, <3>6 DEF Loop, Wide
  <2>2. InStep'
    BY <1>1, <2>1, PassInStep
  <2>3. /\ blocks' = blocks /\ type' = type /\ req' = req /\ req.op = op
        /\ i < req.count /\ i' = i + 1 /\ req # Idle /\ last = Idle /\ last' = Idle
    BY <1>1, <2>1 DEF At, config, Idle, InStep, Disturb
  <2>4. ASSUME req.op = "read", calm'
        PROVE  queue' = <<>> /\ (Begins(blocks, type, req, 0) => ReadUpTo')
    <3>1. /\ value' = value /\ queue' = queue /\ calm' = calm
          /\ \/ Skip("read") \/ PassNoTag("read") \/ PassCut("read")
             \/ ReadCoil \/ ReadOne \/ ReadTwo
      <4>1. ~WriteCoil /\ ~WriteOne /\ ~WriteTwo
        BY <2>4 DEF WriteCoil, WriteOne, WriteTwo, AtTag, At
      <4>2. ~Pass("write")
        BY <2>4 DEF Pass, Skip, PassNoTag, PassCut, AtTag, At
      <4>3. \/ Skip("read") \/ PassNoTag("read") \/ PassCut("read")
            \/ ReadCoil \/ ReadOne \/ ReadTwo
        BY <1>3, <4>1, <4>2 DEF Loop, Pass
      <4> QED
        BY <4>3 DEF Skip, PassNoTag, PassCut, ReadCoil, ReadOne, ReadTwo, history
    <3>2. queue = <<>> /\ (Begins(blocks, type, req, 0) => ReadUpTo)
      BY <1>1, <2>4, <3>1 DEF ReadsInOrder
    <3>3. At("read")
      BY <2>1, <2>3, <2>4
    <3> QED
      BY <1>1, <2>3, <3>1, <3>2, <3>3, PassReads
  <2>5. ReadsInOrder'
    BY <2>3, <2>4 DEF ReadsInOrder, Idle
  <2> QED
    BY <2>2, <2>5
<1> QED
  BY <1>2, <1>3

LEMMA OthersRead ==
  ASSUME ReadInv, Others
  PROVE  InStep' /\ ReadsInOrder'
<1>1. Bounds /\ InStep /\ ReadsInOrder
  BY DEF ReadInv
<1>2. /\ blocks' = blocks /\ type' = type /\ req' = req /\ i' = i /\ skip' = skip /\ regs' = regs
  BY DEF Others, Apply, Produce, config, loop
<1>3. CASE Apply
  <2>1. queue # <<>> /\ last' = last /\ calm' = calm
    BY <1>3 DEF Apply, history
  <2>2. ~(req.op = "read" /\ calm) /\ last.op # "read"
    BY <1>1, <2>1 DEF ReadsInOrder
  <2> QED
    BY <1>1, <1>2, <2>1, <2>2 DEF InStep, ReadsInOrder
<1>4. CASE ~Apply
  <2>1. last' = Idle /\ calm' = FALSE
    BY <1>4 DEF Others, Produce, Disturb
  <2> QED
    BY <1>1, <1>2, <2>1 DEF InStep, ReadsInOrder, Idle
<1> QED
  BY <1>3, <1>4

\* A step that serves a request, or one that leaves the server alone.
LEMMA ClientSteps ==
  ASSUME Bounds, [Next]_vars, ~Loop, ~Others
  PROVE  \/ /\ UNCHANGED serverVars
         \/ \E t \in BlockTypes, address \in Nat, n \in 1 .. MaxRegs, op \in {"read", "write"} :
              \E data \in [0 .. n - 1 -> Registers] :
                /\ Serve(t, address, n, op, data)
                /\ op = "read" => data = Zeros(n)
<1>1. CASE ClientAsks
  <2>1. Serve(poll.type, poll.start, poll.count, poll.op, Sent)
    BY <1>1 DEF ClientAsks
  <2>2. /\ poll.start \in Nat /\ poll.count \in 1 .. MaxRegs /\ poll.op \in {"read", "write"}
        /\ poll.type \in BlockTypes
        /\ Sent \in [0 .. poll.count - 1 -> Registers]
        /\ poll.op = "read" => Sent = Zeros(poll.count)
    BY PollType, SentType DEF Bounds, TypeOK, Sent
  <2> QED
    BY <2>1, <2>2, Zenon
<1>2. CASE ClientRefused \/ ClientTakes \/ ClientTimesOut
  BY <1>2 DEF ClientRefused, ClientTakes, ClientTimesOut, Refuse
<1>3. CASE \E h \in Handles, w \in Samples : ClientProduces(h, w)
  BY <1>3 DEF ClientProduces
<1>4. CASE \E t \in BlockTypes, p \in Addresses, n \in 1 .. MaxRegs : MasterReads(t, p, n)
  <2>1. PICK t \in BlockTypes, p \in Addresses, n \in 1 .. MaxRegs : MasterReads(t, p, n)
    BY <1>4
  <2>2. Serve(t, p, n, "read", Zeros(n)) /\ p \in Nat /\ Zeros(n) \in [0 .. n - 1 -> Registers]
    BY <2>1, ServerAssumption, Constants DEF MasterReads, MasterAsks, Zeros
  <2> QED
    BY <2>2, Zenon
<1>5. CASE \E t \in WriteTypes, p \in Addresses, n \in 1 .. MaxRegs : MasterWrites(t, p, n)
  <2>1. PICK t \in WriteTypes, p \in Addresses, n \in 1 .. MaxRegs : MasterWrites(t, p, n)
    BY <1>5
  <2>2. PICK data \in IF t = "COIL" THEN [0 .. n - 1 -> {Off, On}] ELSE Data(p, n) :
          MasterAsks(t, p, n, "write", data)
    BY <2>1 DEF MasterWrites
  <2>3. data \in [0 .. n - 1 -> Registers] /\ p \in Nat
    BY <2>2, Constants, ServerAssumption
  <2>4. Serve(t, p, n, "write", data)
    BY <2>2 DEF MasterAsks
  <2>5. t \in BlockTypes
    BY DEF WriteTypes, BlockTypes, CoilTypes, RegisterTypes
  <2> QED
    BY <2>3, <2>4, <2>5, Zenon
<1>6. CASE UNCHANGED vars
  BY <1>6 DEF vars
<1> QED
  BY <1>1, <1>2, <1>3, <1>4, <1>5, <1>6 DEF Next

LEMMA StepReadInv == ReadInv /\ [Next]_vars => ReadInv'
<1> SUFFICES ASSUME ReadInv, [Next]_vars
             PROVE  InStep' /\ ReadsInOrder'
  BY StepStaysInBounds DEF ReadInv
<1>1. CASE Loop
  BY <1>1, LoopReads
<1>2. CASE Others
  BY <1>2, OthersRead
<1>3. CASE UNCHANGED serverVars
  <2>1. /\ blocks' = blocks /\ type' = type /\ value' = value /\ queue' = queue /\ req' = req
        /\ i' = i /\ skip' = skip /\ regs' = regs /\ last' = last /\ calm' = calm
    BY <1>3 DEF serverVars, config, loop, history
  <2>2. (ReadUpTo' <=> ReadUpTo) /\ (ReadAll' <=> ReadAll)
    BY <2>1 DEF ReadUpTo, ReadAll
  <2> QED
    BY <2>1, <2>2 DEF ReadInv, InStep, ReadsInOrder
<1>4. CASE ~Loop /\ ~Others /\ ~UNCHANGED serverVars
  BY <1>4, ClientSteps, ServeInStep DEF ReadInv
<1> QED
  BY <1>1, <1>2, <1>3, <1>4

LEMMA ReadInvSuffices == ReadInv => ReadsFollowTheMap
<1> SUFFICES ASSUME ReadInv, Settled("read"), Aligned
             PROVE  LET image == IF LastIsCoil
                                 THEN CoilsFromTags(LastBlock.handles, type, value, LastBlock.count)
                                 ELSE modbus_map_from_tags(LastBlock.handles, type, value,
                                                           LastBlock.count, LastBlock.encoding)
                    IN \A k \in 0 .. last.count - 1 :
                         regs[k] = IF CutOff(k) THEN Off ELSE image[last.offset + k]
  BY DEF ReadsFollowTheMap
<1>1. last.op = "read" /\ InBlock(blocks, last)
  BY DEF Settled, ReadInv, InStep, Idle
<1>2. Begins(blocks, type, last, 0)
  <2>1. last.offset + 0 = last.offset
    BY <1>1 DEF InBlock
  <2> QED
    BY <2>1 DEF Aligned, Begins, OfCoils, LastIsCoil, LastBlock, TakenInBlock
<1>3. ReadAll
  BY <1>1, <1>2 DEF ReadInv, ReadsInOrder
<1>4. \A k \in 0 .. last.count - 1 : CutAt(blocks, type, last, k) <=> CutOff(k)
  BY DEF CutAt, WideAt, Begins, CutOff, OfCoils, LastIsCoil, LastBlock, TakenInBlock, EntryOf,
         LastEntry
<1>5. Image(blocks, type, value, last) =
        IF LastIsCoil THEN CoilsFromTags(LastBlock.handles, type, value, LastBlock.count)
        ELSE modbus_map_from_tags(LastBlock.handles, type, value,
                                  LastBlock.count, LastBlock.encoding)
  BY DEF Image, OfCoils, LastIsCoil, LastBlock
<1> QED
  BY <1>3, <1>4, <1>5 DEF ReadAll, Expected

(***************************************************************************)
(* A response shows the block's layout: a request that begins at a tag     *)
(* reads, wherever it begins and ends, the registers that the mapping of   *)
(* the whole block lays out there, but for a 32-bit tag that it cuts off,  *)
(* which reads 0 - for every block, mapping, types and values of the tags. *)
(***************************************************************************)
THEOREM ResponsesFollowTheMap == Spec => []ReadsFollowTheMap
<1>1. Init => ReadInv
  BY InitReadInv
<1>2. ReadInv /\ [Next]_vars => ReadInv'
  BY StepReadInv
<1>3. ReadInv => ReadsFollowTheMap
  BY ReadInvSuffices
<1> QED
  BY <1>1, <1>2, <1>3, PTL DEF Spec

-----------------------------------------------------------------------------
(* A write lands, once the queue is empty.                                  *)

\* The value that a tag will have when the queue q has been applied to v.
EntriesOf(q, h) == {j \in DOMAIN q : q[j].handle = h}
Latest(q, v, h, w) ==
  IF EntriesOf(q, h) = {} THEN w = v[h]
  ELSE \E j \in EntriesOf(q, h) : w = q[j].value /\ \A l \in EntriesOf(q, h) : l <= j

LEMMA LatestOfAppend ==
  ASSUME NEW E, NEW q \in Seq(E), NEW v, NEW g, NEW x, NEW h, NEW w,
         Latest(Append(q, Set(g, x)), v, h, w)
  PROVE  IF h = g THEN w = x ELSE Latest(q, v, h, w)
<1> DEFINE Q == Append(q, Set(g, x))
           n == Len(q)
<1>1. /\ n \in Nat
      /\ DOMAIN q = 1 .. n /\ DOMAIN Q = 1 .. n + 1
      /\ Q[n + 1] = Set(g, x)
      /\ \A j \in 1 .. n : Q[j] = q[j]
  OBVIOUS
<1> HIDE DEF Q, n
<1>2. CASE h = g
  <2>1. n + 1 \in EntriesOf(Q, h)
    BY <1>1, <1>2 DEF EntriesOf, Set
  <2>2. PICK j \in EntriesOf(Q, h) : w = Q[j].value /\ \A l \in EntriesOf(Q, h) : l <= j
    BY <2>1 DEF Latest, Q
  <2>3. j \in 1 .. n + 1 /\ n + 1 <= j
    BY <1>1, <2>1, <2>2 DEF EntriesOf
  <2>4. j = n + 1
    BY <1>1, <2>3
  <2> QED
    BY <1>1, <1>2, <2>2, <2>4 DEF Set
<1>3. CASE h # g
  <2>1. EntriesOf(Q, h) = EntriesOf(q, h)
    <3>1. n + 1 \notin EntriesOf(Q, h)
      BY <1>1, <1>3 DEF EntriesOf, Set
    <3>2. \A j \in 1 .. n + 1 : j # n + 1 => j \in 1 .. n
      BY <1>1
    <3> QED
      BY <1>1, <3>1, <3>2 DEF EntriesOf
  <2>2. \A j \in EntriesOf(q, h) : Q[j] = q[j]
    BY <1>1 DEF EntriesOf
  <2> QED
    BY <1>3, <2>1, <2>2 DEF Latest, Q
<1> QED
  BY <1>2, <1>3

LEMMA LatestOfApply ==
  ASSUME NEW E, NEW q \in Seq(E), q # <<>>, NEW v, NEW h \in DOMAIN v, NEW w,
         Latest(Tail(q), [v EXCEPT ![Head(q).handle] = Head(q).value], h, w)
  PROVE  Latest(q, v, h, w)
<1> DEFINE t == Tail(q)
           u == [v EXCEPT ![Head(q).handle] = Head(q).value]
           n == Len(t)
<1>1. /\ n \in Nat
      /\ DOMAIN q = 1 .. n + 1 /\ DOMAIN t = 1 .. n
      /\ Head(q) = q[1]
      /\ \A j \in 1 .. n : t[j] = q[j + 1]
  OBVIOUS
<1>2. u[h] = IF Head(q).handle = h THEN Head(q).value ELSE v[h]
  OBVIOUS
<1>3. Latest(t, u, h, w)
  OBVIOUS
<1> HIDE DEF t, u, n
<1>4. \A j \in 1 .. n : j \in EntriesOf(t, h) <=> j + 1 \in EntriesOf(q, h)
  BY <1>1 DEF EntriesOf
<1>5. 1 \in EntriesOf(q, h) <=> q[1].handle = h
  BY <1>1 DEF EntriesOf
<1>6. \A j \in EntriesOf(q, h) :
        j = 1 \/ (j - 1 \in 1 .. n /\ j - 1 \in EntriesOf(t, h) /\ (j - 1) + 1 = j)
  <2> SUFFICES ASSUME NEW j \in EntriesOf(q, h), j # 1
               PROVE  j - 1 \in 1 .. n /\ j - 1 \in EntriesOf(t, h) /\ (j - 1) + 1 = j
    OBVIOUS
  <2>1. j \in 1 .. n + 1
    BY <1>1 DEF EntriesOf
  <2>2. j - 1 \in 1 .. n /\ (j - 1) + 1 = j
    BY <1>1, <2>1
  <2> QED
    BY <1>4, <2>2
<1>7. CASE EntriesOf(t, h) = {}
  <2>1. w = u[h]
    BY <1>3, <1>7 DEF Latest
  <2>2. \A j \in EntriesOf(q, h) : j = 1
    BY <1>6, <1>7
  <2>3. CASE q[1].handle = h
    BY <1>1, <1>2, <1>5, <2>1, <2>2, <2>3 DEF Latest
  <2>4. CASE q[1].handle # h
    <3>1. EntriesOf(q, h) = {}
      BY <1>5, <2>2, <2>4
    <3> QED
      BY <1>1, <1>2, <2>1, <2>4, <3>1 DEF Latest
  <2> QED
    BY <2>3, <2>4
<1>8. CASE EntriesOf(t, h) # {}
  <2>1. PICK j \in EntriesOf(t, h) : w = t[j].value /\ \A l \in EntriesOf(t, h) : l <= j
    BY <1>3, <1>8 DEF Latest
  <2>2. j \in 1 .. n
    BY <1>1 DEF EntriesOf
  <2>3. j + 1 \in EntriesOf(q, h) /\ w = q[j + 1].value
    BY <1>1, <1>4, <2>1, <2>2
  <2>4. ASSUME NEW l \in EntriesOf(q, h)
        PROVE  l <= j + 1
    <3>1. CASE l = 1
      BY <2>2, <3>1
    <3>2. CASE l # 1
      <4>1. l - 1 \in 1 .. n /\ l - 1 \in EntriesOf(t, h) /\ (l - 1) + 1 = l
        BY <1>6, <3>2
      <4>2. l - 1 <= j
        BY <2>1, <4>1
      <4>3. l \in 1 .. n + 1
        BY <1>1 DEF EntriesOf
      <4> QED
        BY <1>1, <2>2, <4>2, <4>3
    <3> QED
      BY <3>1, <3>2
  <2> QED
    BY <2>3, <2>4 DEF Latest
<1> QED
  BY <1>7, <1>8

LEMMA LatestOfNothing ==
  ASSUME NEW v, NEW h
  PROVE  Latest(<<>>, v, h, v[h])
  BY DEF Latest, EntriesOf

\* A register that a tag took is read back as it was written, as far as the
\* type keeps it.
LEMMA WrittenIsShown ==
  ASSUME NEW r \in Registers
  PROVE  /\ \A t \in Types \ {"UINT32"} : ToRegister(t, FromRegister(t, r)) = Canonical(t, r)
         /\ ToCoil(FromRegister("BOOL", r)) = Canonical("BOOL", r)
<1>1. r = <<r[1], r[2]>>
  BY DEF Registers
<1>2. 0 # 1
  OBVIOUS
<1>3. ToRegister("BOOL", FromRegister("BOOL", r)) = Canonical("BOOL", r)
  BY DEF ToRegister, FromRegister, Canonical, On, Off
<1>4. ToRegister("UINT8", FromRegister("UINT8", r)) = Canonical("UINT8", r)
  BY DEF ToRegister, FromRegister, Canonical
<1>5. ToRegister("UINT16", FromRegister("UINT16", r)) = Canonical("UINT16", r)
  BY <1>1 DEF ToRegister, FromRegister, Canonical, Low
<1>6. ToCoil(FromRegister("BOOL", r)) = Canonical("BOOL", r)
  BY DEF ToCoil, FromRegister, Canonical, ZeroWord, On, Off
<1> QED
  BY <1>3, <1>4, <1>5, <1>6 DEF Types

\* The registers before n that a write puts into h, the last of which
\* decides; and that the value w of h shows what register k was given.
HeldTo(bs, ty, r, h, n) ==
  {k \in 0 .. r.count - 1 : /\ k < n
                            /\ EntryOf(bs, r, k) = h
                            /\ Begins(bs, ty, r, k)
                            /\ ~CutAt(bs, ty, r, k)}
ShowsAt(bs, ty, r, g, h, w, k) ==
  IF OfCoils(bs, r) THEN ToCoil(w) = Canonical("BOOL", g[k])
  ELSE IF ty[h] = "UINT32" THEN encode_uint32(w, bs[r.block].encoding) = <<g[k], g[k + 1]>>
       ELSE ToRegister(ty[h], w) = Canonical(ty[h], g[k])
Landed(bs, ty, r, g, h, w, n, old) ==
  IF Exists(ty, h) /\ HeldTo(bs, ty, r, h, n) # {}
  THEN \A k \in HeldTo(bs, ty, r, h, n) :
         (\A j \in HeldTo(bs, ty, r, h, n) : j <= k) => ShowsAt(bs, ty, r, g, h, w, k)
  ELSE w = old[h]

\* Of the first n registers of request r, every tag that they hold will show
\* them when the queue has been applied, and no other tag will have changed.
WrittenTo(bs, ty, q, v, old, g, r, n) ==
  \A h \in Handles, w \in Words : Latest(q, v, h, w) => Landed(bs, ty, r, g, h, w, n, old)

WritesInOrder ==
  /\ req.op = "write" /\ calm /\ Begins(blocks, type, req, 0)
       => WrittenTo(blocks, type, queue, value, before, regs, req, i)
  /\ last.op = "write" /\ Begins(blocks, type, last, 0)
       => WrittenTo(blocks, type, queue, value, before, regs, last, last.count)

WriteInv == ReadInv /\ WritesInOrder

LEMMA HeldNext ==
  ASSUME NEW bs, NEW ty, NEW r, NEW h, NEW n \in 0 .. r.count - 1
  PROVE  /\ EntryOf(bs, r, n) = h /\ Begins(bs, ty, r, n) /\ ~CutAt(bs, ty, r, n)
              => n \in HeldTo(bs, ty, r, h, n + 1)
         /\ ~(EntryOf(bs, r, n) = h /\ Begins(bs, ty, r, n) /\ ~CutAt(bs, ty, r, n))
              => HeldTo(bs, ty, r, h, n + 1) = HeldTo(bs, ty, r, h, n)
<1>1. \A k \in 0 .. r.count - 1 : k < n + 1 <=> k < n \/ k = n
  OBVIOUS
<1>2. n < n + 1
  OBVIOUS
<1>3. ASSUME EntryOf(bs, r, n) = h, Begins(bs, ty, r, n), ~CutAt(bs, ty, r, n)
      PROVE  n \in HeldTo(bs, ty, r, h, n + 1)
  BY <1>2, <1>3 DEF HeldTo
<1>4. ASSUME ~(EntryOf(bs, r, n) = h /\ Begins(bs, ty, r, n) /\ ~CutAt(bs, ty, r, n))
      PROVE  HeldTo(bs, ty, r, h, n + 1) = HeldTo(bs, ty, r, h, n)
  BY <1>1, <1>4 DEF HeldTo
<1> QED
  BY <1>3, <1>4

\* A pass that writes nothing, at a register of no tag.
LEMMA NothingWritten ==
  ASSUME NEW bs, NEW ty, NEW r, NEW q, NEW v, NEW old, NEW g, NEW n \in 0 .. r.count - 1,
         WrittenTo(bs, ty, q, v, old, g, r, n),
         \/ ~Begins(bs, ty, r, n)
         \/ ~Exists(ty, EntryOf(bs, r, n))
         \/ CutAt(bs, ty, r, n)
  PROVE  WrittenTo(bs, ty, q, v, old, g, r, n + 1)
<1> SUFFICES ASSUME NEW h \in Handles, NEW w \in Words, Latest(q, v, h, w)
             PROVE  Landed(bs, ty, r, g, h, w, n + 1, old)
  BY DEF WrittenTo
<1>1. Landed(bs, ty, r, g, h, w, n, old)
  BY DEF WrittenTo
<1>2. Exists(ty, h) => HeldTo(bs, ty, r, h, n + 1) = HeldTo(bs, ty, r, h, n)
  BY HeldNext
<1> QED
  BY <1>1, <1>2 DEF Landed

\* A pass that writes the tag at its register.
LEMMA OneWritten ==
  ASSUME NEW bs, NEW ty, NEW r, NEW E, NEW q \in Seq(E), NEW v, NEW old, NEW g,
         NEW n \in 0 .. r.count - 1,
         NEW h \in Handles, NEW x,
         WrittenTo(bs, ty, q, v, old, g, r, n),
         h = EntryOf(bs, r, n), Begins(bs, ty, r, n), ~CutAt(bs, ty, r, n), Exists(ty, h),
         ShowsAt(bs, ty, r, g, h, x, n)
  PROVE  WrittenTo(bs, ty, Append(q, Set(h, x)), v, old, g, r, n + 1)
<1> SUFFICES ASSUME NEW f \in Handles, NEW w \in Words, Latest(Append(q, Set(h, x)), v, f, w)
             PROVE  Landed(bs, ty, r, g, f, w, n + 1, old)
  BY DEF WrittenTo
<1>1. IF f = h THEN w = x ELSE Latest(q, v, f, w)
  BY LatestOfAppend
<1>2. CASE f = h
  <2>1. n \in HeldTo(bs, ty, r, h, n + 1)
    BY HeldNext
  <2>2. \A k \in HeldTo(bs, ty, r, h, n + 1) : n <= k => k = n
    BY DEF HeldTo
  <2> QED
    BY <1>1, <1>2, <2>1, <2>2 DEF Landed
<1>3. CASE f # h
  <2>1. HeldTo(bs, ty, r, f, n + 1) = HeldTo(bs, ty, r, f, n)
    BY <1>3, HeldNext
  <2>2. Landed(bs, ty, r, g, f, w, n, old)
    BY <1>1, <1>3 DEF WrittenTo
  <2> QED
    BY <2>1, <2>2 DEF Landed
<1> QED
  BY <1>2, <1>3

\* The database task applies the first write of the queue.
LEMMA AppliedWritten ==
  ASSUME NEW bs, NEW ty, NEW r, NEW E, NEW q \in Seq(E), q # <<>>, NEW v, DOMAIN v = Handles,
         NEW old, NEW g, NEW n,
         WrittenTo(bs, ty, q, v, old, g, r, n)
  PROVE  WrittenTo(bs, ty, Tail(q), [v EXCEPT ![Head(q).handle] = Head(q).value], old, g, r, n)
<1> SUFFICES ASSUME NEW h \in Handles, NEW w \in Words,
                    Latest(Tail(q), [v EXCEPT ![Head(q).handle] = Head(q).value], h, w)
             PROVE  Landed(bs, ty, r, g, h, w, n, old)
  BY DEF WrittenTo
<1>1. Latest(q, v, h, w)
  BY LatestOfApply
<1> QED
  BY <1>1 DEF WrittenTo

LEMMA ServeWrites ==
  ASSUME Bounds, NEW t, NEW address \in Nat, NEW n \in 1 .. MaxRegs,
         NEW op \in {"read", "write"}, NEW data \in [0 .. n - 1 -> Registers],
         Serve(t, address, n, op, data)
  PROVE  WritesInOrder'
<1>1. /\ i' = 0 /\ last' = Idle /\ queue' = queue /\ req'.op = op /\ value' = value
      /\ calm' = TRUE => queue = <<>> /\ (op = "write" => before' = value)
  BY DEF Serve, Watch, Disturb, config
<1>2. ASSUME op = "write", queue = <<>>, before' = value
      PROVE  WrittenTo(blocks, type, queue, value, before, regs, req, i)'
  <2>1. \A h : HeldTo(blocks', type', req', h, 0) = {}
    BY DEF HeldTo
  <2>2. \A h, w : Latest(<<>>, value, h, w) => w = value[h]
    BY DEF Latest, EntriesOf
  <2> QED
    BY <1>1, <1>2, <2>1, <2>2 DEF WrittenTo, Landed
<1> QED
  BY <1>1, <1>2 DEF WritesInOrder, Idle

LEMMA LoopWrites ==
  ASSUME WriteInv, Loop
  PROVE  WritesInOrder'
<1>1. Bounds /\ InStep /\ WritesInOrder
  BY DEF WriteInv, ReadInv
<1>2. CASE Respond
  <2>1. /\ req' = Idle /\ regs' = regs /\ req # Idle /\ i = req.count
        /\ blocks' = blocks /\ type' = type /\ value' = value /\ queue' = queue
        /\ before' = before
        /\ last' = IF calm THEN req ELSE Idle
    BY <1>2 DEF Respond, config
  <2>2. ASSUME last'.op = "write", Begins(blocks, type, last', 0)
        PROVE  WrittenTo(blocks, type, queue, value, before, regs, last', last'.count)
    <3>1. calm /\ last' = req
      BY <2>1, <2>2 DEF Idle
    <3> QED
      BY <1>1, <2>1, <2>2, <3>1 DEF WritesInOrder
  <2> QED
    BY <2>1, <2>2 DEF WritesInOrder, Idle
<1>3. ASSUME ~Respond, req.op = "write", calm', Begins(blocks, type, req, 0)
      PROVE  /\ WrittenTo(blocks, type, queue', value, before, regs, req, i + 1)
             /\ value' = value /\ before' = before /\ regs' = regs
  <2>1. /\ req # Idle /\ InHand /\ blocks \in BlockLists /\ skip \in BOOLEAN
        /\ queue \in Seq([handle : Handles, value : Words])
    BY <1>1, <1>3 DEF Idle, Bounds, TypeOK, ServerTypeOK
  <2>2. InBlock(blocks, req)
    BY <2>1 DEF InHand, InBlock, Block
  <2>3. /\ \/ Skip("write") \/ PassNoTag("write") \/ PassCut("write")
           \/ WriteCoil \/ WriteOne \/ WriteTwo
        /\ At("write")
    <3>1. ~ReadCoil /\ ~ReadOne /\ ~ReadTwo /\ ~Pass("read")
      BY <1>3 DEF ReadCoil, ReadOne, ReadTwo, Pass, Skip, PassNoTag, PassCut, AtTag, At
    <3>2. \/ Skip("write") \/ PassNoTag("write") \/ PassCut("write")
          \/ WriteCoil \/ WriteOne \/ WriteTwo
      BY <1>3, <3>1 DEF Loop, Pass
    <3> QED
      BY <3>2 DEF Skip, PassNoTag, PassCut, WriteCoil, WriteOne, WriteTwo, AtTag
  <2>4. i < req.count /\ value' = value /\ regs' = regs
    BY <2>3 DEF Skip, PassNoTag, PassCut, WriteCoil, WriteOne, WriteTwo, At
  <2>5. skip <=> ~Begins(blocks, type, req, i)
    BY <1>1, <1>3, <2>1, <2>4 DEF InStep
  <2>6. /\ i \in 0 .. req.count - 1 /\ req.count \in Nat
        /\ HasNext <=> i + 1 < req.count
        /\ i + 1 < req.count => i # req.count - 1
        /\ ~(i + 1 < req.count) => i = req.count - 1
        /\ HasNext => i + 1 \in 0 .. req.count - 1
        /\ Block.encoding \in Encodings
    BY <1>1, <2>1, <2>4, EntryType, MappingAssumption DEF InHand, HasNext
  <2>7. /\ Entry = EntryOf(blocks, req, i)
        /\ IsCoil <=> OfCoils(blocks, req)
        /\ IsWide <=> ~OfCoils(blocks, req) /\ type[Entry] = "UINT32"
        /\ Block = blocks[req.block]
    BY DEF Entry, EntryOf, Block, IsCoil, OfCoils, IsWide
  <2>8. WideAt(blocks, type, req, i) <=> ~skip /\ Exists(type, Entry) /\ IsWide
    BY <2>5, <2>7 DEF WideAt
  <2>9. CASE Skip("write") \/ PassNoTag("write") \/ PassCut("write")
    <3>1. queue' = queue /\ calm' = calm /\ before' = before
      BY <2>9 DEF Skip, PassNoTag, PassCut, history
    <3>2. \/ ~Begins(blocks, type, req, i)
          \/ ~Exists(type, EntryOf(blocks, req, i))
          \/ CutAt(blocks, type, req, i)
      BY <2>5, <2>6, <2>7, <2>8, <2>9 DEF Skip, PassNoTag, PassCut, AtTag, CutAt
    <3>3. WrittenTo(blocks, type, queue, value, before, regs, req, i)
      BY <1>1, <1>3, <3>1 DEF WritesInOrder
    <3> QED
      BY <2>4, <2>6, <3>1, <3>2, <3>3, NothingWritten
  <2>10. ASSUME NEW w, Write(Entry, w), Exists(type, Entry), ~skip,
                ShowsAt(blocks, type, req, regs, Entry, w, i),
                ~CutAt(blocks, type, req, i)
         PROVE  /\ WrittenTo(blocks, type, queue', value, before, regs, req, i + 1)
                /\ before' = before
    <3>1. queue' = Append(queue, Set(Entry, w)) /\ calm' = calm /\ before' = before
      BY <1>3, <2>10 DEF Write, Disturb, history
    <3>2. WrittenTo(blocks, type, queue, value, before, regs, req, i)
      BY <1>1, <1>3, <3>1 DEF WritesInOrder
    <3>3. Entry \in Handles
      BY <1>1, <2>1, <2>4, <2>10, EntryType
    <3> QED
      BY <2>1, <2>5, <2>6, <2>7, <2>10, <3>1, <3>2, <3>3, OneWritten
  <2>11. /\ regs[i] \in Registers
         /\ HasNext => regs[i + 1] \in Registers
    BY <2>1, <2>6 DEF InHand
  <2>12. Exists(type, Entry) => type[Entry] \in Types
    BY DEF Exists
  <2>13. CASE WriteCoil
    <3>1. /\ Write(Entry, FromRegister("BOOL", regs[i])) /\ Exists(type, Entry) /\ ~skip
          /\ OfCoils(blocks, req)
      BY <2>7, <2>13 DEF WriteCoil, AtTag
    <3>2. ~CutAt(blocks, type, req, i)
      BY <3>1 DEF CutAt, WideAt
    <3>3. ShowsAt(blocks, type, req, regs, Entry, FromRegister("BOOL", regs[i]), i)
      BY <2>11, <3>1, WrittenIsShown DEF ShowsAt
    <3> QED
      BY <2>4, <2>10, <3>1, <3>2, <3>3
  <2>14. CASE WriteOne
    <3>1. /\ Write(Entry, FromRegister(type[Entry], regs[i])) /\ Exists(type, Entry) /\ ~skip
          /\ ~OfCoils(blocks, req) /\ type[Entry] # "UINT32"
      BY <2>7, <2>14 DEF WriteOne, AtTag
    <3>2. ~CutAt(blocks, type, req, i)
      BY <2>7, <3>1 DEF CutAt, WideAt
    <3>3. ShowsAt(blocks, type, req, regs, Entry, FromRegister(type[Entry], regs[i]), i)
      BY <2>11, <2>12, <3>1, WrittenIsShown DEF ShowsAt
    <3> QED
      BY <2>4, <2>10, <3>1, <3>2, <3>3
  <2>15. CASE WriteTwo
    <3> DEFINE w == decode_uint32(regs[i], regs[i + 1], Block.encoding)
    <3>1. /\ Write(Entry, w) /\ Exists(type, Entry) /\ ~skip /\ HasNext
          /\ ~OfCoils(blocks, req) /\ type[Entry] = "UINT32"
      BY <2>7, <2>15 DEF WriteTwo, AtTag
    <3>2. ~CutAt(blocks, type, req, i)
      BY <2>6, <3>1 DEF CutAt
    <3>3. encode_uint32(w, Block.encoding) = <<regs[i], regs[i + 1]>>
      BY <2>6, <2>11, <3>1, EncodeInvertsDecode
    <3>4. ShowsAt(blocks, type, req, regs, Entry, w, i)
      BY <2>7, <3>1, <3>3 DEF ShowsAt
    <3> HIDE DEF w
    <3> QED
      BY <2>4, <2>10, <3>1, <3>2, <3>4
  <2> QED
    BY <2>3, <2>4, <2>9, <2>13, <2>14, <2>15
<1>4. CASE ~Respond
  <2>1. PICK op \in {"read", "write"} : At(op) /\ (last' = last \/ Disturb)
    BY <1>4 DEF Loop, Pass, Skip, PassNoTag, PassCut, AtTag, ReadCoil, ReadOne, ReadTwo,
                WriteCoil, WriteOne, WriteTwo, Write, history
  <2>2. /\ blocks' = blocks /\ type' = type /\ req' = req /\ req.op = op /\ i' = i + 1
        /\ last' = Idle
    BY <1>1, <2>1 DEF At, config, Idle, InStep, Disturb
  <2> QED
    BY <1>3, <1>4, <2>2 DEF WritesInOrder, Idle
<1> QED
  BY <1>2, <1>4

LEMMA OthersWrite ==
  ASSUME WriteInv, Others
  PROVE  WritesInOrder'
<1>1. Bounds /\ WritesInOrder
  BY DEF WriteInv, ReadInv
<1>2. /\ blocks' = blocks /\ type' = type /\ req' = req /\ i' = i /\ skip' = skip /\ regs' = regs
  BY DEF Others, Apply, Produce, config, loop
<1>3. CASE Apply
  <2>1. /\ queue # <<>> /\ last' = last /\ calm' = calm /\ before' = before
        /\ queue' = Tail(queue)
        /\ value' = [value EXCEPT ![Head(queue).handle] = Head(queue).value]
    BY <1>3 DEF Apply, history
  <2>2. queue \in Seq([handle : Handles, value : Words]) /\ DOMAIN value = Handles
    BY <1>1 DEF Bounds, TypeOK, ServerTypeOK
  <2>3. \A r, n : WrittenTo(blocks, type, queue, value, before, regs, r, n)
                    => WrittenTo(blocks, type, queue', value', before, regs, r, n)
    BY <2>1, <2>2, AppliedWritten
  <2> QED
    BY <1>1, <1>2, <2>1, <2>3 DEF WritesInOrder
<1>4. CASE ~Apply
  <2>1. last' = Idle /\ calm' = FALSE
    BY <1>4 DEF Others, Produce, Disturb
  <2> QED
    BY <2>1 DEF WritesInOrder, Idle
<1> QED
  BY <1>3, <1>4

LEMMA InitWriteInv == Init => WriteInv
<1> SUFFICES ASSUME Init PROVE WriteInv
  OBVIOUS
<1>1. req = Idle /\ last = Idle
  BY DEF Init, ServerInit
<1> QED
  BY <1>1, InitReadInv DEF WriteInv, WritesInOrder, Idle

LEMMA StepWriteInv == WriteInv /\ [Next]_vars => WriteInv'
<1> SUFFICES ASSUME WriteInv, [Next]_vars
             PROVE  WritesInOrder'
  BY StepReadInv DEF WriteInv
<1>1. CASE Loop
  BY <1>1, LoopWrites
<1>2. CASE Others
  BY <1>2, OthersWrite
<1>3. CASE UNCHANGED serverVars
  <2>1. /\ blocks' = blocks /\ type' = type /\ value' = value /\ queue' = queue /\ req' = req
        /\ i' = i /\ regs' = regs /\ last' = last /\ before' = before /\ calm' = calm
    BY <1>3 DEF serverVars, config, loop, history
  <2> QED
    BY <2>1 DEF WriteInv, WritesInOrder
<1>4. CASE ~Loop /\ ~Others /\ ~UNCHANGED serverVars
  BY <1>4, ClientSteps, ServeWrites DEF WriteInv, ReadInv
<1> QED
  BY <1>1, <1>2, <1>3, <1>4

LEMMA WriteInvSuffices == WriteInv => WritesLand
<1> SUFFICES ASSUME WriteInv, Settled("write"), Aligned, NEW h \in Handles
             PROVE  IF Exists(type, h) /\ Held(h) # {} THEN Shows(h, Last(Held(h)))
                    ELSE value[h] = before[h]
  BY DEF WritesLand
<1>1. last.op = "write" /\ queue = <<>> /\ InBlock(blocks, last) /\ value[h] \in Words
  BY DEF Settled, WriteInv, ReadInv, InStep, Idle, Bounds, TypeOK, ServerTypeOK
<1>2. last.count \in Nat
  BY <1>1, MappingAssumption DEF InBlock
<1>3. Begins(blocks, type, last, 0)
  <2>1. last.offset + 0 = last.offset
    BY <1>1 DEF InBlock
  <2> QED
    BY <2>1 DEF Aligned, Begins, OfCoils, LastIsCoil, LastBlock, TakenInBlock
<1>4. WrittenTo(blocks, type, <<>>, value, before, regs, last, last.count)
  BY <1>1, <1>3 DEF WriteInv, WritesInOrder
<1>5. Landed(blocks, type, last, regs, h, value[h], last.count, before)
  BY <1>1, <1>4, LatestOfNothing DEF WrittenTo
<1>6. HeldTo(blocks, type, last, h, last.count) = Held(h)
  <2>1. \A k \in 0 .. last.count - 1 : k < last.count
    BY <1>2
  <2>2. \A k \in 0 .. last.count - 1 : CutAt(blocks, type, last, k) <=> CutOff(k)
    BY DEF CutAt, WideAt, Begins, CutOff, OfCoils, LastIsCoil, LastBlock, TakenInBlock, EntryOf,
           LastEntry
  <2> QED
    BY <2>1, <2>2 DEF HeldTo, Held, EntryOf, LastEntry, LastBlock, Begins, OfCoils, LastIsCoil,
                      TakenInBlock
<1>7. CASE Exists(type, h) /\ Held(h) # {}
  <2>1. Held(h) \subseteq 0 .. last.count - 1
    BY DEF Held
  <2>2. Last(Held(h)) \in Held(h) /\ \A j \in Held(h) : j <= Last(Held(h))
    BY <1>2, <1>7, <2>1, LastIsMaximal
  <2>3. ShowsAt(blocks, type, last, regs, h, value[h], Last(Held(h)))
    BY <1>5, <1>6, <1>7, <2>2 DEF Landed
  <2> QED
    BY <1>7, <2>3 DEF ShowsAt, Shows, OfCoils, LastIsCoil, LastBlock
<1>8. CASE ~(Exists(type, h) /\ Held(h) # {})
  BY <1>5, <1>6, <1>8 DEF Landed
<1> QED
  BY <1>7, <1>8

(***************************************************************************)
(* A write that was acknowledged, and lost nothing to a full queue, lands: *)
(* once the queue is empty, each tag that the request holds all registers  *)
(* of shows them, and no other tag has changed - for every block, mapping, *)
(* types, data and length of the queue, and however the database task and  *)
(* the server's loop take turns.                                           *)
(***************************************************************************)
THEOREM AcknowledgedWritesLand == Spec => []WritesLand
<1>1. Init => WriteInv
  BY InitWriteInv
<1>2. WriteInv /\ [Next]_vars => WriteInv'
  BY StepWriteInv
<1>3. WriteInv => WritesLand
  BY WriteInvSuffices
<1> QED
  BY <1>1, <1>2, <1>3, PTL DEF Spec

-----------------------------------------------------------------------------
(* The client and the server show each other's tags.                        *)

\* While the client waits, and until something follows its answer, what the
\* server has in hand or has served last is the client's request, and the
\* buffer is what the client sent or took.
OfPoll(r) == /\ r.op = poll.op
             /\ r.count = poll.count
             /\ blocks[r.block].type = poll.type
Took(old) == tags = IF PollIsCoil
                    THEN CoilsToTags(poll.handles, theirs, old, poll.count, regs)
                    ELSE modbus_map_to_tags(poll.handles, theirs, old, poll.count,
                                            poll.encoding, regs)
InConversation ==
  /\ answer => ~asked /\ req = Idle
  /\ asked \/ answer => /\ req # Idle => OfPoll(req)
                        /\ last # Idle => OfPoll(last)
                        /\ poll.op = "write" => regs = Sent
  /\ answer /\ poll.op = "read" => /\ regs \in [0 .. poll.count - 1 -> Registers]
                                   /\ \E old : Took(old)

LinkInv == WriteInv /\ InConversation

LEMMA StepInConversation == LinkInv /\ [Next]_vars => InConversation'
<1> SUFFICES ASSUME LinkInv, [Next]_vars
             PROVE  InConversation'
  OBVIOUS
<1>1. Bounds /\ InConversation /\ InStep
  BY DEF LinkInv, WriteInv, ReadInv
<1>2. CASE ClientAsks
  <2>1. /\ Serve(poll.type, poll.start, poll.count, poll.op, Sent)
        /\ asked' = TRUE /\ answer' = FALSE /\ UNCHANGED <<poll, theirs, tags, quality>>
    BY <1>2 DEF ClientAsks
  <2>2. PICK b \in Found(poll.type, poll.start, poll.count) :
          req' = [op |-> poll.op, block |-> b, offset |-> poll.start - blocks[b].start,
                  count |-> poll.count]
    BY <2>1 DEF Serve
  <2>3. blocks[b].type = poll.type
    BY DEF Found, Covering
  <2>4. blocks' = blocks /\ regs' = Sent /\ last' = Idle
    BY <2>1 DEF Serve, config, Watch, Disturb
  <2>5. Sent' = Sent
    BY <2>1 DEF Sent, PollIsCoil
  <2>6. OfPoll(req)'
    BY <2>1, <2>2, <2>3, <2>4 DEF OfPoll
  <2> QED
    BY <2>1, <2>4, <2>5, <2>6 DEF InConversation
<1>3. CASE ClientTakes
  <2>1. /\ blocks' = blocks /\ req' = req /\ regs' = regs /\ last' = last
        /\ poll' = poll /\ theirs' = theirs
        /\ asked /\ req = Idle /\ asked' = FALSE /\ answer' = TRUE
    BY <1>3 DEF ClientTakes, serverVars, config, loop, history
  <2>2. regs \in [0 .. poll.count - 1 -> Registers]
    BY <1>1, <2>1 DEF Bounds, Asking
  <2>3. poll.op = "read" => \E old : Took(old)'
    <3>1. poll.op = "read" =>
            tags' = IF PollIsCoil
                    THEN CoilsToTags(poll.handles, theirs, tags, poll.count, regs)
                    ELSE modbus_map_to_tags(poll.handles, theirs, tags, poll.count,
                                            poll.encoding, regs)
      BY <1>3 DEF ClientTakes
    <3> QED
      BY <2>1, <3>1 DEF Took, PollIsCoil
  <2>4. poll.op = "write" => Sent' = Sent
    BY <1>3, <2>1 DEF ClientTakes, Sent, PollIsCoil
  <2> QED
    BY <1>1, <2>1, <2>2, <2>3, <2>4 DEF InConversation, OfPoll
<1>4. ASSUME asked' = FALSE, answer' = FALSE
      PROVE  InConversation'
  BY <1>4 DEF InConversation
<1>5. asked \in BOOLEAN /\ answer \in BOOLEAN
  BY <1>1 DEF Bounds, TypeOK
<1>6. CASE ClientRefused \/ \E h \in Handles, w \in Samples : ClientProduces(h, w)
  BY <1>4, <1>5, <1>6 DEF ClientRefused, ClientProduces
<1>7. CASE ClientTimesOut
  BY <1>1, <1>4, <1>5, <1>7 DEF ClientTimesOut, InConversation
<1>8. CASE \/ \E t \in BlockTypes, p \in Addresses, n \in 1 .. MaxRegs : MasterReads(t, p, n)
           \/ \E t \in WriteTypes, p \in Addresses, n \in 1 .. MaxRegs : MasterWrites(t, p, n)
  BY <1>4, <1>5, <1>8 DEF MasterReads, MasterWrites, MasterAsks
<1>9. CASE Loop /\ UNCHANGED clientVars
  <2>1. /\ poll' = poll /\ theirs' = theirs /\ tags' = tags /\ asked' = asked /\ answer' = answer
        /\ Sent' = Sent
    BY <1>9 DEF clientVars, Sent, PollIsCoil
  <2>2. req # Idle
    BY <1>9 DEF Loop, Pass, Skip, PassNoTag, PassCut, AtTag, At, ReadCoil, ReadOne, ReadTwo,
                WriteCoil, WriteOne, WriteTwo, Respond, Idle
  <2>3. /\ blocks' = blocks /\ req' \in {req, Idle} /\ last' \in {last, req, Idle}
        /\ req.op = "write" => regs' = regs
    <3>1. CASE Respond
      BY <3>1 DEF Respond, config
    <3>2. ASSUME NEW op, Pass(op)
          PROVE  /\ blocks' = blocks /\ req' = req /\ last' = last /\ regs' = regs
      BY <3>2 DEF Pass, Skip, PassNoTag, PassCut, AtTag, At, config, history
    <3>3. CASE ReadCoil \/ ReadOne \/ ReadTwo
      BY <3>3 DEF ReadCoil, ReadOne, ReadTwo, AtTag, At, config, history
    <3>4. CASE WriteCoil \/ WriteOne \/ WriteTwo
      BY <3>4 DEF WriteCoil, WriteOne, WriteTwo, AtTag, At, Write, Disturb, config, history
    <3> QED
      BY <1>9, <3>1, <3>2, <3>3, <3>4 DEF Loop
  <2>4. ~answer
    BY <1>1, <2>2 DEF InConversation
  <2>5. asked /\ poll.op = "write" => regs' = regs
    BY <1>1, <2>2, <2>3 DEF InConversation, OfPoll
  <2>6. asked => OfPoll(req) /\ (last # Idle => OfPoll(last))
    BY <1>1, <2>2 DEF InConversation
  <2>7. asked => /\ req' # Idle => OfPoll(req)'
                 /\ last' # Idle => OfPoll(last)'
    BY <2>1, <2>3, <2>6 DEF OfPoll
  <2> QED
    BY <1>1, <2>1, <2>4, <2>5, <2>7 DEF InConversation
<1>10. CASE (Others /\ UNCHANGED clientVars) \/ UNCHANGED vars
  <2>1. /\ poll' = poll /\ theirs' = theirs /\ tags' = tags /\ asked' = asked /\ answer' = answer
    BY <1>10 DEF vars, clientVars
  <2>2. /\ blocks' = blocks /\ req' = req /\ regs' = regs /\ last' \in {last, Idle}
    BY <1>10 DEF Others, Apply, Produce, Disturb, vars, serverVars, config, loop, history
  <2>3. Sent' = Sent /\ (\A old : Took(old) => Took(old)')
    BY <2>1, <2>2 DEF Sent, PollIsCoil, Took
  <2>4. /\ OfPoll(req) => OfPoll(req)'
        /\ OfPoll(last) => (last' # Idle => OfPoll(last)')
    BY <2>1, <2>2 DEF OfPoll
  <2> QED
    BY <1>1, <2>1, <2>2, <2>3, <2>4 DEF InConversation
<1> QED
  BY <1>2, <1>3, <1>6, <1>7, <1>8, <1>9, <1>10 DEF Next

-----------------------------------------------------------------------------
(* One tag, through the registers and back.                                 *)

LEMMA RegisterAndBack ==
  ASSUME NEW w \in Words
  PROVE  /\ \A t \in Types \ {"UINT32"} :
              /\ ToRegister(t, FromRegister(t, ToRegister(t, w))) = ToRegister(t, w)
              /\ Canonical(t, ToRegister(t, w)) = ToRegister(t, w)
         /\ ToCoil(FromRegister("BOOL", ToCoil(w))) = ToCoil(w)
         /\ Canonical("BOOL", ToCoil(w)) = ToCoil(w)
<1>1. /\ ToRegister("BOOL", FromRegister("BOOL", ToRegister("BOOL", w))) = ToRegister("BOOL", w)
      /\ Canonical("BOOL", ToRegister("BOOL", w)) = ToRegister("BOOL", w)
  BY DEF ToRegister, FromRegister, Canonical, On, Off
<1>2. /\ ToRegister("UINT8", FromRegister("UINT8", ToRegister("UINT8", w))) = ToRegister("UINT8", w)
      /\ Canonical("UINT8", ToRegister("UINT8", w)) = ToRegister("UINT8", w)
  BY DEF ToRegister, FromRegister, Canonical
<1>3. /\ ToRegister("UINT16", FromRegister("UINT16", ToRegister("UINT16", w)))
           = ToRegister("UINT16", w)
      /\ Canonical("UINT16", ToRegister("UINT16", w)) = ToRegister("UINT16", w)
  BY DEF ToRegister, FromRegister, Canonical, Low
<1>4. /\ ToCoil(FromRegister("BOOL", ToCoil(w))) = ToCoil(w)
      /\ Canonical("BOOL", ToCoil(w)) = ToCoil(w)
  BY DEF ToCoil, FromRegister, Canonical, ZeroWord, On, Off
<1> QED
  BY <1>1, <1>2, <1>3, <1>4 DEF Types

LEMMA LastOfOne ==
  ASSUME NEW k \in Nat
  PROVE  Last({k}) = k
<1>1. {k} \subseteq 0 .. (k + 1) - 1 /\ k + 1 \in Nat /\ {k} # {}
  OBVIOUS
<1>2. Last({k}) \in {k}
  BY <1>1, LastIsMaximal
<1> QED
  BY <1>2

\* What a client sends for a coil, and for a tag that begins at register k.
LEMMA SentCoilAt ==
  ASSUME NEW m, NEW ty, NEW v, NEW n \in Nat, NEW k \in 0 .. n - 1, Exists(ty, m[k])
  PROVE  CoilsFromTags(m, ty, v, n)[k] = ToCoil(v[m[k]])
  BY DEF CoilsFromTags

LEMMA SentAt ==
  ASSUME NEW m, NEW ty, NEW v, NEW n \in Nat, NEW e, NEW k \in 0 .. n - 1,
         Exists(ty, m[k])
  PROVE  LET T == Taken(m, ty, n)
             S == modbus_map_from_tags(m, ty, v, n, e)
         IN /\ ~T[k] /\ ty[m[k]] # "UINT32" => S[k] = ToRegister(ty[m[k]], v[m[k]])
            /\ ~T[k] /\ ty[m[k]] = "UINT32" /\ k + 1 < n
                 => <<S[k], S[k + 1]>> = encode_uint32(v[m[k]], e)
<1> DEFINE T == Taken(m, ty, n)
           pair(j) == encode_uint32(v[m[j]], e)
           R(j) == IF T[j] THEN pair(j - 1)[2]
                   ELSE IF ~Exists(ty, m[j]) THEN Off
                   ELSE IF ty[m[j]] # "UINT32" THEN ToRegister(ty[m[j]], v[m[j]])
                   ELSE IF j + 1 < n THEN pair(j)[1]
                   ELSE IF LowFirst(e) THEN pair(j)[1] ELSE pair(j)[2]
           S == modbus_map_from_tags(m, ty, v, n, e)
<1>1. S = [j \in 0 .. n - 1 |-> R(j)]
  BY DEF modbus_map_from_tags
<1>2. \A j \in 0 .. n - 1 : j + 1 < n =>
        (T[j + 1] <=> ~T[j] /\ Exists(ty, m[j]) /\ ty[m[j]] = "UINT32")
  BY TakenNext
<1>3. k + 1 < n => k + 1 \in 0 .. n - 1 /\ (k + 1) - 1 = k
  OBVIOUS
<1> HIDE DEF T, S
<1>4. ~T[k] /\ ty[m[k]] # "UINT32" => R(k) = ToRegister(ty[m[k]], v[m[k]])
  OBVIOUS
<1>5. ~T[k] /\ ty[m[k]] = "UINT32" /\ k + 1 < n => R(k) = pair(k)[1] /\ R(k + 1) = pair(k)[2]
  BY <1>2, <1>3
<1>6. pair(k) = <<pair(k)[1], pair(k)[2]>>
  BY DEF encode_uint32
<1> HIDE DEF R, pair
<1>7. S[k] = R(k) /\ (k + 1 < n => S[k + 1] = R(k + 1))
  BY <1>1, <1>3
<1> QED
  BY <1>4, <1>5, <1>6, <1>7 DEF T, S, pair

\* What a client takes for them, if every tag is mapped once and, of tags
\* in registers, every register is of exactly one.
LEMMA CoilTakenFrom ==
  ASSUME NEW m, NEW ty, NEW v, NEW n \in Nat, NEW r, NEW k \in 0 .. n - 1,
         Exists(ty, m[k]), m[k] \in Handles, Once(m, n)
  PROVE  CoilsToTags(m, ty, v, n, r)[m[k]] = FromRegister("BOOL", r[k])
<1>1. Last({k}) = k
  BY LastOfOne
<1>2. \A j \in 0 .. n - 1 : m[j] = m[k] <=> j = k
  BY DEF Once, Exists
<1>3. {j \in 0 .. n - 1 : m[j] = m[k]} = {k}
  BY <1>2
<1> QED
  BY <1>1, <1>3 DEF CoilsToTags

LEMMA TakenFrom ==
  ASSUME NEW m, NEW ty, NEW v, NEW n \in Nat, NEW e, NEW r, NEW k \in 0 .. n - 1,
         Exists(ty, m[k]), m[k] \in Handles, Once(m, n),
         \A j \in 0 .. n - 1 : Exists(ty, m[j]) <=> ~Taken(m, ty, n)[j],
         k + Size(ty[m[k]]) <= n
  PROVE  modbus_map_to_tags(m, ty, v, n, e, r)[m[k]] =
           IF ty[m[k]] = "UINT32" THEN decode_uint32(r[k], r[k + 1], e)
           ELSE FromRegister(ty[m[k]], r[k])
<1>1. Last({k}) = k
  BY LastOfOne
<1>2. RegIdx(m, ty, n)[k] = k
  BY IdxOfPacked
<1>3. \A j \in 0 .. n - 1 : m[j] = m[k] <=> j = k
  BY DEF Once, Exists
<1>4. Writers(m, ty, n, m[k]) = {k}
  BY <1>2, <1>3 DEF Writers
<1>5. /\ Writers(m, ty, n, m[k]) # {}
      /\ RegIdx(m, ty, n)[Last(Writers(m, ty, n, m[k]))] = k
  BY <1>1, <1>2, <1>4
<1>6. modbus_map_to_tags(m, ty, v, n, e, r)[m[k]] =
        LET W == Writers(m, ty, n, m[k])
            x == RegIdx(m, ty, n)[Last(W)]
        IN IF Exists(ty, m[k]) /\ W # {}
           THEN IF ty[m[k]] = "UINT32" THEN decode_uint32(r[x], r[x + 1], e)
                ELSE FromRegister(ty[m[k]], r[x])
           ELSE v[m[k]]
  BY ToTagsIs
<1> QED
  BY <1>5, <1>6

(***************************************************************************)
(* What modbus_map_from_tags sends, modbus_map_to_tags takes back: where   *)
(* every register is of exactly one tag and every tag is mapped once, a    *)
(* tag has again the value that was sent, whatever it had meanwhile - all  *)
(* of it for a 32-bit tag, what its register holds for another.            *)
(***************************************************************************)
THEOREM MappingRoundTrip ==
  ASSUME NEW m \in Mappings, NEW ty \in [Handles -> Types \cup {"NONE"}],
         NEW v \in [Handles -> Words], NEW old, NEW n \in 0 .. MaxRegs, NEW e \in Encodings,
         Once(m, n),
         \A j \in 0 .. n - 1 : Exists(ty, m[j]) <=> ~Taken(m, ty, n)[j],
         NEW k \in 0 .. n - 1, Exists(ty, m[k]), k + Size(ty[m[k]]) <= n
  PROVE  LET sent == modbus_map_from_tags(m, ty, v, n, e)
             back == modbus_map_to_tags(m, ty, old, n, e, sent)
         IN IF ty[m[k]] = "UINT32" THEN back[m[k]] = v[m[k]]
            ELSE ToRegister(ty[m[k]], back[m[k]]) = ToRegister(ty[m[k]], v[m[k]])
<1> DEFINE h == m[k]
           sent == modbus_map_from_tags(m, ty, v, n, e)
           back == modbus_map_to_tags(m, ty, old, n, e, sent)
<1>1. n \in Nat /\ h \in Handles /\ ty[h] \in Types /\ v[h] \in Words
  <2>1. n \in Nat /\ k \in 0 .. MaxRegs - 1
    BY MappingAssumption
  <2>2. h \in Handles \cup {Unmapped}
    BY <2>1 DEF Mappings
  <2> QED
    BY <2>1, <2>2, TypeOfTag
<1>2. ~Taken(m, ty, n)[k]
  OBVIOUS
<1>3. back[h] = IF ty[h] = "UINT32" THEN decode_uint32(sent[k], sent[k + 1], e)
                ELSE FromRegister(ty[h], sent[k])
  <2> HIDE DEF sent
  <2> QED
    BY <1>1, TakenFrom
<1>4. /\ ty[h] # "UINT32" => sent[k] = ToRegister(ty[h], v[h])
      /\ ty[h] = "UINT32" => <<sent[k], sent[k + 1]>> = encode_uint32(v[h], e)
  <2>1. ty[h] = "UINT32" => k + 1 < n
    BY <1>1 DEF Size
  <2> QED
    BY <1>1, <1>2, <2>1, SentAt
<1> HIDE DEF sent, back
<1>5. CASE ty[h] = "UINT32"
  <2> DEFINE pair == encode_uint32(v[h], e)
  <2>1. sent[k] = pair[1] /\ sent[k + 1] = pair[2]
    BY <1>4, <1>5 DEF encode_uint32
  <2> HIDE DEF pair
  <2>2. decode_uint32(pair[1], pair[2], e) = v[h]
    BY <1>1, DecodeInvertsEncode DEF pair
  <2> QED
    BY <1>3, <1>5, <2>1, <2>2 DEF sent, back
<1>6. CASE ty[h] # "UINT32"
  BY <1>1, <1>3, <1>4, <1>6, RegisterAndBack DEF sent, back
<1> QED
  BY <1>5, <1>6

LEMMA LinkInvSuffices == LinkInv => ClientMirrorsServer
<1> SUFFICES ASSUME LinkInv, Exchanged, Packed, NEW k \in 0 .. poll.count - 1
             PROVE  AgreeAt(k)
  BY DEF ClientMirrorsServer
<1> DEFINE n == poll.count
           e == poll.encoding
           mine == LastEntry(k)
           its == poll.handles[k]
           t == type[mine]
<1>1. WriteInv /\ ReadInv /\ Bounds /\ InStep /\ InConversation /\ TypeOK
  BY DEF LinkInv, WriteInv, ReadInv, Bounds
<1>2. /\ last.op = poll.op /\ last # Idle /\ OfPoll(last) /\ InBlock(blocks, last)
      /\ answer /\ last.count = n
      /\ LastIsCoil <=> PollIsCoil
      /\ LastBlock.encoding = e
      /\ Once(poll.handles, n) /\ Once(LastBlock.handles, LastBlock.count)
  <2>1. last.op = poll.op /\ poll.op \in {"read", "write"} /\ answer
    BY <1>1, PollType DEF Exchanged, Settled, TypeOK
  <2>2. last # Idle
    BY <2>1 DEF Idle
  <2> QED
    BY <1>1, <2>1, <2>2 DEF InConversation, OfPoll, InStep, Exchanged, LastIsCoil, LastBlock,
                            PollIsCoil
<1>3. /\ n \in Nat /\ n \in 1 .. MaxRegs /\ e \in Encodings /\ k \in 0 .. n - 1
      /\ poll.op \in {"read", "write"}
      /\ poll.handles \in Mappings
  BY <1>1, PollType DEF TypeOK
<1>4. /\ blocks \in BlockLists
      /\ type \in [Handles -> Types \cup {"NONE"}] /\ theirs \in [Handles -> Types \cup {"NONE"}]
      /\ value \in [Handles -> Words] /\ tags \in [Handles -> Words]
  BY <1>1, TypingType DEF TypeOK, ServerTypeOK
<1>5. its \in Handles \cup {Unmapped}
  <2>1. k \in 0 .. MaxRegs - 1
    BY <1>3, MappingAssumption
  <2> QED
    BY <1>3, <2>1 DEF Mappings
<1>6. /\ last.offset \in Nat
      /\ LastBlock.handles \in Mappings /\ LastBlock.count \in Nat
      /\ LastBlock.count \in 1 .. MaxRegs
      /\ \A j \in 0 .. n - 1 : last.offset + j \in 0 .. LastBlock.count - 1
  <2>1. /\ LastBlock.handles \in Mappings /\ LastBlock.count \in Nat
        /\ LastBlock.count \in 1 .. MaxRegs
    BY <1>2, <1>4, BlockType DEF InBlock, LastBlock
  <2>2. last.offset \in Nat /\ last.offset + n <= LastBlock.count
    BY <1>2 DEF InBlock, LastBlock
  <2> QED
    BY <1>3, <2>1, <2>2
<1>7. mine \in Handles \cup {Unmapped} /\ mine = EntryOf(blocks, last, k)
  <2>1. last.offset + k \in 0 .. MaxRegs - 1
    BY <1>3, <1>6, MappingAssumption
  <2> QED
    BY <1>6, <2>1 DEF Mappings, LastEntry, EntryOf, LastBlock
<1>8. Begins(blocks, type, last, 0) /\ Aligned /\ Settled(poll.op)
  <2>1. last.offset + 0 = last.offset
    BY <1>6
  <2>2. Aligned /\ Settled(poll.op)
    BY DEF Exchanged
  <2> QED
    BY <2>1, <2>2 DEF Aligned, Begins, OfCoils, LastIsCoil, LastBlock, TakenInBlock
<1>9. LastIsCoil <=> OfCoils(blocks, last)
  BY DEF LastIsCoil, LastBlock, OfCoils
\* What each direction leaves in the registers.
<1>10. poll.op = "read" => \A j \in 0 .. n - 1 : regs[j] = Expected(blocks, type, value, last, j)
  BY <1>1, <1>2, <1>8 DEF ReadInv, ReadsInOrder, ReadAll
<1>11. poll.op = "read" => \E old : Took(old)
  BY <1>1, <1>2 DEF InConversation
<1>12. poll.op = "write" => regs = Sent
  BY <1>1, <1>2 DEF InConversation
<1>13. ASSUME poll.op = "write", Exists(type, mine), LastIsCoil \/ ~TakenInBlock[last.offset + k],
              ~CutOff(k)
       PROVE  Shows(mine, k)
  <2>1. Held(mine) = {k}
    <3>1. \A j \in 0 .. n - 1 : LastEntry(j) = mine => j = k
      <4> SUFFICES ASSUME NEW j \in 0 .. n - 1, LastEntry(j) = mine
                   PROVE  j = k
        OBVIOUS
      <4>1. last.offset + j = last.offset + k
        BY <1>2, <1>3, <1>6, <1>13 DEF Once, LastEntry, Exists
      <4> QED
        BY <1>3, <1>6, <4>1
    <3> QED
      BY <1>2, <1>3, <1>13, <3>1 DEF Held
  <2>2. WritesLand
    BY <1>1, WriteInvSuffices
  <2>3. mine \in Handles
    BY <1>7, <1>13, <1>4 DEF Exists
  <2>4. Shows(mine, Last(Held(mine)))
    BY <1>8, <1>13, <2>1, <2>2, <2>3 DEF WritesLand
  <2>5. Last({k}) = k
    BY <1>3, LastOfOne
  <2> QED
    BY <2>1, <2>4, <2>5
<1>14. CASE LastIsCoil
  <2> SUFFICES ASSUME Exists(type, mine), Exists(theirs, its)
               PROVE  ToCoil(value[mine]) = ToCoil(tags[its])
    BY <1>14 DEF AgreeAt
  <2>1. mine \in Handles /\ its \in Handles /\ value[mine] \in Words /\ tags[its] \in Words
    BY <1>4, <1>5, <1>7 DEF Exists
  <2>2. CASE poll.op = "read"
    <3>1. regs[k] = ToCoil(value[mine])
      BY <1>2, <1>3, <1>4, <1>7, <1>9, <1>10, <1>14, <2>2, Layout
    <3>2. PICK old : Took(old)
      BY <1>11, <2>2
    <3>3. tags = CoilsToTags(poll.handles, theirs, old, n, regs)
      BY <1>2, <1>14, <3>2 DEF Took
    <3>4. tags[its] = FromRegister("BOOL", regs[k])
      BY <1>2, <1>3, <2>1, <3>3, CoilTakenFrom
    <3> QED
      BY <2>1, <3>1, <3>4, RegisterAndBack
  <2>3. CASE poll.op = "write"
    <3>1. ~CutOff(k)
      BY <1>14 DEF CutOff
    <3>2. ToCoil(value[mine]) = Canonical("BOOL", regs[k])
      BY <1>13, <1>14, <2>3, <3>1 DEF Shows
    <3>3. Sent = CoilsFromTags(poll.handles, theirs, tags, n)
      BY <1>2, <1>14, <2>3 DEF Sent
    <3>4. regs[k] = ToCoil(tags[its])
      BY <1>3, <1>12, <2>3, <3>3, SentCoilAt
    <3> QED
      BY <2>1, <3>2, <3>4, RegisterAndBack
  <2> QED
    BY <1>3, <2>2, <2>3
<1>15. CASE ~LastIsCoil
  <2> SUFFICES ASSUME Exists(type, mine), Exists(theirs, its), t = theirs[its],
                      ~TakenInBlock[last.offset + k], ~CutOff(k),
                      ~Taken(poll.handles, theirs, n)[k]
               PROVE  IF t = "UINT32" THEN value[mine] = tags[its]
                      ELSE ToRegister(t, value[mine]) = ToRegister(t, tags[its])
    BY <1>15 DEF AgreeAt
  <2>1. mine \in Handles /\ its \in Handles /\ value[mine] \in Words /\ tags[its] \in Words
    BY <1>4, <1>5, <1>7 DEF Exists
  <2>2. t \in Types
    BY DEF Exists
  <2>3. t = "UINT32" => k + 1 < n /\ k + 1 \in 0 .. n - 1
    BY <1>2, <1>3, <1>15 DEF CutOff
  <2>4. k + Size(t) <= n
    BY <1>3, <2>3 DEF Size
  <2>5. Begins(blocks, type, last, k)
    BY DEF Begins, TakenInBlock, LastBlock
  <2>6. t = "UINT32" => WideAt(blocks, type, last, k)
    BY <1>7, <1>9, <1>15, <2>5 DEF WideAt
  <2>7. CASE poll.op = "read"
    <3>1. PICK old : Took(old)
      BY <1>11, <2>7
    <3>2. \A j \in 0 .. n - 1 :
            Exists(theirs, poll.handles[j]) <=> ~Taken(poll.handles, theirs, n)[j]
      BY <1>2, <1>15 DEF Packed
    <3>3. tags = modbus_map_to_tags(poll.handles, theirs, old, n, e, regs)
      BY <1>2, <1>15, <3>1 DEF Took
    <3>4. tags[its] = IF t = "UINT32" THEN decode_uint32(regs[k], regs[k + 1], e)
                      ELSE FromRegister(t, regs[k])
      BY <1>2, <1>3, <2>1, <2>4, <3>2, <3>3, TakenFrom
    <3>5. CASE t = "UINT32"
      <4> DEFINE pair == encode_uint32(value[mine], e)
      <4>1. /\ Expected(blocks, type, value, last, k) = pair[1]
            /\ Expected(blocks, type, value, last, k + 1) = pair[2]
        BY <1>2, <1>3, <1>4, <1>7, <2>3, <2>6, <3>5, Layout DEF LastBlock
      <4>2. regs[k] = pair[1] /\ regs[k + 1] = pair[2]
        BY <1>3, <1>10, <2>3, <2>7, <3>5, <4>1
      <4> HIDE DEF pair
      <4>3. decode_uint32(pair[1], pair[2], e) = value[mine]
        BY <1>3, <2>1, DecodeInvertsEncode DEF pair
      <4> QED
        BY <3>4, <3>5, <4>2, <4>3
    <3>6. CASE t # "UINT32"
      <4>1. Expected(blocks, type, value, last, k) = ToRegister(t, value[mine])
        BY <1>2, <1>3, <1>4, <1>7, <1>9, <1>15, <2>5, <3>6, Layout
      <4>2. regs[k] = ToRegister(t, value[mine])
        BY <1>3, <1>10, <2>7, <4>1
      <4> QED
        BY <2>1, <2>2, <3>4, <3>6, <4>2, RegisterAndBack
    <3> QED
      BY <3>5, <3>6
  <2>8. CASE poll.op = "write"
    <3>1. Shows(mine, k)
      BY <1>13, <2>8
    <3>2. Sent = modbus_map_from_tags(poll.handles, theirs, tags, n, e)
      BY <1>2, <1>15, <2>8 DEF Sent
    <3>3. /\ t # "UINT32" => regs[k] = ToRegister(t, tags[its])
          /\ t = "UINT32" => <<regs[k], regs[k + 1]>> = encode_uint32(tags[its], e)
      <4> DEFINE S == modbus_map_from_tags(poll.handles, theirs, tags, n, e)
      <4>1. regs = S
        BY <1>12, <2>8, <3>2
      <4>2. /\ theirs[its] # "UINT32" => S[k] = ToRegister(theirs[its], tags[its])
            /\ theirs[its] = "UINT32" /\ k + 1 < n
                 => <<S[k], S[k + 1]>> = encode_uint32(tags[its], e)
        BY <1>3, SentAt
      <4> QED
        BY <2>3, <4>1, <4>2
    <3>4. CASE t = "UINT32"
      <4>1. encode_uint32(value[mine], e) = encode_uint32(tags[its], e)
        BY <1>2, <1>15, <3>1, <3>3, <3>4 DEF Shows
      <4>2. \A w \in Words : decode_uint32(encode_uint32(w, e)[1], encode_uint32(w, e)[2], e) = w
        BY <1>3, DecodeInvertsEncode
      <4> QED
        BY <2>1, <3>4, <4>1, <4>2
    <3>5. CASE t # "UINT32"
      <4>1. ToRegister(t, value[mine]) = Canonical(t, regs[k])
        BY <1>15, <3>1, <3>5 DEF Shows
      <4> QED
        BY <2>1, <2>2, <3>3, <3>5, <4>1, RegisterAndBack
    <3> QED
      BY <3>4, <3>5
  <2> QED
    BY <1>3, <2>7, <2>8
<1> QED
  BY <1>14, <1>15

(***************************************************************************)
(* After a poll that succeeded, reading or writing, tags of one type that  *)
(* the two bridges lay over the same registers are equal - for any blocks, *)
(* request, mappings, types and values, in every encoding, wherever the    *)
(* request lies in the block, provided each of its registers is of exactly *)
(* one of the client's tags.                                               *)
(***************************************************************************)
THEOREM BridgesAgree == Spec => []ClientMirrorsServer
<1>1. Init => LinkInv
  <2>1. Init => ~asked /\ ~answer
    BY DEF Init
  <2> QED
    BY <2>1, InitWriteInv DEF LinkInv, InConversation
<1>2. LinkInv /\ [Next]_vars => LinkInv'
  BY StepWriteInv, StepInConversation DEF LinkInv
<1>3. LinkInv => ClientMirrorsServer
  BY LinkInvSuffices
<1> QED
  BY <1>1, <1>2, <1>3, PTL DEF Spec
=============================================================================
