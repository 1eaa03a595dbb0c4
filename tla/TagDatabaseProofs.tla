--------------------------- MODULE TagDatabaseProofs ---------------------------
(***************************************************************************)
(* What TLAPS proves of TagDatabase for any number of tags, names, tasks   *)
(* and queued writes: its type invariant, that names are unique, that a    *)
(* deleted slot stays reset, that a read is of one write, that             *)
(* measurements land in the order in which they were accepted, that it     *)
(* implements TagStore, and that no path keeps the mutex.                  *)
(***************************************************************************)
EXTENDS TagDatabase, TLAPS, SequenceTheorems, WellFoundedInduction

\* A handle in use was checked before.
HandleChecked ==
  \A c \in Clients : pc[c] \in {"send", "read", "read_check", "read_quality"} =>
                       handle[c] \in Handles
TypeInv == TypeOK /\ HandleChecked

LEMMA TasksFacts ==
  /\ TagDB \in Tasks /\ TagDB \notin Clients
  /\ Clients \subseteq Tasks /\ Admins \subseteq Clients /\ Deleters \subseteq Clients
  /\ Producers \subseteq Clients /\ Readers \subseteq Clients
  /\ Nobody \notin Tasks
BY TasksAreDistinct DEF Tasks, Clients

LEMMA SizeFacts ==
  /\ MaxTags \in Nat /\ MaxTags # 0 /\ MaxSamples \in Nat
  /\ 0 \in Handles /\ 0 \in Values
  /\ NoMessage \in Message /\ NoTag \in Tag
<1>1. MaxTags \in Nat /\ MaxTags # 0 /\ MaxSamples \in Nat
      BY SizesAreNat
<1>2. 0 \in Handles /\ 0 \in Values
      BY <1>1 DEF Handles, Values
<1> QED  BY <1>1, <1>2 DEF NoMessage, Message, NoTag, Tag, Qualities

LEMMA InitType == Init => TypeInv
<1> SUFFICES ASSUME Init
             PROVE  TypeInv
    OBVIOUS
<1>1. /\ tags \in [Handles -> Tag] /\ hwm \in 0 .. MaxTags /\ mutex \in Tasks \cup {Nobody}
      /\ queue \in Seq(Message) /\ msg \in Message /\ samples \in Values
      BY SizeFacts DEF Init
<1>2. pc \in [Tasks -> Points]
      BY DEF Init, Points
<1>3. /\ name \in [Tasks -> Names \cup {NoName}] /\ slot \in [Tasks -> Handles]
      /\ handle \in [Clients -> Handles \cup {Invalid}]
      /\ meant \in [Clients -> Names \cup {NoName}]
      /\ part \in [Clients -> Values]
      BY SizeFacts DEF Init
<1>4. seen \in [Clients -> [value : Values, quality : Qualities]]
      BY SizeFacts DEF Init, Qualities
<1>5. HandleChecked
      BY TasksFacts DEF Init, HandleChecked
<1> QED  BY <1>1, <1>2, <1>3, <1>4, <1>5 DEF TypeInv, TypeOK

\* The return of a call keeps the types of what it resets.
LEMMA ReturnTypes ==
  ASSUME TypeInv, NEW t \in Tasks, NEW from, Return(t, from)
  PROVE  /\ pc' \in [Tasks -> Points] /\ name' \in [Tasks -> Names \cup {NoName}]
         /\ slot' \in [Tasks -> Handles] /\ msg' \in Message
         /\ \A c \in Tasks : pc'[c] = IF c = t THEN Home(t) ELSE pc[c]
BY SizeFacts DEF Return, Goto, Home, TypeInv, TypeOK, Points

LEMMA GotoTypes ==
  ASSUME TypeInv, NEW t \in Tasks, NEW from, NEW to \in Points, Goto(t, from, to)
  PROVE  /\ pc' \in [Tasks -> Points] /\ pc[t] = from
         /\ \A c \in Tasks : pc'[c] = IF c = t THEN to ELSE pc[c]
BY DEF Goto, TypeInv, TypeOK

\* Steps of a client c, by what they change.
LEMMA CreateType ==
  ASSUME TypeInv, NEW c \in Clients, Create(c)
  PROVE  TypeInv'
<1> USE TasksFacts, SizeFacts
    DEF shared, call, kept, Take, Leave, TypeInv, TypeOK, HandleChecked
<1> USE DEF Points, Critical, CreatePoints, DeletePoints, ReadPoints, ApplyPoints, Waiting
<1>h. Home(c) = "idle"
      BY DEF Home
<1>1. ASSUME NEW n \in Names, CreateCall(c, n)
      PROVE  TypeInv'
      BY <1>1, GotoTypes DEF CreateCall
<1>2. ASSUME CreateLock(c)
      PROVE  TypeInv'
      BY <1>2, GotoTypes DEF CreateLock
<1>3. ASSUME CreateDuplicate(c) \/ CreateFull(c)
      PROVE  TypeInv'
      BY <1>3, <1>h, ReturnTypes DEF CreateDuplicate, CreateFull
<1>4. ASSUME CreateReuse(c)
      PROVE  TypeInv'
  <2>1. Vacant \subseteq Handles
        BY DEF Vacant, Used, Handles
  <2> QED  BY <1>4, <2>1, GotoTypes DEF CreateReuse
<1>5. ASSUME CreateExtend(c)
      PROVE  TypeInv'
  <2>1. hwm \in Handles /\ hwm + 1 \in 0 .. MaxTags
        BY <1>5 DEF CreateExtend, Handles
  <2> QED  BY <1>5, <2>1, GotoTypes DEF CreateExtend
<1>6. ASSUME CreateFill(c)
      PROVE  TypeInv'
  <2>1. tags' \in [Handles -> Tag]
        BY <1>6 DEF CreateFill, Tag, Qualities
  <2> QED  BY <1>6, <2>1, GotoTypes DEF CreateFill
<1>7. ASSUME CreateCommit(c)
      PROVE  TypeInv'
  <2>1. tags' \in [Handles -> Tag]
        BY <1>7 DEF CreateCommit, Tag
  <2> QED  BY <1>7, <1>h, <2>1, ReturnTypes DEF CreateCommit
<1> QED  BY <1>1, <1>2, <1>3, <1>4, <1>5, <1>6, <1>7 DEF Create, CreateInside

LEMMA DeleteType ==
  ASSUME TypeInv, NEW c \in Clients, Delete(c)
  PROVE  TypeInv'
<1> USE TasksFacts, SizeFacts
    DEF shared, call, kept, Take, Leave, TypeInv, TypeOK, HandleChecked
<1> USE DEF Points, Critical, CreatePoints, DeletePoints, ReadPoints, ApplyPoints, Waiting
<1>h. Home(c) = "idle"
      BY DEF Home
<1>1. ASSUME NEW n \in Names, DeleteCall(c, n)
      PROVE  TypeInv'
      BY <1>1, GotoTypes DEF DeleteCall
<1>2. ASSUME DeleteLock(c)
      PROVE  TypeInv'
      BY <1>2, GotoTypes DEF DeleteLock
<1>3. ASSUME DeleteMissing(c)
      PROVE  TypeInv'
      BY <1>3, <1>h, ReturnTypes DEF DeleteMissing
<1>4. ASSUME DeleteMark(c)
      PROVE  TypeInv'
  <2>1. Named(name[c]) \subseteq Handles
        BY DEF Named, Used, Handles
  <2>2. PICK h \in Handles : /\ slot' = [slot EXCEPT ![c] = h]
                             /\ tags' = [tags EXCEPT ![h] = [@ EXCEPT !.allocated = FALSE]]
        BY <1>4, <2>1 DEF DeleteMark
  <2>3. tags' \in [Handles -> Tag] /\ slot' \in [Tasks -> Handles]
        BY <2>2 DEF Tag
  <2> QED  BY <1>4, <2>3, GotoTypes DEF DeleteMark
<1>5. ASSUME DeleteReset(c)
      PROVE  TypeInv'
  <2>1. tags' \in [Handles -> Tag]
        BY <1>5 DEF DeleteReset, Tag, Qualities
  <2> QED  BY <1>5, <1>h, <2>1, ReturnTypes DEF DeleteReset
<1> QED  BY <1>1, <1>2, <1>3, <1>4, <1>5 DEF Delete, DeleteInside

LEMMA ResolveType ==
  ASSUME TypeInv, NEW c \in Clients, GetHandle(c)
  PROVE  TypeInv'
<1>1. PICK n \in Names : Resolve(c, n)
      BY Zenon DEF GetHandle
<1> USE TasksFacts DEF shared, TypeInv, TypeOK, HandleChecked
<1>2. Named(n) \subseteq Handles
      BY SizeFacts DEF Named, Used, Handles
<1>3. handle' \in [Clients -> Handles \cup {Invalid}]
      BY <1>1, <1>2 DEF Resolve
<1>4. meant' \in [Clients -> Names \cup {NoName}]
      BY <1>1 DEF Resolve
<1>5. \A d \in Clients : d # c => handle'[d] = handle[d]
      BY <1>1 DEF Resolve
<1> QED  BY <1>1, <1>3, <1>4, <1>5 DEF Resolve

LEMMA WriteType ==
  ASSUME TypeInv, NEW c \in Clients, Write(c)
  PROVE  TypeInv'
<1> USE TasksFacts, SizeFacts DEF shared, call, kept, TypeInv, TypeOK, HandleChecked
<1> USE DEF Points
<1>1. ASSUME WriteCheck(c) \/ WriteDropped(c)
      PROVE  TypeInv'
      BY <1>1, GotoTypes DEF WriteCheck, WriteDropped
<1>2. ASSUME WriteSample(c)
      PROVE  TypeInv'
  <2>1. samples + 1 \in Values
        BY <1>2 DEF WriteSample, Values
  <2>2. WriteMessage(c, samples + 1, "GOOD") \in Message
        BY <1>2, <2>1 DEF WriteSample, WriteMessage, Message, Qualities, Goto
  <2> QED  BY <1>2, <2>1, <2>2, GotoTypes DEF WriteSample
<1>3. ASSUME WriteBad(c)
      PROVE  TypeInv'
  <2>1. WriteMessage(c, 0, "BAD") \in Message
        BY <1>3 DEF WriteBad, WriteMessage, Message, Qualities, Goto
  <2> QED  BY <1>3, <2>1, GotoTypes DEF WriteBad
<1> QED  BY <1>1, <1>2, <1>3 DEF Write

LEMMA ReadType ==
  ASSUME TypeInv, NEW c \in Clients, Read(c)
  PROVE  TypeInv'
<1> USE TasksFacts, SizeFacts
    DEF shared, call, kept, Take, Leave, TypeInv, TypeOK, HandleChecked
<1> USE DEF Points, Critical, CreatePoints, DeletePoints, ReadPoints, ApplyPoints, Waiting
<1>h. Home(c) = "idle"
      BY DEF Home
<1>1. ASSUME ReadCall(c)
      PROVE  TypeInv'
  <2>1. handle[c] \in Handles
        BY <1>1 DEF ReadCall, Handles, Invalid
  <2> QED  BY <1>1, <2>1, GotoTypes DEF ReadCall
<1>2. ASSUME ReadLock(c)
      PROVE  TypeInv'
      BY <1>2, GotoTypes DEF ReadLock
<1>3. ASSUME ReadDeleted(c)
      PROVE  TypeInv'
      BY <1>3, <1>h, ReturnTypes DEF ReadDeleted
<1>4. ASSUME ReadValue(c)
      PROVE  TypeInv'
  <2>1. tags[handle[c]].value \in Values
        BY <1>4 DEF ReadValue, Goto, Tag
  <2>2. part' \in [Clients -> Values]
        BY <1>4, <2>1 DEF ReadValue
  <2> QED  BY <1>4, <2>2, GotoTypes DEF ReadValue
<1>5. ASSUME ReadQuality(c)
      PROVE  TypeInv'
  <2>1. tags[handle[c]].quality \in Qualities
        BY <1>5 DEF ReadQuality, Return, Goto, Tag
  <2>2. /\ seen' \in [Clients -> [value : Values, quality : Qualities]]
        /\ part' \in [Clients -> Values]
        BY <1>5, <2>1 DEF ReadQuality
  <2> QED  BY <1>5, <1>h, <2>2, ReturnTypes DEF ReadQuality
<1> QED  BY <1>1, <1>2, <1>3, <1>4, <1>5 DEF Read, ReadInside

LEMMA GiveUpType ==
  ASSUME TypeInv, NEW t \in Tasks, GiveUp(t)
  PROVE  TypeInv'
<1>1. Home(t) \in {"idle", "receive"}
      BY DEF Home
<1> QED  BY <1>1, TasksFacts, ReturnTypes
         DEF GiveUp, shared, kept, TypeInv, TypeOK, HandleChecked

LEMMA TagTaskType ==
  ASSUME TypeInv, TagTask
  PROVE  TypeInv'
<1> USE TasksFacts, SizeFacts
    DEF shared, call, kept, Take, Leave, TypeInv, TypeOK, HandleChecked
<1> USE DEF Points, Critical, CreatePoints, DeletePoints, ReadPoints, ApplyPoints, Waiting
<1>h. Home(TagDB) = "receive"
      BY DEF Home
<1>m. msg.handle \in Handles /\ msg.value \in Values /\ msg.quality \in Qualities
      BY DEF Message
<1>1. ASSUME Receive
      PROVE  TypeInv'
  <2>1. Head(queue) \in Message /\ Tail(queue) \in Seq(Message)
        BY <1>1 DEF Receive
  <2> QED  BY <1>1, <2>1, GotoTypes DEF Receive
<1>2. ASSUME ApplyLock
      PROVE  TypeInv'
      BY <1>2, GotoTypes DEF ApplyLock
<1>3. ASSUME ApplyReject
      PROVE  TypeInv'
      BY <1>3, <1>h, ReturnTypes DEF ApplyReject
<1>4. ASSUME ApplyValue
      PROVE  TypeInv'
  <2>1. tags' \in [Handles -> Tag]
        BY <1>4, <1>m DEF ApplyValue, Tag
  <2> QED  BY <1>4, <2>1, GotoTypes DEF ApplyValue
<1>5. ASSUME ApplyQuality
      PROVE  TypeInv'
  <2>1. tags' \in [Handles -> Tag]
        BY <1>5, <1>m DEF ApplyQuality, Tag
  <2> QED  BY <1>5, <2>1, GotoTypes DEF ApplyQuality
<1>6. ASSUME ApplyLogged
      PROVE  TypeInv'
      BY <1>6, <1>h, ReturnTypes DEF ApplyLogged
<1> QED  BY <1>1, <1>2, <1>3, <1>4, <1>5, <1>6, GiveUpType DEF TagTask, ApplyInside

LEMMA NextType == TypeInv /\ [Next]_vars => TypeInv'
<1> SUFFICES ASSUME TypeInv, [Next]_vars
             PROVE  TypeInv'
    OBVIOUS
<1>1. CASE UNCHANGED vars
      BY <1>1 DEF vars, TypeInv, TypeOK, HandleChecked
<1> QED  BY <1>1, TasksFacts, CreateType, DeleteType, ResolveType, WriteType, ReadType,
            GiveUpType, TagTaskType DEF Next

(***************************************************************************)
(* The variables of the tag database have their types in every reachable   *)
(* state: no step reads or writes outside s_tags, and no queued message    *)
(* has an invalid handle, although tag_db_write and tag_db_read check the  *)
(* handle before they take the mutex.                                      *)
(***************************************************************************)
THEOREM TypeCorrect == Spec => []TypeOK
<1>1. TypeInv => TypeOK
      BY DEF TypeInv
<1> QED  BY <1>1, InitType, NextType, PTL DEF Spec

-----------------------------------------------------------------------------
(* The invariant behind the safety properties. *)

\* Whoever is inside a critical section holds the mutex.
Exclusion == \A t \in Tasks : pc[t] \in Critical => mutex = t

AllocatedIsUsed == \A h \in Handles : tags[h].allocated => h < hwm

\* The slot that a creation has chosen is its own until it is committed.
Chosen(t) == slot[t] < hwm /\ ~tags[slot[t]].allocated
Filling ==
  \A t \in Tasks :
    /\ pc[t] \in {"create_fill", "create_commit"} =>
         Chosen(t) /\ \A h \in Handles : ~(tags[h].allocated /\ tags[h].name = name[t])
    /\ pc[t] = "create_commit" =>
         /\ tags[slot[t]].name = name[t]
         /\ tags[slot[t]].value = 0 /\ tags[slot[t]].quality = "UNCERTAIN"
    /\ pc[t] = "delete_reset" => Chosen(t)

\* Every other vacant slot is as tag_db_delete left it.
InWork(h) ==
  \E t \in Tasks : pc[t] \in {"create_fill", "create_commit", "delete_reset"} /\ slot[t] = h
VacantIsReset ==
  \A h \in Handles : h < hwm /\ ~tags[h].allocated /\ ~InWork(h) =>
                       tags[h].value = 0 /\ tags[h].quality = "BAD"

\* A slot stays live while a write is being applied to it.
Applying == pc[TagDB] = "apply_quality" =>
              tags[msg.handle].allocated /\ tags[msg.handle].value = msg.value

NameInv == Exclusion /\ AllocatedIsUsed /\ Filling /\ VacantIsReset /\ Applying /\ UniqueNames

LEMMA InitNames == Init => NameInv
<1> SUFFICES ASSUME Init
             PROVE  NameInv
    OBVIOUS
<1>1. \A t \in Tasks : pc[t] \in {"receive", "idle"}
      BY DEF Init
<1>2. hwm = 0 /\ \A h \in Handles : tags[h] = NoTag
      BY DEF Init
<1>3. Exclusion
      BY <1>1 DEF Exclusion, Critical, CreatePoints, DeletePoints, ReadPoints, ApplyPoints
<1>4. AllocatedIsUsed /\ UniqueNames
      BY <1>2 DEF AllocatedIsUsed, UniqueNames, NoTag
<1>5. Filling /\ Applying
      BY <1>1, TasksFacts DEF Filling, Applying
<1>6. VacantIsReset
      BY <1>2 DEF VacantIsReset, Handles
<1> QED  BY <1>3, <1>4, <1>5, <1>6 DEF NameInv

\* Only one task is inside.
LEMMA Alone ==
  ASSUME Exclusion, NEW t \in Tasks, pc[t] \in Critical
  PROVE  mutex = t /\ \A d \in Tasks : d # t => pc[d] \notin Critical
BY DEF Exclusion

\* Steps outside the critical sections: the table stays as it is, and the
\* one task that moves was not inside.
LEMMA OutsideNames ==
  ASSUME TypeInv, NameInv, UNCHANGED <<tags, hwm>>,
         NEW t \in Tasks, pc[t] \notin Critical,
         pc' \in [Tasks -> Points],
         \A d \in Tasks : d # t => /\ pc'[d] = pc[d] /\ slot'[d] = slot[d] /\ name'[d] = name[d],
         t # TagDB => msg' = msg,
         \/ mutex' = mutex /\ pc'[t] \notin Critical
         \/ mutex = Nobody /\ mutex' = t
            /\ pc'[t] \in {"create_scan", "delete_scan", "read_check", "apply_check"}
  PROVE  NameInv'
<1> USE TasksFacts DEF NameInv
<1>c. Critical = {"create_scan", "create_fill", "create_commit", "delete_scan", "delete_reset",
                  "read_check", "read_quality", "apply_check", "apply_quality", "apply_log"}
      BY DEF Critical, CreatePoints, DeletePoints, ReadPoints, ApplyPoints
<1>1. Exclusion'
  <2> SUFFICES ASSUME NEW d \in Tasks, pc'[d] \in Critical
               PROVE  mutex' = d
      BY DEF Exclusion, Critical, CreatePoints, DeletePoints, ReadPoints, ApplyPoints
  <2>1. CASE d = t
        BY <2>1
  <2>2. CASE d # t
        BY <2>2 DEF Exclusion
  <2> QED  BY <2>1, <2>2
<1>2. AllocatedIsUsed' /\ UniqueNames'
      BY DEF AllocatedIsUsed, UniqueNames
<1>3. Filling'
      BY <1>c DEF Filling, Chosen
<1>4. VacantIsReset'
  <2> SUFFICES ASSUME NEW h \in Handles, InWork(h)
               PROVE  InWork(h)'
      BY DEF VacantIsReset
  <2> QED  BY <1>c DEF InWork
<1>5. Applying'
      BY <1>c DEF Applying
<1> QED  BY <1>1, <1>2, <1>3, <1>4, <1>5

\* A step of the task inside, which stays inside or leaves and returns.
StepsInside(t) ==
  /\ t \in Tasks /\ pc[t] \in Critical
  /\ pc' \in [Tasks -> Points]
  /\ \A d \in Tasks : d # t => pc'[d] = pc[d] /\ slot'[d] = slot[d] /\ name'[d] = name[d]
  /\ t # TagDB => msg' = msg
  /\ \/ mutex' = mutex
     \/ mutex' = Nobody /\ pc'[t] \notin Critical

LEMMA InsideExclusion ==
  ASSUME NameInv, NEW t, StepsInside(t)
  PROVE  /\ Exclusion'
         /\ \A d \in Tasks : d # t => pc[d] \notin Critical /\ pc'[d] \notin Critical
<1>1. mutex = t /\ \A d \in Tasks : d # t => pc[d] \notin Critical
      BY Alone DEF NameInv, StepsInside
<1>2. \A d \in Tasks : d # t => pc'[d] \notin Critical
      BY <1>1 DEF StepsInside
<1>3. Exclusion'
  <2> SUFFICES ASSUME NEW d \in Tasks, pc'[d] \in Critical'
               PROVE  mutex' = d
      BY DEF Exclusion
  <2>1. Critical' = Critical
        BY DEF Critical, CreatePoints, DeletePoints, ReadPoints, ApplyPoints
  <2>2. d = t
        BY <1>2, <2>1
  <2> QED  BY <1>1, <2>1, <2>2 DEF StepsInside
<1> QED  BY <1>1, <1>2, <1>3

LEMMA CriticalPoints ==
  Critical = {"create_scan", "create_fill", "create_commit", "delete_scan", "delete_reset",
              "read_check", "read_quality", "apply_check", "apply_quality", "apply_log"}
BY DEF Critical, CreatePoints, DeletePoints, ReadPoints, ApplyPoints

\* A step inside that leaves the table alone and is not about to work on a
\* slot: a scan without result, a read, a write that is rejected or reported.
LEMMA IdleInsideNames ==
  ASSUME NameInv, NEW t, StepsInside(t), UNCHANGED <<tags, hwm>>,
         pc[t] \in {"create_scan", "delete_scan", "read_check", "read_quality", "apply_check",
                    "apply_log"},
         pc'[t] \in {"idle", "receive", "read_quality"}
  PROVE  NameInv'
<1>1. Exclusion' /\ \A d \in Tasks : d # t => pc[d] \notin Critical /\ pc'[d] \notin Critical
      BY InsideExclusion
<1>2. AllocatedIsUsed' /\ UniqueNames'
      BY DEF NameInv, AllocatedIsUsed, UniqueNames
<1>3. Filling'
      BY <1>1, CriticalPoints DEF Filling, StepsInside
<1>4. VacantIsReset'
  <2>1. \A h \in Handles : ~InWork(h) /\ ~InWork(h)'
        BY <1>1, CriticalPoints DEF InWork, StepsInside
  <2> QED  BY <2>1 DEF NameInv, VacantIsReset
<1>5. Applying'
      BY <1>1, CriticalPoints, TasksFacts DEF Applying
<1> QED  BY <1>1, <1>2, <1>3, <1>4, <1>5 DEF NameInv

LEMMA LeavesInside ==
  ASSUME TypeInv, NEW t \in Tasks, NEW from \in Critical, Leave(t, from)
  PROVE  /\ StepsInside(t) /\ pc[t] = from /\ pc'[t] = Home(t) /\ mutex' = Nobody
         /\ t # TagDB => msg' = msg
<1>1. /\ pc' \in [Tasks -> Points]
      /\ \A d \in Tasks : pc'[d] = IF d = t THEN Home(t) ELSE pc[d]
      BY ReturnTypes DEF Leave
<1>2. /\ pc[t] = from /\ mutex' = Nobody
      /\ name' = [name EXCEPT ![t] = NoName] /\ slot' = [slot EXCEPT ![t] = 0]
      /\ t # TagDB => msg' = msg
      BY DEF Leave, Return, Goto
<1>3. \A d \in Tasks : d # t => slot'[d] = slot[d] /\ name'[d] = name[d]
      BY <1>2 DEF TypeInv, TypeOK
<1>4. Home(t) \notin Critical
      BY CriticalPoints DEF Home
<1> QED  BY <1>1, <1>2, <1>3, <1>4 DEF StepsInside

LEMMA StaysInside ==
  ASSUME TypeInv, NEW t \in Tasks, NEW from \in Critical, NEW to \in Points, Goto(t, from, to),
         mutex' = mutex, name' = name, t # TagDB => msg' = msg,
         \A d \in Tasks : d # t => slot'[d] = slot[d]
  PROVE  StepsInside(t) /\ pc[t] = from /\ pc'[t] = to
BY GotoTypes DEF StepsInside

LEMMA CreateNames ==
  ASSUME TypeInv, NameInv, NEW c \in Clients, CreateInside(c), TypeInv'
  PROVE  NameInv'
<1> USE TasksFacts, SizeFacts DEF shared, call, kept, Leave
<1>h. Home(c) = "idle" /\ c # TagDB /\ c \in Tasks
      BY DEF Home
<1>1. CASE CreateDuplicate(c) \/ CreateFull(c)
  <2>1. StepsInside(c) /\ pc[c] = "create_scan" /\ pc'[c] = "idle" /\ UNCHANGED <<tags, hwm>>
        BY <1>1, <1>h, LeavesInside, CriticalPoints DEF CreateDuplicate, CreateFull
  <2> QED  BY <2>1, IdleInsideNames
\* A slot is chosen, under the name that no live slot has.
<1>2. CASE CreateReuse(c) \/ CreateExtend(c)
  <2>1. /\ pc[c] = "create_scan" /\ pc'[c] = "create_fill" /\ tags' = tags /\ name' = name
        /\ mutex' = mutex /\ msg' = msg /\ Named(name[c]) = {}
        BY <1>2 DEF CreateReuse, CreateExtend, Goto, TypeInv, TypeOK
  <2>2. /\ slot[c] \in Handles /\ slot'[c] \in Handles /\ slot'[c] < hwm'
        /\ ~tags[slot'[c]].allocated
        /\ \/ hwm' = hwm
           \/ hwm' = hwm + 1 /\ slot'[c] = hwm
        /\ \A d \in Tasks : d # c => slot'[d] = slot[d]
    <3>1. CASE CreateReuse(c)
      <4>1. PICK h \in Vacant : slot' = [slot EXCEPT ![c] = h]
            BY <3>1 DEF CreateReuse
      <4>2. h \in Handles /\ h < hwm /\ ~tags[h].allocated
            BY DEF Vacant, Used, TypeInv, TypeOK, Handles
      <4> QED  BY <3>1, <4>1, <4>2 DEF CreateReuse, TypeInv, TypeOK
    <3>2. CASE CreateExtend(c)
      <4>1. slot' = [slot EXCEPT ![c] = hwm] /\ hwm' = hwm + 1 /\ hwm < MaxTags
            BY <3>2 DEF CreateExtend
      <4>2. hwm \in Handles /\ ~(hwm < hwm)
            BY <4>1 DEF TypeInv, TypeOK, Handles
      <4>3. ~tags[hwm].allocated
            BY <4>2 DEF NameInv, AllocatedIsUsed
      <4> QED  BY <4>1, <4>2, <4>3 DEF TypeInv, TypeOK, Handles
    <3> QED  BY <1>2, <3>1, <3>2
  <2>3. StepsInside(c)
    <3>1. Goto(c, "create_scan", "create_fill")
          BY <1>2 DEF CreateReuse, CreateExtend
    <3>2. "create_scan" \in Critical /\ "create_fill" \in Points
          BY CriticalPoints DEF Points
    <3> QED  BY <1>h, <2>1, <2>2, <3>1, <3>2, StaysInside
  <2>4. Exclusion' /\ \A d \in Tasks : d # c => pc[d] \notin Critical /\ pc'[d] \notin Critical
        BY <2>3, InsideExclusion
  <2>5. AllocatedIsUsed' /\ UniqueNames'
        BY <2>1, <2>2 DEF NameInv, AllocatedIsUsed, UniqueNames, TypeInv, TypeOK, Handles
  <2>6. \A h \in Handles : ~(tags[h].allocated /\ tags[h].name = name[c])
    <3> SUFFICES ASSUME NEW h \in Handles, tags[h].allocated, tags[h].name = name[c]
                 PROVE  FALSE
        OBVIOUS
    <3>1. h < hwm
          BY DEF NameInv, AllocatedIsUsed
    <3>2. h \in Used
          BY <3>1 DEF Used, Handles, TypeInv, TypeOK
    <3> QED  BY <2>1, <3>2 DEF Named
  <2>7. Filling'
        BY <2>1, <2>2, <2>4, <2>6, CriticalPoints DEF Filling, Chosen
  <2>8. VacantIsReset'
    <3>1. \A h \in Handles : ~InWork(h)
          BY <2>1, <2>4, CriticalPoints DEF InWork
    <3>2. \A h \in Handles : h = slot'[c] => InWork(h)'
          BY <1>h, <2>1 DEF InWork
    <3>3. ASSUME NEW h \in Handles, h < hwm', h # slot'[c]
          PROVE  h < hwm
          BY <2>2, <3>3 DEF Handles, TypeInv, TypeOK
    <3> QED  BY <2>1, <3>1, <3>2, <3>3 DEF NameInv, VacantIsReset
  <2>9. Applying'
        BY <1>h, <2>1, <2>4, CriticalPoints DEF Applying
  <2> QED  BY <2>4, <2>5, <2>7, <2>8, <2>9 DEF NameInv
\* The slot is filled before it is live.
<1>3. CASE CreateFill(c)
  <2>1. /\ pc[c] = "create_fill" /\ pc'[c] = "create_commit" /\ name' = name /\ slot' = slot
        /\ mutex' = mutex /\ msg' = msg /\ hwm' = hwm /\ slot[c] \in Handles
        /\ tags[slot[c]] \in Tag
        /\ tags' = [tags EXCEPT ![slot[c]] = [@ EXCEPT !.name = name[c], !.value = 0,
                                                       !.quality = "UNCERTAIN"]]
        BY <1>3, <1>h DEF CreateFill, Goto, TypeInv, TypeOK
  <2>2. /\ \A h \in Handles : /\ tags'[h].allocated = tags[h].allocated
                               /\ h # slot[c] => tags'[h] = tags[h]
        /\ tags'[slot[c]].name = name[c] /\ tags'[slot[c]].value = 0
        /\ tags'[slot[c]].quality = "UNCERTAIN"
        BY <2>1 DEF Tag, TypeInv, TypeOK
  <2>3. StepsInside(c)
    <3>1. Goto(c, "create_fill", "create_commit")
          BY <1>3 DEF CreateFill
    <3>2. "create_fill" \in Critical /\ "create_commit" \in Points
          BY CriticalPoints DEF Points
    <3> QED  BY <1>h, <2>1, <3>1, <3>2, StaysInside
  <2>4. Exclusion' /\ \A d \in Tasks : d # c => pc[d] \notin Critical /\ pc'[d] \notin Critical
        BY <2>3, InsideExclusion
  <2>c. Chosen(c) /\ \A h \in Handles : ~(tags[h].allocated /\ tags[h].name = name[c])
        BY <1>h, <2>1 DEF NameInv, Filling
  <2>5. AllocatedIsUsed' /\ UniqueNames'
        BY <2>1, <2>2, <2>c DEF NameInv, AllocatedIsUsed, UniqueNames, Chosen
  <2>7. Filling'
        BY <2>1, <2>2, <2>4, <2>c, CriticalPoints DEF Filling, Chosen
  <2>8. VacantIsReset'
    <3>1. \A h \in Handles : InWork(h) => h = slot[c]
          BY <2>1, <2>4, CriticalPoints DEF InWork
    <3>2. \A h \in Handles : h = slot[c] => InWork(h)'
          BY <1>h, <2>1 DEF InWork
    <3> QED  BY <2>1, <2>2, <3>1, <3>2 DEF NameInv, VacantIsReset
  <2>9. Applying'
        BY <1>h, <2>1, <2>4, CriticalPoints DEF Applying
  <2> QED  BY <2>4, <2>5, <2>7, <2>8, <2>9 DEF NameInv
<1>4. CASE CreateCommit(c)
  <2>1. /\ pc[c] = "create_commit" /\ pc'[c] = "idle" /\ slot[c] \in Handles
        /\ mutex' = Nobody /\ msg' = msg /\ hwm' = hwm
        /\ tags[slot[c]] \in Tag
        /\ tags' = [tags EXCEPT ![slot[c]] = [@ EXCEPT !.allocated = TRUE]]
        BY <1>4, <1>h DEF CreateCommit, Return, Goto, TypeInv, TypeOK
  <2>2. /\ \A h \in Handles : /\ tags'[h].name = tags[h].name
                               /\ h # slot[c] => tags'[h] = tags[h]
        /\ tags'[slot[c]].allocated
        BY <2>1 DEF Tag, TypeInv, TypeOK
  <2>3. StepsInside(c)
        BY <1>h, <1>4, LeavesInside, CriticalPoints DEF CreateCommit
  <2>4. Exclusion' /\ \A d \in Tasks : d # c => pc[d] \notin Critical /\ pc'[d] \notin Critical
        BY <2>3, InsideExclusion
  <2>c. /\ Chosen(c) /\ tags[slot[c]].name = name[c]
        /\ \A h \in Handles : ~(tags[h].allocated /\ tags[h].name = name[c])
        BY <1>h, <2>1 DEF NameInv, Filling
  <2>5. AllocatedIsUsed' /\ UniqueNames'
        BY <2>1, <2>2, <2>c DEF NameInv, AllocatedIsUsed, UniqueNames, Chosen
  <2>7. Filling'
        BY <2>1, <2>4, CriticalPoints DEF Filling
  <2>8. VacantIsReset'
    <3>1. \A h \in Handles : InWork(h) => h = slot[c]
          BY <2>1, <2>4, CriticalPoints DEF InWork
    <3> QED  BY <2>1, <2>2, <3>1 DEF NameInv, VacantIsReset
  <2>9. Applying'
        BY <1>h, <2>1, <2>4, CriticalPoints DEF Applying
  <2> QED  BY <2>4, <2>5, <2>7, <2>8, <2>9 DEF NameInv
<1> QED  BY <1>1, <1>2, <1>3, <1>4 DEF CreateInside

LEMMA DeleteNames ==
  ASSUME TypeInv, NameInv, NEW c \in Clients, DeleteInside(c)
  PROVE  NameInv'
<1> USE TasksFacts, SizeFacts DEF shared, call, kept, Leave
<1>h. Home(c) = "idle" /\ c # TagDB /\ c \in Tasks
      BY DEF Home
<1>1. CASE DeleteMissing(c)
  <2>1. StepsInside(c) /\ pc[c] = "delete_scan" /\ pc'[c] = "idle" /\ UNCHANGED <<tags, hwm>>
        BY <1>1, <1>h, LeavesInside, CriticalPoints DEF DeleteMissing
  <2> QED  BY <2>1, IdleInsideNames
\* The slot stops being live, and is the deleting task's until it is reset.
<1>2. CASE DeleteMark(c)
  <2>1. /\ pc[c] = "delete_scan" /\ pc'[c] = "delete_reset" /\ name' = name
        /\ mutex' = mutex /\ msg' = msg /\ hwm' = hwm
        BY <1>2, <1>h DEF DeleteMark, Goto, TypeInv, TypeOK
  <2>2. PICK h \in Named(name[c]) :
               /\ slot' = [slot EXCEPT ![c] = h]
               /\ tags' = [tags EXCEPT ![h] = [@ EXCEPT !.allocated = FALSE]]
        BY <1>2 DEF DeleteMark
  <2>3. h \in Handles /\ h < hwm /\ tags[h] \in Tag
        BY DEF Named, Used, Handles, TypeInv, TypeOK
  <2>4. /\ \A g \in Handles : g # h => tags'[g] = tags[g]
        /\ tags'[h].allocated = FALSE /\ slot'[c] = h
        /\ \A d \in Tasks : d # c => slot'[d] = slot[d]
        BY <1>h, <2>2, <2>3 DEF Tag, TypeInv, TypeOK
  <2>5. StepsInside(c)
    <3>1. Goto(c, "delete_scan", "delete_reset")
          BY <1>2 DEF DeleteMark
    <3>2. "delete_scan" \in Critical /\ "delete_reset" \in Points
          BY CriticalPoints DEF Points, Critical
    <3> QED  BY <1>h, <2>1, <2>4, <3>1, <3>2, StaysInside
  <2>6. Exclusion' /\ \A d \in Tasks : d # c => pc[d] \notin Critical /\ pc'[d] \notin Critical
        BY <2>5, InsideExclusion
  <2>7. AllocatedIsUsed' /\ UniqueNames'
    <3>1. \A g \in Handles : tags'[g].allocated => g # h /\ tags[g].allocated
          BY <2>3, <2>4
    <3>2. \A g \in Handles : tags'[g].allocated => tags'[g] = tags[g]
          BY <2>4, <3>1
    <3>3. AllocatedIsUsed'
          BY <2>1, <3>1 DEF NameInv, AllocatedIsUsed
    <3>4. UniqueNames'
          BY <3>1, <3>2 DEF NameInv, UniqueNames
    <3> QED  BY <3>3, <3>4
  <2>8. Filling'
        BY <2>1, <2>3, <2>4, <2>6, CriticalPoints DEF Filling, Chosen
  <2>9. VacantIsReset'
    <3> SUFFICES ASSUME NEW g \in Handles, g < hwm', ~tags'[g].allocated, ~InWork(g)'
                 PROVE  tags'[g].value = 0 /\ tags'[g].quality = "BAD"
        BY DEF VacantIsReset
    <3>1. ~InWork(g)
          BY <2>1, <2>6, CriticalPoints DEF InWork
    <3>2. g # h
          BY <1>h, <2>1, <2>4 DEF InWork
    <3>3. g < hwm /\ ~tags[g].allocated /\ tags'[g] = tags[g]
          BY <2>1, <2>4, <3>2
    <3> QED  BY <3>1, <3>3 DEF NameInv, VacantIsReset
  <2>10. Applying'
        BY <1>h, <2>1, <2>6, CriticalPoints DEF Applying
  <2> QED  BY <2>6, <2>7, <2>8, <2>9, <2>10 DEF NameInv
<1>3. CASE DeleteReset(c)
  <2>1. /\ pc[c] = "delete_reset" /\ pc'[c] = "idle" /\ slot[c] \in Handles
        /\ mutex' = Nobody /\ msg' = msg /\ hwm' = hwm
        /\ tags[slot[c]] \in Tag
        /\ tags' = [tags EXCEPT ![slot[c]] = [@ EXCEPT !.value = 0, !.quality = "BAD"]]
        BY <1>3, <1>h DEF DeleteReset, Return, Goto, TypeInv, TypeOK
  <2>2. /\ \A g \in Handles : /\ tags'[g].name = tags[g].name
                               /\ tags'[g].allocated = tags[g].allocated
                               /\ g # slot[c] => tags'[g] = tags[g]
        /\ tags'[slot[c]].value = 0 /\ tags'[slot[c]].quality = "BAD"
        BY <2>1 DEF Tag, TypeInv, TypeOK
  <2>3. StepsInside(c)
        BY <1>h, <1>3, LeavesInside, CriticalPoints DEF DeleteReset
  <2>4. Exclusion' /\ \A d \in Tasks : d # c => pc[d] \notin Critical /\ pc'[d] \notin Critical
        BY <2>3, InsideExclusion
  <2>5. AllocatedIsUsed' /\ UniqueNames'
        BY <2>1, <2>2 DEF NameInv, AllocatedIsUsed, UniqueNames
  <2>6. Filling'
        BY <2>1, <2>4, CriticalPoints DEF Filling
  <2>7. VacantIsReset'
    <3>1. \A g \in Handles : InWork(g) => g = slot[c]
          BY <2>1, <2>4, CriticalPoints DEF InWork
    <3> QED  BY <2>1, <2>2, <3>1 DEF NameInv, VacantIsReset
  <2>8. Applying'
        BY <1>h, <2>1, <2>4, CriticalPoints DEF Applying
  <2> QED  BY <2>4, <2>5, <2>6, <2>7, <2>8 DEF NameInv
<1> QED  BY <1>1, <1>2, <1>3 DEF DeleteInside

LEMMA ReadNames ==
  ASSUME TypeInv, NameInv, NEW c \in Clients, ReadInside(c)
  PROVE  NameInv'
<1> USE TasksFacts DEF shared, call, kept
<1>h. Home(c) = "idle" /\ c # TagDB /\ c \in Tasks
      BY DEF Home
<1>1. CASE ReadDeleted(c) \/ ReadQuality(c)
  <2>1. PICK from \in {"read_check", "read_quality"} : Leave(c, from)
        BY <1>1 DEF ReadDeleted, ReadQuality
  <2>2. StepsInside(c) /\ pc[c] = from /\ pc'[c] = "idle"
        BY <1>h, <2>1, LeavesInside, CriticalPoints
  <2>3. UNCHANGED <<tags, hwm>>
        BY <1>1 DEF ReadDeleted, ReadQuality
  <2> QED  BY <2>2, <2>3, IdleInsideNames
<1>2. CASE ReadValue(c)
  <2>1. StepsInside(c) /\ pc[c] = "read_check" /\ pc'[c] = "read_quality"
        BY <1>2, <1>h, StaysInside, CriticalPoints DEF ReadValue, Points, Critical
  <2>2. UNCHANGED <<tags, hwm>>
        BY <1>2 DEF ReadValue
  <2> QED  BY <2>1, <2>2, IdleInsideNames
<1> QED  BY <1>1, <1>2 DEF ReadInside

\* The task of the database, while it applies a write.
LEMMA ApplyNames ==
  ASSUME TypeInv, NameInv, ApplyInside
  PROVE  NameInv'
<1> USE TasksFacts DEF shared, call, kept
<1>h. Home(TagDB) = "receive"
      BY DEF Home
<1>m. msg.handle \in Handles /\ tags[msg.handle] \in Tag
      BY DEF Message, TypeInv, TypeOK
<1>1. CASE ApplyReject \/ ApplyLogged
  <2>1. /\ StepsInside(TagDB) /\ pc'[TagDB] = "receive"
        /\ pc[TagDB] \in {"apply_check", "apply_log"}
        BY <1>1, <1>h, LeavesInside, CriticalPoints DEF ApplyReject, ApplyLogged
  <2>2. UNCHANGED <<tags, hwm>>
        BY <1>1 DEF ApplyReject, ApplyLogged
  <2> QED  BY <2>1, <2>2, IdleInsideNames
<1>2. CASE ApplyValue
  <2>1. /\ pc[TagDB] = "apply_check" /\ pc'[TagDB] = "apply_quality" /\ msg' = msg
        /\ hwm' = hwm /\ tags[msg.handle].allocated
        /\ tags' = [tags EXCEPT ![msg.handle] = [@ EXCEPT !.value = msg.value]]
        BY <1>2 DEF ApplyValue, Live, Goto, TypeInv, TypeOK
  <2>2. /\ \A h \in Handles : /\ tags'[h].allocated = tags[h].allocated
                               /\ tags'[h].name = tags[h].name
                               /\ ~tags[h].allocated => tags'[h] = tags[h]
        /\ tags'[msg.handle].value = msg.value
        BY <1>m, <2>1 DEF Tag, TypeInv, TypeOK
  <2>3. StepsInside(TagDB)
        BY <1>2, StaysInside, CriticalPoints DEF ApplyValue, Points, Critical
  <2>4. Exclusion' /\ \A d \in Tasks : d # TagDB => pc[d] \notin Critical /\ pc'[d] \notin Critical
        BY <2>3, InsideExclusion
  <2>5. AllocatedIsUsed' /\ UniqueNames'
        BY <2>1, <2>2 DEF NameInv, AllocatedIsUsed, UniqueNames
  <2>6. Filling'
        BY <2>1, <2>4, CriticalPoints DEF Filling
  <2>7. VacantIsReset'
    <3>1. \A h \in Handles : ~InWork(h)
          BY <2>1, <2>4, CriticalPoints DEF InWork
    <3> QED  BY <2>1, <2>2, <3>1 DEF NameInv, VacantIsReset
  <2>8. Applying'
        BY <1>m, <2>1, <2>2 DEF Applying
  <2> QED  BY <2>4, <2>5, <2>6, <2>7, <2>8 DEF NameInv
<1>3. CASE ApplyQuality
  <2>1. /\ pc[TagDB] = "apply_quality" /\ pc'[TagDB] = "apply_log" /\ hwm' = hwm
        /\ tags' = [tags EXCEPT ![msg.handle] = [@ EXCEPT !.quality = msg.quality]]
        BY <1>3 DEF ApplyQuality, Goto, TypeInv, TypeOK
  <2>2. tags[msg.handle].allocated
        BY <2>1 DEF NameInv, Applying
  <2>3. \A h \in Handles : /\ tags'[h].allocated = tags[h].allocated
                            /\ tags'[h].name = tags[h].name
                            /\ ~tags[h].allocated => tags'[h] = tags[h]
        BY <1>m, <2>1, <2>2 DEF Tag, TypeInv, TypeOK
  <2>4. StepsInside(TagDB)
        BY <1>3, StaysInside, CriticalPoints DEF ApplyQuality, Points, Critical
  <2>5. Exclusion' /\ \A d \in Tasks : d # TagDB => pc[d] \notin Critical /\ pc'[d] \notin Critical
        BY <2>4, InsideExclusion
  <2>6. AllocatedIsUsed' /\ UniqueNames'
        BY <2>1, <2>3 DEF NameInv, AllocatedIsUsed, UniqueNames
  <2>7. Filling'
        BY <2>1, <2>5, CriticalPoints DEF Filling
  <2>8. VacantIsReset'
    <3> SUFFICES ASSUME NEW h \in Handles, h < hwm', ~tags'[h].allocated
                 PROVE  tags'[h].value = 0 /\ tags'[h].quality = "BAD"
        BY DEF VacantIsReset
    <3>1. ~InWork(h)
          BY <2>1, <2>5, CriticalPoints DEF InWork
    <3>2. h < hwm /\ ~tags[h].allocated /\ tags'[h] = tags[h]
          BY <2>1, <2>3
    <3> QED  BY <3>1, <3>2 DEF NameInv, VacantIsReset
  <2>9. Applying'
        BY <2>1 DEF Applying
  <2> QED  BY <2>5, <2>6, <2>7, <2>8, <2>9 DEF NameInv
<1> QED  BY <1>1, <1>2, <1>3 DEF ApplyInside

\* The steps that are outside when they start.
Enters(t) ==
  \/ \E n \in Names : CreateCall(t, n) \/ DeleteCall(t, n) \/ Resolve(t, n)
  \/ CreateLock(t) \/ DeleteLock(t) \/ ReadLock(t)
  \/ ReadCall(t) \/ Write(t)

LEMMA EnterNames ==
  ASSUME TypeInv, NameInv, NEW c \in Clients, Enters(c)
  PROVE  NameInv'
<1> USE TasksFacts DEF shared, call, kept
<1>1. c \in Tasks /\ UNCHANGED <<tags, hwm, msg>>
      BY DEF Enters, CreateCall, DeleteCall, Resolve, CreateLock, DeleteLock, ReadLock,
             ReadCall, Write, WriteCheck, WriteSample, WriteBad, WriteDropped
<1>2. \A d \in Tasks : d # c => slot'[d] = slot[d] /\ name'[d] = name[d]
      BY DEF Enters, CreateCall, DeleteCall, Resolve, CreateLock, DeleteLock, ReadLock,
             ReadCall, Write, WriteCheck, WriteSample, WriteBad, WriteDropped, TypeInv, TypeOK
<1>3. CASE CreateLock(c) \/ DeleteLock(c) \/ ReadLock(c)
  <2>1. PICK from \in Waiting, to \in {"create_scan", "delete_scan", "read_check"} :
              Take(c, from, to)
        BY <1>3 DEF CreateLock, DeleteLock, ReadLock, Waiting
  <2>2. to \in Points /\ from \notin Critical
        BY CriticalPoints DEF Waiting, Points
  <2>3. /\ pc' \in [Tasks -> Points] /\ pc[c] = from /\ pc'[c] = to
        /\ \A d \in Tasks : d # c => pc'[d] = pc[d]
        /\ mutex = Nobody /\ mutex' = c
        BY <1>1, <2>1, <2>2, GotoTypes DEF Take
  <2> QED  BY <1>1, <1>2, <2>2, <2>3, OutsideNames
<1>4. CASE ~(CreateLock(c) \/ DeleteLock(c) \/ ReadLock(c))
  <2>1. mutex' = mutex
        BY <1>4 DEF Enters, CreateCall, DeleteCall, Resolve, ReadCall,
                    Write, WriteCheck, WriteSample, WriteBad, WriteDropped
  <2>2. \/ pc' = pc /\ pc[c] = "idle"
        \/ \E from \in {"idle", "send"}, to \in {"idle", "send", "create", "delete", "read"} :
              Goto(c, from, to)
        BY <1>4 DEF Enters, CreateCall, DeleteCall, Resolve, ReadCall,
                    Write, WriteCheck, WriteSample, WriteBad, WriteDropped
  <2>3. /\ pc' \in [Tasks -> Points] /\ pc[c] \notin Critical /\ pc'[c] \notin Critical
        /\ \A d \in Tasks : d # c => pc'[d] = pc[d]
    <3>1. CASE pc' = pc /\ pc[c] = "idle"
          BY <3>1, CriticalPoints DEF TypeInv, TypeOK
    <3>2. ASSUME NEW from \in {"idle", "send"},
                 NEW to \in {"idle", "send", "create", "delete", "read"}, Goto(c, from, to)
          PROVE  <2>3!:
      <4>1. to \in Points /\ from \notin Critical /\ to \notin Critical
            BY CriticalPoints DEF Points, Waiting
      <4> QED  BY <1>1, <3>2, <4>1, GotoTypes
    <3> QED  BY <2>2, <3>1, <3>2
  <2> QED  BY <1>1, <1>2, <2>1, <2>3, OutsideNames
<1> QED  BY <1>3, <1>4

LEMMA GiveUpNames ==
  ASSUME TypeInv, NameInv, NEW t \in Tasks, GiveUp(t)
  PROVE  NameInv'
<1>1. PICK point \in Waiting : Return(t, point)
      BY DEF GiveUp
<1>2. UNCHANGED <<tags, hwm, mutex>>
      BY DEF GiveUp, shared
<1>3. point \notin Critical /\ Home(t) \notin Critical
      BY CriticalPoints DEF Waiting, Home
<1>4. /\ pc' \in [Tasks -> Points]
      /\ \A d \in Tasks : pc'[d] = IF d = t THEN Home(t) ELSE pc[d]
      BY <1>1, ReturnTypes
<1>5. /\ pc[t] = point /\ (t # TagDB => msg' = msg)
      /\ \A d \in Tasks : d # t => slot'[d] = slot[d] /\ name'[d] = name[d]
      BY <1>1 DEF Return, Goto, TypeInv, TypeOK
<1> QED  BY <1>2, <1>3, <1>4, <1>5, OutsideNames

LEMMA ReceiveNames ==
  ASSUME TypeInv, NameInv, Receive \/ ApplyLock
  PROVE  NameInv'
<1> USE TasksFacts DEF shared, call, kept
<1>1. /\ UNCHANGED <<tags, hwm>>
      /\ \A d \in Tasks : slot'[d] = slot[d] /\ name'[d] = name[d]
      BY DEF Receive, ApplyLock
<1>2. CASE Receive
  <2>1. Goto(TagDB, "receive", "apply") /\ mutex' = mutex
        BY <1>2 DEF Receive
  <2>2. "apply" \in Points /\ "receive" \notin Critical /\ "apply" \notin Critical
        BY CriticalPoints DEF Points, Waiting
  <2>3. /\ pc' \in [Tasks -> Points] /\ pc[TagDB] \notin Critical /\ pc'[TagDB] \notin Critical
        /\ \A d \in Tasks : d # TagDB => pc'[d] = pc[d]
        BY <2>1, <2>2, GotoTypes
  <2> QED  BY <1>1, <2>1, <2>3, OutsideNames
<1>3. CASE ApplyLock
  <2>1. Goto(TagDB, "apply", "apply_check") /\ mutex = Nobody /\ mutex' = TagDB
        BY <1>3 DEF ApplyLock, Take
  <2>2. "apply_check" \in Points /\ "apply" \notin Critical
        BY CriticalPoints DEF Points
  <2>3. /\ pc' \in [Tasks -> Points] /\ pc[TagDB] \notin Critical /\ pc'[TagDB] = "apply_check"
        /\ \A d \in Tasks : d # TagDB => pc'[d] = pc[d]
        BY <2>1, <2>2, GotoTypes
  <2> QED  BY <1>1, <2>1, <2>3, OutsideNames
<1> QED  BY <1>2, <1>3

LEMMA NextNames == TypeInv /\ NameInv /\ [Next]_vars => NameInv'
<1> SUFFICES ASSUME TypeInv, NameInv, [Next]_vars
             PROVE  NameInv'
    OBVIOUS
<1> USE TasksFacts
<1>t. TypeInv'
      BY NextType
<1>1. CASE UNCHANGED vars
      BY <1>1 DEF vars, NameInv, Exclusion, AllocatedIsUsed, Filling, Chosen, VacantIsReset,
                  InWork, Applying, UniqueNames, Critical, CreatePoints, DeletePoints,
                  ReadPoints, ApplyPoints
<1>2. ASSUME NEW c \in Admins, Create(c)
      PROVE  NameInv'
      BY <1>t, <1>2, CreateNames, EnterNames DEF Create, Enters
<1>3. ASSUME NEW c \in Deleters, Delete(c)
      PROVE  NameInv'
      BY <1>3, DeleteNames, EnterNames DEF Delete, Enters
<1>4. ASSUME NEW c \in Producers \cup Readers, GetHandle(c)
      PROVE  NameInv'
      BY <1>4, EnterNames DEF GetHandle, Enters
<1>5. ASSUME NEW c \in Producers, Write(c)
      PROVE  NameInv'
      BY <1>5, EnterNames DEF Enters
<1>6. ASSUME NEW c \in Readers, Read(c)
      PROVE  NameInv'
      BY <1>6, ReadNames, EnterNames DEF Read, Enters
<1>7. ASSUME TagTask
      PROVE  NameInv'
      BY <1>7, GiveUpNames, ApplyNames, ReceiveNames DEF TagTask
<1> QED  BY <1>1, <1>2, <1>3, <1>4, <1>5, <1>6, <1>7, GiveUpNames DEF Next

(***************************************************************************)
(* No two live tags have one name, for any number of administrators that   *)
(* race to create and delete: the slot a creation has chosen is its own    *)
(* from the duplicate check to the commit, because the mutex is.           *)
(***************************************************************************)
THEOREM NamesAreUnique == Spec => []UniqueNames
<1>1. NameInv => UniqueNames
      BY DEF NameInv
<1> QED  BY <1>1, InitType, InitNames, NextType, NextNames, PTL DEF Spec

(***************************************************************************)
(* Whenever the mutex is free, a vacant slot is as tag_db_delete left it:  *)
(* whatever is queued or held by vTagDatabaseTask when a tag is deleted,   *)
(* the check of the slot under the mutex keeps it out.                     *)
(***************************************************************************)
THEOREM DeletedStaysReset == Spec => []DeletedIsReset
<1>1. TypeInv /\ NameInv => DeletedIsReset
  <2> SUFFICES ASSUME TypeInv, NameInv, mutex = Nobody, NEW h \in Vacant
               PROVE  tags[h].value = 0 /\ tags[h].quality = "BAD"
      BY DEF DeletedIsReset
  <2>1. \A t \in Tasks : pc[t] \notin Critical
        BY TasksFacts DEF NameInv, Exclusion
  <2>2. ~InWork(h)
        BY <2>1, CriticalPoints DEF InWork
  <2>3. h \in Handles /\ h < hwm /\ ~tags[h].allocated
        BY SizeFacts DEF Vacant, Used, Handles, TypeInv, TypeOK
  <2> QED  BY <2>2, <2>3 DEF NameInv, VacantIsReset
<1> QED  BY <1>1, InitType, InitNames, NextType, NextNames, PTL DEF Spec

-----------------------------------------------------------------------------
(* The invariant behind ReadsAreOneWrite. *)

\* Value and quality belong together: only a measurement is GOOD.
Paired(w) == (w.value # 0) <=> (w.quality = "GOOD")

QueuePaired == (\A i \in DOMAIN queue : Paired(queue[i])) /\ Paired(msg)
TagsPaired == \A h \in Handles :
                tags[h].allocated =>
                  Paired(tags[h]) \/ (pc[TagDB] = "apply_quality" /\ msg.handle = h)
\* A read that has copied the value is of a live slot that holds it still.
ReadsPaired == \A c \in Clients :
                 /\ Paired(seen[c])
                 /\ pc[c] = "read_quality" => /\ tags[handle[c]].allocated
                                              /\ part[c] = tags[handle[c]].value
PairInv == QueuePaired /\ TagsPaired /\ ReadsPaired

LEMMA InitPairs == Init => PairInv
<1> SUFFICES ASSUME Init
             PROVE  PairInv
    OBVIOUS
<1>1. QueuePaired
      BY DEF Init, QueuePaired, Paired, NoMessage
<1>2. TagsPaired
      BY DEF Init, TagsPaired, NoTag
<1>3. \A c \in Clients : pc[c] = "idle"
      BY TasksFacts DEF Init
<1>4. \A c \in Clients : Paired(seen[c])
      BY DEF Init, Paired
<1> QED  BY <1>1, <1>2, <1>3, <1>4 DEF PairInv, ReadsPaired

\* Creations and deletions: nobody reads or applies a write meanwhile.
LEMMA AdminPairs ==
  ASSUME TypeInv, NameInv, PairInv, NEW c \in Clients, StepsInside(c), c # TagDB,
         UNCHANGED <<queue, kept>>, pc'[c] # "read_quality",
         \A h \in Handles : tags'[h].allocated =>
           \/ tags'[h] = tags[h]
           \/ tags'[h].value = 0 /\ tags'[h].quality # "GOOD"
  PROVE  PairInv'
<1> USE TasksFacts
<1>1. \A d \in Tasks : d # c => pc[d] \notin Critical /\ pc'[d] \notin Critical
      BY InsideExclusion
<1>2. msg' = msg /\ queue' = queue /\ seen' = seen
      BY DEF StepsInside, kept
<1>3. QueuePaired'
      BY <1>2 DEF PairInv, QueuePaired, Paired
<1>4. TagsPaired'
  <2> SUFFICES ASSUME NEW h \in Handles, tags'[h].allocated
               PROVE  Paired(tags'[h])
      BY DEF TagsPaired, Paired
  <2>1. CASE tags'[h] = tags[h]
    <3>1. pc[TagDB] # "apply_quality"
          BY <1>1, CriticalPoints
    <3> QED  BY <2>1, <3>1 DEF PairInv, TagsPaired, Paired
  <2>2. CASE tags'[h].value = 0 /\ tags'[h].quality # "GOOD"
        BY <2>2 DEF Paired
  <2> QED  BY <2>1, <2>2
<1>5. ReadsPaired'
      BY <1>1, <1>2, CriticalPoints DEF PairInv, ReadsPaired, Paired
<1> QED  BY <1>3, <1>4, <1>5 DEF PairInv

LEMMA CreatePairs ==
  ASSUME TypeInv, NameInv, PairInv, NEW c \in Clients, CreateInside(c)
  PROVE  PairInv'
<1> USE TasksFacts DEF shared, Leave
<1>h. Home(c) = "idle" /\ c # TagDB /\ c \in Tasks
      BY DEF Home
<1>1. CASE CreateDuplicate(c) \/ CreateFull(c)
  <2>1. StepsInside(c) /\ pc'[c] = "idle" /\ UNCHANGED <<tags, queue, kept>>
        BY <1>1, <1>h, LeavesInside, CriticalPoints DEF CreateDuplicate, CreateFull
  <2> QED  BY <1>h, <2>1, AdminPairs
<1>2. CASE CreateReuse(c) \/ CreateExtend(c)
  <2>1. /\ Goto(c, "create_scan", "create_fill") /\ UNCHANGED <<tags, queue, kept>>
        /\ UNCHANGED <<mutex, msg, name>>
        /\ \A d \in Tasks : d # c => slot'[d] = slot[d]
        BY <1>2 DEF CreateReuse, CreateExtend, TypeInv, TypeOK
  <2>2. "create_scan" \in Critical /\ "create_fill" \in Points
        BY CriticalPoints DEF Points, Critical
  <2>3. StepsInside(c) /\ pc'[c] = "create_fill"
        BY <1>h, <2>1, <2>2, StaysInside
  <2> QED  BY <1>h, <2>1, <2>3, AdminPairs
<1>3. CASE CreateFill(c)
  <2>1. /\ Goto(c, "create_fill", "create_commit") /\ UNCHANGED <<queue, kept>>
        /\ UNCHANGED <<mutex, msg, call>> /\ slot[c] \in Handles
        /\ tags[slot[c]] \in Tag
        /\ tags' = [tags EXCEPT ![slot[c]] = [@ EXCEPT !.name = name[c], !.value = 0,
                                                       !.quality = "UNCERTAIN"]]
        BY <1>3, <1>h DEF CreateFill, TypeInv, TypeOK
  <2>2. "create_fill" \in Critical /\ "create_commit" \in Points
        BY CriticalPoints DEF Points, Critical
  <2>3. StepsInside(c) /\ pc'[c] = "create_commit"
        BY <1>h, <2>1, <2>2, StaysInside DEF call
  <2>4. \A h \in Handles : \/ tags'[h] = tags[h]
                           \/ tags'[h].value = 0 /\ tags'[h].quality # "GOOD"
        BY <2>1 DEF Tag, TypeInv, TypeOK
  <2> QED  BY <1>h, <2>1, <2>3, <2>4, AdminPairs
<1>4. CASE CreateCommit(c)
  <2>1. /\ pc[c] = "create_commit" /\ UNCHANGED <<queue, kept>> /\ slot[c] \in Handles
        /\ tags[slot[c]] \in Tag
        /\ tags' = [tags EXCEPT ![slot[c]] = [@ EXCEPT !.allocated = TRUE]]
        BY <1>4, <1>h DEF CreateCommit, Return, Goto, TypeInv, TypeOK
  <2>2. StepsInside(c) /\ pc'[c] = "idle"
        BY <1>4, <1>h, LeavesInside, CriticalPoints DEF CreateCommit
  <2>3. tags[slot[c]].value = 0 /\ tags[slot[c]].quality = "UNCERTAIN"
        BY <1>h, <2>1 DEF NameInv, Filling
  <2>4. \A h \in Handles : \/ tags'[h] = tags[h]
                           \/ tags'[h].value = 0 /\ tags'[h].quality # "GOOD"
        BY <2>1, <2>3 DEF Tag, TypeInv, TypeOK
  <2> QED  BY <1>h, <2>1, <2>2, <2>4, AdminPairs
<1> QED  BY <1>1, <1>2, <1>3, <1>4 DEF CreateInside

LEMMA DeletePairs ==
  ASSUME TypeInv, NameInv, PairInv, NEW c \in Clients, DeleteInside(c)
  PROVE  PairInv'
<1> USE TasksFacts DEF shared, Leave
<1>h. Home(c) = "idle" /\ c # TagDB /\ c \in Tasks
      BY DEF Home
<1>1. CASE DeleteMissing(c)
  <2>1. StepsInside(c) /\ pc'[c] = "idle" /\ UNCHANGED <<tags, queue, kept>>
        BY <1>1, <1>h, LeavesInside, CriticalPoints DEF DeleteMissing
  <2> QED  BY <1>h, <2>1, AdminPairs
<1>2. CASE DeleteMark(c)
  <2>1. PICK h \in Named(name[c]) :
               /\ slot' = [slot EXCEPT ![c] = h]
               /\ tags' = [tags EXCEPT ![h] = [@ EXCEPT !.allocated = FALSE]]
        BY <1>2 DEF DeleteMark
  <2>2. h \in Handles /\ tags[h] \in Tag
        BY SizeFacts DEF Named, Used, Handles, TypeInv, TypeOK
  <2>3. /\ \A g \in Handles : g # h => tags'[g] = tags[g]
        /\ tags'[h].allocated = FALSE
        /\ \A d \in Tasks : d # c => slot'[d] = slot[d]
        BY <2>1, <2>2 DEF Tag, TypeInv, TypeOK
  <2>4. /\ Goto(c, "delete_scan", "delete_reset") /\ UNCHANGED <<queue, kept>>
        /\ UNCHANGED <<mutex, msg, name>>
        BY <1>2 DEF DeleteMark
  <2>5. "delete_scan" \in Critical /\ "delete_reset" \in Points
        BY CriticalPoints DEF Points, Critical
  <2>6. StepsInside(c) /\ pc'[c] = "delete_reset"
        BY <1>h, <2>3, <2>4, <2>5, StaysInside
  <2> QED  BY <1>h, <2>3, <2>4, <2>6, AdminPairs
<1>3. CASE DeleteReset(c)
  <2>1. /\ UNCHANGED <<queue, kept>> /\ slot[c] \in Handles /\ tags[slot[c]] \in Tag
        /\ tags' = [tags EXCEPT ![slot[c]] = [@ EXCEPT !.value = 0, !.quality = "BAD"]]
        BY <1>3, <1>h DEF DeleteReset, TypeInv, TypeOK
  <2>2. StepsInside(c) /\ pc'[c] = "idle"
        BY <1>3, <1>h, LeavesInside, CriticalPoints DEF DeleteReset
  <2>3. \A h \in Handles : \/ tags'[h] = tags[h]
                           \/ tags'[h].value = 0 /\ tags'[h].quality # "GOOD"
        BY <2>1 DEF Tag, TypeInv, TypeOK
  <2> QED  BY <1>h, <2>1, <2>2, <2>3, AdminPairs
<1> QED  BY <1>1, <1>2, <1>3 DEF DeleteInside

LEMMA ReadPairs ==
  ASSUME TypeInv, NameInv, PairInv, NEW c \in Clients, ReadInside(c)
  PROVE  PairInv'
<1> USE TasksFacts DEF shared, call, kept
<1>h. Home(c) = "idle" /\ c # TagDB /\ c \in Tasks
      BY DEF Home
<1>r. pc[c] \in {"read_check", "read_quality"} /\ handle[c] \in Handles
      BY DEF ReadInside, ReadDeleted, ReadValue, ReadQuality, Leave, Return, Goto,
             TypeInv, HandleChecked
<1>s. StepsInside(c) /\ pc'[c] \in {"idle", "read_quality"}
  <2>1. CASE ReadDeleted(c) \/ ReadQuality(c)
        BY <2>1, <1>h, LeavesInside, CriticalPoints DEF ReadDeleted, ReadQuality
  <2>2. CASE ReadValue(c)
        BY <2>2, <1>h, StaysInside, CriticalPoints DEF ReadValue, Points, Critical
  <2> QED  BY <2>1, <2>2 DEF ReadInside
<1>1. \A d \in Tasks : d # c => pc[d] \notin Critical /\ pc'[d] \notin Critical
      BY <1>s, InsideExclusion
<1>2. UNCHANGED <<tags, queue, msg, handle>>
      BY <1>s, <1>h DEF StepsInside, ReadInside, ReadDeleted, ReadValue, ReadQuality
<1>3. QueuePaired'
      BY <1>2 DEF PairInv, QueuePaired, Paired
<1>4. TagsPaired'
      BY <1>1, <1>2, <1>h, CriticalPoints DEF PairInv, TagsPaired, Paired
<1>5. ReadsPaired'
  <2>1. CASE ReadDeleted(c)
    <3>1. seen' = seen /\ pc'[c] = "idle"
          BY <2>1, <1>h, LeavesInside, <1>r, CriticalPoints DEF ReadDeleted
    <3> QED  BY <1>1, <3>1, CriticalPoints DEF PairInv, ReadsPaired, Paired
  <2>2. CASE ReadValue(c)
    <3>1. seen' = seen /\ part'[c] = tags[handle[c]].value /\ tags[handle[c]].allocated
          BY <2>2 DEF ReadValue, TypeInv, TypeOK
    <3> QED  BY <1>1, <1>2, <3>1, CriticalPoints DEF PairInv, ReadsPaired, Paired
  <2>3. CASE ReadQuality(c)
    <3>1. /\ pc[c] = "read_quality" /\ pc'[c] = "idle"
          /\ seen' = [seen EXCEPT ![c] = [value |-> part[c],
                                          quality |-> tags[handle[c]].quality]]
          BY <2>3, <1>h, LeavesInside, CriticalPoints DEF ReadQuality
    <3>2. pc[TagDB] # "apply_quality"
          BY <1>1, <1>h, CriticalPoints
    <3>3. part[c] = tags[handle[c]].value /\ Paired(tags[handle[c]])
          BY <1>r, <3>1, <3>2 DEF PairInv, ReadsPaired, TagsPaired
    <3>4. Paired(seen'[c])
          BY <3>1, <3>3 DEF Paired, TypeInv, TypeOK
    <3>5. \A d \in Clients : d # c => seen'[d] = seen[d]
          BY <3>1 DEF TypeInv, TypeOK
    <3> QED  BY <1>1, <3>1, <3>4, <3>5, CriticalPoints DEF PairInv, ReadsPaired, Paired
  <2> QED  BY <2>1, <2>2, <2>3 DEF ReadInside
<1> QED  BY <1>3, <1>4, <1>5 DEF PairInv

LEMMA ApplyPairs ==
  ASSUME TypeInv, NameInv, PairInv, ApplyInside
  PROVE  PairInv'
<1> USE TasksFacts DEF shared, call, kept
<1>h. Home(TagDB) = "receive"
      BY DEF Home
<1>s. StepsInside(TagDB)
  <2>1. CASE ApplyReject \/ ApplyLogged
        BY <2>1, LeavesInside, CriticalPoints DEF ApplyReject, ApplyLogged
  <2>2. CASE ApplyValue \/ ApplyQuality
        BY <2>2, StaysInside, CriticalPoints DEF ApplyValue, ApplyQuality, Points, Critical
  <2> QED  BY <2>1, <2>2 DEF ApplyInside
<1>1. \A d \in Clients : pc[d] \notin Critical /\ pc'[d] \notin Critical
      BY <1>s, InsideExclusion
<1>2. UNCHANGED <<queue, seen>>
      BY DEF ApplyInside, ApplyReject, ApplyValue, ApplyQuality, ApplyLogged
<1>3. msg' = msg \/ msg' = NoMessage
      BY DEF ApplyInside, ApplyReject, ApplyValue, ApplyQuality, ApplyLogged, Leave, Return
<1>4. QueuePaired'
      BY <1>2, <1>3 DEF PairInv, QueuePaired, Paired, NoMessage
<1>5. ReadsPaired'
      BY <1>1, <1>2, CriticalPoints DEF PairInv, ReadsPaired, Paired
<1>m. msg.handle \in Handles /\ tags[msg.handle] \in Tag
      BY DEF Message, TypeInv, TypeOK
<1>6. TagsPaired'
  <2>1. CASE ApplyReject \/ ApplyLogged
    <3>1. pc[TagDB] # "apply_quality" /\ tags' = tags
          BY <2>1 DEF ApplyReject, ApplyLogged, Leave, Return, Goto
    <3> QED  BY <3>1 DEF PairInv, TagsPaired, Paired
  <2>2. CASE ApplyValue
    <3>1. /\ pc[TagDB] = "apply_check" /\ pc'[TagDB] = "apply_quality" /\ msg' = msg
          /\ tags' = [tags EXCEPT ![msg.handle] = [@ EXCEPT !.value = msg.value]]
          BY <2>2 DEF ApplyValue, Goto, TypeInv, TypeOK
    <3>2. \A h \in Handles : h # msg.handle => tags'[h] = tags[h]
          BY <3>1 DEF TypeInv, TypeOK
    <3> QED  BY <3>1, <3>2 DEF PairInv, TagsPaired, Paired
  <2>3. CASE ApplyQuality
    <3>1. /\ pc[TagDB] = "apply_quality"
          /\ tags' = [tags EXCEPT ![msg.handle] = [@ EXCEPT !.quality = msg.quality]]
          BY <2>3 DEF ApplyQuality, Goto
    <3>2. tags[msg.handle].value = msg.value
          BY <3>1 DEF NameInv, Applying
    <3>3. tags'[msg.handle].value = msg.value /\ tags'[msg.handle].quality = msg.quality
          BY <1>m, <3>1, <3>2 DEF Tag, TypeInv, TypeOK
    <3>4. Paired(tags'[msg.handle])
          BY <3>3 DEF PairInv, QueuePaired, Paired
    <3>5. \A h \in Handles : h # msg.handle => tags'[h] = tags[h]
          BY <3>1 DEF TypeInv, TypeOK
    <3> QED  BY <3>4, <3>5 DEF PairInv, TagsPaired, Paired
  <2> QED  BY <2>1, <2>2, <2>3 DEF ApplyInside
<1> QED  BY <1>4, <1>5, <1>6 DEF PairInv

\* Outside, the table and what was read stay; nobody gets to "read_quality"
\* and vTagDatabaseTask, inside, does not move.
LEMMA OutsidePairs ==
  ASSUME PairInv, QueuePaired', UNCHANGED <<tags, seen, part>>,
         pc[TagDB] = "apply_quality" => pc'[TagDB] = "apply_quality" /\ msg' = msg,
         \A c \in Clients : pc'[c] = "read_quality" =>
                              pc[c] = "read_quality" /\ handle'[c] = handle[c]
  PROVE  PairInv'
<1>1. TagsPaired'
      BY DEF PairInv, TagsPaired, Paired
<1>2. ReadsPaired'
      BY DEF PairInv, ReadsPaired, Paired
<1> QED  BY <1>1, <1>2 DEF PairInv

LEMMA EnterPairs ==
  ASSUME TypeInv, PairInv, NEW c \in Clients, Enters(c)
  PROVE  PairInv'
<1> USE TasksFacts DEF shared, call, kept
<1>1. UNCHANGED <<tags, msg, seen, part>>
      BY DEF Enters, CreateCall, DeleteCall, Resolve, CreateLock, DeleteLock, ReadLock,
             ReadCall, Write, WriteCheck, WriteSample, WriteBad, WriteDropped
<1>2. /\ \A d \in Tasks : d # c => pc'[d] = pc[d]
      /\ pc'[c] # "read_quality"
      BY DEF Enters, CreateCall, DeleteCall, Resolve, CreateLock, DeleteLock, ReadLock,
             ReadCall, Write, WriteCheck, WriteSample, WriteBad, WriteDropped, Take, Goto,
             TypeInv, TypeOK
<1>3. \A d \in Clients : d # c => handle'[d] = handle[d]
      BY DEF Enters, CreateCall, DeleteCall, Resolve, CreateLock, DeleteLock, ReadLock,
             ReadCall, Write, WriteCheck, WriteSample, WriteBad, WriteDropped, TypeInv, TypeOK
<1>4. QueuePaired'
  <2>1. CASE queue' = queue
        BY <1>1, <2>1 DEF PairInv, QueuePaired, Paired
  <2>2. CASE WriteSample(c) \/ WriteBad(c)
    <3>1. PICK m : queue' = Append(queue, m) /\ Paired(m)
      <4>1. CASE WriteBad(c)
            BY <4>1 DEF WriteBad, WriteMessage, Paired
      <4>2. CASE WriteSample(c)
        <5>1. samples + 1 # 0
              BY SizeFacts DEF TypeInv, TypeOK, Values
        <5> QED  BY <4>2, <5>1 DEF WriteSample, WriteMessage, Paired
      <4> QED  BY <2>2, <4>1, <4>2
    <3>2. /\ DOMAIN queue' = 1 .. Len(queue) + 1 /\ DOMAIN queue = 1 .. Len(queue)
          /\ \A i \in DOMAIN queue' :
               queue'[i] = IF i = Len(queue) + 1 THEN m ELSE queue[i]
          BY <3>1 DEF TypeInv, TypeOK
    <3>3. Len(queue) \in Nat
          BY DEF TypeInv, TypeOK
    <3>4. \A i \in DOMAIN queue' : Paired(queue'[i])
      <4> SUFFICES ASSUME NEW i \in DOMAIN queue'
                   PROVE  Paired(queue'[i])
          OBVIOUS
      <4>1. CASE i = Len(queue) + 1
            BY <3>1, <3>2, <4>1
      <4>2. CASE i # Len(queue) + 1
        <5>1. i \in DOMAIN queue /\ queue'[i] = queue[i]
              BY <3>2, <3>3, <4>2
        <5> QED  BY <5>1 DEF PairInv, QueuePaired
      <4> QED  BY <4>1, <4>2
    <3> QED  BY <1>1, <3>4 DEF PairInv, QueuePaired, Paired
  <2>3. CASE ~(WriteSample(c) \/ WriteBad(c))
    <3>1. queue' = queue
          BY <2>3 DEF Enters, CreateCall, DeleteCall, Resolve, CreateLock, DeleteLock,
                      ReadLock, ReadCall, Write, WriteCheck, WriteDropped
    <3> QED  BY <2>1, <3>1
  <2> QED  BY <2>2, <2>3
<1> QED  BY <1>1, <1>2, <1>3, <1>4, OutsidePairs

LEMMA GiveUpPairs ==
  ASSUME TypeInv, PairInv, NEW t \in Tasks, GiveUp(t)
  PROVE  PairInv'
<1> USE TasksFacts
<1>1. PICK point \in Waiting : Return(t, point)
      BY DEF GiveUp
<1>2. UNCHANGED <<tags, queue, seen, part, handle>>
      BY DEF GiveUp, shared, kept
<1>3. msg' = msg \/ msg' = NoMessage
      BY <1>1 DEF Return
<1>4. \A d \in Tasks : pc'[d] = IF d = t THEN Home(t) ELSE pc[d]
      BY <1>1, ReturnTypes
<1>5. Home(t) # "read_quality"
      BY DEF Home
<1>6. pc[TagDB] = "apply_quality" => pc'[TagDB] = "apply_quality" /\ msg' = msg
  <2>1. pc[t] = point /\ (t # TagDB => msg' = msg)
        BY <1>1 DEF Return, Goto
  <2> QED  BY <1>4, <2>1 DEF Waiting
<1>7. QueuePaired'
      BY <1>2, <1>3 DEF PairInv, QueuePaired, Paired, NoMessage
<1> QED  BY <1>2, <1>4, <1>5, <1>6, <1>7, OutsidePairs

LEMMA ReceivePairs ==
  ASSUME TypeInv, PairInv, Receive \/ ApplyLock
  PROVE  PairInv'
<1> USE TasksFacts DEF shared, call, kept
<1>1. UNCHANGED <<tags, seen, part, handle>>
      BY DEF Receive, ApplyLock
<1>2. /\ pc[TagDB] # "apply_quality"
      /\ \A d \in Clients : pc'[d] = pc[d]
      BY DEF Receive, ApplyLock, Take, Goto, TypeInv, TypeOK
<1>3. QueuePaired'
  <2>1. CASE Receive
    <3>1. /\ queue # <<>> /\ queue \in Seq(Message)
          /\ msg' = Head(queue) /\ queue' = Tail(queue)
          BY <2>1 DEF Receive, TypeInv, TypeOK
    <3>2. Head(queue) = queue[1] /\ 1 \in DOMAIN queue
          BY <3>1
    <3>3. \A i \in DOMAIN Tail(queue) : i + 1 \in DOMAIN queue /\ Tail(queue)[i] = queue[i + 1]
          BY <3>1
    <3> QED  BY <3>1, <3>2, <3>3 DEF PairInv, QueuePaired, Paired
  <2>2. CASE ApplyLock
        BY <2>2 DEF ApplyLock, PairInv, QueuePaired, Paired
  <2> QED  BY <2>1, <2>2
<1> QED  BY <1>1, <1>2, <1>3, OutsidePairs

LEMMA NextPairs == TypeInv /\ NameInv /\ PairInv /\ [Next]_vars => PairInv'
<1> SUFFICES ASSUME TypeInv, NameInv, PairInv, [Next]_vars
             PROVE  PairInv'
    OBVIOUS
<1> USE TasksFacts
<1>1. CASE UNCHANGED vars
      BY <1>1 DEF vars, PairInv, QueuePaired, TagsPaired, ReadsPaired, Paired
<1>2. ASSUME NEW c \in Admins, Create(c)
      PROVE  PairInv'
      BY <1>2, CreatePairs, EnterPairs DEF Create, Enters
<1>3. ASSUME NEW c \in Deleters, Delete(c)
      PROVE  PairInv'
      BY <1>3, DeletePairs, EnterPairs DEF Delete, Enters
<1>4. ASSUME NEW c \in Producers \cup Readers, GetHandle(c)
      PROVE  PairInv'
      BY <1>4, EnterPairs DEF GetHandle, Enters
<1>5. ASSUME NEW c \in Producers, Write(c)
      PROVE  PairInv'
      BY <1>5, EnterPairs DEF Enters
<1>6. ASSUME NEW c \in Readers, Read(c)
      PROVE  PairInv'
      BY <1>6, ReadPairs, EnterPairs DEF Read, Enters
<1>7. ASSUME TagTask
      PROVE  PairInv'
      BY <1>7, GiveUpPairs, ApplyPairs, ReceivePairs DEF TagTask
<1> QED  BY <1>1, <1>2, <1>3, <1>4, <1>5, <1>6, <1>7, GiveUpPairs DEF Next

(***************************************************************************)
(* The value and the quality that tag_db_read returns were written         *)
(* together, although each is copied in a step of its own: the mutex keeps *)
(* the reader and vTagDatabaseTask apart, and every queued write is a pair.*)
(***************************************************************************)
THEOREM ReadsArePairs == Spec => []ReadsAreOneWrite
<1>1. PairInv => ReadsAreOneWrite
      BY TasksFacts DEF PairInv, ReadsPaired, Paired, ReadsAreOneWrite
<1> QED  BY <1>1, InitType, InitNames, InitPairs, NextType, NextNames, NextPairs, PTL DEF Spec

-----------------------------------------------------------------------------
(* The invariant behind LandInOrder: the measurements in the table come    *)
(* before the one in the task's hands, which comes before the queued ones. *)

Held == pc[TagDB] \in {"apply", "apply_check"}
QueueOrdered ==
  /\ \A i \in DOMAIN queue : queue[i].value <= samples
  /\ \A i, j \in DOMAIN queue : i < j /\ queue[j].value # 0 => queue[i].value < queue[j].value
HeldBeforeQueue == Held => /\ msg.value <= samples
                           /\ \A j \in DOMAIN queue :
                                queue[j].value # 0 => msg.value < queue[j].value
TableFirst ==
  \A h \in Handles :
    /\ tags[h].value <= samples
    /\ Held /\ msg.value # 0 => tags[h].value < msg.value
    /\ \A j \in DOMAIN queue : queue[j].value # 0 => tags[h].value < queue[j].value
OrderInv == QueueOrdered /\ HeldBeforeQueue /\ TableFirst

LEMMA ValueTypes ==
  ASSUME TypeInv
  PROVE  /\ samples \in Nat /\ msg.value \in Nat /\ Len(queue) \in Nat
         /\ \A h \in Handles : tags[h].value \in Nat
         /\ DOMAIN queue = 1 .. Len(queue)
         /\ \A i \in DOMAIN queue : queue[i].value \in Nat
<1>1. Values \subseteq Nat
      BY SizeFacts DEF Values
<1>2. msg \in Message /\ samples \in Values /\ queue \in Seq(Message)
      BY DEF TypeInv, TypeOK
<1>3. \A h \in Handles : tags[h] \in Tag
      BY DEF TypeInv, TypeOK
<1>4. \A i \in DOMAIN queue : queue[i] \in Message
      BY <1>2
<1>5. \A m \in Message : m.value \in Nat
      BY <1>1 DEF Message
<1>6. \A w \in Tag : w.value \in Nat
      BY <1>1 DEF Tag
<1>7. Len(queue) \in Nat /\ DOMAIN queue = 1 .. Len(queue)
      BY <1>2
<1> QED  BY <1>1, <1>2, <1>3, <1>4, <1>5, <1>6, <1>7

LEMMA InitOrder == Init => OrderInv
<1> SUFFICES ASSUME Init
             PROVE  OrderInv
    OBVIOUS
<1>1. QueueOrdered
      BY DEF Init, QueueOrdered
<1>2. ~Held
      BY TasksFacts DEF Init, Held
<1>3. TableFirst
      BY <1>2 DEF Init, TableFirst, NoTag
<1> QED  BY <1>1, <1>2, <1>3 DEF OrderInv, HeldBeforeQueue

\* Steps that take no measurement further: a slot may only be reset.
LEMMA ResetOrder ==
  ASSUME TypeInv, TypeInv', OrderInv, UNCHANGED <<queue, samples>>,
         Held' => Held /\ msg' = msg,
         \A h \in Handles : tags'[h].value = tags[h].value \/ tags'[h].value = 0
  PROVE  OrderInv'
<1> USE ValueTypes
<1>1. QueueOrdered'
      BY DEF OrderInv, QueueOrdered
<1>2. HeldBeforeQueue'
      BY DEF OrderInv, HeldBeforeQueue
<1>3. TableFirst'
  <2> SUFFICES ASSUME NEW h \in Handles
               PROVE  /\ tags'[h].value <= samples
                      /\ Held' /\ msg'.value # 0 => tags'[h].value < msg'.value
                      /\ \A j \in DOMAIN queue :
                           queue[j].value # 0 => tags'[h].value < queue[j].value
      BY DEF TableFirst
  <2>1. /\ tags[h].value <= samples
        /\ Held /\ msg.value # 0 => tags[h].value < msg.value
        /\ \A j \in DOMAIN queue : queue[j].value # 0 => tags[h].value < queue[j].value
        BY DEF OrderInv, TableFirst
  <2>2. CASE tags'[h].value = tags[h].value
        BY <2>1, <2>2
  <2>3. CASE tags'[h].value = 0
        BY <2>3
  <2> QED  BY <2>2, <2>3
<1> QED  BY <1>1, <1>2, <1>3 DEF OrderInv

\* The steps of administrators and readers, and whoever gives up.
LEMMA ClientResets ==
  ASSUME TypeInv, NEW c \in Clients,
         CreateInside(c) \/ DeleteInside(c) \/ ReadInside(c)
  PROVE  /\ UNCHANGED <<queue, samples, msg>> /\ pc'[TagDB] = pc[TagDB]
         /\ \A h \in Handles : tags'[h].value = tags[h].value \/ tags'[h].value = 0
<1> USE TasksFacts DEF shared, call, kept, Leave
<1>1. UNCHANGED <<queue, samples, msg>> /\ pc'[TagDB] = pc[TagDB]
      BY DEF CreateInside, CreateDuplicate, CreateReuse, CreateExtend, CreateFull, CreateFill,
             CreateCommit, DeleteInside, DeleteMissing, DeleteMark, DeleteReset,
             ReadInside, ReadDeleted, ReadValue, ReadQuality, Return, Goto, TypeInv, TypeOK
<1>2. CASE CreateFill(c) \/ DeleteReset(c)
  <2>1. slot[c] \in Handles /\ tags[slot[c]] \in Tag
        BY DEF TypeInv, TypeOK
  <2>2. CASE CreateFill(c)
        BY <1>1, <2>1, <2>2 DEF CreateFill, Tag, TypeInv, TypeOK
  <2>3. CASE DeleteReset(c)
        BY <1>1, <2>1, <2>3 DEF DeleteReset, Tag, TypeInv, TypeOK
  <2> QED  BY <1>2, <2>2, <2>3
<1>3. CASE CreateCommit(c)
  <2>1. slot[c] \in Handles /\ tags[slot[c]] \in Tag
        BY DEF TypeInv, TypeOK
  <2> QED  BY <1>1, <1>3, <2>1 DEF CreateCommit, Tag, TypeInv, TypeOK
<1>4. CASE DeleteMark(c)
  <2>1. PICK h \in Named(name[c]) : tags' = [tags EXCEPT ![h] = [@ EXCEPT !.allocated = FALSE]]
        BY <1>4 DEF DeleteMark
  <2>2. h \in Handles /\ tags[h] \in Tag
        BY SizeFacts DEF Named, Used, Handles, TypeInv, TypeOK
  <2> QED  BY <1>1, <2>1, <2>2 DEF Tag, TypeInv, TypeOK
<1>5. CASE ~(CreateFill(c) \/ DeleteReset(c) \/ CreateCommit(c) \/ DeleteMark(c))
  <2>1. tags' = tags
        BY <1>5 DEF CreateInside, CreateDuplicate, CreateReuse, CreateExtend, CreateFull,
                    DeleteInside, DeleteMissing, ReadInside, ReadDeleted, ReadValue, ReadQuality
  <2> QED  BY <1>1, <2>1
<1> QED  BY <1>2, <1>3, <1>4, <1>5

\* A write joins the queue: a new measurement is later than any other.
LEMMA SendOrder ==
  ASSUME TypeInv, TypeInv', OrderInv, NEW c \in Clients, WriteSample(c) \/ WriteBad(c)
  PROVE  OrderInv'
<1>v. /\ samples \in Nat /\ samples' \in Nat /\ msg.value \in Nat /\ Len(queue) \in Nat
      /\ \A h \in Handles : tags[h].value \in Nat
      /\ DOMAIN queue = 1 .. Len(queue)
      /\ \A i \in DOMAIN queue : queue[i].value \in Nat
  <2>1. Values \subseteq Nat
        BY SizeFacts DEF Values
  <2> QED  BY <2>1, ValueTypes DEF TypeInv, TypeOK
<1>1. /\ tags' = tags /\ msg' = msg /\ pc'[TagDB] = pc[TagDB]
      /\ samples <= samples'
      BY <1>v, TasksFacts DEF WriteSample, WriteBad, Goto, TypeInv, TypeOK
<1>2. PICK m : /\ queue' = Append(queue, m) /\ m.value \in Nat /\ m.value <= samples'
               /\ m.value = 0 \/ m.value > samples
      BY <1>v DEF WriteSample, WriteBad, WriteMessage
<1>3. /\ DOMAIN queue' = 1 .. Len(queue) + 1
      /\ \A i \in DOMAIN queue : queue'[i] = queue[i]
      /\ queue'[Len(queue) + 1] = m
      BY <1>2 DEF TypeInv, TypeOK
<1>4. \A i \in DOMAIN queue' : i \in DOMAIN queue \/ i = Len(queue) + 1
      BY <1>v, <1>3
<1>5. QueueOrdered'
  <2>1. \A i \in DOMAIN queue' : queue'[i].value <= samples'
    <3> SUFFICES ASSUME NEW i \in DOMAIN queue'
                 PROVE  queue'[i].value <= samples'
        OBVIOUS
    <3>1. CASE i \in DOMAIN queue
      <4>1. queue'[i].value <= samples /\ queue'[i].value \in Nat
            BY <1>v, <1>3, <3>1 DEF OrderInv, QueueOrdered
      <4> QED  BY <1>v, <1>1, <4>1
    <3>2. CASE i = Len(queue) + 1
          BY <1>2, <1>3, <3>2
    <3> QED  BY <1>4, <3>1, <3>2
  <2>2. ASSUME NEW i \in DOMAIN queue', NEW j \in DOMAIN queue', i < j, queue'[j].value # 0
        PROVE  queue'[i].value < queue'[j].value
    <3>1. i \in DOMAIN queue
          BY <1>v, <1>3, <2>2
    <3>2. CASE j \in DOMAIN queue
          BY <1>3, <2>2, <3>1, <3>2 DEF OrderInv, QueueOrdered
    <3>3. CASE j = Len(queue) + 1
      <4>1. queue'[j].value > samples /\ queue'[j].value \in Nat
            BY <1>2, <1>3, <2>2, <3>3
      <4>2. queue'[i].value <= samples /\ queue'[i].value \in Nat
            BY <1>v, <1>3, <3>1 DEF OrderInv, QueueOrdered
      <4> QED  BY <1>v, <4>1, <4>2
    <3> QED  BY <1>4, <3>2, <3>3
  <2> QED  BY <2>1, <2>2 DEF QueueOrdered
\* What is at most samples is before every queued measurement.
<1>6. ASSUME NEW v \in Nat, v <= samples,
             \A j \in DOMAIN queue : queue[j].value # 0 => v < queue[j].value
      PROVE  v <= samples' /\ \A j \in DOMAIN queue' : queue'[j].value # 0 => v < queue'[j].value
  <2>1. v <= samples'
        BY <1>v, <1>1, <1>6
  <2>2. ASSUME NEW j \in DOMAIN queue', queue'[j].value # 0
        PROVE  v < queue'[j].value
    <3>1. CASE j \in DOMAIN queue
          BY <1>3, <1>6, <2>2, <3>1
    <3>2. CASE j = Len(queue) + 1
      <4>1. queue'[j].value > samples /\ queue'[j].value \in Nat
            BY <1>2, <1>3, <2>2, <3>2
      <4> QED  BY <1>v, <1>6, <4>1
    <3> QED  BY <1>4, <3>1, <3>2
  <2> QED  BY <2>1, <2>2
<1>7. HeldBeforeQueue'
      BY <1>v, <1>1, <1>6 DEF OrderInv, HeldBeforeQueue, Held
<1>8. TableFirst'
      BY <1>v, <1>1, <1>6 DEF OrderInv, TableFirst, Held
<1> QED  BY <1>5, <1>7, <1>8 DEF OrderInv

LEMMA ReceiveOrder ==
  ASSUME TypeInv, TypeInv', OrderInv, Receive
  PROVE  OrderInv'
<1> USE ValueTypes
<1>1. /\ queue # <<>> /\ queue \in Seq(Message) /\ msg' = Head(queue) /\ queue' = Tail(queue)
      /\ UNCHANGED <<tags, samples>>
      BY DEF Receive, TypeInv, TypeOK
<1>2. Head(queue) = queue[1] /\ 1 \in DOMAIN queue
      BY <1>1
<1>3. \A i \in DOMAIN queue' : /\ i + 1 \in DOMAIN queue /\ 1 < i + 1 /\ i \in Nat
                                /\ queue'[i] = queue[i + 1]
      BY <1>1
<1>4. QueueOrdered'
  <2>1. \A i \in DOMAIN queue' : queue'[i].value <= samples'
        BY <1>1, <1>3 DEF OrderInv, QueueOrdered
  <2>2. ASSUME NEW i \in DOMAIN queue', NEW j \in DOMAIN queue', i < j, queue'[j].value # 0
        PROVE  queue'[i].value < queue'[j].value
    <3>1. i + 1 < j + 1
          BY <1>3, <2>2
    <3> QED  BY <1>3, <2>2, <3>1 DEF OrderInv, QueueOrdered
  <2> QED  BY <2>1, <2>2 DEF QueueOrdered
<1>5. HeldBeforeQueue'
      BY <1>1, <1>2, <1>3 DEF OrderInv, QueueOrdered, HeldBeforeQueue
<1>6. TableFirst'
      BY <1>1, <1>2, <1>3 DEF OrderInv, TableFirst
<1> QED  BY <1>4, <1>5, <1>6 DEF OrderInv

LEMMA ApplyOrder ==
  ASSUME TypeInv, TypeInv', OrderInv, ApplyValue
  PROVE  /\ OrderInv'
         /\ \A h \in Handles : h # msg.handle => tags'[h] = tags[h]
         /\ tags'[msg.handle].value = msg.value /\ Held
<1> USE TasksFacts, ValueTypes
<1>1. /\ UNCHANGED <<queue, samples, msg>> /\ Held /\ ~Held'
      /\ msg.handle \in Handles /\ tags[msg.handle] \in Tag
      /\ tags' = [tags EXCEPT ![msg.handle] = [@ EXCEPT !.value = msg.value]]
      BY DEF ApplyValue, Goto, Held, Message, TypeInv, TypeOK
<1>2. /\ \A h \in Handles : h # msg.handle => tags'[h] = tags[h]
      /\ tags'[msg.handle].value = msg.value
      BY <1>1 DEF Tag, TypeInv, TypeOK
<1>3. QueueOrdered' /\ HeldBeforeQueue'
      BY <1>1 DEF OrderInv, QueueOrdered, HeldBeforeQueue
<1>4. TableFirst'
  <2> SUFFICES ASSUME NEW h \in Handles
               PROVE  /\ tags'[h].value <= samples
                      /\ \A j \in DOMAIN queue :
                           queue[j].value # 0 => tags'[h].value < queue[j].value
      BY <1>1 DEF TableFirst
  <2>1. CASE h = msg.handle
        BY <1>1, <1>2, <2>1 DEF OrderInv, HeldBeforeQueue
  <2>2. CASE h # msg.handle
        BY <1>2, <2>2 DEF OrderInv, TableFirst
  <2> QED  BY <2>1, <2>2
<1> QED  BY <1>1, <1>2, <1>3, <1>4 DEF OrderInv

LandStep == \A h \in Handles :
              LET new == (tags[h].value)' IN
              new # 0 /\ new # tags[h].value => \A g \in Handles : tags[g].value < new

LEMMA NextOrder == TypeInv /\ OrderInv /\ [Next]_vars => OrderInv' /\ LandStep
<1> SUFFICES ASSUME TypeInv, OrderInv, [Next]_vars
             PROVE  OrderInv' /\ LandStep
    OBVIOUS
<1> USE TasksFacts
<1>t. TypeInv'
      BY NextType
\* A step that only resets slots.
<1>r. ASSUME UNCHANGED <<queue, samples>>, Held' => Held /\ msg' = msg,
             \A h \in Handles : tags'[h].value = tags[h].value \/ tags'[h].value = 0
      PROVE  OrderInv' /\ LandStep
      BY <1>t, <1>r, ResetOrder DEF LandStep
<1>1. CASE UNCHANGED vars
      BY <1>1, <1>r DEF vars, Held
<1>2. ASSUME NEW c \in Clients, CreateInside(c) \/ DeleteInside(c) \/ ReadInside(c)
      PROVE  OrderInv' /\ LandStep
      BY <1>2, <1>r, ClientResets DEF Held
<1>3. ASSUME NEW c \in Clients, Enters(c)
      PROVE  OrderInv' /\ LandStep
  <2>1. tags' = tags /\ msg' = msg /\ pc'[TagDB] = pc[TagDB]
        BY <1>3 DEF Enters, CreateCall, DeleteCall, Resolve, CreateLock, DeleteLock, ReadLock,
           ReadCall, Write, WriteCheck, WriteSample, WriteBad, WriteDropped, Take, Goto,
           shared, TypeInv, TypeOK
  <2>2. CASE WriteSample(c) \/ WriteBad(c)
        BY <1>t, <2>1, <2>2, SendOrder DEF LandStep
  <2>3. CASE ~(WriteSample(c) \/ WriteBad(c))
    <3>1. UNCHANGED <<queue, samples>>
          BY <1>3, <2>3 DEF Enters, CreateCall, DeleteCall, Resolve, CreateLock, DeleteLock,
             ReadLock, ReadCall, Write, WriteCheck, WriteDropped, shared
    <3> QED  BY <1>r, <2>1, <3>1 DEF Held
  <2> QED  BY <2>2, <2>3
<1>4. ASSUME NEW t \in Tasks, GiveUp(t)
      PROVE  OrderInv' /\ LandStep
  <2>1. PICK point \in Waiting : Return(t, point)
        BY <1>4 DEF GiveUp
  <2>2. UNCHANGED <<tags, queue, samples>>
        BY <1>4 DEF GiveUp, shared
  <2>3. Held' => Held /\ msg' = msg
        BY <2>1, ReturnTypes DEF Held, Home, Return
  <2> QED  BY <1>r, <2>2, <2>3
<1>5. ASSUME Receive
      PROVE  OrderInv' /\ LandStep
      BY <1>t, <1>5, ReceiveOrder DEF Receive, LandStep
<1>6. ASSUME ApplyLock
      PROVE  OrderInv' /\ LandStep
      BY <1>6, <1>r DEF ApplyLock, Take, Goto, Held, shared, TypeInv, TypeOK
<1>7. ASSUME ApplyReject \/ ApplyLogged
      PROVE  OrderInv' /\ LandStep
      BY <1>7, <1>r DEF ApplyReject, ApplyLogged, Leave, Return, Goto, Home, Held, shared,
                        TypeInv, TypeOK
<1>8. ASSUME ApplyValue
      PROVE  OrderInv' /\ LandStep
      BY <1>t, <1>8, ApplyOrder DEF LandStep, OrderInv, TableFirst
<1>9. ASSUME ApplyQuality
      PROVE  OrderInv' /\ LandStep
  <2>1. /\ UNCHANGED <<queue, samples>> /\ ~Held'
        /\ msg.handle \in Handles /\ tags[msg.handle] \in Tag
        /\ tags' = [tags EXCEPT ![msg.handle] = [@ EXCEPT !.quality = msg.quality]]
        BY <1>9 DEF ApplyQuality, Goto, Held, Message, TypeInv, TypeOK
  <2>2. \A h \in Handles : tags'[h].value = tags[h].value
        BY <2>1 DEF Tag, TypeInv, TypeOK
  <2> QED  BY <1>r, <2>1, <2>2
<1>10. TagTask => OrderInv' /\ LandStep
       BY <1>4, <1>5, <1>6, <1>7, <1>8, <1>9 DEF TagTask, ApplyInside
<1>11. (\E c \in Admins : Create(c)) \/ (\E c \in Deleters : Delete(c)) => OrderInv' /\ LandStep
       BY <1>2, <1>3 DEF Create, Delete, Enters
<1>12. (\E c \in Producers \cup Readers : GetHandle(c)) \/ (\E c \in Producers : Write(c))
         => OrderInv' /\ LandStep
       BY <1>3 DEF GetHandle, Enters
<1>13. (\E c \in Readers : Read(c)) => OrderInv' /\ LandStep
       BY <1>2, <1>3 DEF Read, Enters
<1> QED  BY <1>1, <1>4, <1>10, <1>11, <1>12, <1>13 DEF Next

(***************************************************************************)
(* Measurements land in the order in which tag_db_write accepted them, for *)
(* any number of producers and tags: there is one queue, and the one task  *)
(* that drains it never puts a message back.                               *)
(***************************************************************************)
THEOREM LandsInOrder == Spec => LandInOrder
<1>1. TypeInv /\ OrderInv /\ [Next]_vars =>
        [\A h \in Handles :
           LET new == (tags[h].value)' IN
           new # 0 /\ new # tags[h].value => \A g \in Handles : tags[g].value < new]_tags
      BY NextOrder DEF LandStep
<1> QED  BY <1>1, InitType, InitOrder, NextType, NextOrder, PTL DEF Spec, LandInOrder

-----------------------------------------------------------------------------
(* TagStore: the mutex, the queue, the half-done steps and vTagDatabaseTask *)
(* amount to a table on which every operation is atomic.                    *)

\* The name that a creation or deletion was called with, and every live
\* tag's name, is a name.
CallsNamed ==
  \A t \in Tasks :
    pc[t] \in {"create", "create_scan", "create_fill", "create_commit",
               "delete", "delete_scan"} => name[t] \in Names
LiveNamed == \A h \in Handles : tags[h].allocated => tags[h].name \in Names
NamedInv == CallsNamed /\ LiveNamed

LEMMA InitNamed == Init => NamedInv
BY DEF Init, NamedInv, CallsNamed, LiveNamed, NoTag

\* A return forgets the name and leaves the calls.
LEMMA ReturnNamed ==
  ASSUME TypeInv, NamedInv, NEW t \in Tasks, NEW from, Return(t, from)
  PROVE  CallsNamed'
<1>1. \A c \in Tasks : pc'[c] = IF c = t THEN Home(t) ELSE pc[c]
      BY ReturnTypes
<1>2. \A c \in Tasks : c # t => name'[c] = name[c]
      BY DEF Return, TypeInv, TypeOK
<1>3. Home(t) \in {"idle", "receive"}
      BY DEF Home
<1> QED  BY <1>1, <1>2, <1>3 DEF NamedInv, CallsNamed

\* A step that keeps all names and starts no call.
LEMMA GotoNamed ==
  ASSUME TypeInv, NamedInv, NEW t \in Tasks, NEW from, NEW to \in Points, Goto(t, from, to),
         name' = name,
         \/ from \in {"create", "create_scan", "create_fill", "delete"}
         \/ to \notin {"create", "create_scan", "create_fill", "create_commit",
                       "delete", "delete_scan"}
  PROVE  CallsNamed'
<1>1. pc[t] = from /\ \A c \in Tasks : pc'[c] = IF c = t THEN to ELSE pc[c]
      BY GotoTypes
<1> QED  BY <1>1 DEF NamedInv, CallsNamed

LEMMA CreateNamed ==
  ASSUME TypeInv, NameInv, NamedInv, NEW c \in Admins, Create(c)
  PROVE  NamedInv'
<1> USE TasksFacts DEF shared, call
<1>p. {"create", "create_scan", "create_fill", "create_commit"} \subseteq Points
      BY DEF Points, Critical, CreatePoints, Waiting
<1>n. tags' = tags => LiveNamed'
      BY DEF NamedInv, LiveNamed
<1>1. ASSUME NEW n \in Names, CreateCall(c, n)
      PROVE  NamedInv'
  <2>1. \A d \in Tasks : pc'[d] = IF d = c THEN "create" ELSE pc[d]
        BY <1>p, <1>1, GotoTypes DEF CreateCall
  <2>2. \A d \in Tasks : name'[d] = IF d = c THEN n ELSE name[d]
        BY <1>1 DEF CreateCall, TypeInv, TypeOK
  <2>3. CallsNamed'
        BY <2>1, <2>2 DEF NamedInv, CallsNamed
  <2> QED  BY <1>n, <1>1, <2>3 DEF CreateCall, NamedInv
<1>2. ASSUME CreateLock(c)
      PROVE  NamedInv'
      BY <1>n, <1>p, <1>2, GotoNamed DEF CreateLock, Take, NamedInv
<1>3. ASSUME CreateDuplicate(c) \/ CreateFull(c)
      PROVE  NamedInv'
      BY <1>n, <1>3, ReturnNamed DEF CreateDuplicate, CreateFull, Leave, NamedInv
<1>4. ASSUME CreateReuse(c) \/ CreateExtend(c)
      PROVE  NamedInv'
      BY <1>n, <1>p, <1>4, GotoNamed DEF CreateReuse, CreateExtend, NamedInv
\* The slot is vacant while it is filled.
<1>5. ASSUME CreateFill(c)
      PROVE  NamedInv'
  <2>1. CallsNamed'
        BY <1>p, <1>5, GotoNamed DEF CreateFill
  <2>2. /\ pc[c] = "create_fill" /\ c \in Tasks
        /\ tags' = [tags EXCEPT ![slot[c]] = [@ EXCEPT !.name = name[c], !.value = 0,
                                                       !.quality = "UNCERTAIN"]]
        BY <1>5 DEF CreateFill, Goto
  <2>3. ~tags[slot[c]].allocated /\ tags[slot[c]] \in Tag /\ slot[c] \in Handles
        BY <2>2 DEF NameInv, Filling, Chosen, TypeInv, TypeOK
  <2>4. \A h \in Handles : /\ h # slot[c] => tags'[h] = tags[h]
                           /\ h = slot[c] => ~tags'[h].allocated
        BY <2>2, <2>3 DEF TypeInv, TypeOK, Tag
  <2>5. LiveNamed'
        BY <2>4 DEF NamedInv, LiveNamed
  <2> QED  BY <2>1, <2>5 DEF NamedInv
<1>6. ASSUME CreateCommit(c)
      PROVE  NamedInv'
  <2>1. CallsNamed'
        BY <1>6, ReturnNamed DEF CreateCommit, Leave
  <2>2. /\ pc[c] = "create_commit" /\ c \in Tasks
        /\ tags' = [tags EXCEPT ![slot[c]] = [@ EXCEPT !.allocated = TRUE]]
        BY <1>6 DEF CreateCommit, Leave, Return, Goto
  <2>3. /\ tags[slot[c]].name = name[c] /\ name[c] \in Names
        /\ tags[slot[c]] \in Tag /\ slot[c] \in Handles
        BY <2>2 DEF NameInv, Filling, NamedInv, CallsNamed, TypeInv, TypeOK
  <2>4. \A h \in Handles : /\ h # slot[c] => tags'[h] = tags[h]
                           /\ h = slot[c] => tags'[h].name = name[c]
        BY <2>2, <2>3 DEF TypeInv, TypeOK, Tag
  <2>5. LiveNamed'
        BY <2>3, <2>4 DEF NamedInv, LiveNamed
  <2> QED  BY <2>1, <2>5 DEF NamedInv
<1> QED  BY <1>1, <1>2, <1>3, <1>4, <1>5, <1>6 DEF Create, CreateInside

LEMMA DeleteNamed ==
  ASSUME TypeInv, NameInv, NamedInv, NEW c \in Deleters, Delete(c)
  PROVE  NamedInv'
<1> USE TasksFacts DEF shared, call
<1>p. {"delete", "delete_scan", "delete_reset"} \subseteq Points
      BY DEF Points, Critical, DeletePoints, Waiting
<1>n. tags' = tags => LiveNamed'
      BY DEF NamedInv, LiveNamed
<1>1. ASSUME NEW n \in Names, DeleteCall(c, n)
      PROVE  NamedInv'
  <2>1. \A d \in Tasks : pc'[d] = IF d = c THEN "delete" ELSE pc[d]
        BY <1>p, <1>1, GotoTypes DEF DeleteCall
  <2>2. \A d \in Tasks : name'[d] = IF d = c THEN n ELSE name[d]
        BY <1>1 DEF DeleteCall, TypeInv, TypeOK
  <2>3. CallsNamed'
        BY <2>1, <2>2 DEF NamedInv, CallsNamed
  <2> QED  BY <1>n, <1>1, <2>3 DEF DeleteCall, NamedInv
<1>2. ASSUME DeleteLock(c)
      PROVE  NamedInv'
      BY <1>n, <1>p, <1>2, GotoNamed DEF DeleteLock, Take, NamedInv
<1>3. ASSUME DeleteMissing(c)
      PROVE  NamedInv'
      BY <1>n, <1>3, ReturnNamed DEF DeleteMissing, Leave, NamedInv
<1>4. ASSUME DeleteMark(c)
      PROVE  NamedInv'
  <2>1. CallsNamed'
        BY <1>p, <1>4, GotoNamed DEF DeleteMark
  <2>2. PICK h \in Named(name[c]) : tags' = [tags EXCEPT ![h] = [@ EXCEPT !.allocated = FALSE]]
        BY <1>4 DEF DeleteMark
  <2>3. h \in Handles /\ tags[h] \in Tag
        BY SizeFacts DEF Named, Used, Handles, TypeInv, TypeOK
  <2>4. \A g \in Handles : tags'[g].allocated => tags'[g] = tags[g]
        BY <2>2, <2>3 DEF TypeInv, TypeOK, Tag
  <2>5. LiveNamed'
        BY <2>4 DEF NamedInv, LiveNamed
  <2> QED  BY <2>1, <2>5 DEF NamedInv
<1>5. ASSUME DeleteReset(c)
      PROVE  NamedInv'
  <2>1. CallsNamed'
        BY <1>5, ReturnNamed DEF DeleteReset, Leave
  <2>2. /\ slot[c] \in Handles /\ tags[slot[c]] \in Tag
        /\ tags' = [tags EXCEPT ![slot[c]] = [@ EXCEPT !.value = 0, !.quality = "BAD"]]
        BY <1>5 DEF DeleteReset, TypeInv, TypeOK
  <2>4. \A g \in Handles : tags'[g].allocated = tags[g].allocated /\ tags'[g].name = tags[g].name
        BY <2>2 DEF TypeInv, TypeOK, Tag
  <2>5. LiveNamed'
        BY <2>4 DEF NamedInv, LiveNamed
  <2> QED  BY <2>1, <2>5 DEF NamedInv
<1> QED  BY <1>1, <1>2, <1>3, <1>4, <1>5 DEF Delete, DeleteInside

\* Writes, reads and the task of the database.
LEMMA OthersNamed ==
  ASSUME TypeInv, NamedInv,
         \/ \E c \in Producers \cup Readers : GetHandle(c)
         \/ \E c \in Producers : Write(c)
         \/ \E c \in Readers : Read(c)
         \/ \E c \in Clients : GiveUp(c)
         \/ TagTask
  PROVE  NamedInv'
<1> USE TasksFacts DEF shared, call, kept
<1>p. {"send", "idle", "receive", "read", "read_check", "read_quality", "apply", "apply_check",
       "apply_quality", "apply_log"} \subseteq Points
      BY DEF Points, Critical, ReadPoints, ApplyPoints, Waiting
<1>n. tags' = tags => LiveNamed'
      BY DEF NamedInv, LiveNamed
<1>1. ASSUME NEW c \in Producers \cup Readers, GetHandle(c)
      PROVE  NamedInv'
  <2>1. UNCHANGED <<pc, name, tags>>
        BY <1>1 DEF GetHandle, Resolve
  <2> QED  BY <2>1 DEF NamedInv, CallsNamed, LiveNamed
<1>2. ASSUME NEW c \in Producers, Write(c)
      PROVE  NamedInv'
  <2>1. PICK from, to \in {"idle", "send"} : Goto(c, from, to)
        BY <1>2 DEF Write, WriteCheck, WriteSample, WriteBad, WriteDropped
  <2>2. UNCHANGED <<name, tags>>
        BY <1>2 DEF Write, WriteCheck, WriteSample, WriteBad, WriteDropped
  <2>3. CallsNamed'
        BY <1>p, <2>1, <2>2, GotoNamed
  <2> QED  BY <1>n, <2>2, <2>3 DEF NamedInv
<1>3. ASSUME NEW c \in Readers, Read(c)
      PROVE  NamedInv'
  <2>1. CASE ReadCall(c) \/ ReadLock(c) \/ ReadValue(c)
    <3>1. PICK from, to \in {"idle", "read", "read_check", "read_quality"} : Goto(c, from, to)
          BY <2>1 DEF ReadCall, ReadLock, Take, ReadValue
    <3>2. UNCHANGED <<name, tags>>
          BY <2>1 DEF ReadCall, ReadLock, ReadValue
    <3>3. CallsNamed'
          BY <1>p, <3>1, <3>2, GotoNamed
    <3> QED  BY <1>n, <3>2, <3>3 DEF NamedInv
  <2>2. CASE ReadDeleted(c) \/ ReadQuality(c)
        BY <1>n, <2>2, ReturnNamed DEF ReadDeleted, ReadQuality, Leave, NamedInv
  <2> QED  BY <1>3, <2>1, <2>2 DEF Read, ReadInside
<1>4. ASSUME NEW t \in Tasks, GiveUp(t)
      PROVE  NamedInv'
      BY <1>n, <1>4, ReturnNamed DEF GiveUp, NamedInv
<1>5. ASSUME Receive \/ ApplyLock
      PROVE  NamedInv'
  <2>1. PICK from, to \in {"receive", "apply", "apply_check"} : Goto(TagDB, from, to)
        BY <1>5 DEF Receive, ApplyLock, Take
  <2>2. UNCHANGED <<name, tags>>
        BY <1>5 DEF Receive, ApplyLock
  <2>3. CallsNamed'
        BY <1>p, <2>1, <2>2, GotoNamed
  <2> QED  BY <1>n, <2>2, <2>3 DEF NamedInv
<1>6. ASSUME ApplyReject \/ ApplyLogged
      PROVE  NamedInv'
      BY <1>n, <1>6, ReturnNamed DEF ApplyReject, ApplyLogged, Leave, NamedInv
<1>7. ASSUME ApplyValue \/ ApplyQuality
      PROVE  NamedInv'
  <2>1. CallsNamed'
        BY <1>p, <1>7, GotoNamed DEF ApplyValue, ApplyQuality
  <2>2. msg.handle \in Handles /\ tags[msg.handle] \in Tag
        BY DEF TypeInv, TypeOK, Message
  <2>3. ASSUME NEW r, tags' = [tags EXCEPT ![msg.handle] = r],
               r.allocated = tags[msg.handle].allocated, r.name = tags[msg.handle].name
        PROVE  LiveNamed'
        BY <2>2, <2>3 DEF NamedInv, LiveNamed, TypeInv, TypeOK
  <2>v. /\ [tags[msg.handle] EXCEPT !.value = msg.value].allocated = tags[msg.handle].allocated
        /\ [tags[msg.handle] EXCEPT !.value = msg.value].name = tags[msg.handle].name
        /\ [tags[msg.handle] EXCEPT !.quality = msg.quality].allocated = tags[msg.handle].allocated
        /\ [tags[msg.handle] EXCEPT !.quality = msg.quality].name = tags[msg.handle].name
        BY <2>2 DEF Tag
  <2>4. LiveNamed'
        BY <1>7, <2>3, <2>v, Zenon DEF ApplyValue, ApplyQuality
  <2> QED  BY <2>1, <2>4 DEF NamedInv
<1> QED  BY <1>1, <1>2, <1>3, <1>4, <1>5, <1>6, <1>7 DEF TagTask, ApplyInside

LEMMA NextNamed == TypeInv /\ NameInv /\ NamedInv /\ [Next]_vars => NamedInv'
<1>1. UNCHANGED vars /\ NamedInv => NamedInv'
      BY DEF vars, NamedInv, CallsNamed, LiveNamed
<1> QED  BY <1>1, CreateNamed, DeleteNamed, OthersNamed DEF Next

-----------------------------------------------------------------------------
(* The buffer of accepted writes: the one in hand, then those queued. *)

PlainMessage == [handle : Handles, value : Values, quality : Qualities]

LEMMA PlainTypes ==
  /\ \A m \in Message : Plain(m) \in PlainMessage
  /\ \A q \in Seq(Message) : /\ PlainAll(q) \in Seq(PlainMessage)
                              /\ Len(PlainAll(q)) = Len(q)
                              /\ \A i \in 1 .. Len(q) : PlainAll(q)[i] = Plain(q[i])
<1>1. \A m \in Message : Plain(m) \in PlainMessage
      BY DEF Message, Plain, PlainMessage
<1>2. ASSUME NEW q \in Seq(Message)
      PROVE  /\ PlainAll(q) \in Seq(PlainMessage)
             /\ Len(PlainAll(q)) = Len(q)
             /\ \A i \in 1 .. Len(q) : PlainAll(q)[i] = Plain(q[i])
  <2>1. /\ Len(q) \in Nat /\ DOMAIN q = 1 .. Len(q)
        /\ \A i \in 1 .. Len(q) : q[i] \in Message
        OBVIOUS
  <2>2. PlainAll(q) = [i \in 1 .. Len(q) |-> Plain(q[i])]
        BY <2>1 DEF PlainAll
  <2>3. \A i \in 1 .. Len(q) : Plain(q[i]) \in PlainMessage
        BY <1>1, <2>1
  <2> HIDE DEF Plain
  <2> QED  BY <2>1, <2>2, <2>3
<1> QED  BY <1>1, <1>2

LEMMA PlainAppend ==
  ASSUME NEW q \in Seq(Message), NEW m \in Message
  PROVE  PlainAll(Append(q, m)) = Append(PlainAll(q), Plain(m))
<1>1. /\ Append(q, m) \in Seq(Message) /\ Len(Append(q, m)) = Len(q) + 1 /\ Len(q) \in Nat
      /\ \A i \in 1 .. Len(q) : Append(q, m)[i] = q[i]
      /\ Append(q, m)[Len(q) + 1] = m
      OBVIOUS
<1>2. /\ Append(PlainAll(q), Plain(m)) \in Seq(PlainMessage)
      /\ Len(Append(PlainAll(q), Plain(m))) = Len(q) + 1
      /\ \A i \in 1 .. Len(q) : Append(PlainAll(q), Plain(m))[i] = Plain(q[i])
      /\ Append(PlainAll(q), Plain(m))[Len(q) + 1] = Plain(m)
      BY PlainTypes, AppendProperties
<1>3. \A i \in 1 .. Len(q) + 1 : i \in 1 .. Len(q) \/ i = Len(q) + 1
      BY <1>1
<1>4. \A i \in 1 .. Len(q) + 1 :
         PlainAll(Append(q, m))[i] = Append(PlainAll(q), Plain(m))[i]
      BY <1>1, <1>2, <1>3, PlainTypes
<1> QED  BY <1>1, <1>2, <1>4, PlainTypes, SeqEqual

\* The buffer with a write in hand, seen from its head and from its end.
LEMMA InHandFirst ==
  ASSUME NEW m \in Message, NEW q \in Seq(Message)
  PROVE  /\ <<Plain(m)>> \o PlainAll(q) # <<>>
         /\ Len(<<Plain(m)>> \o PlainAll(q)) = Len(q) + 1
         /\ Head(<<Plain(m)>> \o PlainAll(q)) = Plain(m)
         /\ Tail(<<Plain(m)>> \o PlainAll(q)) = PlainAll(q)
<1> DEFINE x == Plain(m)
           s == PlainAll(q)
           c == <<x>> \o s
<1>1. x \in PlainMessage /\ s \in Seq(PlainMessage) /\ Len(s) = Len(q) /\ Len(q) \in Nat
      BY PlainTypes
<1> HIDE DEF x, s
<1>2. <<x>> \in Seq(PlainMessage) /\ Len(<<x>>) = 1 /\ <<x>>[1] = x
      BY <1>1
<1>3. /\ c \in Seq(PlainMessage) /\ Len(c) = Len(q) + 1
      /\ \A i \in 1 .. Len(q) + 1 : c[i] = IF i <= 1 THEN <<x>>[i] ELSE s[i - 1]
      BY <1>1, <1>2, ConcatProperties
<1> HIDE DEF c
<1>4. c # <<>> /\ Head(c) = x
      BY <1>1, <1>2, <1>3
<1>5. /\ Tail(c) \in Seq(PlainMessage) /\ Len(Tail(c)) = Len(q)
      /\ \A i \in 1 .. Len(q) : Tail(c)[i] = c[i + 1]
      BY <1>1, <1>3, <1>4, HeadTailProperties
<1>6. \A i \in 1 .. Len(q) : Tail(c)[i] = s[i]
  <2> SUFFICES ASSUME NEW i \in 1 .. Len(q)
               PROVE  Tail(c)[i] = s[i]
      OBVIOUS
  <2>1. i + 1 \in 1 .. Len(q) + 1 /\ ~(i + 1 <= 1) /\ (i + 1) - 1 = i
        BY <1>1
  <2> QED  BY <1>3, <1>5, <2>1
<1>7. Tail(c) = s
      BY <1>1, <1>5, <1>6, SeqEqual
<1> QED  BY <1>3, <1>4, <1>7 DEF c, x, s

LEMMA InHandAppend ==
  ASSUME NEW m \in Message, NEW q \in Seq(Message), NEW w \in Message
  PROVE  <<Plain(m)>> \o PlainAll(Append(q, w)) = Append(<<Plain(m)>> \o PlainAll(q), Plain(w))
<1> DEFINE x == Plain(m)
           s == PlainAll(q)
           y == Plain(w)
<1>1. x \in PlainMessage /\ s \in Seq(PlainMessage) /\ y \in PlainMessage
      BY PlainTypes
<1>2. PlainAll(Append(q, w)) = Append(s, y)
      BY PlainAppend
<1> HIDE DEF x, s, y
<1>3. <<x>> \in Seq(PlainMessage) /\ <<y>> \in Seq(PlainMessage)
      BY <1>1
<1>4. <<x>> \o (s \o <<y>>) = (<<x>> \o s) \o <<y>>
      BY <1>1, <1>3, ConcatAssociative
<1>5. <<x>> \o s \in Seq(PlainMessage)
      BY <1>1, <1>3, ConcatProperties
<1>6. Append(s, y) = s \o <<y>> /\ Append(<<x>> \o s, y) = (<<x>> \o s) \o <<y>>
      BY <1>1, <1>5, AppendIsConcat
<1> QED  BY <1>2, <1>4, <1>6 DEF x, s, y

\* Taking a message from the queue into the hand leaves the buffer as it is.
LEMMA IntoHand ==
  ASSUME NEW q \in Seq(Message), q # <<>>
  PROVE  /\ Head(q) \in Message /\ Tail(q) \in Seq(Message)
         /\ <<Plain(Head(q))>> \o PlainAll(Tail(q)) = PlainAll(q)
<1>1. /\ Head(q) \in Message /\ Tail(q) \in Seq(Message) /\ Len(Tail(q)) = Len(q) - 1
      /\ \A i \in 1 .. Len(Tail(q)) : Tail(q)[i] = q[i + 1]
      BY HeadTailProperties
<1>2. Len(q) \in Nat /\ Len(q) >= 1 /\ Head(q) = q[1]
      OBVIOUS
<1> DEFINE x == Plain(Head(q))
           s == PlainAll(Tail(q))
           c == <<x>> \o s
<1>3. /\ x \in PlainMessage /\ s \in Seq(PlainMessage) /\ Len(s) = Len(q) - 1
      /\ \A i \in 1 .. Len(q) - 1 : s[i] = Plain(q[i + 1])
  <2>1. x \in PlainMessage
        BY <1>1, PlainTypes
  <2>2. /\ s \in Seq(PlainMessage) /\ Len(s) = Len(Tail(q))
        /\ \A i \in 1 .. Len(Tail(q)) : s[i] = Plain(Tail(q)[i])
        BY <1>1, PlainTypes
  <2>3. \A i \in 1 .. Len(q) - 1 : s[i] = Plain(Tail(q)[i]) /\ Tail(q)[i] = q[i + 1]
        BY <1>1, <2>2
  <2> QED  BY <1>1, <2>1, <2>2, <2>3
<1>x. x = Plain(q[1])
      BY <1>2
<1> HIDE DEF x, s
<1>4. <<x>> \in Seq(PlainMessage) /\ Len(<<x>>) = 1 /\ <<x>>[1] = x
      BY <1>3
<1>5. /\ c \in Seq(PlainMessage) /\ Len(c) = 1 + (Len(q) - 1)
      /\ \A i \in 1 .. 1 + (Len(q) - 1) : c[i] = IF i <= 1 THEN <<x>>[i] ELSE s[i - 1]
      BY <1>3, <1>4, ConcatProperties
<1>6. Len(c) = Len(q)
      BY <1>2, <1>5
<1> HIDE DEF c
<1>7. \A i \in 1 .. Len(c) : c[i] = PlainAll(q)[i]
  <2> SUFFICES ASSUME NEW i \in 1 .. Len(q)
               PROVE  c[i] = Plain(q[i])
      BY <1>6, PlainTypes
  <2>1. CASE i = 1
        BY <1>2, <1>4, <1>5, <1>x, <2>1
  <2>2. CASE i # 1
    <3>1. i - 1 \in 1 .. Len(q) - 1 /\ i \in 1 .. 1 + (Len(q) - 1) /\ ~(i <= 1) /\ (i - 1) + 1 = i
          BY <1>2, <2>2
    <3>2. c[i] = s[i - 1]
          BY <1>5, <3>1
    <3>3. s[i - 1] = Plain(q[(i - 1) + 1])
          BY <1>3, <3>1
    <3> QED  BY <3>1, <3>2, <3>3
  <2> QED  BY <2>1, <2>2
<1>8. c = PlainAll(q)
      BY <1>5, <1>6, <1>7, PlainTypes, SeqEqual
<1> QED  BY <1>1, <1>8 DEF c, x, s

-----------------------------------------------------------------------------
(* The steps, seen from outside. *)

Table == [h \in Handles |-> TagOf(h)]
StoreStutters == Table' = Table /\ Pending' = Pending /\ seen' = seen
StoreStep == [Store!Next]_(Store!vars)

LEMMA StuttersAllowed == StoreStutters => StoreStep
BY DEF StoreStutters, StoreStep, Store!vars, Table

LEMMA StoreSteps ==
  /\ \A n \in Names : Store!Create(n) \/ Store!Delete(n) => StoreStep
  /\ \A h \in Handles : \A s \in Store!Sample : Store!Accept(h, s) => StoreStep
  /\ Store!Apply \/ Store!Discard => StoreStep
  /\ \A c \in Clients : Store!Read(c) => StoreStep
BY DEF StoreStep, Store!Next

LEMMA PendingIs ==
  ASSUME TypeInv
  PROVE  /\ Held => Pending = <<Plain(msg)>> \o PlainAll(queue)
         /\ ~Held => Pending = PlainAll(queue)
<1>1. PlainAll(queue) \in Seq(PlainMessage)
      BY PlainTypes DEF TypeInv, TypeOK
<1>2. <<>> \o PlainAll(queue) = PlainAll(queue)
      BY <1>1, ConcatEmptySeq
<1> QED  BY <1>2 DEF Held, Pending

LEMMA InitStore == Init => Store!Init
<1> SUFFICES ASSUME Init
             PROVE  Store!Init
    OBVIOUS
<1>1. Table = [h \in Handles |-> NoSuchTag]
      BY DEF Init, Table, TagOf, NoTag
<1>2. Pending = <<>>
  <2>1. TypeInv /\ ~Held /\ queue = <<>>
        BY InitType, TasksFacts DEF Init, Held
  <2>2. queue \in Seq(Message) /\ Len(queue) = 0
        BY <2>1 DEF TypeInv, TypeOK
  <2>3. PlainAll(queue) \in Seq(PlainMessage) /\ Len(PlainAll(queue)) = 0
        BY <2>2, PlainTypes
  <2> QED  BY <2>1, <2>3, PendingIs, EmptySeq
<1> QED  BY <1>1, <1>2 DEF Init, Store!Init, Table

\* A client's step does not move vTagDatabaseTask.
LEMMA TaskStands ==
  ASSUME TypeInv, NEW c \in Clients
  PROVE  /\ \A from, to : Goto(c, from, to) => pc'[TagDB] = pc[TagDB]
         /\ \A from : Return(c, from) => pc'[TagDB] = pc[TagDB] /\ msg' = msg
BY TasksFacts DEF Goto, Return, TypeInv, TypeOK

LEMMA SamePending ==
  ASSUME pc'[TagDB] = pc[TagDB], msg' = msg, queue' = queue
  PROVE  Pending' = Pending
BY DEF Pending, PlainAll, Plain

LEMMA SameTable ==
  ASSUME pc'[TagDB] = pc[TagDB], msg' = msg,
         \A h \in Handles : \/ tags'[h] = tags[h]
                            \/ ~tags[h].allocated /\ ~tags'[h].allocated
  PROVE  Table' = Table
<1>1. \A h \in Handles : TagOf(h)' = TagOf(h)
      BY DEF TagOf, NoSuchTag
<1> QED  BY <1>1 DEF Table

LEMMA Quiet ==
  ASSUME pc'[TagDB] = pc[TagDB], msg' = msg, queue' = queue, seen' = seen,
         \A h \in Handles : \/ tags'[h] = tags[h]
                            \/ ~tags[h].allocated /\ ~tags'[h].allocated
  PROVE  StoreStutters
BY SamePending, SameTable DEF StoreStutters

LEMMA Unmoved ==
  ASSUME pc'[TagDB] = pc[TagDB], msg' = msg, queue' = queue, seen' = seen, tags' = tags
  PROVE  StoreStutters
<1>1. \A h \in Handles : TagOf(h)' = TagOf(h)
      BY DEF TagOf, NoSuchTag
<1>2. Table' = Table
      BY <1>1 DEF Table
<1> QED  BY <1>2, SamePending DEF StoreStutters

\* What the table shows of a tag.
LEMMA TableShows ==
  ASSUME TypeInv, NamedInv, NEW h \in Handles
  PROVE  /\ ~tags[h].allocated => Table[h] = NoSuchTag
         /\ tags[h].allocated => Table[h] # NoSuchTag /\ Table[h].name = tags[h].name
                                 /\ Table[h].value = tags[h].value
         /\ tags[h].allocated /\ pc[TagDB] # "apply_quality" =>
              Table[h].quality = tags[h].quality
BY TasksAreDistinct DEF Table, TagOf, NoSuchTag, NamedInv, LiveNamed

\* Inside a client's critical section no write is half applied.
LEMMA NothingHalfApplied ==
  ASSUME NameInv, NEW c \in Clients, pc[c] \in Critical
  PROVE  pc[TagDB] # "apply_quality"
BY TasksFacts, CriticalPoints DEF NameInv, Exclusion

LEMMA CreateStore ==
  ASSUME TypeInv, NameInv, NamedInv, NEW c \in Admins, Create(c)
  PROVE  StoreStep
<1> USE TasksFacts DEF shared, call, kept
<1>1. ASSUME \/ \E n \in Names : CreateCall(c, n)
             \/ CreateLock(c) \/ CreateReuse(c) \/ CreateExtend(c)
      PROVE  StoreStutters
  <2>1. UNCHANGED <<tags, queue, msg, seen>>
        BY <1>1 DEF CreateCall, CreateLock, Take, CreateReuse, CreateExtend
  <2>g. \E from, to : Goto(c, from, to)
        BY <1>1 DEF CreateCall, CreateLock, Take, CreateReuse, CreateExtend
  <2>2. pc'[TagDB] = pc[TagDB]
        BY <2>g, TaskStands
  <2> QED  BY <2>1, <2>2, Unmoved
<1>2. ASSUME CreateDuplicate(c) \/ CreateFull(c)
      PROVE  StoreStutters
  <2>1. UNCHANGED <<tags, queue, seen>>
        BY <1>2 DEF CreateDuplicate, CreateFull, Leave
  <2>g. \E from : Return(c, from)
        BY <1>2 DEF CreateDuplicate, CreateFull, Leave
  <2>2. pc'[TagDB] = pc[TagDB] /\ msg' = msg
        BY <2>g, TaskStands
  <2> QED  BY <2>1, <2>2, Unmoved
\* The slot is vacant while it is filled.
<1>3. ASSUME CreateFill(c)
      PROVE  StoreStutters
  <2>1. /\ pc[c] = "create_fill" /\ c \in Tasks /\ pc'[TagDB] = pc[TagDB]
        /\ UNCHANGED <<queue, msg, seen>>
        /\ tags' = [tags EXCEPT ![slot[c]] = [@ EXCEPT !.name = name[c], !.value = 0,
                                                       !.quality = "UNCERTAIN"]]
        BY <1>3, TaskStands DEF CreateFill, Goto
  <2>2. ~tags[slot[c]].allocated /\ tags[slot[c]] \in Tag /\ slot[c] \in Handles
        BY <2>1 DEF NameInv, Filling, Chosen, TypeInv, TypeOK
  <2>3. \A h \in Handles : /\ h # slot[c] => tags'[h] = tags[h]
                           /\ h = slot[c] => ~tags'[h].allocated
        BY <2>1, <2>2 DEF TypeInv, TypeOK, Tag
  <2>4. pc'[TagDB] = pc[TagDB] /\ msg' = msg /\ queue' = queue /\ seen' = seen
        BY <2>1
  <2>5. \A h \in Handles : \/ tags'[h] = tags[h]
                           \/ ~tags[h].allocated /\ ~tags'[h].allocated
        BY <2>2, <2>3
  <2> QED  BY <2>4, <2>5, Quiet
\* The tag appears.
<1>4. ASSUME CreateCommit(c)
      PROVE  Store!Create(name[c]) /\ name[c] \in Names
  <2>1. /\ pc[c] = "create_commit" /\ c \in Tasks /\ pc'[TagDB] = pc[TagDB]
        /\ UNCHANGED <<queue, msg, seen>>
        /\ tags' = [tags EXCEPT ![slot[c]] = [@ EXCEPT !.allocated = TRUE]]
        BY <1>4, TaskStands DEF CreateCommit, Leave, Return, Goto
  <2>2. /\ ~tags[slot[c]].allocated /\ tags[slot[c]] \in Tag /\ slot[c] \in Handles
        /\ tags[slot[c]].name = name[c] /\ name[c] \in Names
        /\ tags[slot[c]].value = 0 /\ tags[slot[c]].quality = "UNCERTAIN"
        /\ \A h \in Handles : ~(tags[h].allocated /\ tags[h].name = name[c])
        BY <2>1 DEF NameInv, Filling, Chosen, NamedInv, CallsNamed, TypeInv, TypeOK
  <2>3. pc[TagDB] # "apply_quality"
        BY <2>1, NothingHalfApplied, CriticalPoints
  <2>4. \A h \in Handles : h # slot[c] => tags'[h] = tags[h]
        BY <2>1 DEF TypeInv, TypeOK
  <2>5. /\ tags'[slot[c]].allocated /\ tags'[slot[c]].name = name[c]
        /\ tags'[slot[c]].value = 0 /\ tags'[slot[c]].quality = "UNCERTAIN"
        BY <2>1, <2>2 DEF TypeInv, TypeOK, Tag
  <2> DEFINE new == [name |-> name[c], value |-> 0, quality |-> "UNCERTAIN"]
  <2>6. \A h \in Handles : /\ h # slot[c] => TagOf(h)' = TagOf(h)
                           /\ h = slot[c] => TagOf(h)' = new
        BY <2>1, <2>3, <2>4, <2>5 DEF TagOf, NoSuchTag
  <2>7. Table' = [Table EXCEPT ![slot[c]] = new]
        BY <2>6 DEF Table
  <2>8. /\ Table[slot[c]] = NoSuchTag
        /\ \A h \in Handles : Table[h] # NoSuchTag => Table[h].name # name[c]
        BY <2>2, TableShows
  <2>9. Pending' = Pending
        BY <2>1, SamePending
  <2> QED  BY <2>1, <2>2, <2>7, <2>8, <2>9 DEF Store!Create, Table
<1> QED  BY <1>1, <1>2, <1>3, <1>4, StuttersAllowed, StoreSteps DEF Create, CreateInside

LEMMA DeleteStore ==
  ASSUME TypeInv, NameInv, NamedInv, NEW c \in Deleters, Delete(c)
  PROVE  StoreStep
<1> USE TasksFacts DEF shared, call, kept
<1>1. ASSUME (\E n \in Names : DeleteCall(c, n)) \/ DeleteLock(c)
      PROVE  StoreStutters
  <2>1. UNCHANGED <<tags, queue, msg, seen>>
        BY <1>1 DEF DeleteCall, DeleteLock, Take
  <2>g. \E from, to : Goto(c, from, to)
        BY <1>1 DEF DeleteCall, DeleteLock, Take
  <2>2. pc'[TagDB] = pc[TagDB]
        BY <2>g, TaskStands
  <2> QED  BY <2>1, <2>2, Unmoved
<1>2. ASSUME DeleteMissing(c)
      PROVE  StoreStutters
  <2>1. UNCHANGED <<tags, queue, seen>>
        BY <1>2 DEF DeleteMissing, Leave
  <2>g. \E from : Return(c, from)
        BY <1>2 DEF DeleteMissing, Leave
  <2>2. pc'[TagDB] = pc[TagDB] /\ msg' = msg
        BY <2>g, TaskStands
  <2> QED  BY <2>1, <2>2, Unmoved
\* The tag disappears.
<1>3. ASSUME DeleteMark(c)
      PROVE  Store!Delete(name[c]) /\ name[c] \in Names
  <2>1. /\ pc[c] = "delete_scan" /\ c \in Tasks /\ pc'[TagDB] = pc[TagDB]
        /\ UNCHANGED <<queue, msg, seen>>
        BY <1>3, TaskStands DEF DeleteMark, Goto
  <2>2. PICK h \in Named(name[c]) : tags' = [tags EXCEPT ![h] = [@ EXCEPT !.allocated = FALSE]]
        BY <1>3 DEF DeleteMark
  <2>3. /\ h \in Handles /\ tags[h] \in Tag /\ tags[h].allocated /\ tags[h].name = name[c]
        /\ name[c] \in Names
    <3>1. h \in 0 .. hwm - 1 /\ tags[h].allocated /\ tags[h].name = name[c]
          BY DEF Named, Used
    <3>2. h \in Handles /\ tags[h] \in Tag
          BY <3>1, SizeFacts DEF Handles, TypeInv, TypeOK
    <3> QED  BY <2>1, <3>1, <3>2 DEF NamedInv, CallsNamed
  <2>4. \A g \in Handles : /\ g # h => tags'[g] = tags[g]
                           /\ g = h => ~tags'[g].allocated
        BY <2>2, <2>3 DEF TypeInv, TypeOK, Tag
  <2>5. pc[TagDB] # "apply_quality"
        BY <2>1, NothingHalfApplied, CriticalPoints
  <2>6. \A g \in Handles : /\ g # h => TagOf(g)' = TagOf(g)
                           /\ g = h => TagOf(g)' = NoSuchTag
        BY <2>1, <2>4, <2>5 DEF TagOf, NoSuchTag
  <2>7. Table' = [Table EXCEPT ![h] = NoSuchTag]
        BY <2>6 DEF Table, NoSuchTag
  <2>8. Table[h] # NoSuchTag /\ Table[h].name = name[c]
        BY <2>3, TableShows
  <2>9. Pending' = Pending
        BY <2>1, SamePending
  <2> QED  BY <2>1, <2>3, <2>7, <2>8, <2>9 DEF Store!Delete, Table
<1>4. ASSUME DeleteReset(c)
      PROVE  StoreStutters
  <2>1. /\ pc[c] = "delete_reset" /\ c \in Tasks /\ pc'[TagDB] = pc[TagDB]
        /\ UNCHANGED <<queue, msg, seen>>
        /\ tags' = [tags EXCEPT ![slot[c]] = [@ EXCEPT !.value = 0, !.quality = "BAD"]]
        BY <1>4, TaskStands DEF DeleteReset, Leave, Return, Goto
  <2>2. ~tags[slot[c]].allocated /\ tags[slot[c]] \in Tag /\ slot[c] \in Handles
        BY <2>1 DEF NameInv, Filling, Chosen, TypeInv, TypeOK
  <2>3. \A h \in Handles : /\ h # slot[c] => tags'[h] = tags[h]
                           /\ h = slot[c] => ~tags'[h].allocated
        BY <2>1, <2>2 DEF TypeInv, TypeOK, Tag
  <2>4. pc'[TagDB] = pc[TagDB] /\ msg' = msg /\ queue' = queue /\ seen' = seen
        BY <2>1
  <2>5. \A h \in Handles : \/ tags'[h] = tags[h]
                           \/ ~tags[h].allocated /\ ~tags'[h].allocated
        BY <2>2, <2>3
  <2> QED  BY <2>4, <2>5, Quiet
<1> QED  BY <1>1, <1>2, <1>3, <1>4, StuttersAllowed, StoreSteps DEF Delete, DeleteInside

LEMMA WriteStore ==
  ASSUME TypeInv, NameInv, NamedInv, NEW c \in Producers, Write(c)
  PROVE  StoreStep
<1> USE TasksFacts DEF shared, call, kept
<1>1. ASSUME WriteCheck(c) \/ WriteDropped(c)
      PROVE  StoreStutters
  <2>1. UNCHANGED <<tags, queue, msg, seen>>
        BY <1>1 DEF WriteCheck, WriteDropped
  <2>g. \E from, to : Goto(c, from, to)
        BY <1>1 DEF WriteCheck, WriteDropped
  <2>2. pc'[TagDB] = pc[TagDB]
        BY <2>g, TaskStands
  <2> QED  BY <2>1, <2>2, Unmoved
\* The write is accepted.
<1>2. ASSUME NEW v \in Values, NEW q \in Qualities, Goto(c, "send", "idle"),
             Len(queue) < QueueLength, queue' = Append(queue, WriteMessage(c, v, q)),
             UNCHANGED <<tags, msg, seen>>
      PROVE  StoreStep
  <2>1. /\ handle[c] \in Handles /\ queue \in Seq(Message) /\ msg \in Message
        /\ queue' \in Seq(Message)
    <3>1. handle[c] \in Handles /\ queue \in Seq(Message) /\ msg \in Message
          BY <1>2 DEF Goto, TypeInv, TypeOK, HandleChecked
    <3>2. meant[c] \in Names \cup {NoName}
          BY DEF TypeInv, TypeOK
    <3>3. WriteMessage(c, v, q) \in Message
          BY <3>1, <3>2 DEF WriteMessage, Message
    <3> QED  BY <1>2, <3>1, <3>3
  <2> DEFINE w == WriteMessage(c, v, q)
  <2>2. w \in Message
    <3>1. meant[c] \in Names \cup {NoName}
          BY DEF TypeInv, TypeOK
    <3> QED  BY <2>1, <3>1 DEF WriteMessage, Message
  <2>3. Plain(w) = [handle |-> handle[c], value |-> v, quality |-> q]
        BY DEF WriteMessage, Plain
  <2>4. pc'[TagDB] = pc[TagDB]
        BY <1>2, TaskStands
  <2>5. Table' = Table
    <3>1. \A h \in Handles : TagOf(h)' = TagOf(h)
          BY <1>2, <2>4 DEF TagOf, NoSuchTag
    <3> QED  BY <3>1 DEF Table
  <2> HIDE DEF w
  <2>6. Pending' = Append(Pending, Plain(w)) /\ Len(Pending) < QueueLength + 1
    <3>q. queue' = Append(queue, w) /\ msg' = msg
          BY <1>2 DEF w
    <3>1. CASE Held
      <4>1. Pending = <<Plain(msg)>> \o PlainAll(queue) /\ Len(Pending) = Len(queue) + 1
            BY <2>1, <3>1, PendingIs, InHandFirst
      <4>2. Pending' = <<Plain(msg)>> \o PlainAll(Append(queue, w))
            BY <2>4, <3>1, <3>q DEF Held, Pending, Plain
      <4>3. Pending' = Append(Pending, Plain(w))
            BY <2>1, <2>2, <4>1, <4>2, InHandAppend
      <4> QED  BY <1>2, <2>1, <4>1, <4>3, SizesAreNat
    <3>2. CASE ~Held
      <4>1. Pending = PlainAll(queue) /\ Len(Pending) = Len(queue)
            BY <2>1, <3>2, PendingIs, PlainTypes
      <4>2. Pending' = <<>> \o PlainAll(Append(queue, w))
            BY <2>4, <3>2, <3>q DEF Held, Pending
      <4>3. PlainAll(Append(queue, w)) \in Seq(PlainMessage)
            BY <2>1, <3>q, PlainTypes
      <4>4. Pending' = PlainAll(Append(queue, w))
            BY <4>2, <4>3, ConcatEmptySeq
      <4>5. Pending' = Append(Pending, Plain(w))
            BY <2>1, <2>2, <4>1, <4>4, PlainAppend
      <4> QED  BY <1>2, <2>1, <4>1, <4>5, SizesAreNat
    <3> QED  BY <3>1, <3>2
  <2> DEFINE s == [value |-> v, quality |-> q]
  <2>7. s \in Store!Sample /\ s.value = v /\ s.quality = q
        BY DEF Store!Sample, Store!Qualities, Qualities
  <2>8. seen' = seen
        BY <1>2
  <2> HIDE DEF s
  <2>9. Store!Accept(handle[c], s)
        BY <2>3, <2>5, <2>6, <2>7, <2>8 DEF Store!Accept, Table
  <2> QED  BY <2>1, <2>7, <2>9, StoreSteps
<1>3. ASSUME WriteSample(c)
      PROVE  StoreStep
  <2>1. samples + 1 \in Values /\ "GOOD" \in Qualities
        BY <1>3, SizeFacts DEF WriteSample, Values, Qualities, TypeInv, TypeOK
  <2> QED  BY <1>2, <1>3, <2>1 DEF WriteSample
<1>4. ASSUME WriteBad(c)
      PROVE  StoreStep
  <2>1. 0 \in Values /\ "BAD" \in Qualities
        BY SizeFacts DEF Qualities
  <2> QED  BY <1>2, <1>4, <2>1 DEF WriteBad
<1> QED  BY <1>1, <1>3, <1>4, StuttersAllowed DEF Write

LEMMA ReadStore ==
  ASSUME TypeInv, NameInv, PairInv, NamedInv, NEW c \in Readers, Read(c)
  PROVE  StoreStep
<1> USE TasksFacts DEF shared, call, kept
<1>1. ASSUME ReadCall(c) \/ ReadLock(c) \/ ReadValue(c)
      PROVE  StoreStutters
  <2>1. UNCHANGED <<tags, queue, msg, seen>>
        BY <1>1 DEF ReadCall, ReadLock, ReadValue
  <2>g. \E from, to : Goto(c, from, to)
        BY <1>1 DEF ReadCall, ReadLock, ReadValue, Take
  <2>2. pc'[TagDB] = pc[TagDB]
        BY <2>g, TaskStands
  <2> QED  BY <2>1, <2>2, Unmoved
<1>2. ASSUME ReadDeleted(c)
      PROVE  StoreStutters
  <2>1. UNCHANGED <<tags, queue, seen>>
        BY <1>2 DEF ReadDeleted
  <2>2. pc'[TagDB] = pc[TagDB] /\ msg' = msg
        BY <1>2, TaskStands DEF ReadDeleted, Leave
  <2> QED  BY <2>1, <2>2, Unmoved
\* The value copied before is the one the tag still has.
<1>3. ASSUME ReadQuality(c)
      PROVE  Store!Read(c)
  <2>1. /\ pc[c] = "read_quality" /\ UNCHANGED <<tags, queue>>
        /\ seen' = [seen EXCEPT ![c] = [value |-> part[c], quality |-> tags[handle[c]].quality]]
        /\ pc'[TagDB] = pc[TagDB] /\ msg' = msg
        BY <1>3, TaskStands DEF ReadQuality, Leave, Return, Goto
  <2>2. /\ handle[c] \in Handles /\ tags[handle[c]].allocated
        /\ part[c] = tags[handle[c]].value
        BY <2>1 DEF TypeInv, HandleChecked, PairInv, ReadsPaired
  <2>3. pc[TagDB] # "apply_quality"
        BY <2>1, NothingHalfApplied, CriticalPoints
  <2>4. /\ Table[handle[c]] # NoSuchTag /\ Table[handle[c]].value = part[c]
        /\ Table[handle[c]].quality = tags[handle[c]].quality
        BY <2>2, <2>3, TableShows
  <2>5. Table' = Table
    <3>1. \A h \in Handles : TagOf(h)' = TagOf(h)
          BY <2>1 DEF TagOf, NoSuchTag
    <3> QED  BY <3>1 DEF Table
  <2>6. Pending' = Pending
        BY <2>1, SamePending
  <2> QED  BY <2>1, <2>2, <2>4, <2>5, <2>6 DEF Store!Read, Table
<1> QED  BY <1>1, <1>2, <1>3, StuttersAllowed, StoreSteps DEF Read, ReadInside

\* What vTagDatabaseTask takes out of the buffer is its first write.
LEMMA TakenOut ==
  ASSUME TypeInv, Held, pc'[TagDB] \notin {"apply", "apply_check"}, queue' = queue
  PROVE  /\ Pending # <<>> /\ Head(Pending) = Plain(msg) /\ Pending' = Tail(Pending)
<1>1. queue \in Seq(Message) /\ msg \in Message
      BY DEF TypeInv, TypeOK
<1>2. Pending = <<Plain(msg)>> \o PlainAll(queue)
      BY PendingIs
<1>3. Pending # <<>> /\ Head(Pending) = Plain(msg) /\ Tail(Pending) = PlainAll(queue)
      BY <1>1, <1>2, InHandFirst
<1>4. Pending' = <<>> \o PlainAll(queue)
      BY DEF Pending
<1>5. PlainAll(queue) \in Seq(PlainMessage)
      BY <1>1, PlainTypes
<1> QED  BY <1>3, <1>4, <1>5, ConcatEmptySeq

LEMMA GiveUpStore ==
  ASSUME TypeInv, NEW t \in Tasks, GiveUp(t)
  PROVE  StoreStep
<1>1. PICK point \in Waiting : Return(t, point)
      BY DEF GiveUp
<1>2. tags' = tags /\ queue' = queue /\ seen' = seen
      BY DEF GiveUp, shared, kept
<1>3. ASSUME t \in Clients
      PROVE  StoreStutters
  <2>1. pc'[TagDB] = pc[TagDB] /\ msg' = msg
        BY <1>1, <1>3, TaskStands
  <2> QED  BY <1>2, <2>1, Unmoved
\* vTagDatabaseTask drops the write in its hands.
<1>4. ASSUME t = TagDB
      PROVE  Store!Discard \/ StoreStutters
  <2>1. pc[TagDB] \in Waiting /\ pc'[TagDB] = "receive"
        BY <1>1, <1>4, TasksFacts DEF Return, Goto, Home, TypeInv, TypeOK
  <2>2. Table' = Table
    <3>1. \A h \in Handles : TagOf(h)' = TagOf(h)
          BY <1>2, <2>1 DEF TagOf, NoSuchTag, Waiting
    <3> QED  BY <3>1 DEF Table
  <2>3. CASE Held
    <3>1. Pending # <<>> /\ Pending' = Tail(Pending)
          BY <1>2, <2>1, <2>3, TakenOut
    <3> QED  BY <1>2, <2>2, <3>1 DEF Store!Discard, Table
  <2>4. CASE ~Held
    <3>1. Pending' = Pending
          BY <1>2, <2>1, <2>4 DEF Held, Pending
    <3> QED  BY <1>2, <2>2, <3>1 DEF StoreStutters
  <2> QED  BY <2>3, <2>4
<1> QED  BY <1>3, <1>4, StuttersAllowed, StoreSteps DEF Tasks

LEMMA TagTaskStore ==
  ASSUME TypeInv, NameInv, NamedInv, TagTask
  PROVE  StoreStep
<1> USE TasksFacts DEF shared, call, kept
<1>m. /\ msg \in Message /\ queue \in Seq(Message)
      /\ msg.handle \in Handles /\ tags[msg.handle] \in Tag
      BY DEF Message, TypeInv, TypeOK
<1>1. ASSUME Receive
      PROVE  StoreStutters
  <2>1. /\ pc[TagDB] = "receive" /\ pc'[TagDB] = "apply" /\ queue # <<>>
        /\ msg' = Head(queue) /\ queue' = Tail(queue) /\ tags' = tags /\ seen' = seen
        BY <1>1 DEF Receive, Goto, TypeInv, TypeOK
  <2>2. Table' = Table
    <3>1. \A h \in Handles : TagOf(h)' = TagOf(h)
          BY <2>1 DEF TagOf, NoSuchTag
    <3> QED  BY <3>1 DEF Table
  <2>3. Pending = PlainAll(queue)
        BY <2>1, PendingIs DEF Held
  <2>4. Pending' = <<Plain(Head(queue))>> \o PlainAll(Tail(queue))
        BY <2>1 DEF Pending, Plain
  <2>5. Pending' = Pending
        BY <1>m, <2>1, <2>3, <2>4, IntoHand
  <2> QED  BY <2>1, <2>2, <2>5 DEF StoreStutters
<1>2. ASSUME ApplyLock
      PROVE  StoreStutters
  <2>1. /\ pc[TagDB] = "apply" /\ pc'[TagDB] = "apply_check"
        /\ msg' = msg /\ queue' = queue /\ tags' = tags /\ seen' = seen
        BY <1>2 DEF ApplyLock, Take, Goto, TypeInv, TypeOK
  <2>2. Table' = Table
    <3>1. \A h \in Handles : TagOf(h)' = TagOf(h)
          BY <2>1 DEF TagOf, NoSuchTag
    <3> QED  BY <3>1 DEF Table
  <2>3. Pending' = Pending
        BY <2>1 DEF Pending, Plain
  <2> QED  BY <2>1, <2>2, <2>3 DEF StoreStutters
<1>3. ASSUME ApplyReject
      PROVE  Store!Discard
  <2>1. /\ pc[TagDB] = "apply_check" /\ pc'[TagDB] = "receive"
        /\ queue' = queue /\ tags' = tags /\ seen' = seen
        BY <1>3 DEF ApplyReject, Leave, Return, Goto, Home, TypeInv, TypeOK
  <2>2. Table' = Table
    <3>1. \A h \in Handles : TagOf(h)' = TagOf(h)
          BY <2>1 DEF TagOf, NoSuchTag
    <3> QED  BY <3>1 DEF Table
  <2>3. Pending # <<>> /\ Pending' = Tail(Pending)
        BY <2>1, TakenOut DEF Held
  <2> QED  BY <2>1, <2>2, <2>3 DEF Store!Discard, Table
\* The write takes effect.
<1>4. ASSUME ApplyValue
      PROVE  Store!Apply
  <2>1. /\ pc[TagDB] = "apply_check" /\ pc'[TagDB] = "apply_quality" /\ msg' = msg
        /\ queue' = queue /\ seen' = seen /\ tags[msg.handle].allocated
        /\ tags' = [tags EXCEPT ![msg.handle] = [@ EXCEPT !.value = msg.value]]
        BY <1>4 DEF ApplyValue, Live, Goto, TypeInv, TypeOK
  <2>2. \A h \in Handles : h # msg.handle => tags'[h] = tags[h]
        BY <2>1 DEF TypeInv, TypeOK
  <2>3. /\ tags'[msg.handle].allocated /\ tags'[msg.handle].value = msg.value
        /\ tags'[msg.handle].name = tags[msg.handle].name
        BY <1>m, <2>1 DEF TypeInv, TypeOK, Tag
  <2>4. TagOf(msg.handle) = [name |-> tags[msg.handle].name, value |-> tags[msg.handle].value,
                             quality |-> tags[msg.handle].quality]
        BY <2>1 DEF TagOf
  <2> DEFINE new == [name |-> tags[msg.handle].name, value |-> msg.value,
                     quality |-> msg.quality]
  <2>6. \A h \in Handles : /\ h # msg.handle => TagOf(h)' = TagOf(h)
                           /\ h = msg.handle => TagOf(h)' = new
        BY <2>1, <2>2, <2>3 DEF TagOf, NoSuchTag
  <2> HIDE DEF new
  <2>7. Table' = [Table EXCEPT ![msg.handle] = new]
        BY <2>6 DEF Table
  <2>t. Table[msg.handle] = TagOf(msg.handle)
        BY <1>m DEF Table
  <2>8. Pending # <<>> /\ Head(Pending) = Plain(msg) /\ Pending' = Tail(Pending)
        BY <2>1, TakenOut DEF Held
  <2>9. /\ Plain(msg).handle = msg.handle /\ Plain(msg).value = msg.value
        /\ Plain(msg).quality = msg.quality
        BY DEF Plain
  <2>10. Table[msg.handle] # NoSuchTag
        BY <1>m, <2>1, TableShows
  <2>11. Table' = [Table EXCEPT ![Head(Pending).handle] =
                     [name |-> @.name, value |-> Head(Pending).value,
                      quality |-> Head(Pending).quality]]
    <3>1. new = [name |-> Table[msg.handle].name, value |-> msg.value, quality |-> msg.quality]
          BY <2>4, <2>t DEF new
    <3>2. /\ Head(Pending).handle = msg.handle /\ Head(Pending).value = msg.value
          /\ Head(Pending).quality = msg.quality
          BY <2>8, <2>9
    <3>3. Table' = [Table EXCEPT ![msg.handle] = [name |-> @.name, value |-> msg.value,
                                                  quality |-> msg.quality]]
          BY <2>7, <3>1
    <3> QED  BY <3>2, <3>3
  <2>12. Table[Head(Pending).handle] # NoSuchTag
        BY <2>8, <2>9, <2>10
  <2> QED  BY <2>1, <2>8, <2>11, <2>12 DEF Store!Apply, Table
<1>5. ASSUME ApplyQuality
      PROVE  StoreStutters
  <2>1. /\ pc[TagDB] = "apply_quality" /\ pc'[TagDB] = "apply_log"
        /\ queue' = queue /\ seen' = seen
        /\ tags' = [tags EXCEPT ![msg.handle] = [@ EXCEPT !.quality = msg.quality]]
        BY <1>5 DEF ApplyQuality, Goto, TypeInv, TypeOK
  <2>2. \A h \in Handles : h # msg.handle => tags'[h] = tags[h]
        BY <2>1 DEF TypeInv, TypeOK
  <2>3. /\ tags'[msg.handle].allocated = tags[msg.handle].allocated
        /\ tags'[msg.handle].value = tags[msg.handle].value
        /\ tags'[msg.handle].name = tags[msg.handle].name
        /\ tags'[msg.handle].quality = msg.quality
        BY <1>m, <2>1 DEF TypeInv, TypeOK, Tag
  <2>4. \A h \in Handles : TagOf(h)' = TagOf(h)
        BY <2>1, <2>2, <2>3 DEF TagOf, NoSuchTag
  <2>5. Table' = Table
        BY <2>4 DEF Table
  <2>6. Pending' = Pending
        BY <2>1 DEF Pending
  <2> QED  BY <2>1, <2>5, <2>6 DEF StoreStutters
<1>6. ASSUME ApplyLogged
      PROVE  StoreStutters
  <2>1. /\ pc[TagDB] = "apply_log" /\ pc'[TagDB] = "receive"
        /\ queue' = queue /\ tags' = tags /\ seen' = seen
        BY <1>6 DEF ApplyLogged, Leave, Return, Goto, Home, TypeInv, TypeOK
  <2>2. Table' = Table
    <3>1. \A h \in Handles : TagOf(h)' = TagOf(h)
          BY <2>1 DEF TagOf, NoSuchTag
    <3> QED  BY <3>1 DEF Table
  <2>3. Pending' = Pending
        BY <2>1 DEF Pending
  <2> QED  BY <2>1, <2>2, <2>3 DEF StoreStutters
<1> QED  BY <1>1, <1>2, <1>3, <1>4, <1>5, <1>6, GiveUpStore, StuttersAllowed, StoreSteps
         DEF TagTask, ApplyInside

LEMMA StepStore ==
  ASSUME TypeInv, NameInv, PairInv, NamedInv, [Next]_vars
  PROVE  StoreStep
<1> USE TasksFacts
<1>1. ASSUME NEW c \in Producers \cup Readers, GetHandle(c)
      PROVE  StoreStutters
  <2>1. UNCHANGED <<tags, queue, msg, seen, pc>>
        BY <1>1 DEF GetHandle, Resolve, shared
  <2> QED  BY <2>1, Unmoved
<1>2. ASSUME UNCHANGED vars
      PROVE  StoreStutters
      BY <1>2, Unmoved DEF vars
<1> QED  BY <1>1, <1>2, CreateStore, DeleteStore, WriteStore, ReadStore, GiveUpStore,
            TagTaskStore, StuttersAllowed DEF Next

(***************************************************************************)
(* The mutex, the queue and vTagDatabaseTask, with their half-done steps,  *)
(* implement a table on which tag_db_create, tag_db_delete and tag_db_read *)
(* are each one atomic step and accepted writes take effect in order or    *)
(* not at all, for any numbers of tags, names, tasks and queued writes.    *)
(***************************************************************************)
THEOREM StoreImplemented == Spec => StoreSpec
<1> DEFINE Inv == TypeInv /\ NameInv /\ PairInv /\ NamedInv
<1>1. Init => Inv /\ Store!Init
      BY InitType, InitNames, InitPairs, InitNamed, InitStore
<1>2. Inv /\ [Next]_vars => Inv' /\ [Store!Next]_(Store!vars)
      BY NextType, NextNames, NextPairs, NextNamed, StepStore DEF StoreStep
<1> QED  BY <1>1, <1>2, PTL DEF Spec, StoreSpec, Store!Spec

-----------------------------------------------------------------------------
(* The mutex comes back *)

\* How many steps the holder of the mutex has before it, at most.
HolderLeft == [create_scan |-> 3, create_fill |-> 2, create_commit |-> 1,
               delete_scan |-> 2, delete_reset |-> 1, read_check |-> 2, read_quality |-> 1,
               apply_check |-> 3, apply_quality |-> 2, apply_log |-> 1]

\* The guards of the steps inside: a scan has a result, and what follows it
\* has none to wait for ...
HolderCanGo ==
  /\ pc[mutex] \in Critical \ {"apply_log"}
  /\ pc[mutex] = "create_scan" =>
       \/ Named(name[mutex]) # {}
       \/ Vacant = {}
       \/ \E h \in Vacant : Lowest(h, Vacant)
  /\ pc[mutex] = "delete_scan" =>
       \/ Named(name[mutex]) = {}
       \/ \E h \in Named(name[mutex]) : Lowest(h, Named(name[mutex]))

\* ... with one exception: a write has been applied, and the debug message of
\* tag_database.c:91, sent with the mutex held, may find the log queue full.
WaitsToLog == mutex = TagDB /\ pc[TagDB] = "apply_log"

\* Nobody but its holder gives the mutex back, and every step of the holder
\* gives it back or leaves fewer before it.
MutexNearer ==
  mutex # Nobody =>
    \/ mutex' = Nobody
    \/ mutex' = mutex /\ pc'[mutex] = pc[mutex]
    \/ mutex' = mutex /\ HolderLeft[pc'[mutex]] < HolderLeft[pc[mutex]]

\* Who has the mutex is inside: the converse of Exclusion.
HolderIsInside == mutex # Nobody => mutex \in Tasks /\ pc[mutex] \in Critical

\* Of the tasks, only that of the database logs there.
OnlyItLogs == \A t \in Tasks : pc[t] = "apply_log" => t = TagDB

\* What a step does to the places of the tasks and to the mutex.
Inward == {<<"create_scan", "create_fill">>, <<"create_fill", "create_commit">>,
           <<"delete_scan", "delete_reset">>, <<"read_check", "read_quality">>,
           <<"apply_check", "apply_quality">>, <<"apply_quality", "apply_log">>}
StaysOutside(t) == \E from \in Points \ Critical, to \in Points \ Critical :
                     Goto(t, from, to) /\ mutex' = mutex
GoesIn(t) == \E from \in Waiting, to \in Critical \ {"apply_log"} : Take(t, from, to)
GoesOn(t) == \E e \in Inward : /\ Goto(t, e[1], e[2]) /\ mutex' = mutex
                               /\ e[2] = "apply_log" => t = TagDB
GoesOut(t) == \E from \in Critical : Leave(t, from)
Moves(t) == StaysOutside(t) \/ GoesIn(t) \/ GoesOn(t) \/ GoesOut(t)

LEMMA PlacesOutside == /\ {"idle", "receive", "send"} \cup Waiting = Points \ Critical
                       /\ Waiting = {"create", "delete", "read", "apply"}
                       /\ Critical \subseteq Points
BY CriticalPoints DEF Points, Waiting

LEMMA CreateMoves ==
  ASSUME NEW c \in Tasks, Create(c)
  PROVE  Moves(c)
<1> USE PlacesOutside, CriticalPoints
<1>1. ASSUME NEW n \in Names, CreateCall(c, n)
      PROVE  StaysOutside(c)
      BY <1>1 DEF CreateCall, StaysOutside
<1>2. CASE CreateLock(c)
      BY <1>2 DEF CreateLock, Moves, GoesIn
<1>3. CASE CreateReuse(c) \/ CreateExtend(c)
  <2>1. Goto(c, "create_scan", "create_fill") /\ mutex' = mutex
        BY <1>3 DEF CreateReuse, CreateExtend
  <2>2. <<"create_scan", "create_fill">> \in Inward
        BY DEF Inward
  <2> QED  BY <2>1, <2>2 DEF Moves, GoesOn
<1>4. CASE CreateFill(c)
  <2>1. Goto(c, "create_fill", "create_commit") /\ mutex' = mutex
        BY <1>4 DEF CreateFill
  <2>2. <<"create_fill", "create_commit">> \in Inward
        BY DEF Inward
  <2> QED  BY <2>1, <2>2 DEF Moves, GoesOn
<1>5. CASE CreateDuplicate(c) \/ CreateFull(c) \/ CreateCommit(c)
      BY <1>5 DEF CreateDuplicate, CreateFull, CreateCommit, Moves, GoesOut
<1> QED  BY <1>1, <1>2, <1>3, <1>4, <1>5 DEF Create, CreateInside, Moves

LEMMA DeleteMoves ==
  ASSUME NEW c \in Tasks, Delete(c)
  PROVE  Moves(c)
<1> USE PlacesOutside, CriticalPoints
<1>1. ASSUME NEW n \in Names, DeleteCall(c, n)
      PROVE  StaysOutside(c)
      BY <1>1 DEF DeleteCall, StaysOutside
<1>2. CASE DeleteLock(c)
      BY <1>2 DEF DeleteLock, Moves, GoesIn
<1>3. CASE DeleteMark(c)
  <2>1. Goto(c, "delete_scan", "delete_reset") /\ mutex' = mutex
        BY <1>3 DEF DeleteMark
  <2>2. <<"delete_scan", "delete_reset">> \in Inward
        BY DEF Inward
  <2> QED  BY <2>1, <2>2 DEF Moves, GoesOn
<1>4. CASE DeleteMissing(c) \/ DeleteReset(c)
      BY <1>4 DEF DeleteMissing, DeleteReset, Moves, GoesOut
<1> QED  BY <1>1, <1>2, <1>3, <1>4 DEF Delete, DeleteInside, Moves

LEMMA ReadMoves ==
  ASSUME NEW c \in Tasks, Read(c)
  PROVE  Moves(c)
<1> USE PlacesOutside, CriticalPoints
<1>1. CASE ReadCall(c)
      BY <1>1 DEF ReadCall, StaysOutside, Moves
<1>2. CASE ReadLock(c)
      BY <1>2 DEF ReadLock, Moves, GoesIn
<1>3. CASE ReadValue(c)
  <2>1. Goto(c, "read_check", "read_quality") /\ mutex' = mutex
        BY <1>3 DEF ReadValue
  <2>2. <<"read_check", "read_quality">> \in Inward
        BY DEF Inward
  <2> QED  BY <2>1, <2>2 DEF Moves, GoesOn
<1>4. CASE ReadDeleted(c) \/ ReadQuality(c)
      BY <1>4 DEF ReadDeleted, ReadQuality, Moves, GoesOut
<1> QED  BY <1>1, <1>2, <1>3, <1>4 DEF Read, ReadInside

LEMMA WriteMoves ==
  ASSUME NEW c \in Tasks, Write(c)
  PROVE  Moves(c)
<1> USE PlacesOutside, CriticalPoints
<1>1. \/ Goto(c, "idle", "send") /\ mutex' = mutex
      \/ Goto(c, "send", "idle") /\ mutex' = mutex
      BY DEF Write, WriteCheck, WriteSample, WriteBad, WriteDropped
<1> QED  BY <1>1 DEF Moves, StaysOutside

LEMMA GiveUpMoves ==
  ASSUME NEW t \in Tasks, GiveUp(t)
  PROVE  Moves(t)
<1> USE PlacesOutside, CriticalPoints
<1>1. PICK point \in Waiting : Goto(t, point, Home(t)) /\ mutex' = mutex
      BY DEF GiveUp, Return
<1>2. point \in Points \ Critical /\ Home(t) \in Points \ Critical
      BY DEF Home
<1> QED  BY <1>1, <1>2 DEF Moves, StaysOutside

LEMMA TagTaskMoves ==
  ASSUME TagTask
  PROVE  Moves(TagDB)
<1> USE PlacesOutside, CriticalPoints, TasksFacts
<1>1. CASE Receive
      BY <1>1 DEF Receive, StaysOutside, Moves
<1>2. CASE ApplyLock
      BY <1>2 DEF ApplyLock, Moves, GoesIn
<1>3. CASE ApplyValue
  <2>1. Goto(TagDB, "apply_check", "apply_quality") /\ mutex' = mutex
        BY <1>3 DEF ApplyValue
  <2>2. <<"apply_check", "apply_quality">> \in Inward
        BY DEF Inward
  <2> QED  BY <2>1, <2>2 DEF Moves, GoesOn
<1>4. CASE ApplyQuality
  <2>1. Goto(TagDB, "apply_quality", "apply_log") /\ mutex' = mutex
        BY <1>4 DEF ApplyQuality
  <2>2. <<"apply_quality", "apply_log">> \in Inward
        BY DEF Inward
  <2> QED  BY <2>1, <2>2 DEF Moves, GoesOn
<1>5. CASE ApplyReject \/ ApplyLogged
      BY <1>5 DEF ApplyReject, ApplyLogged, Moves, GoesOut
<1> QED  BY <1>1, <1>2, <1>3, <1>4, <1>5, GiveUpMoves DEF TagTask, ApplyInside

\* Every step is one task's, of one of the four kinds, or it moves nobody.
LEMMA OneMoves ==
  ASSUME [Next]_vars
  PROVE  UNCHANGED <<pc, mutex>> \/ \E t \in Tasks : Moves(t)
<1> USE TasksFacts
<1>1. CASE UNCHANGED vars
      BY <1>1 DEF vars
<1>2. ASSUME NEW c \in Producers \cup Readers, GetHandle(c)
      PROVE  UNCHANGED <<pc, mutex>>
      BY <1>2 DEF GetHandle, Resolve
<1> QED  BY <1>1, <1>2, CreateMoves, DeleteMoves, WriteMoves, ReadMoves, GiveUpMoves,
            TagTaskMoves DEF Next

LEMMA HolderSteps ==
  ASSUME TypeInv, Exclusion, HolderIsInside, [Next]_vars
  PROVE  HolderIsInside' /\ MutexNearer
<1> USE TasksFacts
<1>1. pc \in [Tasks -> Points] /\ (mutex # Nobody => mutex \in Tasks /\ pc[mutex] \in Critical)
      BY DEF TypeInv, TypeOK, HolderIsInside
<1>c. Critical' = Critical
      BY DEF Critical, CreatePoints, DeletePoints, ReadPoints, ApplyPoints
<1>2. CASE UNCHANGED <<pc, mutex>>
      BY <1>1, <1>2, <1>c DEF HolderIsInside, MutexNearer
<1>3. ASSUME NEW t \in Tasks, StaysOutside(t)
      PROVE  HolderIsInside' /\ MutexNearer
  <2>1. PICK from \in Points \ Critical, to \in Points \ Critical :
               Goto(t, from, to) /\ mutex' = mutex
        BY <1>3 DEF StaysOutside
  <2>2. pc[t] \notin Critical /\ \A d \in Tasks : d # t => pc'[d] = pc[d]
        BY <1>1, <2>1, GotoTypes
  <2>3. mutex # Nobody => pc'[mutex] = pc[mutex]
        BY <1>1, <2>2
  <2> QED  BY <1>1, <1>c, <2>1, <2>3 DEF HolderIsInside, MutexNearer
<1>4. ASSUME NEW t \in Tasks, GoesIn(t)
      PROVE  HolderIsInside' /\ MutexNearer
  <2>1. PICK from \in Waiting, to \in Critical \ {"apply_log"} : Take(t, from, to)
        BY <1>4 DEF GoesIn
  <2>2. mutex = Nobody /\ mutex' = t /\ pc'[t] = to
        BY <1>1, <2>1, PlacesOutside, GotoTypes DEF Take
  <2> QED  BY <1>c, <2>2 DEF HolderIsInside, MutexNearer
<1>5. ASSUME NEW t \in Tasks, GoesOn(t)
      PROVE  HolderIsInside' /\ MutexNearer
  <2>1. PICK e \in Inward : Goto(t, e[1], e[2]) /\ mutex' = mutex
        BY <1>5 DEF GoesOn
  <2>2. /\ e[1] \in Critical /\ e[2] \in Critical /\ e[2] \in Points
        /\ HolderLeft[e[2]] < HolderLeft[e[1]]
        BY CriticalPoints, PlacesOutside DEF Inward, HolderLeft
  <2>3. pc[t] = e[1] /\ pc'[t] = e[2]
        BY <1>1, <2>1, <2>2, GotoTypes
  <2>4. mutex = t
        BY <2>2, <2>3 DEF Exclusion
  <2> QED  BY <1>c, <2>1, <2>2, <2>3, <2>4 DEF HolderIsInside, MutexNearer
<1>6. ASSUME NEW t \in Tasks, GoesOut(t)
      PROVE  HolderIsInside' /\ MutexNearer
      BY <1>6 DEF GoesOut, Leave, HolderIsInside, MutexNearer
<1> QED  BY <1>2, <1>3, <1>4, <1>5, <1>6, OneMoves DEF Moves

LEMMA LoggingSteps ==
  ASSUME TypeInv, OnlyItLogs, [Next]_vars
  PROVE  OnlyItLogs'
<1> USE TasksFacts
<1>1. CASE UNCHANGED <<pc, mutex>>
      BY <1>1 DEF OnlyItLogs
<1>2. ASSUME NEW t \in Tasks, NEW to \in Points, NEW from, Goto(t, from, to),
             to = "apply_log" => t = TagDB
      PROVE  OnlyItLogs'
      BY <1>2, GotoTypes DEF OnlyItLogs
<1>3. \A t \in Tasks : Home(t) \in Points \ Critical
      BY PlacesOutside, CriticalPoints DEF Home
<1>4. ASSUME NEW t \in Tasks, Moves(t)
      PROVE  OnlyItLogs'
  <2>1. CASE StaysOutside(t)
        BY <1>2, <2>1, CriticalPoints DEF StaysOutside
  <2>2. CASE GoesIn(t)
        BY <1>2, <2>2, PlacesOutside DEF GoesIn, Take
  <2>3. CASE GoesOn(t)
    <3>1. \A e \in Inward : e[2] \in Points
          BY CriticalPoints, PlacesOutside DEF Inward
    <3> QED  BY <1>2, <2>3, <3>1 DEF GoesOn
  <2>4. CASE GoesOut(t)
        BY <1>2, <1>3, <2>4, CriticalPoints DEF GoesOut, Leave, Return
  <2> QED  BY <1>4, <2>1, <2>2, <2>3, <2>4 DEF Moves
<1> QED  BY <1>1, <1>4, OneMoves

LEMMA LowestOf ==
  ASSUME NEW S, S \subseteq Nat, S # {}
  PROVE  \E h \in S : Lowest(h, S)
<1> DEFINE below == {ss \in Nat \X Nat : ss[1] < ss[2]}
<1>1. IsWellFoundedOn(below, Nat)
      BY NatLessThanWellFounded, Zenon DEF OpToRel
<1> HIDE DEF below
<1>2. PICK h \in S : \A i \in S : ~(<<i, h>> \in below)
      BY <1>1, WFMin, Zenon
<1>3. ASSUME NEW i \in S
      PROVE  h <= i
  <2>1. <<i, h>> \notin below /\ h \in Nat /\ i \in Nat
        BY <1>2
  <2>2. i < h => <<i, h>> \in below
        BY <2>1 DEF below
  <2> QED  BY <2>1, <2>2
<1> QED  BY <1>3 DEF Lowest

(***************************************************************************)
(* No path keeps the mutex, and one may wait with it.  Its holder is always *)
(* inside a critical section, where its next step has nothing to wait for   *)
(* except the LOG_DEBUG of tag_database.c:91, which only vTagDatabaseTask   *)
(* makes and which waits for room in the log queue; and each of its steps,  *)
(* at most three, leaves fewer before it or gives the mutex back.  So who   *)
(* waits for the mutex waits for its holder to run and, at that one place,  *)
(* for the logger.                                                          *)
(***************************************************************************)
THEOREM MutexComesBack ==
  Spec => [](mutex # Nobody => HolderCanGo \/ WaitsToLog) /\ [][MutexNearer]_vars
<1> DEFINE Inv == TypeInv /\ NameInv /\ HolderIsInside /\ OnlyItLogs
<1>1. Init => Inv
      BY InitType, InitNames, TasksFacts DEF Init, HolderIsInside, OnlyItLogs, Home
<1>2. Inv /\ [Next]_vars => Inv' /\ [MutexNearer]_vars
      BY NextType, NextNames, HolderSteps, LoggingSteps DEF NameInv
<1>3. Inv => (mutex # Nobody => HolderCanGo \/ WaitsToLog)
  <2> SUFFICES ASSUME Inv, mutex # Nobody, ~WaitsToLog
               PROVE  HolderCanGo
      OBVIOUS
  <2>1. pc[mutex] \in Critical \ {"apply_log"}
        BY DEF HolderIsInside, OnlyItLogs, WaitsToLog
  <2>2. hwm \in Nat
        BY SizeFacts DEF TypeInv, TypeOK
  <2>3. Vacant \subseteq Nat /\ Named(name[mutex]) \subseteq Nat
        BY <2>2 DEF Vacant, Named, Used
  <2> QED  BY <2>1, <2>3, LowestOf DEF HolderCanGo
<1> QED  BY <1>1, <1>2, <1>3, PTL DEF Spec
=============================================================================
