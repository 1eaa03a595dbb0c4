----------------------------- MODULE TagDatabase -----------------------------
(***************************************************************************)
(* The runtime tag database (src/src/tag-database/tag_database.c): the     *)
(* table s_tags and its high-water mark, the queue of pending writes, the  *)
(* mutex, and the task that drains the queue.                              *)
(*                                                                         *)
(* Clients run on two cores and interleave between any two actions below:  *)
(* an operation is split at every use of the mutex and the queue, and      *)
(* between the accesses of a slot; a scan of the table for a name is one   *)
(* step.  A client is an administrator (tag_db_create, tag_db_delete), a   *)
(* producer (tag_db_get_handle, tag_db_write), a reader (tag_db_get_handle,*)
(* tag_db_read), or several of these.  A task that waits for the mutex     *)
(* gives up after 100 ms: the model lets it give up at any moment while    *)
(* another task holds the mutex.                                           *)
(*                                                                         *)
(* A measurement is a number of its own, 1, 2, ... in the order of         *)
(* acceptance, written with quality GOOD; a failed poll writes 0 with BAD. *)
(* Names longer than TAG_NAME_MAX_LEN - 1 (the web form cuts them), data   *)
(* types and time stamps are left out.                                     *)
(***************************************************************************)
EXTENDS Naturals, Sequences

CONSTANTS Names,        \* tag names
          Admins,       \* tasks that create tags
          Deleters,     \* those of them that also delete tags
          Producers,    \* tasks that write tags
          Readers,      \* tasks that read tags
          TagDB,        \* the task vTagDatabaseTask
          Nobody,       \* the holder of a free mutex
          NoName,       \* the name of a slot never used
          MaxTags,      \* TAG_DATABASE_MAX_TAGS
          QueueLength,  \* TAG_DB_QUEUE_LENGTH
          MaxSamples    \* bound of the model: measurements taken

Clients == Admins \cup Producers \cup Readers
Tasks == Clients \cup {TagDB}

ASSUME SizesAreNat == /\ MaxTags \in Nat \ {0}
                      /\ QueueLength \in Nat \ {0}
                      /\ MaxSamples \in Nat
ASSUME TasksAreDistinct == /\ TagDB \notin Clients
                           /\ Nobody \notin Tasks
                           /\ Deleters \subseteq Admins
                           /\ NoName \notin Names

Handles == 0 .. MaxTags - 1
Invalid == MaxTags                          \* TAG_HANDLE_INVALID: no slot
Qualities == {"GOOD", "BAD", "UNCERTAIN"}
Values == 0 .. MaxSamples

VARIABLES tags,     \* s_tags: handle |-> its slot
          hwm,      \* s_tag_high_water_mark
          mutex,    \* the task that holds s_tag_db_mutex, or Nobody
          queue,    \* s_tag_db_queue
          msg,      \* msg of vTagDatabaseTask: the message in its hands
          pc,       \* where each task is
          name,     \* the name an administrator was called with
          slot,     \* the handle an administrator works on
          handle,   \* the handle a producer or reader keeps between calls
          meant,    \* history: the name that handle was resolved from
          part,     \* what tag_db_read has copied so far
          seen,     \* what the client's last tag_db_read returned
          samples   \* measurements accepted so far

shared == <<tags, hwm, queue>>
call == <<name, slot>>
kept == <<handle, meant, part, seen>>
vars == <<tags, hwm, mutex, queue, msg, pc, name, slot, handle, meant, part, seen, samples>>

Tag == [name : Names \cup {NoName}, allocated : BOOLEAN,
        value : Values, quality : Qualities]
Message == [handle : Handles, value : Values, quality : Qualities,
            for : Names \cup {NoName}]      \* for is history

CreatePoints == {"create_scan", "create_fill", "create_commit"}
DeletePoints == {"delete_scan", "delete_reset"}
ReadPoints == {"read_check", "read_quality"}
ApplyPoints == {"apply_check", "apply_quality", "apply_log"}
Waiting == {"create", "delete", "read", "apply"}
Critical == CreatePoints \cup DeletePoints \cup ReadPoints \cup ApplyPoints
Points == {"idle", "receive", "send"} \cup Waiting \cup Critical

TypeOK == /\ tags \in [Handles -> Tag]
          /\ hwm \in 0 .. MaxTags
          /\ mutex \in Tasks \cup {Nobody}
          /\ queue \in Seq(Message)
          /\ msg \in Message
          /\ pc \in [Tasks -> Points]
          /\ name \in [Tasks -> Names \cup {NoName}]
          /\ slot \in [Tasks -> Handles]
          /\ handle \in [Clients -> Handles \cup {Invalid}]
          /\ meant \in [Clients -> Names \cup {NoName}]
          /\ part \in [Clients -> Values]
          /\ seen \in [Clients -> [value : Values, quality : Qualities]]
          /\ samples \in Values

NoTag == [name |-> NoName, allocated |-> FALSE, value |-> 0, quality |-> "GOOD"]
NoMessage == [handle |-> 0, value |-> 0, quality |-> "BAD", for |-> NoName]

\* tag_db_init: memset to 0, which is TAG_QUALITY_GOOD.
Init == /\ tags = [h \in Handles |-> NoTag]
        /\ hwm = 0
        /\ mutex = Nobody
        /\ queue = <<>>
        /\ msg = NoMessage
        /\ pc = [t \in Tasks |-> IF t = TagDB THEN "receive" ELSE "idle"]
        /\ name = [t \in Tasks |-> NoName]
        /\ slot = [t \in Tasks |-> 0]
        /\ handle = [c \in Clients |-> Invalid]
        /\ meant = [c \in Clients |-> NoName]
        /\ part = [c \in Clients |-> 0]
        /\ seen = [c \in Clients |-> [value |-> 0, quality |-> "UNCERTAIN"]]
        /\ samples = 0

-----------------------------------------------------------------------------
\* Slots below the high-water mark, as the loops over s_tags visit them.
Used == 0 .. hwm - 1
Named(n) == {h \in Used : tags[h].allocated /\ tags[h].name = n}
Vacant == {h \in Used : ~tags[h].allocated}
Lowest(h, S) == h \in S /\ \A i \in S : h <= i
Live(h) == h < hwm /\ tags[h].allocated

Goto(t, from, to) == /\ pc[t] = from
                     /\ pc' = [pc EXCEPT ![t] = to]
Home(t) == IF t = TagDB THEN "receive" ELSE "idle"

\* xSemaphoreTake that succeeds; the return of a call, which forgets its
\* arguments and locals; and xSemaphoreGive on the way to it.
Take(t, from, to) == /\ mutex = Nobody
                     /\ mutex' = t
                     /\ Goto(t, from, to)
Return(t, from) == /\ Goto(t, from, Home(t))
                   /\ name' = [name EXCEPT ![t] = NoName]
                   /\ slot' = [slot EXCEPT ![t] = 0]
                   /\ msg' = IF t = TagDB THEN NoMessage ELSE msg
Leave(t, from) == /\ mutex' = Nobody
                  /\ Return(t, from)

\* Were it like this, a message taken back would land after later ones
\* (LandInOrder).
GiveUpRetry(t) ==
  /\ mutex # Nobody
  /\ t = TagDB
  /\ Return(t, "apply")
  /\ Len(queue) < QueueLength
  /\ queue' = Append(queue, msg)
  /\ UNCHANGED <<tags, hwm, mutex, kept, samples>>

\* xSemaphoreTake that returns after TAG_DB_MUTEX_TIMEOUT_MS: the call
\* fails, and vTagDatabaseTask drops the message it holds.
GiveUp(t) ==
  /\ mutex # Nobody
  /\ \E point \in Waiting : Return(t, point)
  /\ UNCHANGED <<shared, mutex, kept, samples>>

-----------------------------------------------------------------------------
(* tag_db_create *)

CreateCall(c, n) ==
  /\ Goto(c, "idle", "create")
  /\ name' = [name EXCEPT ![c] = n]
  /\ UNCHANGED <<shared, mutex, msg, slot, kept, samples>>

\* Were it like this, two creations would scan at once (UniqueNames,
\* WritesStayWithTheirTag).
CreateLockForgotten(c) == /\ Goto(c, "create", "create_scan")
                          /\ UNCHANGED <<shared, mutex, msg, call, kept, samples>>

CreateLock(c) == /\ Take(c, "create", "create_scan")
                 /\ UNCHANGED <<shared, msg, call, kept, samples>>

\* Were it like this, the early return would keep the mutex (MutexIsGivenBack).
CreateDuplicateKeeps(c) == /\ Goto(c, "create_scan", "idle")
                           /\ Named(name[c]) # {}
                           /\ UNCHANGED <<shared, mutex, msg, call, kept, samples>>

CreateDuplicate(c) == /\ Named(name[c]) # {}
                      /\ Leave(c, "create_scan")
                      /\ UNCHANGED <<shared, kept, samples>>

\* Were it like this, a slot would be live before it is filled (StoreSpec).
CreateReuseEarly(c) ==
  /\ Goto(c, "create_scan", "create_fill")
  /\ Named(name[c]) = {}
  /\ \E h \in Vacant : /\ Lowest(h, Vacant)
                       /\ slot' = [slot EXCEPT ![c] = h]
                       /\ tags' = [tags EXCEPT ![h] = [@ EXCEPT !.allocated = TRUE]]
  /\ UNCHANGED <<hwm, queue, mutex, msg, name, kept, samples>>

CreateReuse(c) ==
  /\ Goto(c, "create_scan", "create_fill")
  /\ Named(name[c]) = {}
  /\ \E h \in Vacant : Lowest(h, Vacant) /\ slot' = [slot EXCEPT ![c] = h]
  /\ UNCHANGED <<shared, mutex, msg, name, kept, samples>>

CreateExtend(c) ==
  /\ Goto(c, "create_scan", "create_fill")
  /\ Named(name[c]) = {}
  /\ Vacant = {}
  /\ hwm < MaxTags
  /\ slot' = [slot EXCEPT ![c] = hwm]
  /\ hwm' = hwm + 1
  /\ UNCHANGED <<tags, mutex, queue, msg, name, kept, samples>>

CreateFull(c) == /\ Named(name[c]) = {}
                 /\ Vacant = {}
                 /\ hwm >= MaxTags
                 /\ Leave(c, "create_scan")
                 /\ UNCHANGED <<shared, kept, samples>>

CreateFill(c) ==
  /\ Goto(c, "create_fill", "create_commit")
  /\ tags' = [tags EXCEPT ![slot[c]] = [@ EXCEPT !.name = name[c], !.value = 0,
                                                 !.quality = "UNCERTAIN"]]
  /\ UNCHANGED <<hwm, mutex, queue, msg, call, kept, samples>>

CreateCommit(c) ==
  /\ Leave(c, "create_commit")
  /\ tags' = [tags EXCEPT ![slot[c]] = [@ EXCEPT !.allocated = TRUE]]
  /\ UNCHANGED <<hwm, queue, kept, samples>>

-----------------------------------------------------------------------------
(* tag_db_delete, the runtime half: TagPersistence models what follows. *)

DeleteCall(c, n) ==
  /\ Goto(c, "idle", "delete")
  /\ name' = [name EXCEPT ![c] = n]
  /\ UNCHANGED <<shared, mutex, msg, slot, kept, samples>>

DeleteLock(c) == /\ Take(c, "delete", "delete_scan")
                 /\ UNCHANGED <<shared, msg, call, kept, samples>>

DeleteMissing(c) == /\ Named(name[c]) = {}
                    /\ Leave(c, "delete_scan")
                    /\ UNCHANGED <<shared, kept, samples>>

DeleteMark(c) ==
  /\ Goto(c, "delete_scan", "delete_reset")
  /\ \E h \in Named(name[c]) :
       /\ Lowest(h, Named(name[c]))
       /\ slot' = [slot EXCEPT ![c] = h]
       /\ tags' = [tags EXCEPT ![h] = [@ EXCEPT !.allocated = FALSE]]
  /\ UNCHANGED <<hwm, mutex, queue, msg, name, kept, samples>>

DeleteReset(c) ==
  /\ Leave(c, "delete_reset")
  /\ tags' = [tags EXCEPT ![slot[c]] = [@ EXCEPT !.value = 0, !.quality = "BAD"]]
  /\ UNCHANGED <<hwm, queue, kept, samples>>

-----------------------------------------------------------------------------
(* tag_db_get_handle and tag_db_write: no mutex *)

Resolve(c, n) ==
  /\ pc[c] = "idle"
  /\ \/ /\ Named(n) = {}
        /\ handle' = [handle EXCEPT ![c] = Invalid]
     \/ \E h \in Named(n) : Lowest(h, Named(n)) /\ handle' = [handle EXCEPT ![c] = h]
  /\ meant' = [meant EXCEPT ![c] = n]
  /\ UNCHANGED <<shared, mutex, msg, pc, name, slot, part, seen, samples>>

\* Were it like this, an invalid handle would be queued (TypeOK).
WriteCheckForgotten(c) ==
  /\ Goto(c, "idle", "send")
  /\ UNCHANGED <<shared, mutex, msg, call, kept, samples>>

\* A handle that is not live returns false at once and changes nothing.
WriteCheck(c) ==
  /\ Goto(c, "idle", "send")
  /\ handle[c] \in Handles /\ Live(handle[c])
  /\ UNCHANGED <<shared, mutex, msg, call, kept, samples>>

WriteMessage(c, v, q) == [handle |-> handle[c], value |-> v, quality |-> q, for |-> meant[c]]
WriteSample(c) ==
  /\ Goto(c, "send", "idle")
  /\ Len(queue) < QueueLength
  /\ samples < MaxSamples
  /\ samples' = samples + 1
  /\ queue' = Append(queue, WriteMessage(c, samples + 1, "GOOD"))
  /\ UNCHANGED <<tags, hwm, mutex, msg, call, kept>>

WriteBad(c) ==
  /\ Goto(c, "send", "idle")
  /\ Len(queue) < QueueLength
  /\ queue' = Append(queue, WriteMessage(c, 0, "BAD"))
  /\ UNCHANGED <<tags, hwm, mutex, msg, call, kept, samples>>

WriteDropped(c) == /\ Len(queue) >= QueueLength
                   /\ Goto(c, "send", "idle")
                   /\ UNCHANGED <<shared, mutex, msg, call, kept, samples>>

-----------------------------------------------------------------------------
(* vTagDatabaseTask *)

\* Were it like this, a write would be applied for ever (AcceptedIsHandled).
ReceivePeek ==
  /\ Goto(TagDB, "receive", "apply")
  /\ queue # <<>>
  /\ msg' = Head(queue)
  /\ UNCHANGED <<shared, mutex, call, kept, samples>>

Receive ==
  /\ Goto(TagDB, "receive", "apply")
  /\ queue # <<>>
  /\ msg' = Head(queue)
  /\ queue' = Tail(queue)
  /\ UNCHANGED <<tags, hwm, mutex, call, kept, samples>>

ApplyLock == /\ Take(TagDB, "apply", "apply_check")
             /\ UNCHANGED <<shared, msg, call, kept, samples>>

ApplyReject == /\ Leave(TagDB, "apply_check")
               /\ ~Live(msg.handle)
               /\ UNCHANGED <<shared, kept, samples>>

\* Were it like this, a write would land in a deleted slot (DeletedIsReset).
ApplyValueUnchecked ==
  /\ Goto(TagDB, "apply_check", "apply_quality")
  /\ msg.handle < hwm
  /\ tags' = [tags EXCEPT ![msg.handle] = [@ EXCEPT !.value = msg.value]]
  /\ UNCHANGED <<hwm, mutex, queue, msg, call, kept, samples>>

ApplyValue ==
  /\ Goto(TagDB, "apply_check", "apply_quality")
  /\ Live(msg.handle)
  /\ tags' = [tags EXCEPT ![msg.handle] = [@ EXCEPT !.value = msg.value]]
  /\ UNCHANGED <<hwm, mutex, queue, msg, call, kept, samples>>

ApplyQuality ==
  /\ Goto(TagDB, "apply_quality", "apply_log")
  /\ tags' = [tags EXCEPT ![msg.handle] = [@ EXCEPT !.quality = msg.quality]]
  /\ UNCHANGED <<hwm, mutex, queue, msg, call, kept, samples>>

\* LOG_DEBUG, which may wait for room in the logger's queue, has returned.
ApplyLogged == /\ Leave(TagDB, "apply_log")
               /\ UNCHANGED <<shared, kept, samples>>

-----------------------------------------------------------------------------
(* tag_db_read: the range check is made before the mutex is taken *)

ReadCall(c) ==
  /\ Goto(c, "idle", "read")
  /\ handle[c] < hwm
  /\ UNCHANGED <<shared, mutex, msg, call, kept, samples>>

\* Were it like this, a read could straddle a write (ReadsAreOneWrite).
ReadLockForgotten(c) == /\ Goto(c, "read", "read_check")
                        /\ UNCHANGED <<shared, mutex, msg, call, kept, samples>>

ReadLock(c) == /\ Take(c, "read", "read_check")
               /\ UNCHANGED <<shared, msg, call, kept, samples>>

ReadDeleted(c) == /\ Leave(c, "read_check")
                  /\ ~tags[handle[c]].allocated
                  /\ UNCHANGED <<shared, kept, samples>>

ReadValue(c) ==
  /\ Goto(c, "read_check", "read_quality")
  /\ tags[handle[c]].allocated
  /\ part' = [part EXCEPT ![c] = tags[handle[c]].value]
  /\ UNCHANGED <<shared, mutex, msg, name, slot, handle, meant, seen, samples>>

ReadQuality(c) ==
  /\ Leave(c, "read_quality")
  /\ seen' = [seen EXCEPT ![c] = [value |-> part[c], quality |-> tags[handle[c]].quality]]
  /\ part' = [part EXCEPT ![c] = 0]
  /\ UNCHANGED <<shared, handle, meant, samples>>

-----------------------------------------------------------------------------
CreateInside(c) == \/ CreateDuplicate(c) \/ CreateReuse(c) \/ CreateExtend(c)
                   \/ CreateFull(c) \/ CreateFill(c) \/ CreateCommit(c)
DeleteInside(c) == DeleteMissing(c) \/ DeleteMark(c) \/ DeleteReset(c)
ReadInside(c) == ReadDeleted(c) \/ ReadValue(c) \/ ReadQuality(c)

Create(c) == (\E n \in Names : CreateCall(c, n)) \/ CreateLock(c) \/ CreateInside(c)
Delete(c) == (\E n \in Names : DeleteCall(c, n)) \/ DeleteLock(c) \/ DeleteInside(c)
GetHandle(c) == \E n \in Names : Resolve(c, n)
Write(c) == WriteCheck(c) \/ WriteSample(c) \/ WriteBad(c) \/ WriteDropped(c)
Read(c) == ReadCall(c) \/ ReadLock(c) \/ ReadInside(c)
ApplyInside == ApplyReject \/ ApplyValue \/ ApplyQuality \/ ApplyLogged
TagTask == Receive \/ ApplyLock \/ GiveUp(TagDB) \/ ApplyInside

Next == \/ \E c \in Admins : Create(c)
        \/ \E c \in Deleters : Delete(c)
        \/ \E c \in Producers \cup Readers : GetHandle(c)
        \/ \E c \in Producers : Write(c)
        \/ \E c \in Readers : Read(c)
        \/ \E c \in Clients : GiveUp(c)
        \/ TagTask

Spec == Init /\ [][Next]_vars

\* A task inside its critical section runs on, and so does vTagDatabaseTask,
\* whose priority is above that of every client, but for its log calls: one
\* ends at ApplyLogged, others come before Receive.  No client has to call.
Fairness == /\ \A c \in Clients : WF_vars(CreateInside(c) \/ DeleteInside(c) \/ ReadInside(c))
            /\ WF_vars(ApplyLock \/ GiveUp(TagDB) \/ ApplyReject \/ ApplyValue \/ ApplyQuality)

FairSpec == Spec /\ Fairness
-----------------------------------------------------------------------------
(* Properties *)

(***************************************************************************)
(* No two live tags have one name, whatever creations and deletions race:  *)
(* the duplicate check and the allocation are one critical section, "to    *)
(* prevent TOCTOU race condition" (tag_database.c:169).                    *)
(***************************************************************************)
UniqueNames ==
  \A g, h \in Handles :
    tags[g].allocated /\ tags[h].allocated /\ tags[g].name = tags[h].name => g = h

(***************************************************************************)
(* A deleted slot keeps the value and quality that tag_db_delete left in   *)
(* it: writes still queued when the tag went away, and the write whose     *)
(* caller saw the tag alive just before, do not land in it.                *)
(***************************************************************************)
DeletedIsReset ==
  mutex = Nobody =>
    \A h \in Vacant : tags[h].value = 0 /\ tags[h].quality = "BAD"

(***************************************************************************)
(* The value and the quality that tag_db_read returns were written         *)
(* together: a reader never pairs a measurement with the quality of a      *)
(* failed poll, or a failed poll's dummy value with quality GOOD.          *)
(***************************************************************************)
ReadsAreOneWrite ==
  \A c \in Readers : (seen[c].value # 0) <=> (seen[c].quality = "GOOD")

(***************************************************************************)
(* Measurements land in the order in which tag_db_write accepted them,     *)
(* across all tags and producers: a tag never takes an older measurement   *)
(* than one already visible anywhere in the table.                         *)
(***************************************************************************)
LandInOrder ==
  [][\A h \in Handles :
       LET new == (tags[h].value)' IN
       new # 0 /\ new # tags[h].value =>
         \A g \in Handles : tags[g].value < new]_tags

(***************************************************************************)
(* A write lands in the tag whose name the producer resolved its handle    *)
(* from: the comment of tag_db_delete says that a deleted slot stays       *)
(* unusable so that cached handles do not become stale                     *)
(* (tag_database.c:576-577).                                               *)
(***************************************************************************)
WritesStayWithTheirTag ==
  pc[TagDB] = "apply_quality" => tags[msg.handle].name = msg.for

\* The log calls of vTagDatabaseTask return: with the mutex (c:91) and
\* without (c:42, :59, :67, :75).  Each may wait for room in the logger's
\* queue; that it does not do so for ever is for the logger to see to (Logger,
\* EveryoneGoesOn).
LogCallsReturn == /\ pc[TagDB] = "apply_log" ~> pc[TagDB] # "apply_log"
                  /\ pc[TagDB] = "receive" /\ queue # <<>> ~> pc[TagDB] # "receive"

(***************************************************************************)
(* The mutex never stays taken as long as log calls return: every path out *)
(* of a critical section, early returns included, gives it back, and       *)
(* vTagDatabaseTask, which logs with the mutex in its hand (c:91), keeps   *)
(* it no longer than that call lasts.                                      *)
(***************************************************************************)
MutexIsGivenBack == LogCallsReturn => []<>(mutex = Nobody)

(***************************************************************************)
(* Every accepted measurement leaves the queue, and the task's hands, in   *)
(* the end, as long as log calls return.                                   *)
(***************************************************************************)
InHand(v) == \/ \E i \in DOMAIN queue : queue[i].value = v
             \/ pc[TagDB] \in {"apply", "apply_check", "apply_quality"} /\ msg.value = v
AcceptedIsHandled == LogCallsReturn => \A v \in 1 .. MaxSamples : InHand(v) ~> ~InHand(v)

(***************************************************************************)
(* Refinement: every step of this module is one step of TagStore, or none. *)
(* A tag appears when allocated becomes 1 and disappears when it becomes   *)
(* 0; a write takes effect with its value, since its quality follows       *)
(* before the mutex is given back.                                         *)
(***************************************************************************)
\* A slot that is not live shows as a tag with no name.
NoSuchTag == [name |-> NoName, value |-> 0, quality |-> "BAD"]
TagOf(h) ==
  IF ~tags[h].allocated THEN NoSuchTag
  ELSE [name |-> tags[h].name, value |-> tags[h].value,
        quality |-> IF pc[TagDB] = "apply_quality" /\ msg.handle = h
                    THEN msg.quality ELSE tags[h].quality]
Plain(m) == [handle |-> m.handle, value |-> m.value, quality |-> m.quality]
PlainAll(q) == [i \in DOMAIN q |-> Plain(q[i])]
Pending == (IF pc[TagDB] \in {"apply", "apply_check"} THEN <<Plain(msg)>> ELSE <<>>)
             \o PlainAll(queue)

Store == INSTANCE TagStore
           WITH Capacity <- QueueLength + 1, Absent <- NoSuchTag,
                tag <- [h \in Handles |-> TagOf(h)], accepted <- Pending
StoreSpec == Store!Spec
=============================================================================
