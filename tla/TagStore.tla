------------------------------ MODULE TagStore ------------------------------
(***************************************************************************)
(* What the tag database promises to the tasks that share it: a table of   *)
(* named tags on which every operation is one atomic step.  Writes are     *)
(* accepted into a bounded FIFO buffer and take effect later, in the order *)
(* of acceptance, or not at all; a read returns the value and the quality  *)
(* that one write left together.  TagDatabase implements this              *)
(* specification with a mutex, a queue and a task of its own.              *)
(***************************************************************************)
EXTENDS Naturals, Sequences

CONSTANTS Names,     \* tag names
          Handles,   \* tag handles
          Clients,   \* tasks that call the database
          Values,    \* the values a tag can hold
          Capacity,  \* accepted writes that may wait
          Absent     \* the content of an unused handle

VARIABLES tag,       \* handle |-> its tag, or Absent
          accepted,  \* the writes accepted and not yet applied
          seen       \* client |-> what its last read returned

vars == <<tag, accepted, seen>>

Qualities == {"GOOD", "BAD", "UNCERTAIN"}
Sample == [value : Values, quality : Qualities]

Init == /\ tag = [h \in Handles |-> Absent]
        /\ accepted = <<>>
        /\ seen = [c \in Clients |-> [value |-> 0, quality |-> "UNCERTAIN"]]

Create(n) ==
  /\ \A h \in Handles : tag[h] # Absent => tag[h].name # n
  /\ \E h \in Handles :
       /\ tag[h] = Absent
       /\ tag' = [tag EXCEPT ![h] = [name |-> n, value |-> 0, quality |-> "UNCERTAIN"]]
  /\ UNCHANGED <<accepted, seen>>

Delete(n) ==
  /\ \E h \in Handles : /\ tag[h] # Absent
                        /\ tag[h].name = n
                        /\ tag' = [tag EXCEPT ![h] = Absent]
  /\ UNCHANGED <<accepted, seen>>

Accept(h, s) ==
  /\ Len(accepted) < Capacity
  /\ accepted' = Append(accepted, [handle |-> h, value |-> s.value, quality |-> s.quality])
  /\ UNCHANGED <<tag, seen>>

Apply ==
  /\ accepted # <<>>
  /\ LET w == Head(accepted) IN
       /\ tag[w.handle] # Absent
       /\ tag' = [tag EXCEPT ![w.handle] = [name |-> @.name, value |-> w.value,
                                         quality |-> w.quality]]
  /\ accepted' = Tail(accepted)
  /\ UNCHANGED seen

Discard ==
  /\ accepted # <<>>
  /\ accepted' = Tail(accepted)
  /\ UNCHANGED <<tag, seen>>

Read(c) ==
  /\ \E h \in Handles :
       /\ tag[h] # Absent
       /\ seen' = [seen EXCEPT ![c] = [value |-> tag[h].value, quality |-> tag[h].quality]]
  /\ UNCHANGED <<tag, accepted>>

Next == \/ \E n \in Names : Create(n) \/ Delete(n)
        \/ \E h \in Handles, s \in Sample : Accept(h, s)
        \/ Apply
        \/ Discard
        \/ \E c \in Clients : Read(c)

Spec == Init /\ [][Next]_vars
=============================================================================
