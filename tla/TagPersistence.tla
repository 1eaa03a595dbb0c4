---------------------------- MODULE TagPersistence ---------------------------
(***************************************************************************)
(* Tag definitions across reboots (src/src/tag-database/tag_database.c and *)
(* the tag functions of src/src/config/system_config/system_config.c).     *)
(* A tag lives in three places: the runtime table, the configuration in    *)
(* RAM and the configuration in flash.  Modbus requests refer to tags by   *)
(* handle and are stored in flash themselves, so the same name should get  *)
(* the same handle after every reboot.                                     *)
(*                                                                         *)
(* The first Persistent sections of the configuration are the tag slots:   *)
(* section i holds the name defined in slot i, or NoTag.  tag_db_create    *)
(* and tag_db_delete are one step each, which TagDatabase shows they are.  *)
(* Values, qualities and data types are left out.                          *)
(***************************************************************************)
EXTENDS Naturals, ConfigStore

CONSTANTS Names,        \* tag names
          NoTag,        \* a slot without a tag
          Web,          \* the task that creates and deletes tags
          Persist,      \* the values of the argument persist in use
          MaxTags,      \* TAG_DATABASE_MAX_TAGS
          Persistent    \* TAG_DB_MAX_PERSISTENT_TAGS

Handles == 0 .. MaxTags - 1
Slots == 0 .. Persistent - 1

ASSUME TagAssumption == /\ MaxTags \in Nat /\ Persistent \in Nat
                        /\ Persistent <= MaxTags
                        /\ Slots \subseteq Sections
                        /\ Web \in Tasks
                        /\ Persist \subseteq BOOLEAN
                        /\ NoTag \notin Names
                        /\ \A s \in Sections, v \in Names \cup {NoTag} : IsContent(s, v)
                        /\ \A i \in Slots : Default[i] = NoTag
                        /\ \A b \in Configured, i \in Slots : b[i] \in Names \cup {NoTag}

VARIABLES tags,     \* handle |-> the name of its tag, or NoTag
          hwm,      \* s_tag_high_water_mark
          op,       \* what Web still has to do: [do, name]
          saves,    \* history: whether saves ran alone
          damaged   \* history: whether a restart found a save that had not

history == <<saves, damaged>>
vars == <<cfg, changed, buf, flash, pc, tags, hwm, op, history>>

NoOp == [do |-> "nothing", name |-> NoTag]
Ops == [do : {"nothing", "add", "remove", "save", "saving"}, name : Names \cup {NoTag}]

TypeOK == /\ ConfigTypeOK
          /\ tags \in [Handles -> Names \cup {NoTag}]
          /\ hwm \in 0 .. MaxTags
          /\ op \in Ops
          /\ saves \in {"settled", "overlapped", "resaving"}
          /\ damaged \in BOOLEAN

\* tag_db_load_from_flash: a slot of erased bytes is enabled but has an
\* invalid data type, and is skipped.
TagsLoaded(config) == [h \in Handles |-> IF h \in Slots /\ config[h] # Erased
                                         THEN config[h] ELSE NoTag]

\* Configurations in which each name is defined once.
OncePerName(config) == \A i, j \in Slots : config[i] = config[j] /\ config[i] \in Names => i = j

Init == /\ ConfigInit
        /\ OncePerName(cfg)
        /\ tags = TagsLoaded(cfg)
        /\ hwm = Persistent
        /\ op = NoOp
        /\ saves = "settled"
        /\ damaged = FALSE

-----------------------------------------------------------------------------
Lowest(h, S) == h \in S /\ \A i \in S : h <= i
Vacant == {h \in Handles : h < hwm /\ tags[h] = NoTag}
FreeSlots == {i \in Slots : cfg[i] = NoTag}
\* Web is between two calls, and may run.
WebReady == ~Busy /\ op = NoOp /\ pc[Web] = "idle"
Todo(do, n, persist) == IF persist THEN [do |-> do, name |-> n] ELSE NoOp

\* History.  A change or a save that comes while another task saves overlaps
\* it.  The overlap is over when a later save has run alone from begin to end.
OthersSave(t) == \E u \in Tasks \ {t} : pc[u] # "idle"
Changes(t) == /\ saves' = IF OthersSave(t) THEN "overlapped" ELSE saves
              /\ UNCHANGED damaged
Begins(t) == /\ saves' = IF OthersSave(t) THEN "overlapped"
                         ELSE IF saves = "overlapped" THEN "resaving" ELSE saves
             /\ UNCHANGED damaged
Ends == /\ saves' = IF saves = "resaving" THEN "settled" ELSE saves
        /\ UNCHANGED damaged
\* A restart after an overlap, or a power failure between the two pages.
Interrupts == /\ saves' = "settled"
              /\ damaged' = (damaged \/ saves # "settled"
                             \/ \E t \in Tasks : pc[t] = "first_page")

\* Were it like this, a reused slot would raise the high-water mark (TypeOK).
CreateTagRaises(n, persist) ==
  /\ WebReady
  /\ \A h \in Handles : tags[h] # n
  /\ \E h \in Handles : /\ Lowest(h, Vacant) \/ (Vacant = {} /\ h = hwm)
                        /\ tags' = [tags EXCEPT ![h] = n]
  /\ hwm' = hwm + 1
  /\ op' = Todo("add", n, persist)
  /\ UNCHANGED <<configVars, history>>

\* tag_db_create, called by tag_db_create_persistent.
CreateTag(n, persist) ==
  /\ WebReady
  /\ \A h \in Handles : tags[h] # n
  /\ \E h \in Handles :
       /\ \/ Lowest(h, Vacant) /\ UNCHANGED hwm
          \/ Vacant = {} /\ h = hwm /\ hwm' = hwm + 1
       /\ tags' = [tags EXCEPT ![h] = n]
  /\ op' = Todo("add", n, persist)
  /\ UNCHANGED <<configVars, history>>

\* Were it like this, the save would be skipped (UnsavedIsMarkedAlone).
AddDefinitionUnmarked ==
  /\ ~Busy
  /\ op.do = "add"
  /\ \E i \in FreeSlots :
       /\ \A j \in Slots : cfg[j] # op.name
       /\ Lowest(i, FreeSlots)
       /\ cfg' = [cfg EXCEPT ![i] = op.name]
  /\ op' = [op EXCEPT !.do = "save"]
  /\ Changes(Web)
  /\ UNCHANGED <<changed, buf, flash, pc, tags, hwm>>

\* Were it like this, slot and handle would differ (RebootKeepsHandles).
AddDefinitionLast ==
  /\ ~Busy
  /\ op.do = "add"
  /\ \E i \in FreeSlots :
       /\ \A j \in Slots : cfg[j] # op.name
       /\ \A j \in FreeSlots : j <= i
       /\ cfg' = [cfg EXCEPT ![i] = op.name]
  /\ changed' = TRUE
  /\ op' = [op EXCEPT !.do = "save"]
  /\ Changes(Web)
  /\ UNCHANGED <<buf, flash, pc, tags, hwm>>

\* config_add_tag_definition: the first free slot of the configuration.
AddDefinition ==
  /\ ~Busy
  /\ op.do = "add"
  /\ \E i \in FreeSlots :
       /\ \A j \in Slots : cfg[j] # op.name
       /\ Lowest(i, FreeSlots)
       /\ cfg' = [cfg EXCEPT ![i] = op.name]
  /\ changed' = TRUE
  /\ op' = [op EXCEPT !.do = "save"]
  /\ Changes(Web)
  /\ UNCHANGED <<buf, flash, pc, tags, hwm>>

AddFails ==
  /\ ~Busy
  /\ op.do = "add"
  /\ FreeSlots = {} \/ \E j \in Slots : cfg[j] = op.name
  /\ op' = NoOp
  /\ UNCHANGED <<configVars, tags, hwm, history>>

\* tag_db_delete
DeleteTag(n, persist) ==
  /\ WebReady
  /\ \E h \in Handles : /\ Lowest(h, {g \in Handles : tags[g] = n})
                        /\ tags' = [tags EXCEPT ![h] = NoTag]
  /\ op' = Todo("remove", n, persist)
  /\ UNCHANGED <<configVars, hwm, history>>

\* Were it like this, later definitions would move down (Mirrored).
RemoveDefinitionShifts ==
  /\ ~Busy
  /\ op.do = "remove"
  /\ \E i \in Slots :
       /\ Lowest(i, {j \in Slots : cfg[j] = op.name})
       /\ cfg' = [j \in Sections |-> IF j \in Slots /\ j >= i
                                     THEN IF j + 1 \in Slots THEN cfg[j + 1] ELSE NoTag
                                     ELSE cfg[j]]
  /\ changed' = TRUE
  /\ op' = [op EXCEPT !.do = "save"]
  /\ Changes(Web)
  /\ UNCHANGED <<buf, flash, pc, tags, hwm>>

\* config_remove_tag_definition
RemoveDefinition ==
  /\ ~Busy
  /\ op.do = "remove"
  /\ \E i \in Slots : /\ Lowest(i, {j \in Slots : cfg[j] = op.name})
                      /\ cfg' = [cfg EXCEPT ![i] = NoTag]
  /\ changed' = TRUE
  /\ op' = [op EXCEPT !.do = "save"]
  /\ Changes(Web)
  /\ UNCHANGED <<buf, flash, pc, tags, hwm>>

RemoveFails ==
  /\ ~Busy
  /\ op.do = "remove"
  /\ \A i \in Slots : cfg[i] # op.name
  /\ op' = NoOp
  /\ UNCHANGED <<configVars, tags, hwm, history>>

\* config_save_to_flash as the last call of both; when another task has saved
\* the change meanwhile it does nothing.
SaveTags == /\ ~Busy
            /\ op.do = "save"
            /\ IF changed THEN SaveBegin(Web) /\ Begins(Web)
                          ELSE UNCHANGED <<configVars, history>>
            /\ op' = IF changed THEN [op EXCEPT !.do = "saving"] ELSE NoOp
            /\ UNCHANGED <<tags, hwm>>
SaveGoesOn(t) == /\ \/ SaveFill(t) \/ SaveCopy(t) \/ SaveCopyRest(t)
                    \/ SaveErase(t) \/ SaveFirstPage(t) \/ SaveRest(t)
                 /\ UNCHANGED <<tags, hwm, op, history>>
SaveEnds(t) == /\ SaveReturn(t)
               /\ op' = IF t = Web THEN NoOp ELSE op
               /\ Ends
               /\ UNCHANGED <<tags, hwm>>

\* The other sections, which every task sets and saves between its own
\* calls: "config write device", "config save", the forms of the web pages.
Between(t) == t # Web \/ op = NoOp
Configure(t) == /\ Between(t)
                /\ \E s \in Sections \ Slots, v \in Names \cup {NoTag} : SetSection(t, s, v)
                /\ Changes(t)
                /\ UNCHANGED <<tags, hwm, op>>
SaveConfig(t) == /\ Between(t)
                 /\ SaveBegin(t)
                 /\ Begins(t)
                 /\ UNCHANGED <<tags, hwm, op>>

Restart == /\ Reboot
           /\ tags' = TagsLoaded(cfg')
           /\ hwm' = Persistent
           /\ op' = NoOp
           /\ Interrupts

Next == \/ \E n \in Names, p \in Persist : CreateTag(n, p) \/ DeleteTag(n, p)
        \/ AddDefinition \/ AddFails \/ RemoveDefinition \/ RemoveFails
        \/ SaveTags
        \/ \E t \in Tasks : SaveGoesOn(t) \/ SaveEnds(t) \/ Configure(t) \/ SaveConfig(t)
        \/ Restart

Spec == Init /\ [][Next]_vars

-----------------------------------------------------------------------------
(* Properties *)

\* Every save since the start ran alone, or a later one did, and no restart
\* met one that had not.
Undisturbed == saves = "settled" /\ ~damaged

(***************************************************************************)
(* What g_config_changed promises (UnsavedIsMarked, system_config.c:25) it *)
(* keeps for saves that nothing overlaps: through restarts and power       *)
(* failures, and again once a save has run alone after an overlap.         *)
(***************************************************************************)
UnsavedIsMarkedAlone == Undisturbed => UnsavedIsMarked

(***************************************************************************)
(* Nor does the program load erased bytes (LoadsWholeConfig): a watchdog   *)
(* restart between any two steps of a save, or a power failure after the   *)
(* erase, leaves an old image, none or a whole one.                        *)
(***************************************************************************)
LoadsWholeUndamaged == ~damaged => LoadsWholeConfig

(***************************************************************************)
(* A save that nothing overlapped and that returns true has left a whole   *)
(* image in flash (SavedIsWhole).                                          *)
(***************************************************************************)
SavedIsWholeAlone == Undisturbed => SavedIsWhole

(***************************************************************************)
(* Between two calls the configuration mirrors the runtime table: "Flash   *)
(* index i always maps to runtime handle i for persistent tags"            *)
(* (tag_database.c:369-370), whatever saves the other tasks make.          *)
(***************************************************************************)
Mirrored == ~damaged /\ op = NoOp => \A i \in Slots : cfg[i] = tags[i]

(***************************************************************************)
(* A restart moves no tag to another handle, in the middle of any call: a  *)
(* name that exists before and after has the same handle.                  *)
(***************************************************************************)
RebootKeepsHandles ==
  [][Restart /\ ~damaged' =>
       \A g, h \in Handles : tags[g] \in Names /\ tags'[h] = tags[g] => g = h]_vars

(***************************************************************************)
(* A creation or deletion that has returned, with no other save under way, *)
(* is in flash: "The tag is immediately created and persisted to flash     *)
(* memory" (docs/wiki/Web-Interface:-Tag-Database.md:19).                  *)
(***************************************************************************)
DoneIsDurable == op = NoOp /\ Quiet => \A i \in Slots : Loaded(flash)[i] = tags[i]

(***************************************************************************)
(* And it is when nothing overlapped its save, also when another task's    *)
(* save took the change along and this one found nothing to do.            *)
(***************************************************************************)
DoneIsDurableAlone == Undisturbed => DoneIsDurable
=============================================================================
