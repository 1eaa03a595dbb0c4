------------------------ MODULE TagPersistenceProofs -------------------------
(***************************************************************************)
(* What TLAPS proves of TagPersistence and of the store under it, for any  *)
(* tasks that set and save, any numbers of tags, slots, names and sections *)
(* and any restarts.  What is said of tags needs every tag to be           *)
(* persistent (AllPersist), as the two callers of the web server ask       *)
(* (http_utils.c:1454, :1505).                                             *)
(***************************************************************************)
EXTENDS TagPersistence, TLAPS

AllPersist == Persist \subseteq {TRUE}

-----------------------------------------------------------------------------
(* The inductive invariant *)

\* The slots hold names, nothing, or erased bytes.
SlotsHoldNames(b) == \A i \in Slots : b[i] \in Names \cup {NoTag, Erased}
TypeInv == /\ ConfigTypeOK
           /\ tags \in [Handles -> Names \cup {NoTag}]
           /\ hwm \in 0 .. MaxTags
           /\ op \in Ops
           /\ SlotsHoldNames(cfg) /\ SlotsHoldNames(buf.body) /\ SlotsHoldNames(flash.body)
HistoryInv == saves \in {"settled", "overlapped", "resaving"} /\ damaged \in BOOLEAN

\* A configuration to work with, and its image.
Sound(b) == /\ IsWhole(b)
            /\ \A i \in Slots : b[i] \in Names \cup {NoTag}
            /\ OncePerName(b)
Image(b) == [version |-> TRUE, body |-> b]
Half(b) == Image(Over(FirstPage, b, ErasedImage.body))

\* Web makes one call at a time.
HandsInv == /\ op.do = "nothing" => op = NoOp
            /\ op.do \in {"add", "remove", "save"} => pc[Web] = "idle"

\* A save that runs alone works for the configuration as it is.
BufInv ==
  /\ \A t, u \in Tasks : pc[t] # "idle" /\ pc[u] # "idle" => t = u
  /\ \A t \in Tasks :
       /\ pc[t] # "idle" => changed
       /\ pc[t] = "copy" => buf = ErasedImage
       /\ pc[t] = "copy_rest" => buf = Half(cfg)
       /\ pc[t] \in {"request", "erased", "first_page"} => buf = Image(cfg)
       /\ pc[t] = "erased" => flash = ErasedImage
       /\ pc[t] = "first_page" => flash = Half(cfg)
       /\ pc[t] = "written" => flash = Image(cfg)

\* The flash is erased or holds an image to work with, except between the two
\* pages.
NotBetweenPages == \A t \in Tasks : pc[t] # "first_page"
ImageInv ==
  /\ NotBetweenPages => flash = ErasedImage \/ (flash = Image(flash.body) /\ Sound(flash.body))
  /\ Quiet /\ ~changed => flash = Image(cfg)

StoreInv == /\ TypeInv /\ HistoryInv /\ HandsInv
            /\ ~damaged => Sound(cfg)
            /\ ~damaged /\ saves # "overlapped" => BufInv
            /\ ~damaged /\ saves = "settled" => ImageInv

\* The slots are those of the table, but for the tag in hand.
UniqueTags == \A g, h \in Handles : tags[g] \in Names /\ tags[g] = tags[h] => g = h
InSlots == \A i \in Slots : cfg[i] = tags[i]
Adding == /\ op.name \in Names
          /\ \E h \in Handles :
               /\ tags[h] = op.name
               /\ \A i \in Slots : i # h => cfg[i] = tags[i]
               /\ h \in Slots => Lowest(h, FreeSlots)
               /\ h \notin Slots => FreeSlots = {}
Removing == /\ op.name \in Names
            /\ \A h \in Handles : tags[h] # op.name
            /\ \A i \in Slots : \/ cfg[i] = tags[i]
                                \/ cfg[i] = op.name /\ tags[i] = NoTag
CallInv ==
  /\ UniqueTags
  /\ Persistent <= hwm
  /\ op.do \in {"nothing", "save", "saving"} => InSlots
  /\ op.do = "add" => Adding
  /\ op.do = "remove" => Removing

\* What a reboot would load.
InFlash == \A i \in Slots : Loaded(flash)[i] = cfg[i]
Agrees == \A g \in Handles, i \in Slots :
            tags[g] \in Names /\ Loaded(flash)[i] = tags[g] => g = i
FlashInv == /\ ~Busy /\ op.do \in {"nothing", "add", "remove"} => InFlash
            /\ NotBetweenPages => Agrees

PersistenceInv == /\ StoreInv
                  /\ ~damaged => CallInv
                  /\ ~damaged /\ saves = "settled" => FlashInv

-----------------------------------------------------------------------------
(* Types *)

LEMMA Contents ==
  /\ MaxTags \in Nat /\ Persistent \in Nat /\ Persistent <= MaxTags
  /\ Slots \subseteq Sections /\ Slots \subseteq Handles /\ Slots \subseteq Nat
  /\ NoTag \notin Names
  /\ Web \in Tasks
  /\ \A s \in Sections, v \in Names \cup {NoTag} : IsContent(s, v)
  /\ \A s \in Sections : ~IsContent(s, Erased)
BY TagAssumption, ConfigAssumption DEF Slots, Handles

\* The pieces from which the store is made are bodies.
LEMMA BodiesGiven ==
  /\ IsBody(ErasedImage.body) /\ SlotsHoldNames(ErasedImage.body)
  /\ IsImage(ErasedImage)
  /\ IsBody(Default) /\ SlotsHoldNames(Default)
  /\ \A b \in Configured : IsBody(b) /\ SlotsHoldNames(b)
BY Contents, TagAssumption, ConfigAssumption
   DEF IsBody, IsImage, ErasedImage, SlotsHoldNames, IsWhole

LEMMA OverIsBody ==
  ASSUME NEW part, NEW from, NEW onto, IsBody(from), IsBody(onto),
         SlotsHoldNames(from), SlotsHoldNames(onto)
  PROVE  IsBody(Over(part, from, onto)) /\ SlotsHoldNames(Over(part, from, onto))
BY Contents DEF IsBody, Over, SlotsHoldNames

LEMMA SetIsBody ==
  ASSUME NEW b, IsBody(b), SlotsHoldNames(b), NEW s \in Sections, NEW v \in Names \cup {NoTag}
  PROVE  /\ IsBody([b EXCEPT ![s] = v]) /\ SlotsHoldNames([b EXCEPT ![s] = v])
         /\ \A q \in Sections : [b EXCEPT ![s] = v][q] = IF q = s THEN v ELSE b[q]
<1> DEFINE d == [b EXCEPT ![s] = v]
<1>1. /\ d = [q \in Sections |-> d[q]]
      /\ \A q \in Sections : d[q] = IF q = s THEN v ELSE b[q]
      BY DEF IsBody
<1> HIDE DEF d
<1>2. IsBody(d) /\ SlotsHoldNames(d)
      BY <1>1, Contents DEF IsBody, SlotsHoldNames
<1> QED  BY <1>1, <1>2 DEF d

LEMMA LoadedIsBody ==
  ASSUME NEW image, IsImage(image), SlotsHoldNames(image.body)
  PROVE  IsBody(Loaded(image)) /\ SlotsHoldNames(Loaded(image))
BY BodiesGiven DEF Loaded, IsImage

LEMMA TagsLoadedType ==
  ASSUME NEW b, SlotsHoldNames(b)
  PROVE  TagsLoaded(b) \in [Handles -> Names \cup {NoTag}]
BY DEF TagsLoaded, SlotsHoldNames

LEMMA InitType == Init => TypeInv
<1> SUFFICES ASSUME Init
             PROVE  TypeInv
    OBVIOUS
<1>1. IsImage(flash) /\ SlotsHoldNames(flash.body)
      <2>1. CASE flash = ErasedImage
            BY <2>1, BodiesGiven
      <2>2. CASE \E b \in Configured : flash = [version |-> TRUE, body |-> b]
            BY <2>2, BodiesGiven DEF IsImage
      <2> QED  BY <2>1, <2>2 DEF Init, ConfigInit
<1>2. IsBody(cfg) /\ SlotsHoldNames(cfg)
      BY <1>1, LoadedIsBody DEF Init, ConfigInit
<1>3. ConfigTypeOK /\ SlotsHoldNames(buf.body)
      BY <1>1, <1>2, BodiesGiven DEF Init, ConfigInit, ConfigTypeOK, IsImage
<1>4. tags \in [Handles -> Names \cup {NoTag}] /\ hwm \in 0 .. MaxTags /\ op \in Ops
      BY <1>2, TagsLoadedType, Contents DEF Init, Ops, NoOp
<1> QED  BY <1>1, <1>2, <1>3, <1>4 DEF TypeInv

\* Steps of the store.
LEMMA StoreType ==
  ASSUME TypeInv, NEW t \in Tasks,
         SaveBegin(t) \/ SaveFill(t) \/ SaveCopy(t) \/ SaveCopyRest(t) \/ SaveErase(t)
         \/ SaveFirstPage(t) \/ SaveRest(t) \/ SaveReturn(t)
  PROVE  /\ ConfigTypeOK'
         /\ SlotsHoldNames(cfg') /\ SlotsHoldNames(buf'.body) /\ SlotsHoldNames(flash'.body)
<1> USE DEF TypeInv
<1>1. pc' \in [Tasks -> {"idle"} \cup Saving \cup Writing]
      BY DEF ConfigTypeOK, Saving, Writing, Goto, SaveBegin, SaveFill, SaveCopy, SaveCopyRest,
             SaveErase, SaveFirstPage, SaveRest, SaveReturn
<1>2. UNCHANGED cfg /\ changed' \in BOOLEAN
      BY DEF ConfigTypeOK, SaveBegin, SaveFill, SaveCopy, SaveCopyRest,
             SaveErase, SaveFirstPage, SaveRest, SaveReturn
<1>3. IsImage(buf') /\ SlotsHoldNames(buf'.body)
  <2>1. CASE SaveFill(t)
        BY <2>1, BodiesGiven DEF SaveFill
  <2>2. CASE SaveCopy(t)
        BY <2>2, OverIsBody DEF SaveCopy, ConfigTypeOK, IsImage
  <2>3. CASE SaveCopyRest(t)
    <3>1. buf' = [version |-> buf.version, body |-> Over(Rest, cfg, buf.body)]
          BY <2>3 DEF SaveCopyRest, ConfigTypeOK, IsImage
    <3> QED  BY <3>1, OverIsBody DEF ConfigTypeOK, IsImage
  <2>4. CASE UNCHANGED buf
        BY <2>4 DEF ConfigTypeOK
  <2> QED  BY <2>1, <2>2, <2>3, <2>4
           DEF SaveBegin, SaveErase, SaveFirstPage, SaveRest, SaveReturn
<1>4. IsImage(flash') /\ SlotsHoldNames(flash'.body)
  <2>1. CASE SaveErase(t)
        BY <2>1, BodiesGiven DEF SaveErase
  <2>2. CASE SaveFirstPage(t)
        BY <2>2, OverIsBody DEF SaveFirstPage, ConfigTypeOK, IsImage
  <2>3. CASE SaveRest(t)
    <3>1. flash' = [version |-> flash.version, body |-> Over(Rest, buf.body, flash.body)]
          BY <2>3 DEF SaveRest, ConfigTypeOK, IsImage
    <3> QED  BY <3>1, OverIsBody DEF ConfigTypeOK, IsImage
  <2>4. CASE UNCHANGED flash
        BY <2>4 DEF ConfigTypeOK
  <2> QED  BY <2>1, <2>2, <2>3, <2>4
           DEF SaveBegin, SaveFill, SaveCopy, SaveCopyRest, SaveReturn
<1> QED  BY <1>1, <1>2, <1>3, <1>4 DEF ConfigTypeOK

\* The calls that create and delete tags.
LEMMA TagsType ==
  ASSUME TypeInv,
         \/ \E n \in Names, p \in Persist : CreateTag(n, p) \/ DeleteTag(n, p)
         \/ AddDefinition \/ AddFails \/ RemoveDefinition \/ RemoveFails
  PROVE  TypeInv'
<1> USE Contents DEF TypeInv
<1>n. /\ NoOp \in Ops
      /\ \A n \in Names, p \in Persist, do \in {"add", "remove"} : Todo(do, n, p) \in Ops
      BY DEF NoOp, Ops, Todo
<1>o. [op EXCEPT !.do = "save"] \in Ops
      BY DEF Ops
<1>1. ASSUME NEW n \in Names, NEW p \in Persist, CreateTag(n, p)
      PROVE  TypeInv'
  <2>1. tags' \in [Handles -> Names \cup {NoTag}]
        BY <1>1 DEF CreateTag
  <2>2. hwm' \in 0 .. MaxTags
        BY <1>1 DEF CreateTag, Handles
  <2>3. op' \in Ops
        BY <1>1, <1>n DEF CreateTag
  <2>4. cfg' = cfg /\ changed' = changed /\ buf' = buf /\ flash' = flash /\ pc' = pc
        BY <1>1 DEF CreateTag, configVars
  <2> QED  BY <2>1, <2>2, <2>3, <2>4 DEF ConfigTypeOK, SlotsHoldNames
<1>2. ASSUME NEW n \in Names, NEW p \in Persist, DeleteTag(n, p)
      PROVE  TypeInv'
  <2>1. tags' \in [Handles -> Names \cup {NoTag}] /\ hwm' = hwm
        BY <1>2 DEF DeleteTag
  <2>2. op' \in Ops
        BY <1>2, <1>n DEF DeleteTag
  <2>3. cfg' = cfg /\ changed' = changed /\ buf' = buf /\ flash' = flash /\ pc' = pc
        BY <1>2 DEF DeleteTag, configVars
  <2> QED  BY <2>1, <2>2, <2>3 DEF ConfigTypeOK, SlotsHoldNames
<1>3. ASSUME AddFails \/ RemoveFails
      PROVE  TypeInv'
  <2>1. /\ cfg' = cfg /\ changed' = changed /\ buf' = buf /\ flash' = flash /\ pc' = pc
        /\ tags' = tags /\ hwm' = hwm /\ op' = NoOp
        BY <1>3 DEF AddFails, RemoveFails, configVars
  <2> QED  BY <2>1, <1>n DEF ConfigTypeOK, SlotsHoldNames
<1>4. ASSUME AddDefinition \/ RemoveDefinition
      PROVE  TypeInv'
  <2>1. PICK i \in Slots, v \in Names \cup {NoTag} : cfg' = [cfg EXCEPT ![i] = v]
        BY <1>4 DEF AddDefinition, RemoveDefinition, Ops, FreeSlots
  <2>2. IsBody(cfg') /\ SlotsHoldNames(cfg')
        BY <2>1, SetIsBody DEF ConfigTypeOK
  <2>3. changed' = TRUE /\ op' \in Ops
        BY <1>4, <1>o DEF AddDefinition, RemoveDefinition
  <2>4. buf' = buf /\ flash' = flash /\ pc' = pc /\ tags' = tags /\ hwm' = hwm
        BY <1>4 DEF AddDefinition, RemoveDefinition
  <2> QED  BY <2>2, <2>3, <2>4 DEF ConfigTypeOK, SlotsHoldNames
<1> QED  BY <1>1, <1>2, <1>3, <1>4

LEMMA ConfigureType ==
  ASSUME TypeInv, NEW t \in Tasks, Configure(t)
  PROVE  TypeInv'
<1>1. PICK s \in Sections \ Slots, v \in Names \cup {NoTag} : SetSection(t, s, v)
      BY DEF Configure
<1>2. IsBody(cfg') /\ SlotsHoldNames(cfg')
      BY <1>1, SetIsBody DEF SetSection, TypeInv, ConfigTypeOK
<1>3. changed' \in BOOLEAN
      BY <1>1 DEF SetSection, TypeInv, ConfigTypeOK
<1>4. buf' = buf /\ flash' = flash /\ pc' = pc /\ tags' = tags /\ hwm' = hwm /\ op' = op
      BY <1>1 DEF SetSection, Configure
<1> QED  BY <1>2, <1>3, <1>4 DEF TypeInv, ConfigTypeOK, SlotsHoldNames

LEMMA RestartType ==
  ASSUME TypeInv, Restart
  PROVE  TypeInv'
<1> USE DEF TypeInv
<1>1. IsBody(cfg') /\ SlotsHoldNames(cfg')
      BY LoadedIsBody DEF Restart, Reboot, ConfigTypeOK
<1>2. ConfigTypeOK' /\ SlotsHoldNames(buf'.body) /\ flash' = flash
      BY <1>1, BodiesGiven DEF Restart, Reboot, ConfigTypeOK, IsImage
<1>3. tags' \in [Handles -> Names \cup {NoTag}] /\ hwm' \in 0 .. MaxTags /\ op' \in Ops
      BY <1>1, TagsLoadedType, Contents DEF Restart, NoOp, Ops
<1> QED  BY <1>1, <1>2, <1>3

\* Saves leave the table of tags alone.
LEMMA SaveType ==
  ASSUME TypeInv, NEW t \in Tasks, SaveGoesOn(t) \/ SaveEnds(t) \/ SaveConfig(t) \/ SaveTags
  PROVE  TypeInv'
<1> USE DEF TypeInv
<1>1. \/ SaveTags /\ ~changed
      \/ \E u \in Tasks :
           \/ SaveBegin(u) \/ SaveFill(u) \/ SaveCopy(u) \/ SaveCopyRest(u) \/ SaveErase(u)
           \/ SaveFirstPage(u) \/ SaveRest(u) \/ SaveReturn(u)
      BY Contents DEF SaveGoesOn, SaveEnds, SaveConfig, SaveTags
<1>2. /\ ConfigTypeOK'
      /\ SlotsHoldNames(cfg') /\ SlotsHoldNames(buf'.body) /\ SlotsHoldNames(flash'.body)
  <2>1. CASE SaveTags /\ ~changed
        BY <2>1 DEF SaveTags, configVars, ConfigTypeOK, SlotsHoldNames
  <2> QED  BY <1>1, <2>1, StoreType
<1>3. op' \in Ops
      BY DEF SaveGoesOn, SaveEnds, SaveConfig, SaveTags, NoOp, Ops
<1>4. tags' = tags /\ hwm' = hwm
      BY DEF SaveGoesOn, SaveEnds, SaveConfig, SaveTags
<1> QED  BY <1>2, <1>3, <1>4

LEMMA NextType == TypeInv /\ [Next]_vars => TypeInv'
<1> SUFFICES ASSUME TypeInv, [Next]_vars
             PROVE  TypeInv'
    OBVIOUS
<1>1. CASE UNCHANGED vars
      BY <1>1 DEF vars, TypeInv, ConfigTypeOK, SlotsHoldNames
<1>2. CASE Next
      BY <1>2, TagsType, ConfigureType, RestartType, SaveType, Contents DEF Next
<1> QED  BY <1>1, <1>2

LEMMA NextHistory == HistoryInv /\ [Next]_vars => HistoryInv'
<1> SUFFICES ASSUME HistoryInv, [Next]_vars
             PROVE  HistoryInv'
    OBVIOUS
<1>1. \/ UNCHANGED history
      \/ \E t \in Tasks : Changes(t) \/ Begins(t)
      \/ Ends \/ Interrupts
      BY Contents DEF Next, vars, CreateTag, DeleteTag, AddDefinition, AddFails, RemoveDefinition,
         RemoveFails, SaveTags, SaveGoesOn, SaveEnds, Configure, SaveConfig, Restart
<1> QED  BY <1>1 DEF HistoryInv, history, Changes, Begins, Ends, Interrupts

(***************************************************************************)
(* The type invariant, for any tasks and any kind of restart: a section    *)
(* holds what its setter admits or erased bytes, and no call of            *)
(* tag_db_create takes the high-water mark out of the table.               *)
(***************************************************************************)
THEOREM TypeCorrect == Spec => []TypeOK
<1>1. Init => HistoryInv
      BY DEF Init, HistoryInv
<1>2. TypeInv /\ HistoryInv => TypeOK
      BY DEF TypeInv, HistoryInv, TypeOK
<1> QED  BY InitType, NextType, NextHistory, <1>1, <1>2, PTL DEF Spec

-----------------------------------------------------------------------------
(* The save *)

LEMMA DefaultIsSound == Sound(Default)
BY Contents, ConfigAssumption, TagAssumption DEF Sound, OncePerName

LEMMA BothParts ==
  ASSUME NEW b, Sound(b), NEW e
  PROVE  Over(Rest, b, Over(FirstPage, b, e)) = b
BY ConfigAssumption DEF Sound, IsWhole, Over, Rest

LEMMA StillSound ==
  ASSUME NEW b, Sound(b), NEW s \in Sections, NEW v \in Names \cup {NoTag},
         s \in Slots /\ v \in Names => \A j \in Slots : b[j] # v
  PROVE  /\ Sound([b EXCEPT ![s] = v])
         /\ \A q \in Sections : [b EXCEPT ![s] = v][q] = IF q = s THEN v ELSE b[q]
         /\ b[s] = v => [b EXCEPT ![s] = v] = b
<1> DEFINE d == [b EXCEPT ![s] = v]
<1>1. /\ d = [q \in Sections |-> d[q]]
      /\ \A q \in Sections : d[q] = IF q = s THEN v ELSE b[q]
      /\ b = [q \in Sections |-> b[q]]
      BY DEF Sound, IsWhole
<1>2. b[s] = v => d = b
      BY <1>1
<1> HIDE DEF d
<1>3. IsWhole(d) /\ \A i \in Slots : d[i] \in Names \cup {NoTag}
      BY <1>1, Contents DEF Sound, IsWhole
<1>4. OncePerName(d)
  <2> SUFFICES ASSUME NEW i \in Slots, NEW j \in Slots, d[i] = d[j], d[i] \in Names
               PROVE  i = j
      BY DEF OncePerName
  <2> QED  BY <1>1, Contents DEF Sound, OncePerName
<1> QED  BY <1>1, <1>2, <1>3, <1>4 DEF d, Sound

LEMMA ErasedLoads == ErasedImage.version = FALSE /\ Loaded(ErasedImage) = Default
BY DEF ErasedImage, Loaded

LEMMA ImageLoads ==
  ASSUME NEW b
  PROVE  Image(b).version = TRUE /\ Image(b).body = b /\ Loaded(Image(b)) = b
BY DEF Image, Loaded

\* What a step of a save does to its own place and the others'.
LEMMA Moves ==
  ASSUME TypeInv, NEW t \in Tasks, NEW from, NEW to, Goto(t, from, to)
  PROVE  /\ pc[t] = from /\ pc'[t] = to
         /\ \A u \in Tasks \ {t} : pc'[u] = pc[u]
BY DEF Goto, TypeInv, ConfigTypeOK

\* Which steps leave the store alone, change it, save it or restart it.
LEMMA StoreSteps ==
  ASSUME TypeInv, HandsInv, Next
  PROVE  \/ UNCHANGED <<cfg, changed, buf, flash, pc, history>>
         \/ \E t \in Tasks :
              /\ Changes(t) /\ pc[t] = "idle" /\ ~Busy
              /\ UNCHANGED <<buf, flash, pc>>
              /\ \E s \in Sections, v \in Names \cup {NoTag} :
                   /\ s \in Slots /\ v \in Names => \A j \in Slots : cfg[j] # v
                   /\ cfg' = [cfg EXCEPT ![s] = v]
                   /\ changed' \in BOOLEAN
                   /\ ~changed' => ~changed /\ cfg[s] = v
         \/ \E t \in Tasks : SaveBegin(t) /\ Begins(t)
         \/ \E t \in Tasks : SaveGoesOn(t) /\ UNCHANGED history
         \/ \E t \in Tasks : SaveReturn(t) /\ Ends
         \/ Restart
<1>1. ASSUME NEW n \in Names, NEW p \in Persist, CreateTag(n, p) \/ DeleteTag(n, p)
      PROVE  UNCHANGED <<cfg, changed, buf, flash, pc, history>>
      BY <1>1 DEF CreateTag, DeleteTag, configVars
<1>2. CASE AddFails \/ RemoveFails
      BY <1>2 DEF AddFails, RemoveFails, configVars
<1>3. CASE AddDefinition
  <2>1. /\ Changes(Web) /\ pc[Web] = "idle" /\ ~Busy /\ changed' = TRUE
        /\ UNCHANGED <<buf, flash, pc>>
        BY <1>3 DEF AddDefinition, HandsInv
  <2>2. \E s \in Slots : /\ cfg' = [cfg EXCEPT ![s] = op.name]
                         /\ \A j \in Slots : cfg[j] # op.name
        BY <1>3 DEF AddDefinition, FreeSlots
  <2>3. op.name \in Names \cup {NoTag}
        BY DEF TypeInv, Ops
  <2> QED  BY <2>1, <2>2, <2>3, Contents
<1>4. CASE RemoveDefinition
  <2>1. /\ Changes(Web) /\ pc[Web] = "idle" /\ ~Busy /\ changed' = TRUE
        /\ UNCHANGED <<buf, flash, pc>>
        BY <1>4 DEF RemoveDefinition, HandsInv
  <2>2. \E s \in Slots : cfg' = [cfg EXCEPT ![s] = NoTag]
        BY <1>4 DEF RemoveDefinition
  <2> QED  BY <2>1, <2>2, Contents
<1>5. CASE SaveTags
      BY <1>5, Contents DEF SaveTags, configVars
<1>6. ASSUME NEW t \in Tasks, Configure(t)
      PROVE  /\ Changes(t) /\ pc[t] = "idle" /\ ~Busy
             /\ UNCHANGED <<buf, flash, pc>>
             /\ \E s \in Sections, v \in Names \cup {NoTag} :
                  /\ s \in Slots /\ v \in Names => \A j \in Slots : cfg[j] # v
                  /\ cfg' = [cfg EXCEPT ![s] = v]
                  /\ changed' \in BOOLEAN
                  /\ ~changed' => ~changed /\ cfg[s] = v
  <2>1. PICK s \in Sections \ Slots, v \in Names \cup {NoTag} : SetSection(t, s, v)
        BY <1>6 DEF Configure
  <2>2. changed' = (changed \/ s \in Uncompared \/ cfg[s] # v)
        BY <2>1 DEF SetSection
  <2>3. Changes(t) /\ pc[t] = "idle" /\ ~Busy /\ UNCHANGED <<buf, flash, pc>>
        /\ cfg' = [cfg EXCEPT ![s] = v]
        BY <1>6, <2>1 DEF Configure, SetSection
  <2> QED  BY <2>2, <2>3 DEF TypeInv, ConfigTypeOK
<1>7. ASSUME NEW t \in Tasks, SaveGoesOn(t)
      PROVE  UNCHANGED history
      BY <1>7 DEF SaveGoesOn
<1>8. ASSUME NEW t \in Tasks, SaveEnds(t)
      PROVE  SaveReturn(t) /\ Ends
      BY <1>8 DEF SaveEnds
<1>9. ASSUME NEW t \in Tasks, SaveConfig(t)
      PROVE  SaveBegin(t) /\ Begins(t)
      BY <1>9 DEF SaveConfig
<1> QED  BY <1>1, <1>2, <1>3, <1>4, <1>5, <1>6, <1>7, <1>8, <1>9 DEF Next

LEMMA InitStore == Init => StoreInv
<1> SUFFICES ASSUME Init
             PROVE  StoreInv
    OBVIOUS
<1>1. TypeInv /\ HistoryInv /\ HandsInv
      BY InitType DEF Init, HistoryInv, HandsInv, NoOp
<1>2. Quiet /\ cfg = Loaded(flash) /\ changed = ~flash.version
      BY DEF Init, ConfigInit, Quiet
<1>3. flash = ErasedImage => cfg = Default /\ changed
      BY <1>2, ErasedLoads
<1>4. \/ flash = ErasedImage
      \/ flash = Image(cfg) /\ flash.body = cfg /\ Sound(cfg)
  <2> SUFFICES ASSUME NEW b \in Configured, flash = [version |-> TRUE, body |-> b]
               PROVE  flash = Image(cfg) /\ flash.body = cfg /\ Sound(cfg)
      BY DEF Init, ConfigInit
  <2>1. cfg = b /\ OncePerName(cfg)
        BY DEF Init, ConfigInit, Loaded
  <2> QED  BY <2>1, ConfigAssumption, TagAssumption DEF Sound, Image
<1>5. Sound(cfg) /\ ImageInv
      BY <1>3, <1>4, DefaultIsSound DEF ImageInv
<1>6. BufInv
      BY <1>2 DEF BufInv, Quiet
<1> QED  BY <1>1, <1>5, <1>6 DEF StoreInv

LEMMA NextHands ==
  ASSUME TypeInv, HandsInv, [Next]_vars
  PROVE  HandsInv'
<1>1. CASE UNCHANGED vars
      BY <1>1 DEF vars, HandsInv
<1>2. ASSUME NEW n \in Names, NEW p \in Persist, CreateTag(n, p) \/ DeleteTag(n, p)
      PROVE  HandsInv'
  <2>1. op' = Todo("add", n, p) \/ op' = Todo("remove", n, p)
        BY <1>2 DEF CreateTag, DeleteTag
  <2>2. pc'[Web] = "idle"
        BY <1>2 DEF CreateTag, DeleteTag, WebReady, configVars
  <2> QED  BY <2>1, <2>2 DEF HandsInv, Todo, NoOp
<1>3. CASE AddDefinition \/ AddFails \/ RemoveDefinition \/ RemoveFails
  <2>1. pc' = pc /\ pc[Web] = "idle"
        BY <1>3 DEF AddDefinition, AddFails, RemoveDefinition, RemoveFails, configVars, HandsInv
  <2>2. op' = NoOp \/ op'.do = "save"
        BY <1>3 DEF AddDefinition, AddFails, RemoveDefinition, RemoveFails, TypeInv, Ops
  <2> QED  BY <2>1, <2>2 DEF HandsInv, NoOp
<1>4. CASE SaveTags
      BY <1>4 DEF SaveTags, HandsInv, NoOp, TypeInv, Ops
<1>5. ASSUME NEW t \in Tasks, SaveGoesOn(t)
      PROVE  HandsInv'
  <2>1. op' = op /\ pc[t] # "idle"
        BY <1>5 DEF SaveGoesOn, Goto, SaveFill, SaveCopy, SaveCopyRest, SaveErase, SaveFirstPage,
                    SaveRest
  <2>2. \A u \in Tasks \ {t} : pc'[u] = pc[u]
        BY <1>5 DEF SaveGoesOn, Goto, SaveFill, SaveCopy, SaveCopyRest, SaveErase, SaveFirstPage,
                    SaveRest, TypeInv, ConfigTypeOK
  <2> QED  BY <2>1, <2>2, Contents DEF HandsInv
<1>6. ASSUME NEW t \in Tasks, SaveEnds(t)
      PROVE  HandsInv'
  <2>1. pc'[t] = "idle" /\ \A u \in Tasks \ {t} : pc'[u] = pc[u]
        BY <1>6, Moves DEF SaveEnds, SaveReturn
  <2> QED  BY <1>6, <2>1, Contents DEF SaveEnds, HandsInv, NoOp
<1>7. ASSUME NEW t \in Tasks, Configure(t)
      PROVE  HandsInv'
      BY <1>7 DEF Configure, SetSection, HandsInv
<1>8. ASSUME NEW t \in Tasks, SaveConfig(t)
      PROVE  HandsInv'
  <2>1. \A u \in Tasks \ {t} : pc'[u] = pc[u]
        BY <1>8, Moves DEF SaveConfig, SaveBegin
  <2> QED  BY <1>8, <2>1, Contents DEF SaveConfig, Between, HandsInv, NoOp
<1>9. CASE Restart
      BY <1>9, Contents DEF Restart, Reboot, HandsInv, NoOp
<1> QED  BY <1>1, <1>2, <1>3, <1>4, <1>5, <1>6, <1>7, <1>8, <1>9 DEF Next

\* A save that begins alone, and its next steps.
LEMMA BufBegins ==
  ASSUME TypeInv, NEW t \in Tasks, SaveBegin(t), ~OthersSave(t)
  PROVE  BufInv'
<1>1. pc'[t] = "fill" /\ \A u \in Tasks \ {t} : pc'[u] = "idle"
      BY Moves DEF SaveBegin, OthersSave
<1>2. changed'
      BY DEF SaveBegin
<1> QED  BY <1>1, <1>2 DEF BufInv

LEMMA BufGoesOn ==
  ASSUME TypeInv, Sound(cfg), BufInv, NEW t \in Tasks, SaveGoesOn(t)
  PROVE  /\ BufInv' /\ cfg' = cfg /\ changed' = changed /\ changed
         /\ pc'[t] # "idle" /\ pc[t] # "idle"
         /\ \A u \in Tasks \ {t} : pc[u] = "idle" /\ pc'[u] = "idle"
<1>0. cfg' = cfg /\ changed' = changed
      BY DEF SaveGoesOn, SaveFill, SaveCopy, SaveCopyRest, SaveErase, SaveFirstPage, SaveRest
<1>1. \E from \in {"fill", "copy", "copy_rest", "request", "erased", "first_page"},
         to \in {"copy", "copy_rest", "request", "erased", "first_page", "written"} :
         Goto(t, from, to)
      BY DEF SaveGoesOn, SaveFill, SaveCopy, SaveCopyRest, SaveErase, SaveFirstPage, SaveRest
<1>2. pc'[t] # "idle" /\ pc[t] # "idle" /\ \A u \in Tasks \ {t} : pc'[u] = pc[u]
      BY <1>1, Moves
<1>3. \A u \in Tasks \ {t} : pc[u] = "idle" /\ pc'[u] = "idle"
      BY <1>2 DEF BufInv
<1>4. changed
      BY <1>2 DEF BufInv
<1>5. /\ pc'[t] = "copy" => buf' = ErasedImage
      /\ pc'[t] = "copy_rest" => buf' = Half(cfg)
      /\ pc'[t] \in {"request", "erased", "first_page"} => buf' = Image(cfg)
      /\ pc'[t] = "erased" => flash' = ErasedImage
      /\ pc'[t] = "first_page" => flash' = Half(cfg)
      /\ pc'[t] = "written" => flash' = Image(cfg)
  <2>1. CASE SaveFill(t)
        BY <2>1, Moves DEF SaveFill
  <2>2. CASE SaveCopy(t)
    <3>1. buf = ErasedImage /\ pc'[t] = "copy_rest"
          BY <2>2, Moves DEF SaveCopy, BufInv
    <3>2. buf' = Half(cfg)
          BY <2>2, <3>1 DEF SaveCopy, Half, Image
    <3> QED  BY <3>1, <3>2
  <2>3. CASE SaveCopyRest(t)
    <3>1. buf' = [version |-> buf.version, body |-> Over(Rest, cfg, buf.body)]
          BY <2>3 DEF SaveCopyRest, TypeInv, ConfigTypeOK, IsImage
    <3>2. buf = Half(cfg) /\ pc'[t] = "request"
          BY <2>3, Moves DEF SaveCopyRest, BufInv
    <3>3. buf' = Image(cfg)
          BY <3>1, <3>2, BothParts DEF Half, Image
    <3> QED  BY <3>2, <3>3
  <2>4. CASE SaveErase(t)
    <3>1. pc'[t] = "erased" /\ buf = Image(cfg)
          BY <2>4, Moves DEF SaveErase, BufInv
    <3> QED  BY <2>4, <3>1 DEF SaveErase
  <2>5. CASE SaveFirstPage(t)
    <3>1. flash = ErasedImage /\ buf = Image(cfg) /\ pc'[t] = "first_page"
          BY <2>5, Moves DEF SaveFirstPage, BufInv
    <3>2. flash' = Half(cfg) /\ buf' = buf
          BY <2>5, <3>1 DEF SaveFirstPage, Half, Image
    <3> QED  BY <3>1, <3>2
  <2>6. CASE SaveRest(t)
    <3>1. flash' = [version |-> flash.version, body |-> Over(Rest, buf.body, flash.body)]
          BY <2>6 DEF SaveRest, TypeInv, ConfigTypeOK, IsImage
    <3>2. flash = Half(cfg) /\ buf = Image(cfg) /\ pc'[t] = "written"
          BY <2>6, Moves DEF SaveRest, BufInv
    <3>3. flash' = Image(cfg)
          BY <3>1, <3>2, BothParts DEF Half, Image
    <3> QED  BY <3>2, <3>3
  <2> QED  BY <2>1, <2>2, <2>3, <2>4, <2>5, <2>6 DEF SaveGoesOn
<1>6. BufInv'
      BY <1>0, <1>2, <1>3, <1>4, <1>5 DEF BufInv
<1> QED  BY <1>0, <1>2, <1>3, <1>4, <1>6

\* A save that ends alone has written what is to be written.
LEMMA BufEnds ==
  ASSUME TypeInv, BufInv, NEW t \in Tasks, SaveReturn(t)
  PROVE  Quiet' /\ cfg' = cfg /\ flash' = flash /\ flash = Image(cfg)
<1>1. pc[t] = "written" /\ pc'[t] = "idle" /\ \A u \in Tasks \ {t} : pc'[u] = pc[u]
      BY Moves DEF SaveReturn
<1>2. \A u \in Tasks \ {t} : pc[u] = "idle"
      BY <1>1 DEF BufInv
<1> QED  BY <1>1, <1>2 DEF BufInv, Quiet, SaveReturn

LEMMA QuietBuf == Quiet => BufInv
BY DEF Quiet, BufInv

LEMMA WrittenImage ==
  Sound(cfg) /\ flash = Image(cfg) => ImageInv
BY ImageLoads DEF ImageInv

\* Sound(cfg), then the save under way, then the image in flash.
LEMMA NextStore == StoreInv /\ [Next]_vars => StoreInv'
<1> SUFFICES ASSUME StoreInv, [Next]_vars
             PROVE  StoreInv'
    OBVIOUS
<1> USE DEF StoreInv
<1>0. TypeInv' /\ HistoryInv' /\ HandsInv'
      BY NextType, NextHistory, NextHands
<1>q. (Quiet => BufInv)' /\ (Sound(cfg) /\ flash = Image(cfg) => ImageInv)'
      BY QuietBuf, WrittenImage, PTL
<1>1. CASE UNCHANGED <<cfg, changed, buf, flash, pc, history>>
  <2>1. (BufInv => BufInv') /\ (ImageInv => ImageInv')
        BY <1>1 DEF BufInv, ImageInv, NotBetweenPages, Quiet
  <2> QED  BY <1>0, <1>1, <2>1 DEF history
<1>2. ASSUME NEW t \in Tasks, Changes(t), pc[t] = "idle", ~Busy,
             UNCHANGED <<buf, flash, pc>>,
             NEW s \in Sections, NEW v \in Names \cup {NoTag},
             s \in Slots /\ v \in Names => \A j \in Slots : cfg[j] # v,
             cfg' = [cfg EXCEPT ![s] = v], changed' \in BOOLEAN,
             ~changed' => ~changed /\ cfg[s] = v
      PROVE  StoreInv'
  <2>1. damaged' = damaged /\ (saves' # "overlapped" => saves' = saves /\ ~OthersSave(t))
        BY <1>2 DEF Changes
  <2>2. ~damaged => Sound(cfg') /\ (cfg[s] = v => cfg' = cfg)
        BY <1>2, StillSound
  <2>3. ~OthersSave(t) => Quiet'
        BY <1>2 DEF OthersSave, Quiet
  <2>4. ~damaged /\ ImageInv => ImageInv'
        BY <1>2, <2>2 DEF ImageInv, NotBetweenPages, Quiet
  <2> QED  BY <1>0, <1>q, <2>1, <2>2, <2>3, <2>4
<1>3. ASSUME NEW t \in Tasks, SaveBegin(t), Begins(t)
      PROVE  StoreInv'
  <2>1. damaged' = damaged /\ (saves' # "overlapped" => ~OthersSave(t))
        /\ (saves' = "settled" => saves = "settled")
        BY <1>3 DEF Begins
  <2>2. cfg' = cfg /\ flash' = flash /\ changed' = changed
        BY <1>3 DEF SaveBegin
  <2>3. pc'[t] = "fill" /\ pc[t] = "idle" /\ \A u \in Tasks \ {t} : pc'[u] = pc[u]
        BY <1>3, Moves DEF SaveBegin
  <2>4. ImageInv => ImageInv'
        BY <2>2, <2>3 DEF ImageInv, NotBetweenPages, Quiet
  <2> QED  BY <1>0, <1>3, <2>1, <2>2, <2>4, BufBegins
<1>4. ASSUME NEW t \in Tasks, SaveGoesOn(t), UNCHANGED history
      PROVE  StoreInv'
  <2>1. cfg' = cfg /\ saves' = saves /\ damaged' = damaged
        BY <1>4 DEF history, SaveGoesOn, SaveFill, SaveCopy, SaveCopyRest, SaveErase,
                    SaveFirstPage, SaveRest
  <2>2. ~damaged /\ saves # "overlapped" => BufInv'
        BY <1>4, BufGoesOn
  <2>3. ASSUME ~damaged, saves = "settled"
        PROVE  ImageInv'
    <3>1. /\ pc'[t] # "idle" /\ pc[t] # "idle"
          /\ \A u \in Tasks \ {t} : pc[u] = "idle" /\ pc'[u] = "idle"
          BY <1>4, <2>3, BufGoesOn
    <3>2. ~Quiet'
          BY <3>1 DEF Quiet
    <3>3. CASE pc'[t] = "first_page"
          BY <3>2, <3>3 DEF ImageInv, NotBetweenPages
    <3>4. CASE pc'[t] = "erased"
          BY <2>2, <2>3, <3>2, <3>4 DEF ImageInv, BufInv
    <3>5. CASE pc'[t] = "written"
          BY <1>q, <2>1, <2>2, <2>3, <3>5 DEF BufInv
    <3>6. CASE pc'[t] \notin {"erased", "first_page", "written"}
      <4>1. flash' = flash /\ pc[t] # "first_page"
            BY <1>4, <3>6, Moves DEF SaveGoesOn, SaveFill, SaveCopy, SaveCopyRest, SaveErase,
                                     SaveFirstPage, SaveRest
      <4> QED  BY <2>3, <3>1, <3>2, <4>1 DEF ImageInv, NotBetweenPages
    <3> QED  BY <3>3, <3>4, <3>5, <3>6
  <2> QED  BY <1>0, <2>1, <2>2, <2>3
<1>5. ASSUME NEW t \in Tasks, SaveReturn(t), Ends
      PROVE  StoreInv'
  <2>1. damaged' = damaged /\ (saves' # "overlapped" => saves # "overlapped") /\ cfg' = cfg
        /\ (saves' = "settled" => saves' # "overlapped")
        BY <1>5 DEF Ends, SaveReturn
  <2>2. ~damaged /\ saves # "overlapped" => Quiet' /\ flash' = Image(cfg')
        BY <1>5, BufEnds
  <2> QED  BY <1>0, <1>q, <2>1, <2>2
<1>6. CASE Restart
  <2>1. /\ cfg' = Loaded(flash) /\ changed' = ~flash.version /\ flash' = flash /\ Quiet'
        /\ damaged' = (damaged \/ saves # "settled" \/ ~NotBetweenPages)
        BY <1>6 DEF Restart, Reboot, Interrupts, Quiet, NotBetweenPages
  <2>2. ASSUME ~damaged'
        PROVE  Sound(cfg') /\ ImageInv'
    <3>1. flash = ErasedImage \/ (flash = Image(flash.body) /\ Sound(flash.body))
          BY <2>1, <2>2 DEF ImageInv
    <3>2. CASE flash = ErasedImage
          BY <2>1, <3>2, ErasedLoads, DefaultIsSound DEF ImageInv
    <3>3. CASE flash = Image(flash.body) /\ Sound(flash.body)
          BY <1>q, <2>1, <3>3, ImageLoads
    <3> QED  BY <3>1, <3>2, <3>3
  <2> QED  BY <1>0, <1>q, <2>1, <2>2
<1>7. CASE Next
      BY <1>1, <1>2, <1>3, <1>4, <1>5, <1>6, <1>7, StoreSteps
<1> QED  BY <1>1, <1>7 DEF vars

THEOREM StoreInvariant == Spec => []StoreInv
BY InitStore, NextStore, PTL DEF Spec

(***************************************************************************)
(* A configuration that differs from the flash is marked as changed as     *)
(* long as no change or save came in the middle of another save, however   *)
(* the restarts fall, and again once a save has run alone.                 *)
(***************************************************************************)
THEOREM UnsavedAreMarked == Spec => []UnsavedIsMarkedAlone
<1>1. StoreInv => UnsavedIsMarkedAlone
      BY DEF StoreInv, ImageInv, UnsavedIsMarkedAlone, UnsavedIsMarked, Undisturbed, Image
<1> QED  BY StoreInvariant, <1>1, PTL

(***************************************************************************)
(* config_load_from_flash accepts erased bytes only after a restart that   *)
(* met a power failure between two pages or an overlap of saves that no    *)
(* later save repaired.                                                    *)
(***************************************************************************)
THEOREM LoadsAreWhole == Spec => []LoadsWholeUndamaged
<1>1. StoreInv => LoadsWholeUndamaged
      BY Contents DEF StoreInv, Sound, IsWhole, LoadsWholeUndamaged, LoadsWholeConfig
<1> QED  BY StoreInvariant, <1>1, PTL

(***************************************************************************)
(* config_save_to_flash returns true with a whole image in flash unless    *)
(* another task changed or saved the configuration meanwhile.              *)
(***************************************************************************)
THEOREM SavesAreWhole == Spec => []SavedIsWholeAlone
<1>1. StoreInv => SavedIsWholeAlone
  <2> SUFFICES ASSUME StoreInv, Undisturbed, NEW t \in Tasks, pc[t] = "written"
               PROVE  Whole(flash)
      BY DEF SavedIsWholeAlone, SavedIsWhole
  <2>1. flash = Image(cfg) /\ Sound(cfg)
        BY DEF StoreInv, BufInv, Undisturbed
  <2>2. flash.version = TRUE /\ flash.body = cfg
        BY <2>1, ImageLoads
  <2> QED  BY <2>1, <2>2, Contents DEF Whole, Sound, IsWhole
<1> QED  BY StoreInvariant, <1>1, PTL

-----------------------------------------------------------------------------
(* The calls that create and delete tags *)

LEMMA OpValues ==
  ASSUME TypeInv
  PROVE  /\ op.do \in {"nothing", "add", "remove", "save", "saving"}
         /\ op.name \in Names \cup {NoTag}
         /\ op = [do |-> op.do, name |-> op.name]
BY DEF TypeInv, Ops

LEMMA EmptyHands == NoOp.do = "nothing"
BY DEF NoOp

\* After a start the table, the slots and the flash are the same.
LEMMA Fresh ==
  /\ Sound(cfg) /\ cfg = Loaded(flash)
  /\ tags = TagsLoaded(cfg) /\ hwm = Persistent /\ op = NoOp
  => CallInv /\ FlashInv
<1> SUFFICES ASSUME Sound(cfg), cfg = Loaded(flash),
                    tags = TagsLoaded(cfg), hwm = Persistent, op = NoOp
             PROVE  CallInv /\ FlashInv
    OBVIOUS
<1>1. \A i \in Slots : i \in Handles /\ tags[i] = cfg[i]
      BY Contents DEF TagsLoaded, Sound
<1>2. \A h \in Handles : tags[h] \in Names => h \in Slots
      BY Contents DEF TagsLoaded
<1>3. UniqueTags /\ InSlots
      BY <1>1, <1>2 DEF UniqueTags, InSlots, Sound, OncePerName
<1>4. InFlash /\ Agrees
      BY <1>1, <1>2, <1>3 DEF InFlash, Agrees, UniqueTags
<1> QED  BY <1>3, <1>4, Contents, EmptyHands DEF CallInv, FlashInv

\* Before its definition is written, a new tag is not in the slots, and a
\* deleted one is nowhere else: what is in the slots is where the table has it.
LEMMA SlotsAgree ==
  TypeInv /\ Sound(cfg) /\ CallInv /\ InFlash => Agrees \/ op.do \in {"save", "saving"}
<1> SUFFICES ASSUME TypeInv, Sound(cfg), CallInv, InFlash, op.do \notin {"save", "saving"},
                    NEW g \in Handles, NEW i \in Slots,
                    tags[g] \in Names, cfg[i] = tags[g]
             PROVE  g = i
    BY DEF InFlash, Agrees
<1>1. cfg[i] = tags[i]
  <2>1. CASE op.do = "nothing"
        BY <2>1 DEF CallInv, InSlots
  <2>2. CASE op.do = "add"
    <3>1. PICK h \in Handles : /\ \A j \in Slots : j # h => cfg[j] = tags[j]
                               /\ h \in Slots => Lowest(h, FreeSlots)
          BY <2>2 DEF CallInv, Adding
    <3>2. i # h
          BY <3>1, Contents DEF Lowest, FreeSlots
    <3> QED  BY <3>1, <3>2
  <2>3. CASE op.do = "remove"
        BY <2>3 DEF CallInv, Removing
  <2> QED  BY <2>1, <2>2, <2>3, OpValues
<1> QED  BY <1>1, Contents DEF CallInv, UniqueTags

LEMMA CreateCalls ==
  ASSUME TypeInv, HandsInv, Sound(cfg), CallInv, NEW n \in Names, CreateTag(n, TRUE)
  PROVE  CallInv'
<1>0. /\ op = NoOp /\ InSlots
      /\ op'.do = "add" /\ op'.name = n
      /\ cfg' = cfg
      BY EmptyHands DEF CreateTag, WebReady, Todo, CallInv, configVars
<1>1. PICK h \in Handles : /\ \/ Lowest(h, Vacant) /\ hwm' = hwm
                              \/ Vacant = {} /\ h = hwm /\ hwm' = hwm + 1
                           /\ tags' = [tags EXCEPT ![h] = n]
      BY DEF CreateTag
<1>2. \A g \in Handles : tags'[g] = IF g = h THEN n ELSE tags[g]
      BY <1>1 DEF TypeInv
<1>3. \A g \in Handles : tags[g] # n
      BY DEF CreateTag
<1>4. UniqueTags'
      BY <1>2, <1>3 DEF UniqueTags, CallInv
<1>5. hwm \in Nat /\ Persistent <= hwm /\ Persistent <= hwm'
      BY <1>1, Contents DEF CallInv, TypeInv
<1>6. \A i \in Slots : i \in Handles /\ i \in Nat /\ i < hwm /\ (i \in FreeSlots <=> i \in Vacant)
      BY <1>0, <1>5, Contents DEF Slots, FreeSlots, Vacant, InSlots
<1>7. h \in Slots => Lowest(h, FreeSlots)
  <2> SUFFICES ASSUME h \in Slots
               PROVE  Lowest(h, FreeSlots)
      OBVIOUS
  <2>1. Lowest(h, Vacant)
        BY <1>1, <1>6, Contents
  <2> QED  BY <2>1, <1>6 DEF Lowest, FreeSlots
<1>8. h \notin Slots => FreeSlots = {}
  <2> SUFFICES ASSUME h \notin Slots, NEW i \in FreeSlots
               PROVE  FALSE
      OBVIOUS
  <2>1. i \in Slots /\ i \in Vacant
        BY <1>6 DEF FreeSlots
  <2>2. h <= i
        BY <1>1, <2>1 DEF Lowest
  <2> QED  BY <2>1, <2>2, Contents DEF Slots, Handles
<1>9. Adding'
  <2>1. \A i \in Slots : i # h => cfg'[i] = tags'[i]
        BY <1>0, <1>2, Contents DEF InSlots
  <2>2. FreeSlots' = FreeSlots
        BY <1>0 DEF FreeSlots
  <2>3. (h \in Slots => Lowest(h, FreeSlots')) /\ (h \notin Slots => FreeSlots' = {})
        BY <2>2, <1>7, <1>8
  <2> QED  BY <1>0, <1>2, <2>1, <2>3 DEF Adding, Lowest
<1> QED  BY <1>0, <1>4, <1>5, <1>9 DEF CallInv

LEMMA DeleteCalls ==
  ASSUME TypeInv, HandsInv, Sound(cfg), CallInv, NEW n \in Names, DeleteTag(n, TRUE)
  PROVE  CallInv'
<1>0. /\ op = NoOp /\ InSlots
      /\ op'.do = "remove" /\ op'.name = n
      /\ cfg' = cfg /\ hwm' = hwm
      BY EmptyHands DEF DeleteTag, WebReady, Todo, CallInv, configVars
<1>1. PICK h \in Handles : tags[h] = n /\ tags' = [tags EXCEPT ![h] = NoTag]
      BY DEF DeleteTag, Lowest
<1>2. \A g \in Handles : tags'[g] = IF g = h THEN NoTag ELSE tags[g]
      BY <1>1 DEF TypeInv
<1>3. UniqueTags'
      BY <1>2, Contents DEF UniqueTags, CallInv
<1>4. Removing'
  <2>1. \A g \in Handles : tags'[g] # n
        BY <1>1, <1>2, Contents DEF UniqueTags, CallInv
  <2>2. ASSUME NEW i \in Slots
        PROVE  cfg'[i] = tags'[i] \/ (cfg'[i] = n /\ tags'[i] = NoTag)
    <3>1. i \in Handles /\ cfg[i] = tags[i]
          BY <1>0, Contents DEF InSlots
    <3> QED  BY <1>0, <1>1, <1>2, <3>1
  <2> QED  BY <1>0, <2>1, <2>2 DEF Removing
<1> QED  BY <1>0, <1>3, <1>4 DEF CallInv

\* The definition goes to the slot of the tag, or nowhere.
LEMMA AddCalls ==
  ASSUME TypeInv, HandsInv, Sound(cfg), CallInv, AddDefinition
  PROVE  CallInv'
<1>0. /\ op.do = "add" /\ Adding
      /\ op'.do = "save" /\ tags' = tags /\ hwm' = hwm
      BY OpValues DEF AddDefinition, CallInv
<1>1. PICK i \in FreeSlots : /\ \A j \in Slots : cfg[j] # op.name
                             /\ Lowest(i, FreeSlots)
                             /\ cfg' = [cfg EXCEPT ![i] = op.name]
      BY DEF AddDefinition
<1>2. PICK h \in Handles : /\ tags[h] = op.name
                           /\ \A j \in Slots : j # h => cfg[j] = tags[j]
                           /\ h \in Slots => Lowest(h, FreeSlots)
                           /\ h \notin Slots => FreeSlots = {}
      BY <1>0 DEF Adding
<1>3. h = i /\ i \in Slots
  <2>1. i \in Slots /\ i \in Nat
        BY Contents DEF FreeSlots
  <2>2. h \in Slots /\ Lowest(h, FreeSlots) /\ h \in Nat
        BY <1>2, Contents
  <2>3. h <= i /\ i <= h
        BY <1>1, <2>2 DEF Lowest
  <2> QED  BY <2>1, <2>2, <2>3
<1>4. \A j \in Slots : cfg'[j] = IF j = i THEN op.name ELSE cfg[j]
      BY <1>1, <1>3, Contents DEF Sound, IsWhole
<1>5. InSlots'
      BY <1>0, <1>2, <1>3, <1>4 DEF InSlots
<1>6. UniqueTags'
      BY <1>0 DEF UniqueTags, CallInv
<1> QED  BY <1>0, <1>5, <1>6 DEF CallInv

LEMMA RemoveCalls ==
  ASSUME TypeInv, HandsInv, Sound(cfg), CallInv, RemoveDefinition
  PROVE  CallInv'
<1>0. /\ op.do = "remove" /\ Removing
      /\ op'.do = "save" /\ tags' = tags /\ hwm' = hwm
      BY OpValues DEF RemoveDefinition, CallInv
<1>1. PICK i \in Slots : /\ cfg[i] = op.name
                         /\ cfg' = [cfg EXCEPT ![i] = NoTag]
      BY DEF RemoveDefinition, Lowest
<1>2. \A j \in Slots : cfg'[j] = IF j = i THEN NoTag ELSE cfg[j]
      BY <1>1, Contents DEF Sound, IsWhole
<1>3. tags[i] = NoTag
      BY <1>0, <1>1, Contents DEF Removing
<1>4. \A j \in Slots : j # i => cfg[j] # op.name
      BY <1>0, <1>1 DEF Removing, Sound, OncePerName
<1>5. InSlots'
      BY <1>0, <1>2, <1>3, <1>4 DEF InSlots, Removing
<1>6. UniqueTags'
      BY <1>0 DEF UniqueTags, CallInv
<1> QED  BY <1>0, <1>5, <1>6 DEF CallInv

LEMMA FailCalls ==
  ASSUME TypeInv, HandsInv, Sound(cfg), CallInv, AddFails \/ RemoveFails
  PROVE  CallInv'
<1>0. /\ op' = NoOp /\ cfg' = cfg
      /\ tags' = tags /\ hwm' = hwm
      BY DEF AddFails, RemoveFails, configVars
<1>1. InSlots
  <2>1. CASE AddFails
    <3>1. PICK h \in Handles : /\ tags[h] = op.name
                               /\ \A j \in Slots : j # h => cfg[j] = tags[j]
                               /\ h \in Slots => Lowest(h, FreeSlots)
                               /\ h \notin Slots => FreeSlots = {}
          BY <2>1 DEF AddFails, CallInv, Adding
    <3>2. op.name \in Names /\ UniqueTags
          BY <2>1 DEF AddFails, CallInv, Adding
    <3>3. \A j \in Slots : cfg[j] # op.name
          BY <3>1, <3>2, Contents DEF UniqueTags, Lowest, FreeSlots
    <3>4. FreeSlots = {}
          BY <2>1, <3>3 DEF AddFails
    <3> QED  BY <3>1, <3>4 DEF Lowest, InSlots
  <2>2. CASE RemoveFails
        BY <2>2 DEF RemoveFails, CallInv, Removing, InSlots
  <2> QED  BY <2>1, <2>2
<1>2. InSlots' /\ UniqueTags'
      BY <1>0, <1>1 DEF InSlots, UniqueTags, CallInv
<1> QED  BY <1>0, <1>2, EmptyHands DEF CallInv

\* Saves and other sections leave the slots alone.
LEMMA OtherCalls ==
  ASSUME TypeInv, HandsInv, Sound(cfg), CallInv, NEW t \in Tasks,
         SaveTags \/ SaveGoesOn(t) \/ SaveEnds(t) \/ SaveConfig(t) \/ Configure(t)
  PROVE  /\ CallInv' /\ tags' = tags /\ \A i \in Slots : cfg'[i] = cfg[i]
         /\ op' = op \/ (op.do \in {"save", "saving"} /\ op'.do \in {"nothing", "saving"})
<1>0. tags' = tags /\ hwm' = hwm
      BY DEF SaveTags, SaveGoesOn, SaveEnds, SaveConfig, Configure
<1>1. \A i \in Slots : cfg'[i] = cfg[i]
  <2>1. CASE Configure(t)
    <3>1. PICK s \in Sections \ Slots, v \in Names \cup {NoTag} : SetSection(t, s, v)
          BY <2>1 DEF Configure
    <3> QED  BY <3>1, Contents DEF SetSection, Sound, IsWhole
  <2>2. CASE cfg' = cfg
        BY <2>2
  <2> QED  BY <2>1, <2>2 DEF SaveTags, SaveGoesOn, SaveEnds, SaveConfig, configVars, SaveBegin,
              SaveFill, SaveCopy, SaveCopyRest, SaveErase, SaveFirstPage, SaveRest, SaveReturn
<1>2. op' = op \/ (op.do \in {"save", "saving"} /\ op'.do \in {"nothing", "saving"})
  <2>1. CASE SaveTags
        BY <2>1, OpValues, EmptyHands DEF SaveTags
  <2>2. CASE SaveGoesOn(t) \/ SaveConfig(t) \/ Configure(t)
        BY <2>2 DEF SaveGoesOn, SaveConfig, Configure
  <2>3. CASE SaveEnds(t)
    <3>1. pc[t] = "written" /\ op' = IF t = Web THEN NoOp ELSE op
          BY <2>3 DEF SaveEnds, SaveReturn, Goto
    <3>2. t = Web => op.do = "nothing" \/ op.do = "saving"
          BY <3>1, OpValues DEF HandsInv
    <3> QED  BY <3>1, <3>2, EmptyHands DEF HandsInv
  <2> QED  BY <2>1, <2>2, <2>3
<1>3. CallInv'
  <2>1. UniqueTags' /\ FreeSlots' = FreeSlots
        BY <1>0, <1>1 DEF UniqueTags, FreeSlots, CallInv
  <2>2. (InSlots => InSlots') /\ (op' = op => (Adding => Adding') /\ (Removing => Removing'))
        BY <1>0, <1>1, <2>1 DEF InSlots, Adding, Removing, Lowest
  <2> QED  BY <1>0, <1>2, <2>1, <2>2 DEF CallInv
<1> QED  BY <1>0, <1>1, <1>2, <1>3

-----------------------------------------------------------------------------
(* The flash *)

\* An image of the configuration shows the slots as they are.
LEMMA WrittenFlash ==
  TypeInv /\ Sound(cfg) /\ CallInv /\ flash = Image(cfg) => FlashInv
<1> SUFFICES ASSUME TypeInv, Sound(cfg), CallInv, flash = Image(cfg)
             PROVE  FlashInv
    OBVIOUS
<1>1. InFlash
      BY ImageLoads DEF InFlash
<1>2. Agrees
  <2>1. CASE op.do \in {"save", "saving"}
        BY <1>1, <2>1, Contents DEF CallInv, InFlash, Agrees, UniqueTags, InSlots
  <2> QED  BY <1>1, <2>1, SlotsAgree
<1> QED  BY <1>1, <1>2 DEF FlashInv

\* In erased flash there are no tags.
LEMMA ErasedAgrees == flash = ErasedImage => Agrees
BY ErasedLoads, TagAssumption, Contents DEF Agrees

LEMMA BusyPlaces ==
  ASSUME TypeInv, NEW t \in Tasks, \A u \in Tasks \ {t} : pc[u] = "idle"
  PROVE  /\ Busy <=> pc[t] \in {"erased", "first_page"}
         /\ NotBetweenPages <=> pc[t] # "first_page"
BY DEF Busy, NotBetweenPages

LEMMA InitPersistence == Init => PersistenceInv
<1> SUFFICES ASSUME Init
             PROVE  PersistenceInv
    OBVIOUS
<1>1. StoreInv /\ Sound(cfg) /\ cfg = Loaded(flash)
      BY InitStore DEF StoreInv, Init, ConfigInit
<1> QED  BY <1>1, Fresh DEF Init, PersistenceInv

LEMMA NextCalls ==
  ASSUME AllPersist, PersistenceInv, Next, ~damaged'
  PROVE  CallInv'
<1> USE DEF PersistenceInv, StoreInv
<1>0. Restart \/ ~damaged
      BY DEF Next, CreateTag, DeleteTag, AddDefinition, AddFails, RemoveDefinition, RemoveFails,
         SaveTags, SaveGoesOn, SaveEnds, Configure, SaveConfig, history, Changes, Begins, Ends
<1>1. CASE Restart
  <2>1. /\ cfg' = Loaded(flash') /\ tags' = TagsLoaded(cfg') /\ hwm' = Persistent /\ op' = NoOp
        BY <1>1 DEF Restart, Reboot
  <2>2. Sound(cfg')
        BY NextStore
  <2>3. (/\ Sound(cfg) /\ cfg = Loaded(flash)
         /\ tags = TagsLoaded(cfg) /\ hwm = Persistent /\ op = NoOp
         => CallInv /\ FlashInv)'
        BY Fresh, PTL
  <2> QED  BY <2>1, <2>2, <2>3
<1>2. ASSUME ~damaged, NEW n \in Names, NEW p \in Persist, CreateTag(n, p) \/ DeleteTag(n, p)
      PROVE  CallInv'
  <2>1. p = TRUE
        BY DEF AllPersist
  <2> QED  BY <1>2, <2>1, CreateCalls, DeleteCalls
<1>3. CASE ~damaged /\ (AddDefinition \/ AddFails \/ RemoveDefinition \/ RemoveFails)
      BY <1>3, AddCalls, RemoveCalls, FailCalls
<1>4. ASSUME ~damaged, NEW t \in Tasks,
             SaveTags \/ SaveGoesOn(t) \/ SaveEnds(t) \/ SaveConfig(t) \/ Configure(t)
      PROVE  CallInv'
      BY <1>4, OtherCalls
<1> QED  BY <1>0, <1>1, <1>2, <1>3, <1>4, Contents DEF Next

LEMMA NextFlash ==
  ASSUME AllPersist, PersistenceInv, Next, StoreInv', CallInv', ~damaged', saves' = "settled"
  PROVE  FlashInv'
<1> USE DEF PersistenceInv, StoreInv
<1>w. (TypeInv /\ Sound(cfg) /\ CallInv /\ flash = Image(cfg) => FlashInv)'
      BY WrittenFlash, PTL
<1>a. (TypeInv /\ Sound(cfg) /\ CallInv /\ InFlash => Agrees \/ op.do \in {"save", "saving"})'
      BY SlotsAgree, PTL
<1>b. ~Busy => NotBetweenPages
      BY DEF Busy, NotBetweenPages
<1>0. ~damaged /\ saves = "settled" => FlashInv /\ BufInv
      OBVIOUS
<1>1. ASSUME ~damaged, saves = "settled", NEW n \in Names, NEW p \in Persist,
             CreateTag(n, p) \/ DeleteTag(n, p)
      PROVE  FlashInv'
  <2>0. p
        BY DEF AllPersist
  <2>1. /\ ~Busy /\ op = NoOp /\ op'.do \in {"add", "remove"}
        /\ cfg' = cfg /\ flash' = flash
        BY <1>1, <2>0 DEF CreateTag, DeleteTag, WebReady, Todo, configVars
  <2>2. InFlash'
        BY <1>0, <1>1, <2>1, EmptyHands DEF FlashInv, InFlash
  <2> QED  BY <1>a, <2>1, <2>2 DEF FlashInv
<1>2. CASE ~damaged /\ saves = "settled" /\ (AddFails \/ RemoveFails)
  <2>1. /\ ~Busy /\ op.do \in {"add", "remove"} /\ op' = NoOp
        /\ cfg' = cfg /\ flash' = flash
        BY <1>2 DEF AddFails, RemoveFails, configVars
  <2>2. InFlash'
        BY <1>0, <1>2, <2>1 DEF FlashInv, InFlash
  <2> QED  BY <1>a, <2>1, <2>2, EmptyHands DEF FlashInv
<1>3. CASE ~damaged /\ saves = "settled" /\ (AddDefinition \/ RemoveDefinition)
  <2>1. ~Busy /\ flash' = flash /\ tags' = tags
        BY <1>3 DEF AddDefinition, RemoveDefinition
  <2>2. op'.do = "save"
        BY <1>3, OpValues DEF AddDefinition, RemoveDefinition
  <2>3. Agrees'
        BY <1>0, <1>3, <1>b, <2>1 DEF FlashInv, Agrees
  <2> QED  BY <2>2, <2>3 DEF FlashInv
<1>4. CASE ~damaged /\ saves = "settled" /\ SaveTags
  <2>1. ~Busy /\ op.do = "save" /\ flash' = flash /\ tags' = tags /\ cfg' = cfg
        BY <1>4 DEF SaveTags, SaveBegin, configVars
  <2>2. CASE changed
    <3>1. op'.do = "saving"
          BY <1>4, <2>2, OpValues DEF SaveTags
    <3>2. Agrees'
          BY <1>0, <1>4, <1>b, <2>1 DEF FlashInv, Agrees
    <3> QED  BY <3>1, <3>2 DEF FlashInv
  <2>3. CASE ~changed
    <3>1. Quiet
          BY <1>0, <1>4, <2>3 DEF BufInv, Quiet
    <3>2. flash = Image(cfg)
          BY <1>4, <2>3, <3>1 DEF ImageInv
    <3> QED  BY <1>w, <2>1, <3>2
  <2> QED  BY <2>2, <2>3
<1>5. ASSUME ~damaged, saves = "settled", NEW t \in Tasks, Configure(t) \/ SaveConfig(t)
      PROVE  FlashInv'
  <2>1. ~Busy /\ flash' = flash /\ op' = op
        BY <1>5 DEF Configure, SaveConfig, SetSection, SaveBegin
  <2>2. tags' = tags /\ \A i \in Slots : cfg'[i] = cfg[i]
        BY <1>5, OtherCalls
  <2> QED  BY <1>0, <1>5, <1>b, <2>1, <2>2 DEF FlashInv, InFlash, Agrees
<1>6. ASSUME ~damaged, saves = "settled", NEW t \in Tasks, SaveGoesOn(t)
      PROVE  FlashInv'
  <2>1. /\ BufInv' /\ cfg' = cfg
        /\ \A u \in Tasks \ {t} : pc[u] = "idle" /\ pc'[u] = "idle"
        BY <1>0, <1>6, BufGoesOn
  <2>2. tags' = tags /\ op' = op
        BY <1>6 DEF SaveGoesOn
  <2>3. (Busy' <=> pc'[t] \in {"erased", "first_page"})
        /\ (NotBetweenPages' <=> pc'[t] # "first_page")
        BY <2>1 DEF Busy, NotBetweenPages
  <2>4. CASE SaveFill(t) \/ SaveCopy(t) \/ SaveCopyRest(t)
    <3>1. ~Busy /\ flash' = flash
          BY <2>4 DEF SaveFill, SaveCopy, SaveCopyRest
    <3> QED  BY <1>0, <1>6, <1>b, <2>1, <2>2, <3>1 DEF FlashInv, InFlash, Agrees
  <2>5. CASE SaveErase(t)
    <3>1. pc'[t] = "erased" /\ flash' = ErasedImage
          BY <2>5, Moves DEF SaveErase
    <3>2. (flash = ErasedImage => Agrees)'
          BY ErasedAgrees, PTL
    <3> QED  BY <2>3, <3>1, <3>2 DEF FlashInv
  <2>6. CASE SaveFirstPage(t)
    <3>1. pc'[t] = "first_page"
          BY <2>6, Moves DEF SaveFirstPage
    <3> QED  BY <2>3, <3>1 DEF FlashInv
  <2>7. CASE SaveRest(t)
    <3>1. pc'[t] = "written"
          BY <2>7, Moves DEF SaveRest
    <3> QED  BY <1>w, <2>1, <3>1 DEF BufInv
  <2> QED  BY <1>6, <2>4, <2>5, <2>6, <2>7 DEF SaveGoesOn
<1>7. ASSUME ~damaged, saves # "overlapped", NEW t \in Tasks, SaveEnds(t)
      PROVE  FlashInv'
  <2>1. cfg' = cfg /\ flash' = flash /\ flash = Image(cfg)
        BY <1>7, BufEnds DEF SaveEnds
  <2> QED  BY <1>w, <2>1
<1>8. CASE Restart
  <2>1. /\ cfg' = Loaded(flash') /\ tags' = TagsLoaded(cfg') /\ hwm' = Persistent /\ op' = NoOp
        BY <1>8 DEF Restart, Reboot
  <2>2. (/\ Sound(cfg) /\ cfg = Loaded(flash)
         /\ tags = TagsLoaded(cfg) /\ hwm = Persistent /\ op = NoOp
         => CallInv /\ FlashInv)'
        BY Fresh, PTL
  <2> QED  BY <2>1, <2>2
<1>9. \/ Restart
      \/ ~damaged /\ saves = "settled"
      \/ ~damaged /\ saves # "overlapped" /\ \E t \in Tasks : SaveEnds(t)
  <2>1. ASSUME ~Restart, \A t \in Tasks : ~SaveEnds(t)
        PROVE  UNCHANGED history \/ \E t \in Tasks : Changes(t) \/ Begins(t)
        BY <2>1, Contents DEF Next, CreateTag, DeleteTag, AddDefinition, AddFails,
           RemoveDefinition, RemoveFails, SaveTags, SaveGoesOn, Configure, SaveConfig
  <2>2. CASE UNCHANGED history
        BY <2>2 DEF history
  <2>3. ASSUME NEW t \in Tasks, Changes(t) \/ Begins(t)
        PROVE  ~damaged /\ saves = "settled"
        BY <2>3 DEF Changes, Begins
  <2>4. ASSUME NEW t \in Tasks, SaveEnds(t)
        PROVE  ~damaged /\ saves # "overlapped"
        BY <2>4 DEF SaveEnds, Ends
  <2> QED  BY <2>1, <2>2, <2>3, <2>4
<1> QED  BY <1>1, <1>2, <1>3, <1>4, <1>5, <1>6, <1>7, <1>8, <1>9 DEF Next

LEMMA NextPersistence == AllPersist /\ PersistenceInv /\ [Next]_vars => PersistenceInv'
<1> SUFFICES ASSUME AllPersist, PersistenceInv, [Next]_vars
             PROVE  PersistenceInv'
    OBVIOUS
<1>1. StoreInv'
      BY NextStore DEF PersistenceInv
<1>2. CASE UNCHANGED vars
  <2>1. (CallInv => CallInv') /\ (FlashInv => FlashInv')
        BY <1>2 DEF vars, CallInv, FlashInv, Busy, NotBetweenPages, UniqueTags, InSlots, Adding,
                    Removing, FreeSlots, InFlash, Agrees
  <2> QED  BY <1>1, <1>2, <2>1 DEF PersistenceInv, vars, history
<1>3. CASE Next
  <2>1. ~damaged' => CallInv'
        BY <1>3, NextCalls
  <2>2. ~damaged' /\ saves' = "settled" => FlashInv'
        BY <1>1, <1>3, <2>1, NextFlash
  <2> QED  BY <1>1, <2>1, <2>2 DEF PersistenceInv
<1> QED  BY <1>2, <1>3

-----------------------------------------------------------------------------
(* What follows for tags *)

LEMMA PersistenceInvariant == ASSUME AllPersist PROVE Spec => []PersistenceInv
<1>1. PersistenceInv /\ [Next]_vars => PersistenceInv'
      BY NextPersistence
<1> QED  BY InitPersistence, <1>1, PTL DEF Spec

(***************************************************************************)
(* With persistent tags only, the slot that config_add_tag_definition      *)
(* chooses from the configuration is the one that tag_db_create chose from *)
(* the table, and config_remove_tag_definition frees the one that          *)
(* tag_db_delete freed, whatever other tasks set and save meanwhile.       *)
(***************************************************************************)
THEOREM SlotsMirrorTable == ASSUME AllPersist PROVE Spec => []Mirrored
<1>1. PersistenceInv => Mirrored
      BY EmptyHands DEF PersistenceInv, CallInv, InSlots, Mirrored
<1> QED  BY PersistenceInvariant, <1>1, PTL

(***************************************************************************)
(* What tag_db_create_persistent and tag_db_delete_persistent report as    *)
(* done survives a restart when no change or save of another task came in  *)
(* the middle of a save; the save may have been another task's.            *)
(***************************************************************************)
THEOREM DoneSurvives == ASSUME AllPersist PROVE Spec => []DoneIsDurableAlone
<1>1. Quiet => ~Busy
      BY DEF Quiet, Busy
<1>2. PersistenceInv => DoneIsDurableAlone
      BY <1>1, EmptyHands
         DEF PersistenceInv, CallInv, FlashInv, InSlots, InFlash, DoneIsDurableAlone,
             DoneIsDurable, Undisturbed
<1> QED  BY PersistenceInvariant, <1>2, PTL

(***************************************************************************)
(* A restart in the middle of any call brings no tag back under the handle *)
(* of another: tag_db_load_from_flash finds each name in the slot of its   *)
(* handle or not at all.  The power may fail, but not between two pages.   *)
(***************************************************************************)
THEOREM HandlesSurvive == ASSUME AllPersist PROVE Spec => RebootKeepsHandles
<1>1. ASSUME PersistenceInv, Restart, ~damaged', NEW g \in Handles, NEW h \in Handles,
             tags[g] \in Names, tags'[h] = tags[g]
      PROVE  g = h
  <2>1. ~damaged /\ saves = "settled" /\ NotBetweenPages
        BY <1>1 DEF Restart, Interrupts, NotBetweenPages
  <2>2. tags' = TagsLoaded(Loaded(flash))
        BY <1>1 DEF Restart, Reboot
  <2>3. h \in Slots /\ Loaded(flash)[h] = tags[g]
        BY <1>1, <2>2, Contents DEF TagsLoaded
  <2> QED  BY <1>1, <2>1, <2>3 DEF PersistenceInv, FlashInv, Agrees
<1>2. PersistenceInv /\ [Next]_vars =>
        [Restart /\ ~damaged' =>
           \A g, h \in Handles : tags[g] \in Names /\ tags'[h] = tags[g] => g = h]_vars
      BY <1>1
<1> QED  BY PersistenceInvariant, <1>2, PTL DEF Spec, RebootKeepsHandles
=============================================================================
