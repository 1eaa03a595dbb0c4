----------------------------- MODULE ConfigStore -----------------------------
(***************************************************************************)
(* The configuration in RAM and in flash                                   *)
(* (src/src/config/system_config/system_config.c): g_sys_cfg,              *)
(* g_config_changed, the static buffer of config_save_to_flash, and the    *)
(* load at start-up.  The web server, the command line and the network     *)
(* task call it without a lock.                                            *)
(*                                                                         *)
(* An image is the structure as it lies in the buffer or in flash: its     *)
(* first page, which holds the version and the sections in FirstPage, and  *)
(* the rest.  Memory is copied, and flash programmed, from the first byte  *)
(* on, so the two parts are two steps.  A flash write is one step per      *)
(* phase of the driver; while the flash is busy no task runs, which        *)
(* FlashStorage shows (OnlyTheGuardRuns).                                  *)
(***************************************************************************)
CONSTANTS Tasks,       \* tasks that set and save configuration
          Sections,    \* the sections of system_config_t
          FirstPage,   \* those that lie in its first flash page
          Uncompared,  \* those whose setter does not compare first
          IsContent(_, _),   \* what a section may hold
          Erased,      \* a section of 0xFF bytes
          Default,     \* config_set_default: section |-> its value
          Configured,  \* what the flash may hold at the start, if written
          Restarts     \* which restarts happen: "watchdog", "power"

IsWhole(b) == b = [s \in Sections |-> b[s]] /\ \A s \in Sections : IsContent(s, b[s])

ASSUME ConfigAssumption == /\ FirstPage \subseteq Sections
                           /\ Uncompared \subseteq Sections
                           /\ \A s \in Sections : ~IsContent(s, Erased)
                           /\ IsWhole(Default)
                           /\ \A b \in Configured : IsWhole(b)
                           /\ Restarts \subseteq {"watchdog", "power"}

VARIABLES cfg,         \* g_sys_cfg
          changed,     \* g_config_changed
          buf,         \* buf of config_save_to_flash, shared by its callers
          flash,       \* the configuration sector
          pc           \* where each task is in config_save_to_flash

configVars == <<cfg, changed, buf, flash, pc>>

Rest == Sections \ FirstPage
IsBody(b) == /\ b = [s \in Sections |-> b[s]]
             /\ \A s \in Sections : b[s] = Erased \/ IsContent(s, b[s])
IsImage(i) == /\ i = [version |-> i.version, body |-> i.body]
              /\ i.version \in BOOLEAN
              /\ IsBody(i.body)
ErasedImage == [version |-> FALSE, body |-> [s \in Sections |-> Erased]]
Saving == {"fill", "copy", "copy_rest", "request"}
Writing == {"erased", "first_page", "written"}

ConfigTypeOK == /\ IsBody(cfg)
                /\ changed \in BOOLEAN
                /\ IsImage(buf)
                /\ IsImage(flash)
                /\ pc \in [Tasks -> {"idle"} \cup Saving \cup Writing]

\* One part of an image over another: memcpy and flash programming.
Over(part, from, onto) ==
  [s \in Sections |-> IF s \in part THEN from[s] ELSE onto[s]]

\* Were it like this, a new device would start on erased bytes (LoadsWholeConfig).
LoadedUnchecked(image) == image.body

\* config_load_from_flash: only the version is checked.
Loaded(image) == IF image.version THEN image.body ELSE Default

\* A new device, or one configured before.
ConfigInit ==
  /\ \/ flash = ErasedImage
     \/ \E b \in Configured : flash = [version |-> TRUE, body |-> b]
  /\ cfg = Loaded(flash)
  /\ changed = ~flash.version
  /\ buf = ErasedImage
  /\ pc = [t \in Tasks |-> "idle"]

\* Both cores are held for a flash write.
Busy == \E t \in Tasks : pc[t] \in {"erased", "first_page"}
Goto(t, from, to) == /\ pc[t] = from
                     /\ pc' = [pc EXCEPT ![t] = to]

-----------------------------------------------------------------------------
\* config_set_*: compare, copy, mark.
SetSection(t, s, v) ==
  /\ ~Busy
  /\ pc[t] = "idle"
  /\ cfg' = [cfg EXCEPT ![s] = v]
  /\ changed' = (changed \/ s \in Uncompared \/ cfg[s] # v)
  /\ UNCHANGED <<buf, flash, pc>>

\* config_save_to_flash.  With nothing changed it returns true at once.
SaveBegin(t) == /\ ~Busy
                /\ changed
                /\ Goto(t, "idle", "fill")
                /\ UNCHANGED <<cfg, changed, buf, flash>>

SaveFill(t) == /\ ~Busy
               /\ Goto(t, "fill", "copy")
               /\ buf' = ErasedImage
               /\ UNCHANGED <<cfg, changed, flash>>

SaveCopy(t) == /\ ~Busy
               /\ Goto(t, "copy", "copy_rest")
               /\ buf' = [version |-> TRUE, body |-> Over(FirstPage, cfg, buf.body)]
               /\ UNCHANGED <<cfg, changed, flash>>

\* Were it like this, the end of the structure would not be copied
\* (SavedIsWhole).
SaveCopyRestShort(t) == /\ ~Busy
                        /\ Goto(t, "copy_rest", "request")
                        /\ UNCHANGED <<cfg, changed, buf, flash>>

SaveCopyRest(t) == /\ ~Busy
                   /\ Goto(t, "copy_rest", "request")
                   /\ buf' = [buf EXCEPT !.body = Over(Rest, cfg, @)]
                   /\ UNCHANGED <<cfg, changed, flash>>

\* flash_storage_write with the address of buf, and its return.
SaveErase(t) == /\ ~Busy
                /\ Goto(t, "request", "erased")
                /\ flash' = ErasedImage
                /\ UNCHANGED <<cfg, changed, buf>>

SaveFirstPage(t) ==
  /\ Goto(t, "erased", "first_page")
  /\ flash' = [version |-> buf.version, body |-> Over(FirstPage, buf.body, flash.body)]
  /\ UNCHANGED <<cfg, changed, buf>>

\* Were it like this, only one flash page would be programmed (SettlesWhole,
\* DoneIsDurable).
SaveRestSkipped(t) == /\ Goto(t, "first_page", "written")
                      /\ UNCHANGED <<cfg, changed, buf, flash>>

SaveRest(t) == /\ Goto(t, "first_page", "written")
               /\ flash' = [flash EXCEPT !.body = Over(Rest, buf.body, @)]
               /\ UNCHANGED <<cfg, changed, buf>>

SaveReturn(t) == /\ ~Busy
                 /\ Goto(t, "written", "idle")
                 /\ changed' = FALSE
                 /\ UNCHANGED <<cfg, buf, flash>>

\* The reboot commands need a core to run on; a power failure does not.
Reboot == /\ \/ "watchdog" \in Restarts /\ ~Busy
             \/ "power" \in Restarts
          /\ cfg' = Loaded(flash)
          /\ changed' = ~flash.version
          /\ buf' = ErasedImage
          /\ pc' = [t \in Tasks |-> "idle"]
          /\ UNCHANGED flash

-----------------------------------------------------------------------------
(* Properties *)

Whole(image) == image.version /\ \A s \in Sections : image.body[s] # Erased
Quiet == \A t \in Tasks : pc[t] = "idle"

(***************************************************************************)
(* g_config_changed is "True if configuration has been changed since last  *)
(* save" (system_config.c:25): with no save under way, a configuration that*)
(* differs from the flash is marked, so the next save will write it.       *)
(***************************************************************************)
UnsavedIsMarked == Quiet /\ ~changed => flash = [version |-> TRUE, body |-> cfg]

(***************************************************************************)
(* The program never works with a section of erased bytes: what            *)
(* config_load_from_flash accepts is a whole configuration.                *)
(***************************************************************************)
LoadsWholeConfig == \A s \in Sections : cfg[s] # Erased

(***************************************************************************)
(* Callers that overwrite each other's image in the shared buffer leave no *)
(* mark in the end: when every save has returned, the flash holds a whole  *)
(* image, unless nothing was ever saved.                                   *)
(***************************************************************************)
SettlesWhole == Quiet => Whole(flash) \/ (changed /\ flash = ErasedImage)

(***************************************************************************)
(* A save that returns true has left a whole image in flash.               *)
(***************************************************************************)
SavedIsWhole == \A t \in Tasks : pc[t] = "written" => Whole(flash)
=============================================================================
