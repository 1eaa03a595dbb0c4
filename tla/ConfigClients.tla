---------------------------- MODULE ConfigClients ----------------------------
(***************************************************************************)
(* The clients of the configuration at work: the web server's forms, the   *)
(* command line and the network task's DHCP callback                       *)
(* (src/src/http-server/http_utils.c, src/src/cli-task/cli_task.c,         *)
(* network_dhcp_assign of src/src/network/network_task.c).  Each reads a   *)
(* whole section, changes some fields of its copy and sets the section     *)
(* again, with no lock between.  A form then saves; the command line saves *)
(* when told to; the network task never does.                              *)
(*                                                                         *)
(* Reading a section and setting it are one step each.  A request that is  *)
(* refused changes nothing and is no step.                                 *)
(***************************************************************************)
EXTENDS ConfigForms, ConfigStore

CONSTANTS Web, Cli, Net,   \* the tasks
          Active,          \* those that do anything
          Leased,          \* the address of a DHCP lease
          Requests,        \* of the web pages: [form, element, sent]
          Commands,        \* of the command line, the same
          Work,            \* what is worked on: sets of sections
          MaxPosts,        \* bound on the forms of a behaviour
          MaxActs          \* bound on forms, commands and leases together

ASSUME ClientsAssumption ==
  /\ Tasks = {Web, Cli, Net} /\ Web # Cli /\ Cli # Net /\ Net # Web
  /\ Leased \in Addresses
  /\ \A r \in Requests : /\ r.form \in predefined_set_cgi_processor
                         /\ DOMAIN r.sent \subseteq Params(r.form)
  /\ \A c \in Commands : /\ c.form \in ConfigWrite
                         /\ \E p \in Params(c.form) : DOMAIN c.sent = {p}
  /\ Sections = DOMAIN Limits
  /\ Default = [s \in Sections |-> NoFields]
  /\ \A r \in Requests \cup Commands : r.sent \in [DOMAIN r.sent -> Int]
  /\ \A b \in Configured, s \in Sections :
       /\ b[s] \in [DOMAIN b[s] -> Int]
       /\ \A f \in DOMAIN b[s] : f \in Fields[s] /\ Within(s, f, b[s][f])
  /\ \A s \in Sections : \A D \in SUBSET Fields[s] : Erased \notin [D -> Int]
  /\ Active \subseteq Tasks

VARIABLES op,       \* what each client is doing: [do, section, edits, read]
          dhcp,     \* s_dhcp_enabled, read when the network task starts
          work,     \* the sections worked on
          acts,     \* how often each has acted
          saved,    \* history: field of a section |-> value, of the forms answered with success
          mixed,    \* history: the command line or a lease was at work too
          cut       \* history: restarted in the middle of a save

clientVars == <<op, dhcp, work, acts, saved, mixed, cut>>
vars == <<configVars, clientVars>>

Mode == <<Header, "dhcp", 0>>
LeaseFields == {<<Header, n, 0>> : n \in {"ip", "gw", "sn", "dns"}}
Idle == [do |-> "nothing", section |-> "device", edits |-> NoFields, read |-> NoFields]

\* The fields that a client is about to set.
Edited(t) == {op[t].section} \X DOMAIN op[t].edits

Posted == Effects(Requests)
Written == Effects(Commands)

Init == /\ ConfigInit
        /\ op = [t \in Tasks |-> Idle]
        /\ dhcp = (Value("net_info", cfg["net_info"], Mode) = DHCP)
        /\ work \in Work
        /\ acts = [t \in Tasks |-> 0]
        /\ saved = NoFields
        /\ mixed = FALSE
        /\ cut = FALSE

-----------------------------------------------------------------------------
Free(t) == /\ ~Busy /\ op[t].do = "nothing" /\ pc[t] = "idle"
           /\ t \in Active
           /\ acts[Web] + acts[Cli] + acts[Net] < MaxActs

\* config_get_*: the section is copied, the fields named are changed.  A
\* behaviour is not followed past a section of erased bytes.
Begin(t, section, edits) ==
  /\ cfg[section] # Erased
  /\ op' = [op EXCEPT ![t] = [do |-> "set", section |-> section, edits |-> edits,
                              read |-> cfg[section]]]
  /\ acts' = [acts EXCEPT ![t] = @ + 1]

\* A form.
Post(x) ==
  /\ Free(Web) /\ acts[Web] < MaxPosts
  /\ x.section \in work
  /\ Begin(Web, x.section, x.edits)
  /\ UNCHANGED <<configVars, dhcp, work, saved, mixed, cut>>

\* "config write"
Write(x) ==
  /\ Free(Cli)
  /\ x.section \in work
  /\ Begin(Cli, x.section, x.edits)
  /\ UNCHANGED <<configVars, dhcp, work, saved, mixed, cut>>

\* network_dhcp_assign, on the first lease and on each renewal.
Lease ==
  /\ Free(Net)
  /\ dhcp
  /\ "net_info" \in work
  /\ Begin(Net, "net_info", [f \in LeaseFields \cup {Mode} |-> IF f = Mode THEN DHCP ELSE Leased])
  /\ UNCHANGED <<configVars, dhcp, work, saved, mixed, cut>>

\* Were it like this, the fields a request does not name would go back to
\* their defaults (OverlapsOnly).
SetFromDefaults(t) ==
  /\ op[t].do = "set"
  /\ SetSection(t, op[t].section, Updated(op[t].section, Default[op[t].section], op[t].edits))
  /\ op' = [op EXCEPT ![t] = IF t = Web THEN [@ EXCEPT !.do = "save"] ELSE Idle]
  /\ mixed' = (mixed \/ t # Web)
  /\ UNCHANGED <<dhcp, work, acts, saved, cut>>

\* config_set_*
Set(t) ==
  /\ op[t].do = "set"
  /\ SetSection(t, op[t].section, Updated(op[t].section, op[t].read, op[t].edits))
  /\ op' = [op EXCEPT ![t] = IF t = Web THEN [@ EXCEPT !.do = "save"] ELSE Idle]
  /\ mixed' = (mixed \/ t # Web)
  /\ UNCHANGED <<dhcp, work, acts, saved, cut>>

\* config_save_to_flash of a form, and of "config save".
Save(t) == /\ \/ t = Web /\ op[t].do = "save" /\ UNCHANGED acts
              \/ t = Cli /\ Free(t) /\ acts' = [acts EXCEPT ![t] = @ + 1]
           /\ SaveBegin(t)
           /\ op' = [op EXCEPT ![t].do = "saving"]
           /\ mixed' = (mixed \/ t # Web)
           /\ UNCHANGED <<dhcp, work, saved, cut>>

SaveGoesOn(t) == /\ \/ SaveFill(t) \/ SaveCopy(t) \/ SaveCopyRest(t)
                    \/ SaveErase(t) \/ SaveFirstPage(t) \/ SaveRest(t)
                 /\ UNCHANGED clientVars

\* The answer of a form.
Answer(t) ==
  /\ op' = [op EXCEPT ![t] = Idle]
  /\ saved' = IF t = Web
              THEN [sf \in DOMAIN saved \cup Edited(t) |->
                      IF sf \in Edited(t) THEN op[t].edits[sf[2]] ELSE saved[sf]]
              ELSE saved
  /\ UNCHANGED <<dhcp, work, acts, mixed, cut>>

\* Were it like this, a form would answer without saving (AccumulateAlone).
SaveSkippedMarked == /\ ~Busy
                     /\ op[Web].do = "save"
                     /\ Answer(Web)
                     /\ UNCHANGED configVars

\* Nothing is marked.
SaveSkipped == /\ ~Busy
               /\ op[Web].do = "save"
               /\ ~changed
               /\ Answer(Web)
               /\ UNCHANGED configVars
SaveEnds(t) == SaveReturn(t) /\ Answer(t)

\* A form that a restart cuts off may have been saved or not.
Restart == /\ Reboot
           /\ op' = [t \in Tasks |-> Idle]
           /\ dhcp' = (Value("net_info", cfg'["net_info"], Mode) = DHCP)
           /\ cut' = (cut \/ ~Quiet)
           /\ saved' = [sf \in DOMAIN saved \ Edited(Web) |-> saved[sf]]
           /\ UNCHANGED <<work, acts, mixed>>

Next == \/ \E x \in Posted : Post(x)
        \/ \E x \in Written : Write(x)
        \/ Lease
        \/ \E t \in Tasks : Set(t) \/ Save(t) \/ SaveGoesOn(t) \/ SaveEnds(t)
        \/ SaveSkipped
        \/ Restart

Spec == Init /\ [][Next]_vars

-----------------------------------------------------------------------------
(* Properties *)

(***************************************************************************)
(* Whatever the forms and commands are sent, every field stays within what *)
(* the users of the configuration rely on: no request is longer than its   *)
(* tag array, no UART is selected that is not there, no enumeration that   *)
(* a user switches on has a value without a meaning.                       *)
(***************************************************************************)
ClientsTypeOK ==
  /\ pc \in [Tasks -> {"idle"} \cup Saving \cup Writing]
  /\ \A t \in Tasks : op[t].do \in {"nothing", "set", "save", "saving"}
  /\ \A s \in Sections : cfg[s] # Erased =>
       \A f \in DOMAIN cfg[s] : f \in Fields[s] /\ Within(s, f, cfg[s][f])

(***************************************************************************)
(* "Value 255 means not mapped, 0-127 are valid tag handles"               *)
(* (http_utils.c:606): a configured tag handle is one or the other.        *)
(***************************************************************************)
HandlesAreValid ==
  \A s \in Sections : cfg[s] # Erased =>
    \A f \in DOMAIN cfg[s] : f[2] = "tag_handles" => cfg[s][f] \in (0 .. 127) \cup {255}

(***************************************************************************)
(* Setting a whole section changes only the fields that the request names, *)
(* unless another client has set the same section since it was read: an    *)
(* update is lost in an overlap of two clients and never otherwise.        *)
(***************************************************************************)
OverlapsOnly ==
  [][\A t \in Tasks : Set(t) =>
       LET s == op[t].section
       IN  \A f \in Fields[s] : \/ Value(s, cfg'[s], f) = Value(s, cfg[s], f)
                                \/ f \in DOMAIN op[t].edits
                                \/ op[t].read # cfg[s]]_vars

(***************************************************************************)
(* The saves of two clients go through one buffer and may leave a torn     *)
(* image when the first of them returns; when the last one has, the flash  *)
(* holds a whole image again, unless the device was restarted in between.  *)
(***************************************************************************)
ClientsSettle == ~cut => SettlesWhole

\* What was saved is in flash.
Accumulated ==
  Quiet => \A sf \in DOMAIN saved :
             /\ flash.body[sf[1]] # Erased
             /\ Value(sf[1], flash.body[sf[1]], sf[2]) = saved[sf]

(***************************************************************************)
(* Used alone, the forms accumulate in flash: what each was answered for   *)
(* with success is there after every later form and restart, until a form  *)
(* sets the same field again.                                              *)
(***************************************************************************)
AccumulateAlone == ~mixed => Accumulated

(***************************************************************************)
(* The same with the other clients at work: "All saved settings accumulate *)
(* in flash memory and will all take effect together on the next reboot"   *)
(* (docs/wiki/Web-Interface:-Applying-Changes.md:41).                      *)
(***************************************************************************)
SavedAccumulate == Accumulated
=============================================================================
