----------------------------- MODULE LoggerProofs -----------------------------
(***************************************************************************)
(* What TLAPS proves of Logger for any number of tasks, messages and       *)
(* characters: what is typed is never torn by the log, and the logger can  *)
(* wait for itself only where other tasks have filled the queue.           *)
(***************************************************************************)
EXTENDS Logger, FiniteSetTheorems, TLAPS

Points == {"started", "load", "loaded", "receive", "take", "print", "redraw",
           "prompt", "read", "command"}

LoggerTypes ==
  /\ at \in [{LoggerTask, Cli} -> Points]
  /\ input \in 0 .. MaxInput
  /\ prompt \in BOOLEAN /\ broken \in BOOLEAN

\* The mutex belongs to the one of the two tasks that is printing.
HolderPrints ==
  /\ at[LoggerTask] \in {"print", "redraw"} => holder = LoggerTask
  /\ at[Cli] = "command" => holder = Cli

TerminalInv == LoggerTypes /\ HolderPrints /\ PromptShowsInput

LEMMA EmptyInput == 0 \in 0 .. MaxInput
<1>1. MaxInput \in Nat
      BY LoggerAssumption
<1> QED  BY <1>1

LEMMA InitTerminal == Init => TerminalInv
<1> SUFFICES ASSUME Init
             PROVE  TerminalInv
    OBVIOUS
<1>1. LoggerTypes
  <2>1. at \in [{LoggerTask, Cli} -> Points]
        BY DEF Init, Points
  <2> QED  BY <2>1, EmptyInput DEF Init, LoggerTypes
<1>2. HolderPrints
      BY DEF Init, HolderPrints
<1>3. PromptShowsInput
      BY DEF Init, PromptShowsInput
<1> QED  BY <1>1, <1>2, <1>3 DEF TerminalInv

LEMMA NextTerminal == TerminalInv /\ [Next]_vars => TerminalInv'
<1> SUFFICES ASSUME TerminalInv, [Next]_vars
             PROVE  TerminalInv'
    OBVIOUS
<1> USE LoggerAssumption
    DEF TerminalInv, LoggerTypes, HolderPrints, PromptShowsInput, Step, Tasks, Prompted, Points
<1>1. ASSUME NEW t \in Producers, ProducerLogs(t)
      PROVE  TerminalInv'
      BY <1>1 DEF ProducerLogs
<1>2. ASSUME NEW t \in Tasks, Send(t)
      PROVE  TerminalInv'
      BY <1>2 DEF Send
\* A warning past the mutex is remembered until the next repaint.
<1>3. ASSUME NEW t \in Tasks, Overrun(t)
      PROVE  TerminalInv'
      BY <1>3 DEF Overrun
<1>4. ASSUME LoggerSteps
      PROVE  TerminalInv'
  <2>1. ASSUME LoggerStarts \/ LoadConfig \/ LoggerLoaded
        PROVE  TerminalInv'
        BY <2>1 DEF LoggerStarts, LoadConfig, LoggerLoaded
  <2>2. ASSUME Receive \/ Take \/ TakeTimesOut
        PROVE  TerminalInv'
        BY <2>2 DEF Receive, Take, TakeTimesOut
  \* The mutex is held, and given back over a repainted line.
  <2>3. ASSUME PrintMessage
        PROVE  TerminalInv'
        BY <2>3 DEF PrintMessage
  <2>4. ASSUME Redraw
        PROVE  TerminalInv'
        BY <2>4 DEF Redraw
  <2> QED  BY <1>4, <2>1, <2>2, <2>3, <2>4 DEF LoggerSteps
<1>5. ASSUME CliSteps
      PROVE  TerminalInv'
  <2>1. ASSUME CliStarts \/ Enter \/ CommandLogs
        PROVE  TerminalInv'
        BY <2>1 DEF CliStarts, Enter, CommandLogs
  <2>2. ASSUME FirstPrompt
        PROVE  TerminalInv'
        BY <2>2 DEF FirstPrompt
  \* Buffer and line grow and shrink together.
  <2>3. ASSUME Character
        PROVE  TerminalInv'
    <3>1. HolderPrints' /\ LoggerTypes'
          BY <2>3 DEF Character, Typed
    <3>2. PromptShowsInput'
          BY <2>3 DEF Character, Typed
    <3> QED  BY <3>1, <3>2
  <2>4. ASSUME CommandEnds
        PROVE  TerminalInv'
        BY <2>4, EmptyInput DEF CommandEnds
  <2> QED  BY <1>5, <2>1, <2>2, <2>3, <2>4 DEF CliSteps
<1>6. ASSUME UNCHANGED vars
      PROVE  TerminalInv'
      BY <1>6 DEF vars
<1> QED  BY <1>1, <1>2, <1>3, <1>4, <1>5, <1>6 DEF Next

(***************************************************************************)
(* Between two lines the terminal's bottom line shows the prompt and what  *)
(* s_input_buffer holds, whichever tasks log and however the logger and    *)
(* vCLITask take turns.  The mutex is what makes it so: the logger erases  *)
(* and repaints only while it holds it, and so does a command.             *)
(***************************************************************************)
THEOREM InputIsKept == Spec => []PromptShowsInput
<1>1. TerminalInv => PromptShowsInput
      BY DEF TerminalInv
<1> QED  BY <1>1, InitTerminal, NextTerminal, PTL DEF Spec

-----------------------------------------------------------------------------
(* When the logger waits for itself *)

\* Until its own messages are handed in, the logger does not take any.
Starting == ~LoggerLoops

\* The messages of the other tasks, and how many of the logger's own, that
\* are no longer on their way into the queue.
HandedIn == {e \in OfOthers : sending[e[1]] # "no" => e[2] < n[e[1]]}
OwnHandedIn == n[LoggerTask] - (IF sending[LoggerTask] = "no" THEN 0 ELSE 1)

QueueTypes == /\ queue \in Seq([task : Tasks, n : Nat])
              /\ n \in [Tasks -> 0 .. MaxMessages]
              /\ sending \in [Tasks -> {"no", "waiting", "blocked"}]
              /\ at \in [{LoggerTask, Cli} -> Points]
              /\ \A t \in Tasks : sending[t] # "no" => n[t] > 0

\* The logger logs twice at most, and only before its loop.
OwnMessages ==
  /\ at[LoggerTask] \in {"started", "load", "loaded"} \cup InLoop
  /\ at[LoggerTask] = "started" => n[LoggerTask] = 0
  /\ at[LoggerTask] \in {"load", "loaded"} => n[LoggerTask] = 1
  /\ at[LoggerTask] = "loaded" => sending[LoggerTask] = "no"
  /\ at[LoggerTask] \in InLoop \ {"receive"} => sending[LoggerTask] = "no"
  /\ n[LoggerTask] <= 2

\* Before that, each message in the queue is one of those handed in.
QueueIsOfThose == Starting => /\ IsFiniteSet(OfOthers)
                              /\ Len(queue) <= Cardinality(HandedIn) + OwnHandedIn

QueueInv == QueueTypes /\ OwnMessages /\ QueueIsOfThose

LEMMA LoggerIs == /\ LoggerTask \in Tasks /\ Cli \in Tasks /\ Producers \subseteq Tasks
                  /\ LoggerTask # Cli /\ LoggerTask \notin Producers
                  /\ MaxMessages \in Nat /\ QueueLength \in Nat
BY LoggerAssumption DEF Tasks

LEMMA InitQueue == Init => QueueInv
<1> SUFFICES ASSUME Init
             PROVE  QueueInv
    OBVIOUS
<1> USE LoggerIs DEF Init
<1>1. 0 \in 0 .. MaxMessages
      BY LoggerIs
<1>2. QueueTypes
      BY <1>1 DEF QueueTypes, Points
<1>3. OwnMessages
      BY DEF OwnMessages, InLoop
<1>4. OfOthers = {} /\ HandedIn = {}
      BY DEF OfOthers, HandedIn
<1>5. QueueIsOfThose
      BY <1>4, FS_EmptySet DEF QueueIsOfThose, OwnHandedIn
<1> QED  BY <1>2, <1>3, <1>5 DEF QueueInv

\* A task logs: its message is on its way, and none is handed in.
LEMMA LogIsOnItsWay ==
  ASSUME QueueInv, NEW t \in Tasks, Log(t), queue' = queue
  PROVE  /\ HandedIn' = HandedIn /\ OwnHandedIn' = OwnHandedIn
         /\ t = LoggerTask => OfOthers' = OfOthers
         /\ t # LoggerTask => OfOthers' = OfOthers \cup {<<t, n[t] + 1>>}
         /\ QueueTypes' \/ at' \notin [{LoggerTask, Cli} -> Points]
<1> USE LoggerIs
<1>1. /\ n \in [Tasks -> 0 .. MaxMessages] /\ n[t] < MaxMessages /\ sending[t] = "no"
      /\ sending \in [Tasks -> {"no", "waiting", "blocked"}]
      /\ n' = [n EXCEPT ![t] = n[t] + 1] /\ sending' = [sending EXCEPT ![t] = "waiting"]
      BY DEF QueueInv, QueueTypes, Log
<1>2. n[t] \in Nat /\ n[t] + 1 \in 1 .. MaxMessages /\ n'[t] = n[t] + 1 /\ sending'[t] = "waiting"
      BY <1>1
<1>3. \A u \in Tasks \ {t} : n'[u] = n[u] /\ sending'[u] = sending[u]
      BY <1>1
<1>4. OwnHandedIn' = OwnHandedIn
      BY <1>1, <1>2, <1>3 DEF OwnHandedIn
<1>5. ASSUME t = LoggerTask
      PROVE  OfOthers' = OfOthers
      BY <1>3, <1>5 DEF OfOthers
<1>6. ASSUME t # LoggerTask
      PROVE  OfOthers' = OfOthers \cup {<<t, n[t] + 1>>}
  <2>1. \A u \in Tasks \ {LoggerTask}, k \in 1 .. MaxMessages :
          k <= n'[u] <=> k <= n[u] \/ (u = t /\ k = n[t] + 1)
        BY <1>1, <1>2, <1>3
  <2>2. <<t, n[t] + 1>> \in (Tasks \ {LoggerTask}) \X (1 .. MaxMessages)
        BY <1>2, <1>6
  <2> QED  BY <2>1, <2>2 DEF OfOthers
<1>7. HandedIn' = HandedIn
  <2> DEFINE In(u, k) == k <= n[u] /\ (sending[u] # "no" => k < n[u])
  <2>1. \A u \in Tasks \ {LoggerTask}, k \in 1 .. MaxMessages : In(u, k)' <=> In(u, k)
        BY <1>1, <1>2, <1>3
  <2>2. /\ HandedIn = {e \in (Tasks \ {LoggerTask}) \X (1 .. MaxMessages) : In(e[1], e[2])}
        /\ HandedIn' = {e \in (Tasks \ {LoggerTask}) \X (1 .. MaxMessages) : In(e[1], e[2])'}
        BY DEF HandedIn, OfOthers
  <2> QED  BY <2>1, <2>2
<1>8. QueueTypes' \/ at' \notin [{LoggerTask, Cli} -> Points]
  <2>1. n' \in [Tasks -> 0 .. MaxMessages]
        BY <1>1, <1>2
  <2>2. sending' \in [Tasks -> {"no", "waiting", "blocked"}]
        BY <1>1
  <2>3. \A u \in Tasks : sending'[u] # "no" => n'[u] > 0
        BY <1>1, <1>2, <1>3 DEF QueueInv, QueueTypes
  <2> QED  BY <2>1, <2>2, <2>3 DEF QueueInv, QueueTypes
<1> QED  BY <1>4, <1>5, <1>6, <1>7, <1>8

\* The message of a task other than the logger.
LEMMA OtherLogs ==
  ASSUME QueueInv, NEW t \in Tasks \ {LoggerTask}, Log(t), queue' = queue,
         at' \in [{LoggerTask, Cli} -> Points], at'[LoggerTask] = at[LoggerTask]
  PROVE  QueueInv'
<1> USE LoggerIs
<1>1. sending'[LoggerTask] = sending[LoggerTask] /\ n'[LoggerTask] = n[LoggerTask]
      BY DEF Log, QueueInv, QueueTypes
<1>2. OwnMessages' /\ (Starting' <=> Starting)
      BY <1>1 DEF QueueInv, OwnMessages, Starting, LoggerLoops
<1>3. ASSUME Starting
      PROVE  /\ IsFiniteSet(OfOthers)'
             /\ (Len(queue) <= Cardinality(HandedIn) + OwnHandedIn)'
  <2>1. IsFiniteSet(OfOthers) /\ Len(queue) <= Cardinality(HandedIn) + OwnHandedIn
        BY <1>3 DEF QueueInv, QueueIsOfThose
  <2>2. OfOthers' = OfOthers \cup {<<t, n[t] + 1>>}
        BY LogIsOnItsWay
  <2>3. IsFiniteSet(OfOthers')
        BY <2>1, <2>2, FS_AddElement
  <2> QED  BY <2>1, <2>3, LogIsOnItsWay
<1>4. QueueTypes'
      BY LogIsOnItsWay
<1> QED  BY <1>2, <1>3, <1>4 DEF QueueInv, QueueIsOfThose

\* The logger's own message.
LEMMA LoggerLogs ==
  ASSUME QueueInv, LoggerStarts \/ LoggerLoaded
  PROVE  QueueInv'
<1> USE LoggerIs
<1>1. /\ Log(LoggerTask) /\ queue' = queue /\ at[LoggerTask] \in {"started", "loaded"}
      /\ at' = [at EXCEPT ![LoggerTask] = IF at[LoggerTask] = "started" THEN "load" ELSE "receive"]
      BY DEF LoggerStarts, LoggerLoaded, Step
<1>2. /\ at \in [{LoggerTask, Cli} -> Points]
      /\ n \in [Tasks -> 0 .. MaxMessages] /\ sending \in [Tasks -> {"no", "waiting", "blocked"}]
      BY DEF QueueInv, QueueTypes
<1>3. at' \in [{LoggerTask, Cli} -> Points]
      BY <1>1, <1>2 DEF Points
<1>4. n'[LoggerTask] = n[LoggerTask] + 1 /\ sending'[LoggerTask] = "waiting"
      BY <1>1, <1>2 DEF Log
<1>5. at'[LoggerTask] = IF at[LoggerTask] = "started" THEN "load" ELSE "receive"
      BY <1>1, <1>2
<1>6. OwnMessages'
      BY <1>1, <1>4, <1>5 DEF QueueInv, OwnMessages, InLoop
<1>7. Starting
      BY <1>1 DEF Starting, LoggerLoops, InLoop
<1>8. QueueIsOfThose'
      BY <1>1, <1>7, LogIsOnItsWay DEF QueueInv, QueueIsOfThose
<1>9. QueueTypes'
      BY <1>1, <1>3, LogIsOnItsWay
<1> QED  BY <1>6, <1>8, <1>9 DEF QueueInv

\* A message finds room: one more is handed in.
LEMMA SendIsHandedIn ==
  ASSUME QueueInv, NEW t \in Tasks, Send(t)
  PROVE  QueueInv'
<1> USE LoggerIs
<1>1. /\ queue \in Seq([task : Tasks, n : Nat]) /\ n \in [Tasks -> 0 .. MaxMessages]
      /\ sending \in [Tasks -> {"no", "waiting", "blocked"}]
      /\ sending[t] # "no" /\ sending' = [sending EXCEPT ![t] = "no"]
      /\ n' = n /\ at' = at /\ n[t] > 0
      BY DEF QueueInv, QueueTypes, Send
<1>2. /\ [task |-> t, n |-> n[t]] \in [task : Tasks, n : Nat]
      /\ queue' = Append(queue, [task |-> t, n |-> n[t]])
      BY <1>1 DEF Send
<1>3. queue' \in Seq([task : Tasks, n : Nat]) /\ Len(queue') = Len(queue) + 1 /\ Len(queue) \in Nat
      BY <1>1, <1>2
<1>4. sending'[t] = "no" /\ \A u \in Tasks \ {t} : sending'[u] = sending[u]
      BY <1>1
<1>5. QueueTypes'
      BY <1>1, <1>3, <1>4 DEF QueueInv, QueueTypes
<1>6. OwnMessages'
      BY <1>1, <1>4 DEF QueueInv, OwnMessages
<1>7. OfOthers' = OfOthers
      BY <1>1 DEF OfOthers
<1>8. ASSUME Starting'
      PROVE  /\ IsFiniteSet(OfOthers)
             /\ (Len(queue) <= Cardinality(HandedIn) + OwnHandedIn)'
  <2>1. Starting
        BY <1>1, <1>4, <1>8 DEF Starting, LoggerLoops
  <2>2. /\ IsFiniteSet(OfOthers)
        /\ Len(queue) <= Cardinality(HandedIn) + OwnHandedIn
        BY <2>1 DEF QueueInv, QueueIsOfThose
  <2> DEFINE In(d) == sending[d[1]] # "no" => d[2] < n[d[1]]
             Later(d) == sending'[d[1]] # "no" => d[2] < n'[d[1]]
  <2>3. HandedIn = {d \in OfOthers : In(d)} /\ HandedIn' = {d \in OfOthers : Later(d)}
        BY <1>7 DEF HandedIn
  <2>4. IsFiniteSet(HandedIn) /\ Cardinality(HandedIn) \in Nat
        BY <2>2, <2>3, FS_Subset, FS_CardinalityType
  <2>5. n[LoggerTask] \in Nat
        BY <1>1
  <2>6. CASE t = LoggerTask
    <3>1. \A d \in OfOthers : Later(d) <=> In(d)
          BY <1>1, <1>4, <2>6 DEF OfOthers
    <3>2. HandedIn' = HandedIn
          BY <2>3, <3>1
    <3>3. OwnHandedIn' = OwnHandedIn + 1 /\ OwnHandedIn \in Int
          BY <1>1, <1>4, <2>5, <2>6 DEF OwnHandedIn
    <3> QED  BY <1>3, <2>2, <2>4, <3>2, <3>3
  <2>7. CASE t # LoggerTask
    <3> DEFINE e == <<t, n[t]>>
    <3>1. e \in OfOthers /\ ~In(e) /\ Later(e)
          BY <1>1, <1>4, <2>7 DEF OfOthers
    <3>2. \A d \in OfOthers \ {e} : Later(d) <=> In(d)
      <4> SUFFICES ASSUME NEW d \in OfOthers, d # e
                   PROVE  Later(d) <=> In(d)
          OBVIOUS
      <4>1. d = <<d[1], d[2]>> /\ d[1] \in Tasks /\ d[2] \in 1 .. MaxMessages /\ d[2] <= n[d[1]]
            BY DEF OfOthers
      <4>2. CASE d[1] = t
        <5>1. d[2] # n[t]
              BY <4>1, <4>2
        <5> QED  BY <1>1, <1>4, <4>1, <4>2, <5>1
      <4>3. CASE d[1] # t
            BY <1>1, <1>4, <4>1, <4>3
      <4> QED  BY <4>2, <4>3
    <3> HIDE DEF e, In, Later
    <3>3. HandedIn' = HandedIn \cup {e} /\ e \notin HandedIn
          BY <2>3, <3>1, <3>2
    <3>4. Cardinality(HandedIn') = Cardinality(HandedIn) + 1
          BY <2>4, <3>3, FS_AddElement
    <3>5. OwnHandedIn' = OwnHandedIn /\ OwnHandedIn \in Int
          BY <1>1, <1>4, <2>5, <2>7 DEF OwnHandedIn
    <3> QED  BY <1>3, <2>2, <2>4, <3>4, <3>5
  <2> QED  BY <2>6, <2>7
<1> QED  BY <1>5, <1>6, <1>7, <1>8 DEF QueueInv, QueueIsOfThose

\* The other steps of the logger: none of them before its loop but the one
\* that loads the configuration.
LEMMA LoopKeepsQueue ==
  ASSUME QueueInv, LoadConfig \/ Receive \/ Take \/ TakeTimesOut \/ PrintMessage \/ Redraw
  PROVE  QueueInv'
<1> USE LoggerIs
<1>1. /\ n' = n /\ sending' = sending /\ sending[LoggerTask] = "no"
      /\ at \in [{LoggerTask, Cli} -> Points] /\ queue \in Seq([task : Tasks, n : Nat])
      BY DEF QueueInv, QueueTypes, LoadConfig, Receive, Take, TakeTimesOut, PrintMessage, Redraw,
             Step
<1>2. OfOthers' = OfOthers /\ HandedIn' = HandedIn /\ OwnHandedIn' = OwnHandedIn
      BY <1>1 DEF OfOthers, HandedIn, OwnHandedIn
<1>3. CASE LoadConfig
  <2>1. /\ at[LoggerTask] = "load" /\ at'[LoggerTask] \in {"loaded", "receive"}
        /\ at' \in [{LoggerTask, Cli} -> Points] /\ queue' = queue
        BY <1>1, <1>3 DEF LoadConfig, Step, Points
  <2>2. OwnMessages'
        BY <1>1, <2>1 DEF QueueInv, OwnMessages, InLoop
  <2>3. Starting
        BY <2>1 DEF Starting, LoggerLoops, InLoop
  <2> QED  BY <1>1, <1>2, <2>1, <2>2, <2>3 DEF QueueInv, QueueTypes, QueueIsOfThose
<1>4. CASE ~LoadConfig
  <2>1. /\ at[LoggerTask] \in InLoop /\ at'[LoggerTask] \in InLoop
        /\ at' \in [{LoggerTask, Cli} -> Points]
        BY <1>1, <1>4 DEF Receive, Take, TakeTimesOut, PrintMessage, Redraw, Step, Points, InLoop
  <2>2. queue' \in Seq([task : Tasks, n : Nat])
    <3>1. CASE Receive
          BY <1>1, <3>1 DEF Receive
    <3> QED  BY <1>1, <1>4, <3>1 DEF Take, TakeTimesOut, PrintMessage, Redraw
  <2>3. OwnMessages'
        BY <1>1, <2>1 DEF QueueInv, OwnMessages, InLoop
  <2>4. ~Starting'
        BY <1>1, <2>1 DEF Starting, LoggerLoops
  <2> QED  BY <1>1, <2>1, <2>2, <2>3, <2>4 DEF QueueInv, QueueTypes, QueueIsOfThose
<1> QED  BY <1>3, <1>4

\* Steps that leave the queue and the logger alone.
LEMMA RestKeepsQueue ==
  ASSUME QueueInv, UNCHANGED <<queue, n>>, at' \in [{LoggerTask, Cli} -> Points],
         at'[LoggerTask] = at[LoggerTask], sending' \in [Tasks -> {"no", "waiting", "blocked"}],
         \A t \in Tasks : sending'[t] = "no" <=> sending[t] = "no"
  PROVE  QueueInv'
<1> USE LoggerIs
<1>1. OfOthers' = OfOthers /\ HandedIn' = HandedIn
      BY DEF OfOthers, HandedIn
<1>2. OwnHandedIn' = OwnHandedIn /\ (Starting' <=> Starting)
      BY DEF OwnHandedIn, Starting, LoggerLoops
<1>3. OwnMessages' /\ QueueTypes'
      BY DEF QueueInv, OwnMessages, QueueTypes
<1> QED  BY <1>1, <1>2, <1>3 DEF QueueInv, QueueIsOfThose

LEMMA NextQueue == QueueInv /\ [Next]_vars => QueueInv'
<1> SUFFICES ASSUME QueueInv, [Next]_vars
             PROVE  QueueInv'
    OBVIOUS
<1> USE LoggerIs
<1>t. at \in [{LoggerTask, Cli} -> Points] /\ sending \in [Tasks -> {"no", "waiting", "blocked"}]
      BY DEF QueueInv, QueueTypes
<1>1. ASSUME NEW t \in Producers, ProducerLogs(t)
      PROVE  QueueInv'
      BY <1>1, <1>t, OtherLogs DEF ProducerLogs
<1>2. ASSUME NEW t \in Tasks, Send(t)
      PROVE  QueueInv'
      BY <1>2, SendIsHandedIn
<1>3. ASSUME NEW t \in Tasks, Overrun(t)
      PROVE  QueueInv'
  <2>1. /\ sending[t] = "waiting" /\ sending' = [sending EXCEPT ![t] = "blocked"]
        /\ UNCHANGED <<queue, n, at>>
        BY <1>3 DEF Overrun
  <2>2. sending' \in [Tasks -> {"no", "waiting", "blocked"}]
        BY <1>t, <2>1
  <2>3. \A u \in Tasks : sending'[u] = "no" <=> sending[u] = "no"
        BY <1>t, <2>1
  <2> QED  BY <1>t, <2>1, <2>2, <2>3, RestKeepsQueue
<1>4. ASSUME LoggerSteps
      PROVE  QueueInv'
      BY <1>4, LoggerLogs, LoopKeepsQueue DEF LoggerSteps
<1>5. ASSUME CliStarts \/ CommandLogs
      PROVE  QueueInv'
  <2>1. /\ Log(Cli) /\ queue' = queue
        /\ at'[LoggerTask] = at[LoggerTask] /\ at' \in [{LoggerTask, Cli} -> Points]
        BY <1>5, <1>t DEF CliStarts, CommandLogs, Step, Points
  <2> QED  BY <2>1, OtherLogs
<1>6. ASSUME FirstPrompt \/ Character \/ Enter \/ CommandEnds
      PROVE  QueueInv'
  <2>1. /\ UNCHANGED <<queue, n, sending>>
        /\ at'[LoggerTask] = at[LoggerTask] /\ at' \in [{LoggerTask, Cli} -> Points]
        BY <1>6, <1>t DEF FirstPrompt, Character, Enter, CommandEnds, Step, Points
  <2> QED  BY <1>t, <2>1, RestKeepsQueue
<1>7. ASSUME UNCHANGED vars
      PROVE  QueueInv'
      BY <1>7, <1>t, RestKeepsQueue DEF vars
<1> QED  BY <1>1, <1>2, <1>3, <1>4, <1>5, <1>6, <1>7 DEF Next, CliSteps

LEMMA AlwaysQueue == Spec => []QueueInv
BY InitQueue, NextQueue, PTL DEF Spec

LEMMA OthersFillTheQueue == QueueInv => RoomForTheLogger
<1> SUFFICES ASSUME QueueInv, Starting, Len(queue) = QueueLength
             PROVE  ~FewOfOthers
    BY DEF RoomForTheLogger, Starting
<1> USE LoggerIs
<1>1. /\ IsFiniteSet(OfOthers)
      /\ Len(queue) <= Cardinality(HandedIn) + OwnHandedIn
      BY DEF QueueInv, QueueIsOfThose
<1>2. HandedIn \in SUBSET OfOthers
      BY DEF HandedIn
<1>3. /\ Cardinality(OfOthers) \in Nat /\ Cardinality(HandedIn) \in Nat
      /\ Cardinality(HandedIn) <= Cardinality(OfOthers)
      BY <1>1, <1>2, FS_Subset, FS_CardinalityType
<1>4. n[LoggerTask] \in Nat
      BY DEF QueueInv, QueueTypes
<1>5. OwnHandedIn <= 1 /\ OwnHandedIn \in Int
      BY <1>4 DEF QueueInv, OwnMessages, OwnHandedIn, Starting, LoggerLoops
<1> QED  BY <1>1, <1>3, <1>5 DEF FewOfOthers

\* The logger logs before its loop only, and does not leave the loop.
LEMMA LoopGoesOn == QueueInv /\ [Next]_vars => (LoggerLoops => LoggerLoops')
<1> SUFFICES ASSUME QueueInv, [Next]_vars, LoggerLoops
             PROVE  LoggerLoops'
    OBVIOUS
<1> USE LoggerIs DEF LoggerLoops
<1>t. at \in [{LoggerTask, Cli} -> Points] /\ sending \in [Tasks -> {"no", "waiting", "blocked"}]
      BY DEF QueueInv, QueueTypes
<1>1. ASSUME NEW t \in Tasks, \/ t \in Producers /\ ProducerLogs(t)
                              \/ Send(t) \/ Overrun(t)
      PROVE  LoggerLoops'
      BY <1>1, <1>t DEF ProducerLogs, Log, Send, Overrun
<1>2. ASSUME LoggerSteps
      PROVE  LoggerLoops'
      BY <1>2, <1>t DEF LoggerSteps, LoggerStarts, LoadConfig, LoggerLoaded, Receive, Take,
                        TakeTimesOut, PrintMessage, Redraw, Step, InLoop
<1>3. ASSUME CliSteps
      PROVE  LoggerLoops'
      BY <1>3, <1>t DEF CliSteps, CliStarts, FirstPrompt, Character, Enter, CommandLogs,
                        CommandEnds, Step, Log
<1>4. ASSUME UNCHANGED vars
      PROVE  LoggerLoops'
      BY <1>4 DEF vars
<1> QED  BY <1>1, <1>2, <1>3, <1>4 DEF Next

(***************************************************************************)
(* vLoggerTask, which alone makes room in the queue, finds it full before  *)
(* its loop only where other tasks have logged QueueLength - 1 messages or *)
(* more by then: with fewer its own two never wait.  Nothing in logger.c   *)
(* keeps the others from doing so; then the logger waits for itself        *)
(* (LoggingReturns is violated).  In its loop it logs nothing, so what     *)
(* others wait for then is a task that does not wait for room.             *)
(***************************************************************************)
THEOREM OthersMustFillTheQueue ==
  Spec => []RoomForTheLogger /\ [][LoggerLoops => LoggerLoops']_vars
<1>1. QueueInv /\ [Next]_vars => [LoggerLoops => LoggerLoops']_vars
      BY LoopGoesOn
<1> QED  BY <1>1, AlwaysQueue, OthersFillTheQueue, PTL DEF Spec
=============================================================================
