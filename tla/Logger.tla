------------------------------- MODULE Logger -------------------------------
(***************************************************************************)
(* The console (src/src/logger/logger.c, vCLITask of                       *)
(* src/src/cli-task/cli_task.c): tasks put log messages into a bounded     *)
(* queue, the logger task prints them, and the command line shares the     *)
(* terminal with it through the stdio mutex, which it holds for as long as *)
(* a command runs.  Commands log too, and so does the logger itself before *)
(* it takes the first message.                                             *)
(*                                                                         *)
(* Time is left out: a timed wait may end unsuccessfully whenever what it  *)
(* waits for is not there.  Of the terminal only the bottom line is kept.  *)
(***************************************************************************)
EXTENDS Integers, Sequences, FiniteSets

CONSTANTS LoggerTask, Cli, \* the two tasks that print
          Producers,       \* the other tasks
          Nobody,          \* not a task
          QueueLength,     \* LOGGER_QUEUE_LENGTH
          MaxInput,        \* MAX_INPUT_LENGTH - 1
          MaxMessages      \* bound on the messages of each task

Tasks == Producers \cup {Cli, LoggerTask}

ASSUME LoggerAssumption == /\ LoggerTask # Cli /\ {LoggerTask, Cli} \cap Producers = {}
                           /\ Nobody \notin Tasks
                           /\ MaxInput \in Nat /\ MaxMessages \in Nat
                           /\ QueueLength \in Nat \ {0}

VARIABLES queue,    \* s_log_queue: [task, n], the n-th message of a task
          holder,   \* of s_stdio_mutex
          at,       \* where the logger and the command line are in their tasks
          sending,  \* of each task, in logger_log_va: no, waiting, blocked
          n,        \* how many messages each task has logged
          msg,      \* the message the logger has taken
          prompt,   \* s_prompt_active
          input,    \* s_input_index
          line,     \* the bottom line of the terminal: [prompt, typed]
          broken    \* history: a warning was printed since the line was last repainted

vars == <<queue, holder, at, sending, n, msg, prompt, input, line, broken>>

Blank == [prompt |-> FALSE, typed |-> 0]
Prompted(k) == [prompt |-> TRUE, typed |-> k]

Init == /\ queue = <<>>
        /\ holder = Nobody
        /\ at = [t \in {LoggerTask, Cli} |-> "started"]
        /\ sending = [t \in Tasks |-> "no"]
        /\ n = [t \in Tasks |-> 0]
        /\ msg = [task |-> LoggerTask, n |-> 0]
        /\ prompt = FALSE /\ input = 0 /\ line = Blank /\ broken = FALSE

Step(t, from, to) == /\ at[t] = from /\ sending[t] = "no"
                     /\ at' = [at EXCEPT ![t] = to]

-----------------------------------------------------------------------------
\* logger_log_va of a message that passes the filter.
Log(t) == /\ sending[t] = "no" /\ n[t] < MaxMessages
          /\ sending' = [sending EXCEPT ![t] = "waiting"]
          /\ n' = [n EXCEPT ![t] = @ + 1]

ProducerLogs(t) == /\ t \in Producers
                   /\ Log(t)
                   /\ UNCHANGED <<queue, holder, at, msg, prompt, input, line, broken>>

\* xQueueSend: within 5 ms, or after the warning.
Send(t) == /\ sending[t] # "no"
           /\ Len(queue) < QueueLength
           /\ queue' = Append(queue, [task |-> t, n |-> n[t]])
           /\ sending' = [sending EXCEPT ![t] = "no"]
           /\ UNCHANGED <<holder, at, n, msg, prompt, input, line, broken>>

\* 5 ms have passed: a warning goes to the terminal past the mutex.
Overrun(t) == /\ sending[t] = "waiting"
              /\ Len(queue) = QueueLength
              /\ sending' = [sending EXCEPT ![t] = "blocked"]
              /\ line' = Blank
              /\ broken' = TRUE
              /\ UNCHANGED <<queue, holder, at, n, msg, prompt, input>>

-----------------------------------------------------------------------------
\* vLoggerTask: its first message, the device's logger configuration, which
\* may filter the second one, and the second message.
LoggerStarts == /\ Step(LoggerTask, "started", "load")
                /\ Log(LoggerTask)
                /\ UNCHANGED <<queue, holder, msg, prompt, input, line, broken>>

LoadConfig == /\ \E next \in {"loaded", "receive"} : Step(LoggerTask, "load", next)
              /\ UNCHANGED <<queue, holder, sending, n, msg, prompt, input, line, broken>>

LoggerLoaded == /\ Step(LoggerTask, "loaded", "receive")
                /\ Log(LoggerTask)
                /\ UNCHANGED <<queue, holder, msg, prompt, input, line, broken>>

Receive == /\ Step(LoggerTask, "receive", "take")
           /\ queue # <<>>
           /\ msg' = Head(queue)
           /\ queue' = Tail(queue)
           /\ UNCHANGED <<holder, sending, n, prompt, input, line, broken>>

Take == /\ Step(LoggerTask, "take", "print")
        /\ holder = Nobody
        /\ holder' = LoggerTask
        /\ UNCHANGED <<queue, sending, n, msg, prompt, input, line, broken>>

\* Were it like this, the logger would try again for the mutex of a command
\* that waits for the logger (EveryoneGoesOn).
TakeAgain == /\ Step(LoggerTask, "take", "take")
             /\ holder # Nobody
             /\ UNCHANGED <<queue, holder, sending, n, msg, prompt, input, line, broken>>

\* A second has passed: the message is dropped.
TakeTimesOut == /\ Step(LoggerTask, "take", "receive")
                /\ holder # Nobody
                /\ UNCHANGED <<queue, holder, sending, n, msg, prompt, input, line, broken>>

\* The bottom line is erased and becomes the message's.
PrintMessage == /\ Step(LoggerTask, "print", "redraw")
                /\ line' = Blank
                /\ UNCHANGED <<queue, holder, sending, n, msg, prompt, input, broken>>

\* Were it like this, what was typed would be gone from the terminal
\* (PromptShowsInput).
RedrawPrompt == /\ Step(LoggerTask, "redraw", "receive")
                /\ line' = IF prompt THEN Prompted(0) ELSE line
                /\ broken' = FALSE
                /\ holder' = Nobody
                /\ UNCHANGED <<queue, sending, n, msg, prompt, input>>

\* cli_redraw_input, and the mutex is given back.
Redraw == /\ Step(LoggerTask, "redraw", "receive")
          /\ line' = IF prompt THEN Prompted(input) ELSE line
          /\ broken' = FALSE
          /\ holder' = Nobody
          /\ UNCHANGED <<queue, sending, n, msg, prompt, input>>

-----------------------------------------------------------------------------
\* vCLITask.
CliStarts == /\ Step(Cli, "started", "prompt")
             /\ Log(Cli)
             /\ UNCHANGED <<queue, holder, msg, prompt, input, line, broken>>

FirstPrompt == /\ Step(Cli, "prompt", "read")
               /\ holder = Nobody
               /\ prompt' = TRUE
               /\ line' = Prompted(input)
               /\ broken' = FALSE
               /\ UNCHANGED <<queue, holder, sending, n, msg, input>>

Typed(k) == line' = [line EXCEPT !.typed = IF @ + k < 0 THEN 0 ELSE @ + k]

\* A character, echoed under the mutex unless the buffer is full; backspace.
Character == /\ Step(Cli, "read", "read")
             /\ holder = Nobody
             /\ \/ /\ input < MaxInput
                   /\ input' = input + 1 /\ Typed(1)
                \/ /\ input > 0
                   /\ input' = input - 1 /\ Typed(-1)
             /\ UNCHANGED <<queue, holder, sending, n, msg, prompt, broken>>

\* The end of a line: the mutex is held until the command is done.
Enter == /\ Step(Cli, "read", "command")
         /\ holder = Nobody
         /\ holder' = Cli
         /\ line' = Blank
         /\ UNCHANGED <<queue, sending, n, msg, prompt, input, broken>>

CommandLogs == /\ Step(Cli, "command", "command")
               /\ input > 0
               /\ Log(Cli)
               /\ UNCHANGED <<queue, holder, msg, prompt, input, line, broken>>

CommandEnds == /\ Step(Cli, "command", "read")
               /\ input' = 0
               /\ line' = Prompted(0)
               /\ broken' = FALSE
               /\ holder' = Nobody
               /\ UNCHANGED <<queue, sending, n, msg, prompt>>

LoggerSteps == \/ LoggerStarts \/ LoadConfig \/ LoggerLoaded \/ Receive
               \/ Take \/ TakeTimesOut \/ PrintMessage \/ Redraw

CliSteps == CliStarts \/ FirstPrompt \/ Character \/ Enter \/ CommandLogs \/ CommandEnds

Next == \/ \E t \in Producers : ProducerLogs(t)
        \/ \E t \in Tasks : Send(t) \/ Overrun(t)
        \/ LoggerSteps
        \/ CliSteps

Spec == Init /\ [][Next]_vars

\* The logger task runs, if last of all; the queue serves those who wait; a
\* command that does not wait comes to its end.
FairSpec == /\ Spec
            /\ WF_vars(LoggerSteps)
            /\ WF_vars(CommandEnds)
            /\ \A t \in Tasks : WF_vars(Send(t))

-----------------------------------------------------------------------------
(* Properties *)

(***************************************************************************)
(* Between two lines the terminal's bottom line is the prompt and what has *)
(* been typed, as s_input_buffer holds it: log messages and commands share *)
(* the terminal without tearing the input.  The warning of a full queue,   *)
(* printed past the mutex, spoils the line until the next repaint.         *)
(***************************************************************************)
PromptShowsInput ==
  holder = Nobody /\ prompt /\ ~broken => line = Prompted(input)

\* The messages of the other tasks, and the loop in which the logger makes
\* room: it enters it once its own messages are in the queue.
OfOthers == {e \in (Tasks \ {LoggerTask}) \X (1 .. MaxMessages) : e[2] <= n[e[1]]}
InLoop == {"receive", "take", "print", "redraw"}
LoggerLoops == at[LoggerTask] \in InLoop /\ sending[LoggerTask] = "no"

\* Fewer messages of the other tasks than fill the queue before the logger's.
FewOfOthers == Cardinality(OfOthers) < QueueLength - 1

(***************************************************************************)
(* vLoggerTask, which alone makes room in the queue, waits for room itself *)
(* only where the other tasks have filled the queue before it: otherwise   *)
(* the two messages it logs before its loop (logger.c:111, :118) find room.*)
(***************************************************************************)
RoomForTheLogger == ~LoggerLoops /\ Len(queue) = QueueLength => ~FewOfOthers

(***************************************************************************)
(* The logger comes to its loop if the others leave it that room.  When it *)
(* has come there, in spite of them or not, nobody waits for ever: a task  *)
(* that logs goes on, also when the queue is full, and a command comes to  *)
(* its end, also when it logs while it keeps the logger from the terminal. *)
(***************************************************************************)
EveryoneGoesOn ==
  /\ [](LoggerLoops \/ FewOfOthers) => <>LoggerLoops
  /\ <>LoggerLoops => /\ \A t \in Tasks : sending[t] # "no" ~> sending[t] = "no"
                      /\ at[Cli] = "command" ~> at[Cli] = "read"

(***************************************************************************)
(* "Non-blocking logging from any task" (logger.h:9): whoever logs goes on *)
(* at some time, also while the tasks start.                               *)
(***************************************************************************)
LoggingReturns == \A t \in Tasks : sending[t] # "no" ~> sending[t] = "no"
=============================================================================
