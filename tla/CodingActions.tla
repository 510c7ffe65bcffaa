--------------------------- MODULE CodingActions ---------------------------
(***************************************************************************)
(* The tools of a coding agent (plugins/langchain/coding_tools.py): tasks  *)
(* that run commands and apply changes beside each other, each after a     *)
(* human has approved it on the one console.  A turn of the agent that     *)
(* times out cancels them all; closing the plugin cancels the commands.    *)
(***************************************************************************)
EXTENDS Naturals, Sequences

CONSTANTS Task, Request, Change, Content, Nobody, MaxTyped

ASSUME NobodyAssumption == Nobody \notin Task \cup Request \cup Change

VARIABLES
  closed, running, attempted, results, call, hit, waits, alive, aborted,
  launched, cancelled,
  file, pending, applied, writer, line, changing, writes,
  asking, holder, queue, screen, typed

Runner == INSTANCE CommandRunner
Changes == INSTANCE WorkspaceChanges
Console == INSTANCE ConsoleApproval WITH Op <- Request \cup Change

runner == <<closed, running, attempted, results, call, hit, waits, alive,
            aborted, launched, cancelled>>
changes == <<file, pending, applied, writer, line, changing, writes>>
console == <<asking, holder, queue, screen, typed>>
vars == <<runner, changes, console>>

TypeOK == Runner!TypeOK /\ Changes!TypeOK /\ Console!TypeOK

Init == Runner!Init /\ Changes!Init /\ Console!Init

OnlyRunner == UNCHANGED <<changes, console>>
OnlyChanges == UNCHANGED <<runner, console>>
OnlyConsole == UNCHANGED <<runner, changes>>

Free(t) == call[t] = Runner!Out /\ changing[t] = Nobody
Editing == {t \in Task : changing[t] # Nobody}

(***************************************************************************)
(* Commands                                                                *)
(***************************************************************************)
RunCommand(t, r) ==
  /\ Free(t)
  /\ Runner!Run(t, r)
  /\ Console!Ask(t, r)
  /\ UNCHANGED changes

CommandAnswered(t, yes) ==
  /\ Console!Reply(t, yes)
  /\ IF yes THEN \E starts \in BOOLEAN : Runner!Approved(t, starts)
            ELSE Runner!Denied(t)
  /\ UNCHANGED changes

CommandGivenUp(t) ==
  /\ Runner!GiveUp(t)
  /\ Console!Withdraw(t)
  /\ UNCHANGED changes

CommandStep(t) ==
  /\ \/ Runner!Started(t)
     \/ Runner!AbortStart(t)
     \/ Runner!LeaveStart(t)
     \/ Runner!Ended(t)
     \/ Runner!Unwind(t)
     \/ Runner!Stopped(t)
     \/ Runner!Waited(t)
  /\ OnlyRunner

CommandTimedOut(t) == Runner!TimedOut(t) /\ OnlyRunner
CancelCommand(t, r) == Free(t) /\ Runner!Cancel(t, r) /\ OnlyRunner
CloseRunner(t) == Free(t) /\ Runner!Close(t) /\ OnlyRunner
ProcessExits(r) == Runner!Exits(r) /\ OnlyRunner
ProcessKilled(r) == Runner!Killed(r) /\ ProcessExits(r)

(***************************************************************************)
(* Changes                                                                 *)
(***************************************************************************)
PreviewChange(c, content) == Changes!Propose(c, content) /\ OnlyChanges

ApplyChange(t, c) ==
  /\ Free(t)
  /\ \/ Changes!Apply(t, c) /\ Console!Ask(t, c)
     \/ Changes!ApplyLater(t, c) /\ UNCHANGED console
  /\ UNCHANGED runner

ChangeTurn(t) ==
  /\ t \notin hit
  /\ \/ Changes!ApplyNext(t) /\ Console!Ask(t, changing[t])
     \/ Changes!ApplyGone(t) /\ UNCHANGED console
  /\ UNCHANGED runner

ChangeAnswered(t, yes) ==
  /\ writer = t
  /\ t \notin hit
  /\ Console!Reply(t, yes)
  /\ \/ Changes!Rejected(t)
     \/ yes /\ Changes!Written(t)
  /\ UNCHANGED runner

ChangeGivenUp(t) ==
  /\ t \in hit
  /\ Changes!Abandon(t)
  /\ IF asking[t] = Nobody THEN UNCHANGED console ELSE Console!Withdraw(t)
  /\ Runner!EndElsewhere(t)

EditFile(content) == Changes!Edit(content) /\ OnlyChanges

(***************************************************************************)
(* The console and the turn                                                *)
(***************************************************************************)
ShowPrompt(t) == t \notin hit /\ Console!Prompt(t) /\ OnlyConsole
TypeLine(yes) == Console!Type(yes) /\ OnlyConsole

ReadChat ==
  /\ Runner!Tasks \cup Editing = {}
  /\ Console!Chat
  /\ OnlyConsole

TurnInterrupted == Runner!Interrupt(Runner!Tasks \cup Editing) /\ OnlyRunner

(***************************************************************************)
(* Specification                                                           *)
(***************************************************************************)
\* What a task does next by itself: the event loop will run it.
Proceeds(t) ==
  \/ CommandStep(t)
  \/ CommandGivenUp(t)
  \/ ChangeTurn(t)
  \/ ChangeGivenUp(t)
  \/ ShowPrompt(t)
  \/ \E yes \in BOOLEAN : CommandAnswered(t, yes)
  \/ \E yes \in BOOLEAN : ChangeAnswered(t, yes)

Next ==
  \/ \E t \in Task : Proceeds(t)
  \/ \E t \in Task, r \in Request : RunCommand(t, r)
  \/ \E t \in Task, r \in Request : CancelCommand(t, r)
  \/ \E t \in Task : CloseRunner(t)
  \/ \E t \in Task : CommandTimedOut(t)
  \/ \E r \in Request : ProcessExits(r)
  \/ \E c \in Change, content \in Content : PreviewChange(c, content)
  \/ \E t \in Task, c \in Change : ApplyChange(t, c)
  \/ \E content \in Content \cup {Nobody} : EditFile(content)
  \/ \E yes \in BOOLEAN : TypeLine(yes)
  \/ ReadChat
  \/ TurnInterrupted

Spec == Init /\ [][Next]_vars

\* The event loop runs whoever can go on, and SIGKILL ends a process.
FairSpec ==
  /\ Spec
  /\ \A t \in Task : WF_vars(Proceeds(t))
  /\ \A r \in Request : WF_vars(ProcessKilled(r))

(***************************************************************************)
(* Properties                                                              *)
(***************************************************************************)
\* Five invariants of the runner, of which the code does not keep the last,
\* and one of the changes.
RunsOnce == Runner!RunsOnce
NoProcessLeft == Runner!NoProcessLeft
CloseIsQuiet == Runner!CloseIsQuiet
CancelledHasNoResult == Runner!CancelledHasNoResult
KilledIsAwaited == Runner!KilledIsAwaited
AppliedOnce == Changes!AppliedOnce

\* What the next line decides is what the screen shows: whoever has the
\* console awaits approval of the operation of the prompt printed last, and
\* of no other, whatever is in line behind it and was cancelled before.
AnswerIsForThePrompt ==
  \A t \in Task : holder = t =>
    /\ screen # Nobody
    /\ screen = IF changing[t] # Nobody THEN changing[t] ELSE call[t].request

\* The tests: only an explicit yes allows the action displayed.  So nothing
\* that was typed before a prompt is printed may answer it.
YesIsForThePrompt ==
  [][\A t \in Task : holder' = t /\ holder # t => typed = <<>>]_vars

\* close() and cancel() return, whether or not anybody answers the prompts
\* and whatever the processes do.
WaitsEnd ==
  \A t \in Task : call[t].at \in {"cancel", "close"} ~>
                    call[t].at \notin {"cancel", "close"}

\* A human who answers prompts and the timeout of commands.
Answered ==
  /\ WF_vars(\E yes \in BOOLEAN : TypeLine(yes))
  /\ \A t \in Task : WF_vars(CommandTimedOut(t))

\* If prompts are answered, every command and change ends: nobody waits for
\* ever for the lock of the changes, which is held while the prompt is
\* awaited, or for the prompt.
CallsEnd == Answered => \A t \in Task : ~Free(t) ~> Free(t)
=============================================================================
