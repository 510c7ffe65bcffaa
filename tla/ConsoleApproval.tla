-------------------------- MODULE ConsoleApproval --------------------------
(***************************************************************************)
(* ConsoleApproval.confirm (interfaces/approval.py): one prompt at a time  *)
(* on the reader that the chat of the command line reads too.  A prompt    *)
(* names the operation it is about, and the next line of the reader        *)
(* answers it.                                                             *)
(***************************************************************************)
EXTENDS Naturals, Sequences, SequencesExt

CONSTANTS
  Task,      \* tasks that ask
  Op,        \* operations they ask about
  Nobody,
  MaxTyped   \* bound: lines typed and not yet read

VARIABLES
  asking,   \* the operation each task has asked about
  holder,   \* the task that holds _lock
  queue,    \* the tasks that wait for _lock, first come first served
  screen,   \* the operation of the prompt printed last
  typed     \* the lines in the reader: each says yes, or anything else

vars == <<asking, holder, queue, screen, typed>>

TypeOK ==
  /\ asking \in [Task -> Op \cup {Nobody}]
  /\ holder \in Task \cup {Nobody}
  /\ queue \in Seq(Task)
  /\ screen \in Op \cup {Nobody}
  /\ typed \in Seq(BOOLEAN)

Init ==
  /\ asking = [t \in Task |-> Nobody]
  /\ holder = Nobody
  /\ queue = <<>>
  /\ screen = Nobody
  /\ typed = <<>>

Locked == holder # Nobody \/ queue # <<>>

AskPrinting(t, x) ==  \* (mutant) the prompt is printed before the lock is had
  /\ asking[t] = Nobody
  /\ asking' = [asking EXCEPT ![t] = x]
  /\ screen' = x
  /\ IF Locked
       THEN queue' = Append(queue, t) /\ UNCHANGED holder
       ELSE holder' = t /\ UNCHANGED queue
  /\ UNCHANGED typed

Ask(t, x) ==
  /\ asking[t] = Nobody
  /\ asking' = [asking EXCEPT ![t] = x]
  /\ IF Locked
       THEN queue' = Append(queue, t) /\ UNCHANGED <<holder, screen>>
       ELSE holder' = t /\ screen' = x /\ UNCHANGED queue
  /\ UNCHANGED typed

Prompt(t) ==
  /\ holder = Nobody
  /\ queue # <<>>
  /\ t = Head(queue)
  /\ holder' = t
  /\ queue' = Tail(queue)
  /\ screen' = asking[t]
  /\ UNCHANGED <<asking, typed>>

DoneHolding(t) ==  \* (mutant) the lock is not released
  asking' = [asking EXCEPT ![t] = Nobody] /\ UNCHANGED <<holder, queue>>

\* The task is done with the prompt and the lock, or with waiting for it.
Done(t) ==
  /\ asking' = [asking EXCEPT ![t] = Nobody]
  /\ holder' = IF holder = t THEN Nobody ELSE holder
  /\ queue' = RemoveFirst(queue, t)

\* readline() returns the line that was typed first, before or after the
\* prompt was printed.
Reply(t, yes) ==
  /\ holder = t
  /\ typed # <<>>
  /\ yes = Head(typed)
  /\ typed' = Tail(typed)
  /\ Done(t)
  /\ UNCHANGED screen

\* The task is cancelled in confirm(); what was typed stays in the reader.
Withdraw(t) ==
  /\ asking[t] # Nobody
  /\ Done(t)
  /\ UNCHANGED <<screen, typed>>

Type(yes) ==
  /\ Len(typed) < MaxTyped
  /\ typed' = Append(typed, yes)
  /\ UNCHANGED <<asking, holder, queue, screen>>

\* Between two turns the chat prints its own prompt and reads the next line.
Chat ==
  /\ typed # <<>>
  /\ typed' = Tail(typed)
  /\ screen' = Nobody
  /\ UNCHANGED <<asking, holder, queue>>
=============================================================================
