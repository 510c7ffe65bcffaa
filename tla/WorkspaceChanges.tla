-------------------------- MODULE WorkspaceChanges --------------------------
(***************************************************************************)
(* LocalWorkspaceChanges (plugins/changes.py) and one file: a preview of   *)
(* its replacement, kept under a new id, which is applied once after       *)
(* somebody approves it, and only to the content that was previewed.       *)
(***************************************************************************)
EXTENDS Naturals, Sequences, SequencesExt

CONSTANTS
  Task,
  Change,    \* ids of previews
  Content,   \* contents of the file; Nobody: there is no file
  Nobody

VARIABLES
  file,      \* the content on the disk
  pending,   \* _pending: what each change replaces, and by what
  applied,   \* _applied
  writer,    \* the task that holds _lock
  line,      \* the tasks that wait for _lock, first come first served
  changing,  \* the change each task applies
  writes     \* history: how often each change was written

vars == <<file, pending, applied, writer, line, changing, writes>>

Preview == [before : Content \cup {Nobody}, content : Content]
None == [before |-> Nobody, content |-> Nobody]

TypeOK ==
  /\ file \in Content \cup {Nobody}
  /\ pending \in [Change -> Preview \cup {None}]
  /\ applied \subseteq Change
  /\ writer \in Task \cup {Nobody}
  /\ line \in Seq(Task)
  /\ changing \in [Task -> Change \cup {Nobody}]
  /\ writes \in [Change -> Nat]

Init ==
  /\ file \in Content \cup {Nobody}
  /\ pending = [c \in Change |-> None]
  /\ applied = {}
  /\ writer = Nobody
  /\ line = <<>>
  /\ changing = [t \in Task |-> Nobody]
  /\ writes = [c \in Change |-> 0]

\* preview() awaits nothing.
Propose(c, content) ==
  /\ pending[c] = None
  /\ c \notin applied
  /\ pending' = [pending EXCEPT ![c] = [before |-> file, content |-> content]]
  /\ UNCHANGED <<file, applied, writer, line, changing, writes>>

(***************************************************************************)
(* apply()                                                                 *)
(***************************************************************************)
\* _apply() gets as far as the approval; otherwise the change is applied
\* already, or unknown, and apply() returns or raises at once.
LiveAlways(c) == TRUE  \* (mutant)
Live(c) == c \notin applied /\ pending[c] # None

Apply(t, c) ==
  /\ changing[t] = Nobody
  /\ Live(c)
  /\ writer = Nobody
  /\ line = <<>>
  /\ changing' = [changing EXCEPT ![t] = c]
  /\ writer' = t
  /\ UNCHANGED <<file, pending, applied, line, writes>>

ApplyLater(t, c) ==
  /\ changing[t] = Nobody
  /\ writer # Nobody \/ line # <<>>
  /\ changing' = [changing EXCEPT ![t] = c]
  /\ line' = Append(line, t)
  /\ UNCHANGED <<file, pending, applied, writer, writes>>

Turn(t) ==
  /\ changing[t] # Nobody
  /\ writer = Nobody
  /\ line # <<>>
  /\ t = Head(line)

ApplyNext(t) ==
  /\ Turn(t)
  /\ Live(changing[t])
  /\ writer' = t
  /\ line' = Tail(line)
  /\ UNCHANGED <<file, pending, applied, changing, writes>>

Finish(t) ==
  /\ changing' = [changing EXCEPT ![t] = Nobody]
  /\ writer' = IF writer = t THEN Nobody ELSE writer
  /\ line' = RemoveFirst(line, t)

ApplyGone(t) ==
  /\ Turn(t)
  /\ ~Live(changing[t])
  /\ Finish(t)
  /\ UNCHANGED <<file, pending, applied, writes>>

\* Denied, refused because the file changed or its path is not allowed any
\* more, or not written because of an OSError: the preview stays.
Rejected(t) ==
  /\ writer = t
  /\ Finish(t)
  /\ UNCHANGED <<file, pending, applied, writes>>

Unchanged(c) == file = pending[c].before

\* Approved, and the file is what was previewed: it is replaced.
Written(t) ==
  LET c == changing[t]
  IN  /\ writer = t
      /\ Unchanged(c)
      /\ file' = pending[c].content
      /\ applied' = applied \cup {c}
      /\ pending' = [pending EXCEPT ![c] = None]
      /\ writes' = [writes EXCEPT ![c] = @ + 1]
      /\ Finish(t)

\* The task is cancelled while it waits for the lock or the approval.
Abandon(t) ==
  /\ changing[t] # Nobody
  /\ Finish(t)
  /\ UNCHANGED <<file, pending, applied, writes>>

\* Somebody else writes or deletes the file: an editor, a command that runs.
Edit(content) ==
  /\ file # content
  /\ file' = content
  /\ UNCHANGED <<pending, applied, writer, line, changing, writes>>

(***************************************************************************)
(* Properties                                                              *)
(***************************************************************************)
\* However often and by whomever a change is applied, it is written once,
\* even when the file is back to what it was.
AppliedOnce == \A c \in Change : writes[c] <= 1

(***************************************************************************)
(* The invariant behind it                                                 *)
(***************************************************************************)
\* What was written is applied, and was written once; what the writer is
\* about to write is not applied, and its preview is there.
IInv ==
  /\ DOMAIN pending = Change /\ pending = [c \in Change |-> pending[c]]
  /\ writer \in Task \cup {Nobody}
  /\ changing \in [Task -> Change \cup {Nobody}]
  /\ writes \in [Change -> Nat]
  /\ \A c \in Change : writes[c] = 0 \/ (writes[c] = 1 /\ c \in applied)
  /\ \A t \in Task : writer = t => changing[t] \in Change /\ Live(changing[t])
=============================================================================
