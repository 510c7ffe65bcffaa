---------------------------- MODULE Conversation ----------------------------
(***************************************************************************)
(* What saved sessions promise (docs/guides/sessions.md): a conversation   *)
(* is a row of turns that are all answered, except for the last one while  *)
(* it runs; a turn that is never answered closes the conversation for      *)
(* good.                                                                   *)
(***************************************************************************)
CONSTANTS
  Session,  \* conversations
  Turn      \* questions of users

VARIABLES
  turns,  \* the turns of each conversation that are answered
  open    \* the turn of each conversation that is not: none or one

Init ==
  /\ turns = [s \in Session |-> {}]
  /\ open = [s \in Session |-> {}]

Begin(s, q) ==
  /\ open[s] = {}
  /\ q \notin turns[s]
  /\ open' = [open EXCEPT ![s] = {q}]
  /\ UNCHANGED turns

Complete(s, q) ==
  /\ open[s] = {q}
  /\ open' = [open EXCEPT ![s] = {}]
  /\ turns' = [turns EXCEPT ![s] = @ \cup {q}]

Next == \E s \in Session, q \in Turn : Begin(s, q) \/ Complete(s, q)

Spec == Init /\ [][Next]_<<turns, open>>
=============================================================================
