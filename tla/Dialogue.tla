------------------------------ MODULE Dialogue ------------------------------
(***************************************************************************)
(* What a program and its peer promise of a conversation: the messages of  *)
(* a script are said one at a time, the next one only after the last was   *)
(* heard, and as long as the connection lasts the conversation goes on to  *)
(* the end of the script.  GmExchange and TasslExchange implement it.      *)
(***************************************************************************)
EXTENDS Naturals, Sequences

CONSTANT Script   \* the messages, in the order they are said

VARIABLES
  phase,   \* "closed" until both sides can talk, then "open", perhaps "lost"
  said,    \* the messages said and not lost
  heard    \* the messages that reached the program they were said to

vars == <<phase, said, heard>>

Init == phase = "closed" /\ said = <<>> /\ heard = <<>>

Open == phase = "closed" /\ phase' = "open" /\ UNCHANGED <<said, heard>>

Say ==
  /\ phase = "open" /\ said = heard /\ said # Script
  /\ said' = Append(said, Script[Len(said) + 1])
  /\ UNCHANGED <<phase, heard>>

Hear == phase = "open" /\ heard # said /\ heard' = said /\ UNCHANGED <<phase, said>>

(* What was on its way is gone. *)
Lose == phase = "open" /\ phase' = "lost" /\ said' = heard /\ UNCHANGED heard

Next == Open \/ Say \/ Hear \/ Lose

Spec == Init /\ [][Next]_vars /\ WF_vars(Say \/ Hear)
=============================================================================
