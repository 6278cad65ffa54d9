---------------------------- MODULE Transcripts -----------------------------
(***************************************************************************)
(* What a chat memory promises: of every session it knows the last turns,  *)
(* whole and in the order in which they were answered, until the session   *)
(* was idle for too long.                                                  *)
(***************************************************************************)
EXTENDS Naturals, Sequences

CONSTANTS Sessions, \* session ids
          Turns,    \* a question and its answer
          Keep,     \* how many turns are kept
          ttl,      \* ticks after which an idle session is forgotten
          None      \* no session

VARIABLES
  turns, \* what is known of each session
  idle,  \* ticks since its last turn
  chat   \* what each turn is at

vars == <<turns, idle, chat>>

Over == [pc |-> "over", session |-> None, history |-> <<>>]

Init ==
  /\ turns = [s \in Sessions |-> <<>>]
  /\ idle = [s \in Sessions |-> 0]
  /\ chat = [t \in Turns |-> Over]

\* A question is put, with what is known of its session.
Ask(t, s) ==
  /\ chat[t].pc = "over"
  /\ chat' = [chat EXCEPT ![t] = [pc |-> "asked", session |-> s, history |-> turns[s]]]
  /\ UNCHANGED <<turns, idle>>

LastOf(seq) == IF Len(seq) > Keep THEN SubSeq(seq, Len(seq) - Keep + 1, Len(seq)) ELSE seq

\* It is answered, and becomes part of its session.
Answer(t) ==
  LET s == chat[t].session IN
  /\ chat[t].pc = "asked"
  /\ turns' = [turns EXCEPT ![s] = LastOf(Append(@, t))]
  /\ idle' = [idle EXCEPT ![s] = 0]
  /\ chat' = [chat EXCEPT ![t] = Over]

\* There is no answer.
GiveUp(t) ==
  /\ chat[t].pc = "asked"
  /\ chat' = [chat EXCEPT ![t] = Over]
  /\ UNCHANGED <<turns, idle>>

Expired(s) == turns[s] # <<>> /\ idle[s] = ttl

Tick ==
  /\ turns' = [s \in Sessions |-> IF Expired(s) THEN <<>> ELSE turns[s]]
  /\ idle' = [s \in Sessions |-> IF turns[s] = <<>> \/ Expired(s) THEN 0 ELSE idle[s] + 1]
  /\ UNCHANGED chat

\* Everything is forgotten, and questions stay unanswered.
Restart ==
  /\ turns' = [s \in Sessions |-> <<>>]
  /\ idle' = [s \in Sessions |-> 0]
  /\ chat' = [t \in Turns |-> Over]

Next == \/ \E t \in Turns : (\E s \in Sessions : Ask(t, s)) \/ Answer(t) \/ GiveUp(t)
        \/ Tick \/ Restart

Spec == Init /\ [][Next]_vars
=============================================================================
