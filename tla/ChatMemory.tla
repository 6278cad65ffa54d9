----------------------------- MODULE ChatMemory -----------------------------
(***************************************************************************)
(* The memory of the chatbot.  Service.Chat reads the history of its       *)
(* session, asks the model, which takes long and may fail, and appends     *)
(* question and answer.  Messages and Append run under a mutex, as one     *)
(* step each; other requests, of the same session too, come in between.    *)
(* Expired sessions stay until somebody asks for them or a sweep finds     *)
(* them.  What retrieval adds to the prompt is left out.                   *)
(***************************************************************************)
EXTENDS Naturals, FiniteSets, Sequences

CONSTANTS Sessions,   \* session ids; one that is made up for a request is among them
          Turns,      \* requests; bound: one is used again when nothing is left of it
          maxMsg,     \* CHAT_HISTORY_MAX
          ttl,        \* CHAT_HISTORY_TTL, in ticks
          maxSessions,
          None        \* no session

ASSUME ChatMemoryAssumption ==
  /\ maxMsg \in Nat \ {0} /\ ttl \in Nat \ {0}
  /\ maxSessions \in Nat

VARIABLES
  stored,   \* the sessions in the map
  messages, \* and their messages
  age,      \* ticks since lastUsed, ttl + 1 for all that are longer ago; 0 if not stored
  chat      \* what each request is at

vars == <<stored, messages, age, chat>>

Messages == [role : {"user", "assistant"}, turn : Turns]

Expired(s) == age[s] > ttl

Pair(t) == <<[role |-> "user", turn |-> t], [role |-> "assistant", turn |-> t]>>

\* Histories consist of whole turns.
Whole(msgs) ==
  /\ Len(msgs) % 2 = 0
  /\ \A i \in 1 .. Len(msgs) \div 2 : SubSeq(msgs, 2 * i - 1, 2 * i) = Pair(msgs[2 * i].turn)

\* Every variable has its type; histories are whole turns and no longer than they
\* may be, and sessions that are not stored have none.
TypeOK ==
  /\ stored \subseteq Sessions
  /\ messages \in [Sessions -> Seq(Messages)]
  /\ age \in [Sessions -> 0 .. ttl + 1]
  /\ chat \in [Turns -> [pc : {"over", "asked"}, session : Sessions \cup {None},
                         history : Seq(Messages)]]
  /\ \A s \in Sessions : /\ Whole(messages[s]) /\ Len(messages[s]) <= maxMsg
                         /\ s \notin stored => messages[s] = <<>> /\ age[s] = 0

Over == [pc |-> "over", session |-> None, history |-> <<>>]

Init ==
  /\ stored = {}
  /\ messages = [s \in Sessions |-> <<>>]
  /\ age = [s \in Sessions |-> 0]
  /\ chat = [t \in Turns |-> Over]
-----------------------------------------------------------------------------
\* Messages.
Shown(s) == IF s \in stored /\ ~Expired(s) THEN messages[s] ELSE <<>>

Gone(t) == \A s \in Sessions : \A i \in DOMAIN messages[s] : messages[s][i].turn # t

\* A request reads its session's history; an expired one is deleted.
Ask(t, s) ==
  /\ chat[t].pc = "over" /\ Gone(t)
  /\ chat' = [chat EXCEPT ![t] = [pc |-> "asked", session |-> s, history |-> Shown(s)]]
  /\ IF Expired(s)
     THEN /\ stored' = stored \ {s}
          /\ messages' = [messages EXCEPT ![s] = <<>>]
          /\ age' = [age EXCEPT ![s] = 0]
     ELSE UNCHANGED <<stored, messages, age>>

\* sweepLocked.
Swept == IF Cardinality(stored) < maxSessions THEN {} ELSE {s \in stored : Expired(s)}

\* Slip: an answer may stay without its question.
TrimmedOdd(msgs) ==
  IF Len(msgs) > maxMsg THEN SubSeq(msgs, Len(msgs) - maxMsg + 1, Len(msgs)) ELSE msgs

\* The excess is rounded up to whole turns.
Trimmed(msgs) ==
  LET excess == IF Len(msgs) > maxMsg THEN Len(msgs) - maxMsg ELSE 0
  IN SubSeq(msgs, excess + (excess % 2) + 1, Len(msgs))

\* Slip: the history that was read is written back.
AppendedToRead(t) == chat[t].history \o Pair(t)

\* What Append makes of the session: a new one if it is gone or expired.
Appended(t) == Shown(chat[t].session) \o Pair(t)

AppendTurn(t) ==
  LET s == chat[t].session IN
  /\ chat[t].pc = "asked"
  /\ stored' = (stored \ Swept) \cup {s}
  /\ messages' = [x \in Sessions |-> IF x = s THEN Trimmed(Appended(t))
                                     ELSE IF x \in Swept THEN <<>> ELSE messages[x]]
  /\ age' = [x \in Sessions |-> IF x \in Swept \cup {s} THEN 0 ELSE age[x]]
  /\ chat' = [chat EXCEPT ![t] = Over]

\* The model does not answer, or the caller hangs up.
Fail(t) ==
  /\ chat[t].pc = "asked"
  /\ chat' = [chat EXCEPT ![t] = Over]
  /\ UNCHANGED <<stored, messages, age>>

Tick ==
  /\ age' = [s \in Sessions |-> IF s \notin stored \/ Expired(s) THEN age[s] ELSE age[s] + 1]
  /\ UNCHANGED <<stored, messages, chat>>

\* The server is started again.
Restart ==
  /\ stored' = {}
  /\ messages' = [s \in Sessions |-> <<>>]
  /\ age' = [s \in Sessions |-> 0]
  /\ chat' = [t \in Turns |-> Over]

Next == \/ \E t \in Turns : (\E s \in Sessions : Ask(t, s)) \/ AppendTurn(t) \/ Fail(t)
        \/ Tick \/ Restart

Spec == Init /\ [][Next]_vars
-----------------------------------------------------------------------------
(* Properties.                                                             *)

TurnsOf(msgs) == [i \in 1 .. Len(msgs) \div 2 |-> msgs[2 * i].turn]

Memory == INSTANCE Transcripts WITH
  Keep  <- maxMsg \div 2,
  turns <- [s \in Sessions |-> TurnsOf(Shown(s))],
  idle  <- [s \in Sessions |-> IF Shown(s) = <<>> THEN 0 ELSE age[s]],
  chat  <- [t \in Turns |-> [chat[t] EXCEPT !.history = TurnsOf(@)]]

\* "History is stored per sessionId in an in-memory store bounded to the last
\* CHAT_HISTORY_MAX messages with CHAT_HISTORY_TTL seconds of inactivity"
\* (nexxa.md): what a request is shown are the last turns answered in its session,
\* none of them lost to requests that overlap, to sweeping or to late deletion.
ImplementsTranscripts == Memory!Spec
=============================================================================
