------------------------------- MODULE Nexxa --------------------------------
(***************************************************************************)
(* The AI endpoints: chat, match and cv-review.  Each has a rate limiter   *)
(* of its own and takes any number of calls at a time; a behaviour of this *)
(* module is that of one of them.  A call passes the limiter, is checked,  *)
(* asks the language model (chat asks for an embedding of the question     *)
(* before, and searches the knowledge base), and is answered with what the *)
(* model said, put into shape, or with an error.                           *)
(*                                                                         *)
(* Requests to the model end by LLMTimeout at the latest; what the server  *)
(* computes by itself takes no time.                                       *)
(***************************************************************************)
EXTENDS RateLimiter, MatchScores, CvAudit

CONSTANTS Routes,       \* the endpoints
          Callers,      \* bound: so many calls at a time
          Fields,       \* what a request holds: eight answers, or a CV and its counts
          Counts,       \* those of them that are the counts of a CV
          Outputs,      \* bound: what the model may say, of each endpoint
          LLMTimeout,   \* LLM_TIMEOUT, in ticks
          WriteTimeout, \* http.Server.WriteTimeout, in ticks
          None          \* no output, no result

ASSUME NexxaAssumption ==
  /\ Routes \subseteq {"chat", "match", "cv"} /\ Counts \subseteq Fields
  /\ \A r \in Routes : None \notin Outputs[r]
  /\ "match" \in Routes =>
       \A said \in Outputs["match"] : said.scores \in [Majors -> Int \cup {NaN}]
  /\ "cv" \in Routes =>
       \A said \in Outputs["cv"] :
         /\ said.lists \in [Lists -> Seq([name : STRING, object : BOOLEAN, complete : BOOLEAN])]
         /\ said.keys \in [Keys -> Seq(STRING)]
         /\ {said.summary, said.metrics} \subseteq BOOLEAN
         /\ {said.score, said.format_score} \subseteq Int
  /\ LLMTimeout \in Nat \ {0} /\ WriteTimeout \in Nat /\ WriteTimeout >= LLMTimeout

VARIABLES
  route, \* the endpoint; never changes
  calls, \* what each call is at
  reply  \* the last answer

nexxa == <<route, calls, reply>>

NoCall == [pc |-> "idle", since |-> 0, waited |-> 0]

Codes == {200, 400, 401, 422, 429, 502, 504}

\* Every variable has its type; nobody waits longer for the model than LLMTimeout.
NexxaTypeOK ==
  /\ TypeOK
  /\ route \in Routes
  /\ calls \in [Callers -> [pc : {"idle", "embed", "complete"}, since : Nat,
                            waited : 0 .. LLMTimeout]]
  /\ reply.code \in Codes /\ reply.since \in Nat
  /\ \A c \in Callers : /\ calls[c].waited <= calls[c].since
                        /\ calls[c].pc = "embed" => route = "chat"

NexxaInit ==
  /\ Init
  /\ route \in Routes
  /\ calls = [c \in Callers |-> NoCall]
  /\ reply = [code |-> 401, since |-> 0, said |-> None, result |-> None]
-----------------------------------------------------------------------------
(* Inputs.  A field is good, blank or left out, too long, or nothing but   *)
(* markup; a negative count is as a text that is too long, and one that is *)
(* no number as markup.                                                    *)

Inputs == [Fields -> {"good", "blank", "long", "markup"}]

\* Texts are required; the counts of words and pages of a CV are not.
Bad(f) == IF route = "cv" /\ f \in Counts THEN {"long", "markup"} ELSE {"blank", "long"}

\* The fields that are refused, by the endpoint and by validate-input.
FieldErrors(input) == {f \in Fields : input[f] \in Bad(f)}

Sanitized(input) == [f \in Fields |-> IF input[f] = "markup" THEN "blank" ELSE input[f]]

-----------------------------------------------------------------------------
(* Outputs.                                                                *)

\* What NormalizeNexxaOutput refuses.
NoMatch(said) == said.form # "json" \/ said.major \notin Majors \/ ~Acceptable(said.scores)

\* The answer to a call for which the model has said this.
Outcome(said) ==
  IF route = "chat" THEN [code |-> 200, result |-> said]
  ELSE IF route = "match"
  THEN IF NoMatch(said) THEN [code |-> 422, result |-> None]
       ELSE [code |-> 200, result |-> [major |-> said.major, shares |-> Shares(said.scores)]]
  ELSE IF Unusable(said) THEN [code |-> 422, result |-> None]
       ELSE [code |-> 200, result |-> Audit(said)]

Answer(code, said, result, since) ==
  reply' = [code |-> code, since |-> since, said |-> said, result |-> result]
-----------------------------------------------------------------------------
(* The endpoint.                                                           *)

\* Without a session cv-review is not even limited.
Unauthorized ==
  /\ route = "cv"
  /\ Answer(401, None, None, 0)
  /\ UNCHANGED <<vars, route, calls>>

\* A call passes the limiter, or is turned away.  Its body may not be a request, or
\* its input not be allowed.
Arrive(c, ip) ==
  /\ calls[c].pc = "idle"
  /\ Allow(ip)
  /\ UNCHANGED route
  /\ IF ~answer'.ok
     THEN Answer(429, None, None, 0) /\ UNCHANGED calls
     ELSE \/ Answer(400, None, None, 0) /\ UNCHANGED calls
          \/ \E input \in Inputs :
               IF FieldErrors(input) # {}
               THEN Answer(400, None, None, 0) /\ UNCHANGED calls
               ELSE /\ calls' = [calls EXCEPT ![c].pc = IF route = "chat" THEN "embed"
                                                                          ELSE "complete"]
                    /\ UNCHANGED reply

\* The question is embedded and the knowledge base searched, or one of these failed:
\* the model is asked in any case.
Retrieved(c) ==
  /\ calls[c].pc = "embed"
  /\ calls' = [calls EXCEPT ![c] = [pc |-> "complete", since |-> @.since, waited |-> 0]]
  /\ UNCHANGED <<vars, route, reply>>

GiveUp(c, code) ==
  calls' = [calls EXCEPT ![c] = NoCall] /\ Answer(code, None, None, calls[c].since)

\* The model has answered; or time was up before it began to, or it failed in any
\* other way, as by breaking off in the midst of its answer.
Completed(c) ==
  /\ calls[c].pc = "complete"
  /\ \/ \E said \in Outputs[route] :
          /\ calls' = [calls EXCEPT ![c] = NoCall]
          /\ Answer(Outcome(said).code, said, Outcome(said).result, calls[c].since)
     \/ \E code \in {502, 504} : GiveUp(c, code)
  /\ UNCHANGED <<vars, route>>

\* The caller hangs up, which ends its request to the model; nobody gets an answer.
HangUp(c) ==
  /\ calls[c].pc # "idle"
  /\ calls' = [calls EXCEPT ![c] = NoCall]
  /\ UNCHANGED <<vars, route, reply>>

\* validate-input: sanitized fields, or errors.
Validate(input, errors) ==
  /\ IF errors # {} THEN Answer(400, None, None, 0)
                    ELSE Answer(200, None, Sanitized(input), 0)
  /\ UNCHANGED <<vars, route, calls>>

ValidateNexxaInput ==
  /\ route = "match"
  /\ \E input \in Inputs : Validate(input, FieldErrors(input))

\* The text is looked at again when it is sanitized.
ValidateCvInput ==
  /\ route = "cv"
  /\ \E input \in Inputs :
       Validate(input, FieldErrors(input) \cup FieldErrors(Sanitized(input)))

\* normalize-output: what the endpoint does after the model has answered.  A body that
\* is no request is refused as what is not JSON is.
Normalize ==
  /\ \E said \in Outputs[route] : Answer(Outcome(said).code, said, Outcome(said).result, 0)
  /\ UNCHANGED <<vars, route, calls>>

NormalizeNexxaOutput == route = "match" /\ Normalize

NormalizeCvOutput == route = "cv" /\ Normalize

Later(call) ==
  IF call.pc = "idle" THEN call ELSE [call EXCEPT !.since = @ + 1, !.waited = @ + 1]

\* Time passes, unless a request to the model is due.
Pass ==
  /\ \A c \in Callers : calls[c].waited < LLMTimeout
  /\ Tick
  /\ calls' = [c \in Callers |-> Later(calls[c])]
  /\ UNCHANGED <<route, reply>>

Count == OpenWindow /\ UNCHANGED nexxa

NexxaNext ==
  \/ \E c \in Callers : (\E ip \in Ips : Arrive(c, ip)) \/ Retrieved(c) \/ Completed(c) \/ HangUp(c)
  \/ ValidateNexxaInput \/ NormalizeNexxaOutput \/ ValidateCvInput \/ NormalizeCvOutput
  \/ Unauthorized \/ Pass \/ Count

NexxaSpec == NexxaInit /\ [][NexxaNext]_<<vars, nexxa>>
-----------------------------------------------------------------------------
(* Properties.                                                             *)

Said(r) == route = r /\ reply.said # None /\ reply.code = 200

Distance(x, y) == IF x < y THEN y - x ELSE x - y

\* "Percentages always sum to exactly 100 after rescaling; a zero/missing total is a
\* 422 (never guessed)" (nexxa.md).  When the model's scores are numbers (with NaN
\* among them it is not so), what match answers are three shares between 0 and 100
\* with that sum, each within one of the exact one; and no answer is refused that
\* could be rescaled.
MatchIsWhole ==
  /\ Said("match") /\ Numbers(reply.said.scores) =>
       LET shares == reply.result.shares  scores == reply.said.scores IN
       /\ Total(scores) > 0 /\ Total(shares) = 100
       /\ \A m \in Majors : /\ shares[m] \in 0 .. 100
                            /\ Distance(shares[m] * Total(scores), 100 * scores[m]) <= Total(scores)
  /\ route = "match" /\ reply.code = 422 => NoMatch(reply.said)

\* The model is told that "the highest score must always match nama_jurusan"
\* (prompt.go), and what is answered keeps to it if the model did.
HighestIsTheMajor ==
  Said("match") /\ Numbers(reply.said.scores) =>
    LET shares == reply.result.shares  scores == reply.said.scores  major == reply.said.major IN
    (\A m \in Majors \ {major} : scores[m] < scores[major]) =>
      \A m \in Majors : shares[m] <= shares[major]

\* Which of the first n strings are not blank.
Written(strings, n) == {i \in 1 .. n : strings[i] # ""}

\* "Score clamping to [0,100], array caps, ... sequential id renumbering" (nexxa.md):
\* an audit holds the first items of each of the model's lists, up to the cap, in its
\* order and numbered from 1, of which none is incomplete, and the first strings that
\* are not blank, the n-th of them n-th.  An audit is refused for an incomplete item
\* before the cap, but not for one after it; only what is no object refuses it anywhere.
CvIsPrefix ==
  /\ Said("cv") =>
       /\ \A l \in Lists :
            LET in == reply.said.lists[l]  out == reply.result.lists[l] IN
            /\ Len(out) = Least(Len(in), Caps[l])
            /\ \A i \in DOMAIN in : in[i].object
            /\ \A i \in DOMAIN out : in[i].complete /\ out[i] = [id |-> i, name |-> in[i].name]
       /\ \A k \in Keys :
            LET in == reply.said.keys[k]  out == reply.result.keys[k] IN
            /\ Len(out) = Least(Cardinality(Written(in, Len(in))), Caps[k])
            /\ \A i \in Written(in, Len(in)) :
                 LET n == Cardinality(Written(in, i)) IN n <= Caps[k] => out[n] = in[i]
       /\ {reply.result.score, reply.result.format_score} \subseteq 0 .. 100
  /\ route = "cv" /\ reply.code = 422 =>
       \/ reply.said.form # "json" \/ ~reply.said.summary \/ ~reply.said.metrics
       \/ \E l \in Lists : \E i \in DOMAIN reply.said.lists[l] : ~reply.said.lists[l][i].object
       \/ \E l \in Lists : \E i \in 1 .. Least(Len(reply.said.lists[l]), Caps[l]) :
            ~reply.said.lists[l][i].complete

\* "The server `WriteTimeout` is 120s so slow LLM responses are not cut off" (nexxa.md):
\* match and cv-review answer before the server cuts them off, whatever the model
\* does.  Chat, which sends two requests, may take twice the time of one.
AnsweredInTime == reply.since <= IF route = "chat" THEN 2 * LLMTimeout ELSE WriteTimeout

\* "Sanitize + validate raw CV text ... before the LLM call" (nexxa.md): a CV that
\* validate-input hands out is not refused by cv-review.
ValidatedIsTaken ==
  route = "cv" /\ reply.code = 200 /\ reply.said = None => FieldErrors(reply.result) = {}
=============================================================================
