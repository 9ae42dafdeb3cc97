--------------------------- MODULE LiveGeneration ---------------------------
(***************************************************************************)
(* Who answers a prompt: typed requests (TRIGGER_AUTOMATION in main.ts),   *)
(* the tasks and builds they lead to, and the two providers                *)
(* (ai_provider.ts) that write their plans, tools and verdicts.            *)
(*                                                                         *)
(* Groq and Gemini's REST interface answer one prompt with one text.  If   *)
(* Gemini is asked while its Live session is ready, the prompt goes into   *)
(* the session in which the user talks, and its answer is whatever tokens  *)
(* the session emits until 1.2 s pass without one (streamLiveText).        *)
(* Tokens name no prompt.  The server answers what it is asked in order.   *)
(***************************************************************************)
EXTENDS Naturals, Sequences, FiniteSets, Functions

CONSTANTS
  Requests,   \* typed requests
  User,       \* the user, who talks to Gemini
  Tokens,     \* bound: tokens of an answer
  MaxCalls,   \* bound: prompts they lead to
  MaxTalks,   \* bound: spoken turns
  MaxLosses   \* bound: losses of the session

GenerationAssumption ==
  /\ User \notin Requests
  /\ Tokens \in Nat \ {0} /\ MaxCalls \in Nat \ {0}
  /\ MaxTalks \in Nat /\ MaxLosses \in Nat

VARIABLES
  groq, gemini,  \* the provider has a key
  live,          \* the session is connected and ready
  asks,          \* what the session was asked and has not answered to the end
  said,          \* tokens of the first of them that were emitted
  at,            \* where each request is
  via,           \* who its prompt waits for
  calls,         \* prompts it has led to
  buffer,        \* tokens that streamLiveText has collected
  answer,        \* what it last resolved to
  talks, losses,
  disturbed      \* history: since the last prompt was sent, the session had something
                 \* else to answer, was lost, or paused within the answer

session == <<live, asks, said, talks, losses>>
keys == <<groq, gemini>>
prompts == <<via, calls, buffer, answer, disturbed>>
vars == <<keys, session, at, prompts>>

Own(r) == [by |-> r, call |-> calls[r]]
TokensOf(a) == {[ask |-> a, k |-> k] : k \in 1 .. Tokens}
Asks == [by : Requests, call : 0 .. MaxCalls] \cup [by : {User}, call : 1 .. MaxTalks]
Pending(a) == \E i \in DOMAIN asks : asks[i] = a
Listeners == {r \in Requests : via[r] = "live"}

TypeOK ==
  /\ {groq, gemini, live} \subseteq BOOLEAN
  /\ asks \in Seq(Asks) /\ said \in 0 .. Tokens - 1
  /\ at \in [Requests -> {"new", "task", "think", "queued", "build", "ended"}]
  /\ via \in [Requests -> {"none", "groq", "live", "rest"}]
  /\ calls \in [Requests -> 0 .. MaxCalls]
  /\ \A r \in Requests : {buffer[r], answer[r]} \subseteq SUBSET UNION {TokensOf(a) : a \in Asks}
  /\ disturbed \in [Requests -> BOOLEAN]
  /\ talks \in 0 .. MaxTalks /\ losses \in 0 .. MaxLosses

Init ==
  /\ groq \in BOOLEAN /\ gemini \in BOOLEAN /\ live = gemini
  /\ asks = <<>> /\ said = 0 /\ talks = 0 /\ losses = 0
  /\ at = [r \in Requests |-> "new"] /\ via = [r \in Requests |-> "none"]
  /\ calls = [r \in Requests |-> 0]
  /\ buffer = [r \in Requests |-> {}] /\ answer = buffer
  /\ disturbed = [r \in Requests |-> FALSE]

-----------------------------------------------------------------------------
(* The providers.                                                          *)

\* primary: the first that has a key
Primary == IF gemini THEN "gemini" ELSE IF groq THEN "groq" ELSE "none"

\* providerFor('tool_synthesis'), which is Groq or nobody, ?? primary
BuildAgent == IF groq THEN "groq" ELSE Primary

\* CodingAgentSelector.select
TaskAgent == IF groq THEN "groq" ELSE IF gemini THEN "gemini" ELSE "none"

\* The session is asked a (sendTextMessage): every listener but r hears the answer too.
Ask(a, r) ==
  /\ asks' = Append(asks, a)
  /\ disturbed' = [q \in Requests |->
                     IF q = r THEN asks # <<>> ELSE disturbed[q] \/ q \in Listeners]
  /\ UNCHANGED <<live, said, talks, losses>>

\* A bug: the text of the prompt before is kept.
Leftover(r) == answer[r]

\* The buffer is a local variable of each call.
Empty(r) == {}

\* provider.generate
Generate(r, provider) ==
  /\ via[r] = "none" /\ FoldFunction(+, 0, calls) < MaxCalls
  /\ calls' = [calls EXCEPT ![r] = @ + 1]
  /\ buffer' = [buffer EXCEPT ![r] = Empty(r)]
  /\ answer' = [answer EXCEPT ![r] = {}]
  /\ UNCHANGED <<keys, at>>
  /\ \/ /\ provider = "groq"
        /\ via' = [via EXCEPT ![r] = "groq"]
        /\ UNCHANGED <<session, disturbed>>
     \/ /\ provider = "gemini" /\ live
        /\ via' = [via EXCEPT ![r] = "live"]
        /\ Ask([by |-> r, call |-> calls'[r]], r)
     \/ /\ provider = "gemini" /\ ~live
        /\ via' = [via EXCEPT ![r] = "rest"]
        /\ UNCHANGED <<session, disturbed>>

\* The session was silent for 1.2 s after a token.
Quiet(r) ==
  /\ via[r] = "live" /\ buffer[r] # {}
  /\ via' = [via EXCEPT ![r] = "none"]
  /\ answer' = [answer EXCEPT ![r] = buffer[r]]
  /\ disturbed' = [disturbed EXCEPT ![r] = @ \/ Pending(Own(r))]
  /\ UNCHANGED <<keys, session, at, calls, buffer>>

\* The time limit of streamLiveText, after which the prompt goes to the REST interface.
Timeout(r) ==
  /\ via[r] = "live"
  /\ via' = [via EXCEPT ![r] = "rest"]
  /\ UNCHANGED <<keys, session, at, calls, buffer, answer, disturbed>>

\* One text, an error or the time limit.
Replied(r) ==
  /\ via[r] \in {"groq", "rest"}
  /\ via' = [via EXCEPT ![r] = "none"]
  /\ UNCHANGED <<keys, calls, buffer, answer>>

-----------------------------------------------------------------------------
(* Typed requests.                                                         *)

Goto(r, p) == at' = [at EXCEPT ![r] = p]
text(r) == [by |-> r, call |-> 0]

\* sendTextMessage, if there is a session
SendText(r) == IF live THEN Ask(text(r), User) ELSE UNCHANGED <<session, disturbed>>

\* What is no task: it is built, and Gemini is told of it; or Gemini answers, or an error.
Talked(r) ==
  /\ \E next \in {"queued", "ended"} : Goto(r, next)
  /\ SendText(r)

\* TRIGGER_AUTOMATION, up to its first await
Submit(r) ==
  /\ at[r] = "new"
  /\ UNCHANGED keys
  /\ \/ Goto(r, "task") /\ UNCHANGED <<session, prompts>>
     \/ /\ groq /\ Goto(r, "think")
        /\ via' = [via EXCEPT ![r] = "groq"]
        /\ UNCHANGED <<session, calls, buffer, answer, disturbed>>
     \/ Talked(r) /\ UNCHANGED <<via, calls, buffer, answer>>

\* Groq's reasoning, which ends the request, or its failure, after which Gemini gets it
Thought(r) ==
  /\ at[r] = "think" /\ Replied(r)
  /\ \/ Goto(r, "ended") /\ UNCHANGED <<session, disturbed>>
     \/ Talked(r)

Plan(r) == at[r] = "task" /\ calls[r] = 0 /\ Generate(r, TaskAgent)

\* The verdict on what a step did
ModelVerify(r) == at[r] = "task" /\ calls[r] > 0 /\ Generate(r, TaskAgent)

\* A design, or its repair after a test that failed, for a build or a step of a task
Design(r) ==
  /\ at[r] = "build" \/ (at[r] = "task" /\ calls[r] > 0)
  /\ Generate(r, BuildAgent)

\* The descriptor of a stream, in one prompt
Widget(r) == at[r] = "build" /\ calls[r] = 0 /\ Generate(r, BuildAgent)

\* ToolBuilder's queue
BuildBegins(r) ==
  /\ at[r] = "queued" /\ \A q \in Requests : at[q] # "build"
  /\ Goto(r, "build") /\ UNCHANGED <<keys, session, prompts>>

CodeReplied(r) ==
  /\ at[r] \in {"task", "build"} /\ Replied(r) /\ UNCHANGED <<session, at, disturbed>>

\* The task has ended; or the build, which may have found a tool and asked nobody.
Ends(r) ==
  /\ at[r] \in {"task", "build"} /\ via[r] = "none"
  /\ Goto(r, "ended") /\ UNCHANGED <<keys, session, prompts>>

-----------------------------------------------------------------------------
(* The session.                                                            *)

\* The next token: the bridge emits 'ai-text-token' to whoever listens.
Say ==
  /\ live /\ asks # <<>>
  /\ buffer' = [r \in Requests |->
                  IF r \in Listeners THEN buffer[r] \cup {[ask |-> Head(asks), k |-> said + 1]}
                                     ELSE buffer[r]]
  /\ IF said + 1 = Tokens THEN asks' = Tail(asks) /\ said' = 0
                          ELSE said' = said + 1 /\ UNCHANGED asks
  /\ UNCHANGED <<keys, live, talks, losses, at, via, calls, answer, disturbed>>

\* The user speaks, and the server breaks off what it was saying.
Talk ==
  /\ live /\ talks < MaxTalks /\ talks' = talks + 1
  /\ asks' = Append(IF said > 0 THEN Tail(asks) ELSE asks, [by |-> User, call |-> talks'])
  /\ said' = 0
  /\ disturbed' = [r \in Requests |-> disturbed[r] \/ r \in Listeners]
  /\ UNCHANGED <<keys, live, losses, at, via, calls, buffer, answer>>

\* What the session was asked is lost with it.
Lose ==
  /\ live /\ losses < MaxLosses /\ losses' = losses + 1
  /\ live' = FALSE /\ asks' = <<>> /\ said' = 0
  /\ disturbed' = [r \in Requests |-> disturbed[r] \/ r \in Listeners]
  /\ UNCHANGED <<keys, talks, at, via, calls, buffer, answer>>

Reconnect ==
  /\ ~live /\ gemini /\ live' = TRUE
  /\ UNCHANGED <<keys, asks, said, talks, losses, at, prompts>>

RequestStep(r) ==
  \/ Submit(r) \/ Thought(r) \/ BuildBegins(r)
  \/ Plan(r) \/ ModelVerify(r) \/ Design(r) \/ Widget(r) \/ CodeReplied(r) \/ Ends(r) \/ Quiet(r) \/ Timeout(r)

Next == Say \/ Talk \/ Lose \/ Reconnect \/ \E r \in Requests : RequestStep(r)

Spec == Init /\ [][Next]_vars

-----------------------------------------------------------------------------

\* A plan, a tool's source or a verdict is the whole answer to its own prompt,
\* never a part of it, of the conversation or of an earlier prompt that was given
\* up, unless the session had something else to answer, was lost, or paused.
AnswersAreOwn ==
  \A r \in Requests :
    answer[r] # {} /\ ~disturbed[r] => answer[r] = TokensOf(Own(r))

\* docs/CHATGPT_REPAIR_REPORT.md:30: "Reasoning/engineering/tool-synthesis tasks no
\* longer silently fall back to Gemini when Groq is unavailable."
SynthesisIsGroqs == \A r \in Requests : at[r] = "build" => via[r] \notin {"live", "rest"}
=============================================================================
