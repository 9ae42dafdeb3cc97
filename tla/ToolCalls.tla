------------------------------ MODULE ToolCalls ------------------------------
(***************************************************************************)
(* What SandboxWorker.run promises to ToolExecutor, without processes,     *)
(* pipes or timers: every accepted call is settled exactly once, by an     *)
(* answer, by its deadline or by a failure that settles everything that is *)
(* waiting; once closed, the bridge accepts nothing and nothing waits.     *)
(* SandboxBridge implements this specification.                            *)
(***************************************************************************)
EXTENDS FiniteSets

CONSTANT Calls

VARIABLES
  phase,  \* phase[c]: where the promise of call c stands
  open    \* FALSE once the bridge was shut down

cvars == <<phase, open>>

Phases == {"idle", "waiting", "answered", "timedOut", "failed"}

Waiting == {c \in Calls : phase[c] = "waiting"}

CInit ==
  /\ phase = [c \in Calls |-> "idle"]
  /\ open = TRUE

Accept(c) ==
  /\ open
  /\ phase[c] = "idle"
  /\ phase' = [phase EXCEPT ![c] = "waiting"]
  /\ UNCHANGED open

\* The arguments of the call cannot be sent at all.
Refuse(c) ==
  /\ open
  /\ phase[c] = "idle"
  /\ phase' = [phase EXCEPT ![c] = "failed"]
  /\ UNCHANGED open

Answer(c) ==
  /\ phase[c] = "waiting"
  /\ phase' = [phase EXCEPT ![c] = "answered"]
  /\ UNCHANGED open

\* Deadlines expire in the order the calls were accepted in, one at a time.
Expire(c) ==
  /\ phase[c] = "waiting"
  /\ phase' = [phase EXCEPT ![c] = "timedOut"]
  /\ UNCHANGED open

FailWaiting == [c \in Calls |-> IF phase[c] = "waiting" THEN "failed" ELSE phase[c]]

LoseWorker ==
  /\ open
  /\ phase' = FailWaiting
  /\ UNCHANGED open

Close ==
  /\ open
  /\ open' = FALSE
  /\ phase' = FailWaiting

CNext ==
  \/ \E c \in Calls : Accept(c) \/ Refuse(c) \/ Answer(c) \/ Expire(c)
  \/ LoseWorker
  \/ Close

CSafe == CInit /\ [][CNext]_cvars

\* No accepted call waits for ever.
CSpec == CSafe /\ \A c \in Calls : WF_cvars(Answer(c) \/ Expire(c))
=============================================================================
