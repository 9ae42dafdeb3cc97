---------------------------- MODULE ContextEngine ----------------------------
(***************************************************************************)
(* src/main/services/context_engine.ts: every five seconds a poll asks a   *)
(* PowerShell session which window is in front.  The first poll, and every *)
(* poll after a failure, starts the session and waits until it is ready.   *)
(* A query is given up after half a poll interval, by a timer that is not  *)
(* cleared when the answer comes.                                          *)
(*                                                                         *)
(* Time passes in units; a timer fires when it is due, in any order with   *)
(* what is due at the same time.  A session that was killed and has        *)
(* nothing pending is forgotten: no event of it has an effect.             *)
(***************************************************************************)
EXTENDS Naturals

CONSTANTS
  Sessions,     \* PowerShell processes at one time
  None,
  PollInterval, \* context.pollIntervalMs, 5000 ms
  InitTimeout,  \* 5000 ms
  QueryTimeout  \* 2500 ms

ContextAssumption ==
  /\ None \notin Sessions
  /\ {PollInterval, InitTimeout, QueryTimeout} \subseteq Nat \ {0}

VARIABLES
  session, \* state of each process
  asker,   \* ps.pendingResolve: a query waits for this process
  ps,      \* powershellProcess
  poll,    \* the poll in flight
  ahead,   \* units until the next poll, or None after stop
  wait,    \* units until the wait for the session ends
  timers,  \* timers of queries: their process, what is left, and whose they are
  sniped   \* history: a timer ended another query than its own

vars == <<session, asker, ps, poll, ahead, wait, timers, sniped>>

TypeOK ==
  /\ session \in [Sessions -> {"none", "starting", "ready", "exited", "killed"}]
  /\ asker \in [Sessions -> BOOLEAN]
  /\ ps \in Sessions \cup {None}
  /\ poll \in {"none", "session", "answer"}
  /\ ahead \in 0 .. PollInterval \cup {None}
  /\ wait \in 0 .. InitTimeout
  /\ timers \subseteq [of : Sessions, left : 0 .. QueryTimeout, own : BOOLEAN]
  /\ sniped \in BOOLEAN

Init ==
  /\ session = [s \in Sessions |-> "none"] /\ asker = [s \in Sessions |-> FALSE]
  /\ ps = None /\ poll = "none" /\ ahead = 0 /\ wait = 0 /\ timers = {}
  /\ sniped = FALSE

Live(s) == session[s] \in {"starting", "ready"}
Ready == ps # None /\ session[ps] = "ready"
Stopped == ahead = None

-----------------------------------------------------------------------------

\* The timers of a session that is forgotten do nothing.
Forgotten(s) == {t \in timers : t.of # s}

\* A bug: the session is given up without an end.
Abandon(s) == session

\* ps.kill(); what waits for the process hears of its exit later.
Kill(s) == [session EXCEPT ![s] = IF asker[s] THEN "killed" ELSE "none"]

\* The poll fails: what is left of the session is killed.
PollFails ==
  /\ poll' = "none" /\ ps' = None
  /\ IF ps # None THEN session' = Kill(ps) /\ timers' = Forgotten(ps)
     ELSE UNCHANGED <<session, timers>>

\* queryForegroundWindow, once the session is there
Ask(s) ==
  /\ poll' = "answer"
  /\ asker' = [asker EXCEPT ![s] = TRUE]
  /\ timers' = {[t EXCEPT !.own = FALSE] : t \in timers}
               \cup {[of |-> s, left |-> QueryTimeout, own |-> TRUE]}

\* pollForegroundWindow and ensurePowerShellSession: a session that is not ready is
\* replaced.
Poll ==
  \/ Ready /\ Ask(ps) /\ UNCHANGED <<session, ps, wait>>
  \/ /\ ~Ready
     /\ poll' = "session" /\ wait' = InitTimeout
     /\ \E s \in Sessions :
          /\ s # ps /\ session[s] = "none"
          /\ ps' = s
          /\ session' = [(IF ps = None THEN session ELSE Kill(ps)) EXCEPT ![s] = "starting"]
     /\ timers' = IF ps = None THEN timers ELSE Forgotten(ps)
     /\ UNCHANGED asker

PollTick ==
  /\ ahead = 0 /\ ahead' = PollInterval
  /\ IF poll = "none" THEN Poll ELSE UNCHANGED <<session, asker, ps, poll, wait, timers>>
  /\ UNCHANGED sniped

\* The look at the session every 50 ms
SessionIsReady ==
  /\ poll = "session" /\ Ready
  /\ Ask(ps) /\ UNCHANGED <<session, ps, ahead, wait, sniped>>

SessionTimeout ==
  /\ poll = "session" /\ wait = 0
  /\ PollFails /\ UNCHANGED <<asker, ahead, wait, sniped>>

-----------------------------------------------------------------------------
(* The process                                                             *)

Becomes(s, state) ==
  /\ session' = [session EXCEPT ![s] = state]
  /\ UNCHANGED <<asker, ps, poll, ahead, wait, timers, sniped>>

StartsUp(s) == session[s] = "starting" /\ Becomes(s, "ready")

\* The answer; one that no query waits for is dropped.
Answers(s) ==
  /\ session[s] \in {"ready", "killed"} /\ asker[s]
  /\ asker' = [asker EXCEPT ![s] = FALSE]
  /\ poll' = "none"
  /\ UNCHANGED <<session, ps, ahead, wait, timers, sniped>>

\* Nobody waits for the process: only its ready flag is reset.
Exits(s) == Live(s) /\ ~asker[s] /\ Becomes(s, "exited")

\* The query is rejected, and the poll fails.
ExitsAsked(s) ==
  /\ session[s] \in {"ready", "killed"} /\ asker[s]
  /\ asker' = [asker EXCEPT ![s] = FALSE]
  /\ poll' = "none" /\ ps' = None
  /\ session' = [session EXCEPT ![s] = "none"] /\ timers' = Forgotten(s)
  /\ UNCHANGED <<ahead, wait, sniped>>

Forget(s) == session[s] = "killed" /\ ~asker[s] /\ Becomes(s, "none")

-----------------------------------------------------------------------------
(* Timers                                                                  *)

\* A bug: only the resolver is dropped, and the caller never told.
TimeoutUntold(t) == "answer"

\* The caller of the timer's own query is told; any other one is not.
AfterTimeout(t) == IF t.own THEN "none" ELSE "answer"

\* The timer looks whether some query waits for its process, not which one.
QueryTimer(t) ==
  /\ t.left = 0
  /\ IF asker[t.of]
     THEN /\ asker' = [asker EXCEPT ![t.of] = FALSE]
          /\ session' = [session EXCEPT ![t.of] = "none"] /\ ps' = None
          /\ poll' = AfterTimeout(t)
          /\ sniped' = (sniped \/ ~t.own)
          /\ timers' = Forgotten(t.of)
     ELSE /\ timers' = timers \ {t}
          /\ UNCHANGED <<asker, session, ps, poll, sniped>>
  /\ UNCHANGED <<ahead, wait>>

Due ==
  \/ ahead = 0
  \/ poll = "session" /\ (wait = 0 \/ Ready)
  \/ \E t \in timers : t.left = 0

Tick ==
  /\ ~Due
  /\ ahead' = IF Stopped THEN None ELSE ahead - 1
  /\ wait' = IF wait > 0 THEN wait - 1 ELSE 0
  /\ timers' = {[t EXCEPT !.left = @ - 1] : t \in timers}
  /\ UNCHANGED <<session, asker, ps, poll, sniped>>

Stop ==
  /\ ~Stopped /\ ahead' = None
  /\ ps' = None
  /\ session' = IF ps = None THEN session ELSE Kill(ps)
  /\ timers' = IF ps = None \/ asker[ps] THEN timers ELSE Forgotten(ps)
  /\ UNCHANGED <<asker, poll, wait, sniped>>

Timer == PollTick \/ SessionIsReady \/ SessionTimeout \/ \E t \in timers : QueryTimer(t)

Process ==
  \E s \in Sessions :
    StartsUp(s) \/ Answers(s) \/ Exits(s) \/ ExitsAsked(s) \/ Forget(s)

Next == Timer \/ Tick \/ Process \/ Stop

\* Timers fire and time passes; nothing is asked of PowerShell.
Fairness == WF_vars(Timer) /\ WF_vars(Tick)

Spec == Init /\ [][Next]_vars /\ Fairness

-----------------------------------------------------------------------------

\* Polls go on, whatever becomes of PowerShell: the one in flight ends, and with it
\* pollInFlight - unless the timer of an earlier query ended it, which happens after a
\* session that took more than half a poll interval to start.  Nobody is told then.
PollsGoOn == []<>(poll = "none" \/ Stopped \/ sniped)

\* No PowerShell process but the current one is left running, over timeouts, exits and
\* replacements.
OnePowerShell == \A s \in Sessions : Live(s) => ps = s

=============================================================================
