-------------------------------- MODULE Timers --------------------------------
(***************************************************************************)
(* The two simpleTimers of a loraPoint2Point, on the clock millis(), which  *)
(* overflows.  Time passes between the calls; a timer compares a sample of  *)
(* the clock, taken by serviceTimers, with an earlier one.                  *)
(***************************************************************************)
EXTENDS Integers

CONSTANTS
  M,               \* the clock counts modulo M: 2^32
  ChangeTimeout,   \* 3 s for a request
  TrustTimeout,    \* 24 s after its response
  HeartbeatTimeout,
  MaxStall,        \* the longest time that passes without serviceTimers
  MaxNow           \* bound: how long the behaviours are

Timer == {"link", "heartbeat"}

ASSUME TimersAssumption ==
  /\ M \in Nat \ {0} /\ MaxStall \in Nat /\ MaxNow \in Nat
  /\ \A t \in {ChangeTimeout, TrustTimeout, HeartbeatTimeout} : t \in Nat /\ t + MaxStall < M

LinkTimeouts == {ChangeTimeout, TrustTimeout}

VARIABLES
  now,               \* milliseconds since the start, without overflow
  currentMillis,
  timeoutMillis, referenceMillis, started,
  done,
  fired,             \* the timers whose handler ran in the last step
  sampled,           \* the time of the sample in currentMillis (history)
  reference,         \* reference[t]: that of the one in referenceMillis (history)
  resetAt            \* the time of the last start or reset of the link timer (history)

vars == <<now, currentMillis, timeoutMillis, referenceMillis, started, done, fired,
          sampled, reference, resetAt>>

TypeOK ==
  /\ now \in 0 .. MaxNow
  /\ currentMillis \in 0 .. M - 1
  /\ timeoutMillis \in [Timer -> LinkTimeouts \cup {HeartbeatTimeout}]
  /\ referenceMillis \in [Timer -> 0 .. M - 1]
  /\ started \in [Timer -> BOOLEAN] /\ done \in [Timer -> BOOLEAN]
  /\ fired \subseteq Timer
  /\ sampled \in 0 .. now /\ reference \in [Timer -> 0 .. now] /\ resetAt \in 0 .. now

Init ==
  /\ now = 0 /\ currentMillis = 0
  /\ timeoutMillis = [link |-> ChangeTimeout, heartbeat |-> HeartbeatTimeout]
  /\ referenceMillis = [t \in Timer |-> 0]
  /\ started = [t \in Timer |-> FALSE] /\ done = [t \in Timer |-> FALSE]
  /\ fired = {}
  /\ sampled = 0 /\ reference = [t \in Timer |-> 0] /\ resetAt = 0

Advance ==
  /\ now < MaxNow /\ now - sampled < MaxStall
  /\ now' = now + 1
  /\ fired' = {}
  /\ UNCHANGED <<currentMillis, timeoutMillis, referenceMillis, started, done,
                 sampled, reference, resetAt>>

millis == now % M

\* Mutant: the comparison of absolute times.
ElapsedAbsolute(run, t) == run[t] /\ millis > referenceMillis[t] + timeoutMillis[t]

\* The condition of update(), after millis has been sampled; run is `started'.
Elapsed(run, t) == run[t] /\ (millis - referenceMillis[t]) % M > timeoutMillis[t]

\* Mutant: a paused timer keeps its reference.
RereferencedRunning(run) == {t \in Timer : Elapsed(run, t)}

\* The timers whose reference update() sets: those that elapse and those paused.
Rereferenced(run) == {t \in Timer : Elapsed(run, t) \/ ~run[t]}

\* serviceTimers with the flags run and the done flags of before: both timers are
\* updated, then the handlers of those done run and clear their flags.  The
\* heartbeat timer repeats, the link timer does not.
Serviced(run, before) ==
  /\ currentMillis' = millis /\ sampled' = now
  /\ referenceMillis' = [t \in Timer |-> IF t \in Rereferenced(run) THEN millis ELSE referenceMillis[t]]
  /\ reference' = [t \in Timer |-> IF t \in Rereferenced(run) THEN now ELSE reference[t]]
  /\ fired' = {t \in Timer : before[t] \/ Elapsed(run, t)}
  /\ done' = [t \in Timer |-> FALSE]
  /\ UNCHANGED now

ServiceTimers ==
  /\ Serviced(started, done)
  /\ started' = [started EXCEPT !["link"] = @ /\ ~Elapsed(started, "link")]
  /\ UNCHANGED <<timeoutMillis, resetAt>>

\* Mutant: the timeout of a response is added to that of its request.
StartLinkExtends(timeout) ==
  /\ Serviced([started EXCEPT !["link"] = FALSE], [done EXCEPT !["link"] = FALSE])
  /\ timeoutMillis' = [timeoutMillis EXCEPT !["link"] = @ + timeout]
  /\ started' = [started EXCEPT !["link"] = TRUE]
  /\ resetAt' = now

\* linkChangeReq and serviceLinkChangeRsp: pause, clearDone, setTimeout,
\* serviceTimers, start.
StartLink(timeout) ==
  /\ Serviced([started EXCEPT !["link"] = FALSE], [done EXCEPT !["link"] = FALSE])
  /\ timeoutMillis' = [timeoutMillis EXCEPT !["link"] = timeout]
  /\ started' = [started EXCEPT !["link"] = TRUE]
  /\ resetAt' = now

\* serviceRx, when the link is trusted: pause, clearDone, serviceTimers.
StopLink ==
  /\ started["link"]
  /\ Serviced([started EXCEPT !["link"] = FALSE], [done EXCEPT !["link"] = FALSE])
  /\ started' = [started EXCEPT !["link"] = FALSE]
  /\ UNCHANGED <<timeoutMillis, resetAt>>

\* Mutant: the timer is not reset.
ResetLinkForgets ==
  /\ started["link"]
  /\ resetAt' = now
  /\ fired' = {}
  /\ UNCHANGED <<now, currentMillis, timeoutMillis, referenceMillis, started, done, sampled, reference>>

\* serviceRx, after a packet: reset(), with the last sample.
ResetLink ==
  /\ started["link"]
  /\ referenceMillis' = [referenceMillis EXCEPT !["link"] = currentMillis]
  /\ reference' = [reference EXCEPT !["link"] = sampled]
  /\ resetAt' = now
  /\ fired' = {}
  /\ UNCHANGED <<now, currentMillis, timeoutMillis, started, done, sampled>>

\* startHeartbeats and stopHeartbeats.
SetHeartbeats(on) ==
  /\ started' = [started EXCEPT !["heartbeat"] = on]
  /\ fired' = {}
  /\ UNCHANGED <<now, currentMillis, timeoutMillis, referenceMillis, done,
                 sampled, reference, resetAt>>

Next ==
  \/ Advance
  \/ ServiceTimers
  \/ \E timeout \in LinkTimeouts : StartLink(timeout)
  \/ StopLink
  \/ ResetLink
  \/ \E on \in BOOLEAN : SetHeartbeats(on)

Spec == Init /\ [][Next]_vars

-----------------------------------------------------------------------------
\* A running timer fires at the first serviceTimers after its timeout, counted
\* from the sample it refers to, and never earlier, whenever the clock overflows.
FiresWhenDue ==
  [][ServiceTimers =>
       fired' = {t \in Timer : started[t] /\ now - reference[t] > timeoutMillis[t]}]_vars

\* A link timer that is started runs for its whole timeout: it does not inherit
\* time from before, when it was paused or timed something else.
StartsAfresh ==
  [][\A timeout \in LinkTimeouts : StartLink(timeout) => reference'["link"] = now /\ "link" \notin fired']_vars

\* reset() counts from the last sample, so that a reset timer may fire early, but
\* by no more than the time since that sample: a timer that is reset again and
\* again does not fire.
ResetPostpones ==
  [][ServiceTimers /\ "link" \in fired' => now - resetAt > timeoutMillis["link"] - MaxStall]_vars

=============================================================================
