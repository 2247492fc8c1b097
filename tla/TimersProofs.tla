---------------------------- MODULE TimersProofs ----------------------------
(***************************************************************************)
(* The timers fire exactly when they are due, for every width of the clock  *)
(* and all timeouts, as long as serviceTimers is called often enough for    *)
(* the clock not to go once around in between.                              *)
(***************************************************************************)
EXTENDS Timers, TLAPS

-----------------------------------------------------------------------------
(* Arithmetic of an overflowing clock *)

\* The remainder of a time within one turn of the clock.
LEMMA Remainder ==
  ASSUME NEW m \in Nat \ {0}, NEW x \in Nat, x < m
  PROVE  x % m = x
  BY SMT

\* A negative difference within one turn wraps around.
LEMMA NegativeRemainder ==
  ASSUME NEW m \in Nat \ {0}, NEW x \in Int, x < 0, x >= -m
  PROVE  x % m = x + m
  BY SMT

\* Division with remainder.
LEMMA Division ==
  ASSUME NEW m \in Nat \ {0}, NEW a \in Nat
  PROVE  /\ a = m * (a \div m) + (a % m)
         /\ a % m \in 0 .. m - 1
         /\ a \div m \in Nat
  BY SMT

\* Two readings of the clock less than one turn apart are in the same turn or
\* in successive ones.
LEMMA SameOrNextTurn ==
  ASSUME NEW m \in Nat \ {0}, NEW q \in Int,
         NEW r \in 0 .. m - 1, NEW s \in 0 .. m - 1, m * q + r - s \in 0 .. m - 1
  PROVE  q \in {0, 1}
<1>1. CASE q >= 2
  <2>1. m * q >= m * 2
    BY <1>1, SMT
  <2>2. QED
    BY <2>1, SMT
<1>2. CASE q <= -1
  <2>1. m * q <= -m
    BY <1>2, SMT
  <2>2. QED
    BY <2>1, SMT
<1>3. QED
  BY <1>1, <1>2, SMT

\* The unsigned difference of two readings is the time between them.
LEMMA ClockDifference ==
  ASSUME NEW m \in Nat \ {0}, NEW a \in Nat, NEW b \in Nat, b <= a, a - b < m
  PROVE  ((a % m) - (b % m)) % m = a - b
<1> DEFINE q == (a \div m) - (b \div m)
<1>1. /\ a = m * (a \div m) + (a % m) /\ a % m \in 0 .. m - 1 /\ a \div m \in Nat
      /\ b = m * (b \div m) + (b % m) /\ b % m \in 0 .. m - 1 /\ b \div m \in Nat
  BY Division
<1>2. q \in Int /\ m * q = m * (a \div m) - m * (b \div m)
  BY <1>1, SMT
<1>3. a - b = m * q + (a % m) - (b % m)
  BY <1>1, <1>2, SMT
<1>4. q \in {0, 1}
  <2>1. m * q + (a % m) - (b % m) \in 0 .. m - 1
    BY <1>1, <1>2, <1>3, SMT
  <2>2. QED
    BY <1>1, <1>2, <2>1, SameOrNextTurn
<1>5. CASE q = 0
  <2>1. (a % m) - (b % m) = a - b
    BY <1>1, <1>3, <1>5, SMT
  <2>2. a - b \in Nat
    BY SMT
  <2>3. (a - b) % m = a - b
    BY <2>2, Remainder
  <2>4. QED
    BY <2>1, <2>3
<1>6. CASE q = 1
  <2>1. m * q = m
    BY <1>6, SMT
  <2>2. (a % m) - (b % m) = a - b - m
    BY <1>1, <1>3, <2>1, SMT
  <2>3. a - b - m \in Int /\ a - b - m < 0 /\ a - b - m >= -m
    BY SMT
  <2>4. (a - b - m) % m = a - b - m + m
    BY <2>3, NegativeRemainder
  <2>5. QED
    BY <2>2, <2>4, SMT
<1>7. QED
  BY <1>4, <1>5, <1>6

-----------------------------------------------------------------------------
(* The inductive invariant *)

\* The clock's readings are those of the times recorded, and no timer was overdue
\* at the last sample.
Consistent ==
  /\ TypeOK
  /\ currentMillis = sampled % M
  /\ now - sampled <= MaxStall
  /\ \A t \in Timer :
       /\ referenceMillis[t] = reference[t] % M
       /\ reference[t] <= sampled
       /\ sampled - reference[t] <= timeoutMillis[t]
       /\ ~done[t]

\* What is assumed of a timeout, for the timeouts that a timer may have.
LEMMA Timeouts ==
  ASSUME Consistent
  PROVE  /\ M \in Nat \ {0} /\ MaxStall \in Nat
         /\ \A t \in Timer : timeoutMillis[t] \in Nat /\ timeoutMillis[t] + MaxStall < M
<1>1. M \in Nat \ {0} /\ MaxStall \in Nat
  BY TimersAssumption
<1>2. \A d \in LinkTimeouts \cup {HeartbeatTimeout} : d \in Nat /\ d + MaxStall < M
  BY TimersAssumption, Zenon DEF LinkTimeouts
<1>3. \A t \in Timer : timeoutMillis[t] \in LinkTimeouts \cup {HeartbeatTimeout}
  BY DEF Consistent, TypeOK
<1>4. QED
  BY <1>1, <1>2, <1>3, Zenon

\* The types that arithmetic needs.
LEMMA Times ==
  ASSUME Consistent
  PROVE  /\ now \in Nat /\ sampled \in Nat /\ sampled <= now
         /\ \A t \in Timer : /\ reference[t] \in Nat /\ reference[t] <= now
                             /\ referenceMillis[t] \in 0 .. M - 1
<1>1. now \in 0 .. MaxNow /\ sampled \in 0 .. now
  BY DEF Consistent, TypeOK
<1>2. now \in Nat /\ sampled \in Nat /\ sampled <= now
  BY <1>1, SMT
<1>3. \A t \in Timer : reference[t] \in 0 .. now /\ referenceMillis[t] \in 0 .. M - 1
  BY DEF Consistent, TypeOK
<1>4. QED
  BY <1>2, <1>3, SMT

\* A running timer's test of the clock compares true times.
LEMMA ElapsedIsDue ==
  ASSUME Consistent, NEW t \in Timer, NEW run \in [Timer -> BOOLEAN]
  PROVE  Elapsed(run, t) <=> run[t] /\ now - reference[t] > timeoutMillis[t]
<1>1. /\ now \in Nat /\ reference[t] \in Nat /\ sampled \in Nat
      /\ reference[t] <= now /\ M \in Nat \ {0}
      /\ timeoutMillis[t] \in Nat
      /\ timeoutMillis[t] + MaxStall < M /\ MaxStall \in Nat
  BY Times, Timeouts
<1>2. now - sampled <= MaxStall /\ sampled - reference[t] <= timeoutMillis[t]
  BY DEF Consistent
<1>3. now - reference[t] < M
  BY <1>1, <1>2, SMT
<1>4. ((now % M) - (reference[t] % M)) % M = now - reference[t]
  BY <1>1, <1>3, ClockDifference
<1>5. QED
  BY <1>4 DEF Elapsed, millis, Consistent

LEMMA InitConsistent == Init => Consistent
<1>1. 0 % M = 0
  BY TimersAssumption, Remainder
<1>2. QED
  BY <1>1, TimersAssumption, SMT DEF Init, Consistent, TypeOK, Timer, LinkTimeouts

\* serviceTimers, in whatever sequence it is called, keeps the invariant but for the
\* parts that the caller changes.
LEMMA ServicedConsistent ==
  ASSUME Consistent, NEW run \in [Timer -> BOOLEAN], NEW before \in [Timer -> BOOLEAN],
         Serviced(run, before)
  PROVE  /\ now' = now /\ sampled' = now /\ currentMillis' = now % M
         /\ currentMillis' \in 0 .. M - 1
         /\ referenceMillis' \in [Timer -> 0 .. M - 1]
         /\ reference' \in [Timer -> 0 .. now]
         /\ done' = [t \in Timer |-> FALSE]
         /\ fired' \subseteq Timer
         /\ \A t \in Timer :
              /\ referenceMillis'[t] = reference'[t] % M
              /\ ~run[t] => reference'[t] = now
              /\ now - reference'[t] <= timeoutMillis[t]
<1>1. /\ now \in Nat /\ M \in Nat \ {0} /\ now % M \in 0 .. M - 1
      /\ \A t \in Timer : /\ timeoutMillis[t] \in Nat
                          /\ reference[t] \in 0 .. now
                          /\ referenceMillis[t] \in 0 .. M - 1
  <2>1. now \in Nat /\ M \in Nat \ {0}
    BY Times, Timeouts
  <2>2. now % M \in 0 .. M - 1
    BY <2>1, Division
  <2>3. QED
    BY <2>1, <2>2, Timeouts DEF Consistent, TypeOK
<1>2. \A t \in Timer : Elapsed(run, t) <=> run[t] /\ now - reference[t] > timeoutMillis[t]
  BY ElapsedIsDue
<1>3. /\ now' = now /\ sampled' = now /\ currentMillis' = now % M
      /\ done' = [t \in Timer |-> FALSE]
      /\ fired' \subseteq Timer
  BY DEF Serviced, millis
<1>4. /\ referenceMillis' \in [Timer -> 0 .. M - 1]
      /\ reference' \in [Timer -> 0 .. now]
  BY <1>1, SMT DEF Serviced, millis
<1>5. ASSUME NEW t \in Timer
      PROVE  /\ referenceMillis'[t] = reference'[t] % M
             /\ ~run[t] => reference'[t] = now
             /\ now - reference'[t] <= timeoutMillis[t]
  <2>1. CASE t \in Rereferenced(run)
    <3>1. reference'[t] = now /\ referenceMillis'[t] = now % M
      BY <2>1 DEF Serviced, millis
    <3>2. QED
      BY <3>1, <1>1, SMT
  <2>2. CASE t \notin Rereferenced(run)
    <3>1. reference'[t] = reference[t] /\ referenceMillis'[t] = referenceMillis[t]
      BY <2>2 DEF Serviced
    <3>2. run[t] /\ ~Elapsed(run, t)
      BY <2>2 DEF Rereferenced
    <3>3. now - reference[t] <= timeoutMillis[t]
      BY <3>2, <1>1, <1>2, SMT
    <3>4. QED
      BY <3>1, <3>2, <3>3 DEF Consistent
  <2>3. QED
    BY <2>1, <2>2
<1>6. QED
  BY <1>1, <1>3, <1>4, <1>5

\* The callers that leave the timeouts alone keep all of it.
LEMMA AfterServicing ==
  ASSUME Consistent, NEW run \in [Timer -> BOOLEAN], NEW before \in [Timer -> BOOLEAN],
         Serviced(run, before), started' \in [Timer -> BOOLEAN],
         timeoutMillis' = timeoutMillis, resetAt' = resetAt
  PROVE  Consistent'
<1>1. /\ now' = now /\ sampled' = now /\ currentMillis' = now % M
      /\ currentMillis' \in 0 .. M - 1
      /\ referenceMillis' \in [Timer -> 0 .. M - 1]
      /\ reference' \in [Timer -> 0 .. now]
      /\ done' = [t \in Timer |-> FALSE]
      /\ fired' \subseteq Timer
      /\ \A t \in Timer : /\ referenceMillis'[t] = reference'[t] % M
                          /\ now - reference'[t] <= timeoutMillis[t]
  BY ServicedConsistent
<1>2. now \in Nat /\ MaxStall \in Nat
  BY Times, Timeouts
<1>3. now' \in 0 .. MaxNow /\ sampled' \in 0 .. now' /\ now' - sampled' <= MaxStall
  BY <1>1, <1>2, SMT DEF Consistent, TypeOK
<1>4. TypeOK'
  BY <1>1, <1>3 DEF Consistent, TypeOK
<1>5. \A t \in Timer : reference'[t] <= sampled'
  BY <1>1, <1>2, SMT
<1>6. QED
  BY <1>1, <1>3, <1>4, <1>5 DEF Consistent

LEMMA NextConsistent == Consistent /\ [Next]_vars => Consistent'
<1> SUFFICES ASSUME Consistent, [Next]_vars
             PROVE  Consistent'
  OBVIOUS
<1> USE TimersAssumption
<1>1. CASE Advance
  BY <1>1, SMT DEF Advance, Consistent, TypeOK
<1>2. CASE ServiceTimers
  <2>1. started \in [Timer -> BOOLEAN] /\ done \in [Timer -> BOOLEAN] /\ Serviced(started, done)
    BY <1>2 DEF ServiceTimers, Consistent, TypeOK
  <2>2. /\ timeoutMillis' = timeoutMillis /\ resetAt' = resetAt
        /\ started' = [started EXCEPT !["link"] = started["link"] /\ ~Elapsed(started, "link")]
    BY <1>2 DEF ServiceTimers
  <2> DEFINE on == started["link"] /\ ~Elapsed(started, "link")
  <2>3. on \in BOOLEAN
    OBVIOUS
  <2> HIDE DEF on
  <2>4. started' \in [Timer -> BOOLEAN]
    BY <2>1, <2>2, <2>3 DEF on
  <2>5. QED
    BY <2>1, <2>2, <2>4, AfterServicing
<1>3. ASSUME NEW timeout \in LinkTimeouts, StartLink(timeout)
      PROVE  Consistent'
  <2> DEFINE run == [started EXCEPT !["link"] = FALSE]
             before == [done EXCEPT !["link"] = FALSE]
  <2>1. run \in [Timer -> BOOLEAN] /\ before \in [Timer -> BOOLEAN] /\ Serviced(run, before)
    BY <1>3 DEF StartLink, Consistent, TypeOK
  <2>2. ~run["link"] /\ "link" \in Timer
    BY DEF Consistent, TypeOK, Timer
  <2> HIDE DEF run, before
  <2>3. /\ timeoutMillis' = [timeoutMillis EXCEPT !["link"] = timeout]
        /\ started' \in [Timer -> BOOLEAN]
        /\ resetAt' = now
    BY <1>3 DEF StartLink, Consistent, TypeOK
  <2>4. /\ now' = now /\ sampled' = now /\ currentMillis' = now % M
        /\ currentMillis' \in 0 .. M - 1
        /\ referenceMillis' \in [Timer -> 0 .. M - 1]
        /\ reference' \in [Timer -> 0 .. now]
        /\ done' = [t \in Timer |-> FALSE]
        /\ fired' \subseteq Timer
        /\ \A t \in Timer :
             /\ referenceMillis'[t] = reference'[t] % M
             /\ ~run[t] => reference'[t] = now
             /\ now - reference'[t] <= timeoutMillis[t]
    BY <2>1, ServicedConsistent
  <2>5. TypeOK'
    <3>1. now \in Nat /\ sampled' \in 0 .. now'
      BY <2>4, Times, SMT
    <3>2. timeoutMillis' \in [Timer -> LinkTimeouts \cup {HeartbeatTimeout}]
      BY <2>3 DEF Consistent, TypeOK
    <3>3. resetAt' \in 0 .. now'
      BY <2>3, <2>4, <3>1, SMT
    <3>4. QED
      BY <2>3, <2>4, <3>1, <3>2, <3>3 DEF Consistent, TypeOK
  <2>6. \A t \in Timer : now - reference'[t] <= timeoutMillis'[t]
    <3>1. timeout \in Nat /\ now \in Nat /\ reference'["link"] = now
      BY <2>2, <2>4, Times, TimersAssumption DEF LinkTimeouts
    <3>2. \A t \in Timer : t # "link" => timeoutMillis'[t] = timeoutMillis[t]
      BY <2>3, SMT DEF Consistent, TypeOK
    <3>3. timeoutMillis'["link"] = timeout
      BY <2>2, <2>3, SMT DEF Consistent, TypeOK
    <3>4. QED
      BY <2>4, <3>1, <3>2, <3>3, SMT DEF Timer
  <2>7. now' - sampled' <= MaxStall /\ \A t \in Timer : reference'[t] <= sampled'
    BY <2>4, Times, Timeouts, SMT
  <2>8. QED
    BY <2>4, <2>5, <2>6, <2>7 DEF Consistent
<1>4. CASE StopLink
  <2> DEFINE run == [started EXCEPT !["link"] = FALSE]
             before == [done EXCEPT !["link"] = FALSE]
  <2>1. run \in [Timer -> BOOLEAN] /\ before \in [Timer -> BOOLEAN] /\ Serviced(run, before)
    BY <1>4 DEF StopLink, Consistent, TypeOK
  <2>2. started' = run /\ timeoutMillis' = timeoutMillis /\ resetAt' = resetAt
    BY <1>4 DEF StopLink
  <2> HIDE DEF run, before
  <2>3. QED
    BY <2>1, <2>2, AfterServicing
<1>5. CASE ResetLink
  <2>1. "link" \in Timer
    BY DEF Timer
  <2>2. \A t \in Timer : timeoutMillis[t] \in Nat
    BY Timeouts
  <2>3. TypeOK'
    BY <1>5, <2>1, SMT DEF ResetLink, Consistent, TypeOK
  <2>4. \A t \in Timer : /\ referenceMillis'[t] = reference'[t] % M
                         /\ reference'[t] <= sampled
                         /\ sampled - reference'[t] <= timeoutMillis[t]
    BY <1>5, <2>1, <2>2, SMT DEF ResetLink, Consistent, TypeOK
  <2>5. QED
    BY <1>5, <2>3, <2>4 DEF ResetLink, Consistent
<1>6. ASSUME NEW on \in BOOLEAN, SetHeartbeats(on)
      PROVE  Consistent'
  <2>1. started' \in [Timer -> BOOLEAN]
    BY <1>6 DEF SetHeartbeats, Consistent, TypeOK
  <2>2. UNCHANGED <<now, currentMillis, timeoutMillis, referenceMillis, done,
                    sampled, reference, resetAt>> /\ fired' = {}
    BY <1>6 DEF SetHeartbeats
  <2>3. QED
    BY <2>1, <2>2 DEF Consistent, TypeOK
<1>7. CASE UNCHANGED vars
  BY <1>7 DEF vars, Consistent, TypeOK
<1>8. QED
  BY <1>1, <1>2, <1>3, <1>4, <1>5, <1>6, <1>7 DEF Next

\* Every reachable state has its type: readings stay within the clock.
THEOREM TimersTyped == Spec => []TypeOK
<1>1. Consistent => TypeOK
  BY DEF Consistent
<1>2. QED
  BY <1>1, InitConsistent, NextConsistent, PTL DEF Spec

\* What serviceTimers fires, in terms of true times.
LEMMA FiredWasDue ==
  ASSUME Consistent, ServiceTimers
  PROVE  fired' = {t \in Timer : started[t] /\ now - reference[t] > timeoutMillis[t]}
<1>1. started \in [Timer -> BOOLEAN] /\ \A t \in Timer : ~done[t]
  BY DEF Consistent, TypeOK
<1>2. \A t \in Timer : Elapsed(started, t) <=> started[t] /\ now - reference[t] > timeoutMillis[t]
  BY <1>1, ElapsedIsDue
<1>3. fired' = {t \in Timer : done[t] \/ Elapsed(started, t)}
  BY DEF ServiceTimers, Serviced
<1>4. QED
  BY <1>1, <1>2, <1>3

\* A link timer is started at zero and with its done flag cleared.
LEMMA StartsAtZero ==
  ASSUME Consistent, NEW timeout \in LinkTimeouts, StartLink(timeout)
  PROVE  reference'["link"] = now /\ "link" \notin fired'
<1> DEFINE run == [started EXCEPT !["link"] = FALSE]
           before == [done EXCEPT !["link"] = FALSE]
<1>1. "link" \in Timer /\ ~run["link"] /\ ~before["link"]
  BY DEF Consistent, TypeOK, Timer
<1>2. Serviced(run, before)
  BY DEF StartLink
<1> HIDE DEF run, before
<1>3. ~Elapsed(run, "link") /\ "link" \in Rereferenced(run)
  BY <1>1 DEF Elapsed, Rereferenced
<1>4. QED
  BY <1>1, <1>2, <1>3 DEF Serviced

\* A running timer fires at the first serviceTimers after its timeout and never
\* earlier, on either side of an overflow of millis().
THEOREM TimersFireWhenDue == Spec => FiresWhenDue
<1>1. Consistent => (ServiceTimers =>
        fired' = {t \in Timer : started[t] /\ now - reference[t] > timeoutMillis[t]})
  BY FiredWasDue
<1>2. QED
  BY <1>1, InitConsistent, NextConsistent, PTL DEF Spec, FiresWhenDue

\* A link timer that is started, for a request or its response, starts at zero and
\* does not fire in the same step, whatever it timed before.
THEOREM TimersStartAfresh == Spec => StartsAfresh
<1>1. Consistent => \A timeout \in LinkTimeouts :
                      StartLink(timeout) => reference'["link"] = now /\ "link" \notin fired'
  BY StartsAtZero
<1>2. QED
  BY <1>1, InitConsistent, NextConsistent, PTL DEF Spec, StartsAfresh

-----------------------------------------------------------------------------
(* The reset of a running timer *)

\* A running link timer refers to a sample at most one stall older than its last
\* start or reset.
ResetRecent == started["link"] => resetAt - reference["link"] <= MaxStall

LEMMA ResetStaysRecent ==
  ASSUME Consistent, ResetRecent, [Next]_vars
  PROVE  ResetRecent'
<1>1. /\ "link" \in Timer
      /\ MaxStall \in Nat /\ now \in Nat /\ sampled \in Nat
      /\ reference["link"] \in Nat /\ resetAt \in 0 .. now
      /\ now - sampled <= MaxStall
      /\ started \in [Timer -> BOOLEAN] /\ reference \in [Timer -> 0 .. now]
  BY Times, Timeouts DEF Timer, Consistent, TypeOK
<1>2. CASE Advance
  BY <1>2 DEF Advance, ResetRecent
<1>3. CASE ServiceTimers
  <2>1. /\ started'["link"] => started["link"] /\ ~Elapsed(started, "link")
        /\ resetAt' = resetAt
    BY <1>1, <1>3 DEF ServiceTimers
  <2>2. reference'["link"] = IF "link" \in Rereferenced(started) THEN now ELSE reference["link"]
    BY <1>1, <1>3 DEF ServiceTimers, Serviced
  <2>3. started'["link"] => reference'["link"] = reference["link"]
    BY <2>1, <2>2 DEF Rereferenced
  <2>4. QED
    BY <2>1, <2>3 DEF ResetRecent
<1>4. ASSUME NEW timeout \in LinkTimeouts, StartLink(timeout)
      PROVE  ResetRecent'
  <2>1. reference'["link"] = now /\ resetAt' = now
    BY <1>4, StartsAtZero DEF StartLink
  <2>2. QED
    BY <1>1, <2>1, SMT DEF ResetRecent
<1>5. CASE StopLink
  BY <1>1, <1>5 DEF StopLink, ResetRecent
<1>6. CASE ResetLink
  <2>1. reference'["link"] = sampled /\ resetAt' = now
    BY <1>1, <1>6 DEF ResetLink
  <2>2. QED
    BY <1>1, <2>1, SMT DEF ResetRecent
<1>7. ASSUME NEW on \in BOOLEAN, SetHeartbeats(on)
      PROVE  ResetRecent'
  BY <1>1, <1>7 DEF SetHeartbeats, ResetRecent
<1>8. CASE UNCHANGED vars
  BY <1>8 DEF vars, ResetRecent
<1>9. QED
  BY <1>2, <1>3, <1>4, <1>5, <1>6, <1>7, <1>8 DEF Next

\* Packets that keep coming postpone the end of a trial: after a reset the link
\* timer runs for its timeout, less at most one stall.
THEOREM ResetsPostpone == Spec => ResetPostpones
<1>1. Init => ResetRecent
  BY DEF Init, ResetRecent, Timer
<1>2. Consistent /\ ResetRecent /\ [Next]_vars => ResetRecent'
  BY ResetStaysRecent
<1>3. ASSUME Consistent, ResetRecent, ServiceTimers, "link" \in fired'
      PROVE  now - resetAt > timeoutMillis["link"] - MaxStall
  <2>1. started["link"] /\ now - reference["link"] > timeoutMillis["link"]
    BY <1>3, FiredWasDue DEF Timer
  <2>2. /\ now \in Nat /\ reference["link"] \in Nat /\ MaxStall \in Nat
        /\ timeoutMillis["link"] \in Nat /\ resetAt \in 0 .. now
    BY <1>3, Times, Timeouts DEF Timer, Consistent, TypeOK
  <2>3. resetAt - reference["link"] <= MaxStall
    BY <1>3, <2>1 DEF ResetRecent
  <2>4. QED
    BY <2>1, <2>2, <2>3, SMT
<1>4. Consistent /\ ResetRecent =>
        (ServiceTimers /\ "link" \in fired' => now - resetAt > timeoutMillis["link"] - MaxStall)
  BY <1>3
<1>5. QED
  BY <1>1, <1>2, <1>4, InitConsistent, NextConsistent, PTL DEF Spec, ResetPostpones

=============================================================================
