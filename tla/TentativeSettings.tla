------------------------- MODULE TentativeSettings -------------------------
(***************************************************************************)
(* What one end of a link promises while its settings change: it has stable *)
(* settings and at most one trial; a trial ends by becoming stable or by    *)
(* leaving the stable settings exactly as they were.                        *)
(***************************************************************************)
CONSTANTS
  Setting, Default,
  Commands,   \* does the operator set parameters directly?
  Restarts    \* may the node lose power?

VARIABLES
  stable,     \* the settings to fall back on
  trial       \* the settings on trial: a set of at most one

Init == stable = Default /\ trial = {}

Try(s) == trial = {} /\ trial' = {s} /\ UNCHANGED stable

Keep == \E s \in trial : stable' = s /\ trial' = {}

Restore == trial # {} /\ trial' = {} /\ UNCHANGED stable

\* Outside of a trial the operator may change the settings.
Command(s) == Commands /\ trial = {} /\ stable' = s /\ UNCHANGED trial

Restart == Restarts /\ stable' = Default /\ trial' = {}

Next ==
  \/ \E s \in Setting : Try(s) \/ Command(s)
  \/ Keep
  \/ Restore
  \/ Restart

Spec == Init /\ [][Next]_<<stable, trial>>

=============================================================================
