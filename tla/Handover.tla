------------------------------ MODULE Handover ------------------------------
(***************************************************************************)
(* What SinkHandler and PatternFormatterHandler promise: a setting that is *)
(* queued replaces one that is still pending, the backend takes the        *)
(* pending one over as the current one in the end, and nothing is taken    *)
(* over once the backend has stopped serving.                              *)
(***************************************************************************)
CONSTANTS
  Values,    \* the settings
  Initial,   \* the one in force at the start
  None       \* no setting is pending

VARIABLES pending, current, serving

vars == <<pending, current, serving>>

Init == pending = None /\ current = Initial /\ serving = TRUE

Queue(v) == pending' = v /\ UNCHANGED <<current, serving>>

Take ==
  /\ serving /\ pending # None
  /\ current' = pending /\ pending' = None
  /\ UNCHANGED serving

Stop == serving /\ serving' = FALSE /\ UNCHANGED <<pending, current>>

(* The handler is destroyed with what is pending.                          *)
Discard == ~serving /\ pending' = None /\ UNCHANGED <<current, serving>>

Next == (\E v \in Values : Queue(v)) \/ Take \/ Stop \/ Discard

Spec == Init /\ [][Next]_vars

FairSpec == Spec /\ WF_vars(Take)

=============================================================================
