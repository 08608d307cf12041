------------------------- MODULE AgentWorker_proofs --------------------------
(***************************************************************************)
(* The three timers that share _pending_win, for every set of windows and  *)
(* every delay: each stays within the delay it is armed with, a window     *)
(* that waits is always scheduled, and results keep their minimum distance *)
(* although three callbacks emit and restart it.                           *)
(***************************************************************************)
EXTENDS AgentWorker, TLAPS

\* The distance of results is kept by sinceProbe, which is never ahead of the time since
\* the last result; a trail is armed for at least what is still missing of it.
SpacingInv ==
    /\ sinceProbe <= sinceTold
    /\ trailIn # Disarmed => trailIn + sinceTold >= ProbeMin
    /\ gap = ProbeMin

LEMMA TypeOKInit == Init => TypeOK
<1> SUFFICES ASSUME Init
             PROVE  TypeOK
  OBVIOUS
<1>1. /\ flushIn \in 0 .. Coalesce \cup {Disarmed} /\ trailIn \in 0 .. ProbeMin \cup {Disarmed}
      /\ nameIn \in 0 .. NameThrottle \cup {Disarmed}
  BY DEF Init
<1>2. /\ sinceProbe \in 0 .. ProbeMin /\ sinceName \in 0 .. NameThrottle
      /\ backupIn \in 0 .. BackupEvery /\ sinceTold \in 0 .. ProbeMin /\ gap \in 0 .. ProbeMin
  BY AgentWorkerAssumption DEF Init
<1>3. /\ win \in Windows \cup {NoWindow} /\ focus \in Windows \cup {NoWindow}
      /\ told \in Windows \cup {NoWindow}
  BY DEF Init
<1>4. reason \in {"activate", "name"} /\ strayed \in BOOLEAN
  BY DEF Init
<1> QED
  BY <1>1, <1>2, <1>3, <1>4 DEF TypeOK

(* An event or the end of a title's throttle arms the coalesce window, or   *)
(* leaves it as it is; the window that waits is one that exists.            *)
LEMMA ArmWinArms ==
    ASSUME TypeOK, NEW w \in Windows, NEW r \in {"activate", "name"}, ArmWin(w, r)
    PROVE  /\ flushIn' \in 0 .. Coalesce
           /\ reason' \in {"activate", "name"}
           /\ win' \in Windows \cup {NoWindow}
BY AgentWorkerAssumption DEF ArmWin, TypeOK, Disarmed

(* A tick moves each timer toward its end without disarming it.             *)
LEMMA ElapsedTimer ==
    ASSUME NEW most \in Nat, NEW t \in 0 .. most \cup {Disarmed}, t # 0
    PROVE  /\ Elapsed(t) \in 0 .. most \cup {Disarmed}
           /\ Elapsed(t) = Disarmed <=> t = Disarmed
           /\ t # Disarmed => Elapsed(t) = t - 1
BY DEF Elapsed, Disarmed

LEMMA GrownTime ==
    ASSUME NEW most \in Nat, NEW t \in 0 .. most
    PROVE  Grown(t, most) \in 0 .. most /\ Grown(t, most) >= t
           /\ (t < most => Grown(t, most) = t + 1) /\ (t = most => Grown(t, most) = most)
BY DEF Grown

LEMMA TypeOKStep == TypeOK /\ [Next]_vars => TypeOK'
<1> SUFFICES ASSUME TypeOK, [Next]_vars
             PROVE  TypeOK'
  OBVIOUS
<1> USE AgentWorkerAssumption
<1>1. ASSUME NEW w \in Windows, Activate(w)
      PROVE  TypeOK'
  <2>1. /\ flushIn' \in 0 .. Coalesce /\ reason' \in {"activate", "name"}
        /\ win' \in Windows \cup {NoWindow}
    BY <1>1, ArmWinArms DEF Activate
  <2> QED
    BY <1>1, <2>1 DEF TypeOK, Activate, toldVars
<1>2. ASSUME NEW w \in Windows, NameChanges(w)
      PROVE  TypeOK'
  <2>1. /\ flushIn' \in 0 .. Coalesce \cup {Disarmed} /\ reason' \in {"activate", "name"}
        /\ win' \in Windows \cup {NoWindow}
    <3>1. CASE ArmWin(w, "name")
      BY <3>1, ArmWinArms
    <3>2. CASE /\ win' \in {w, win} /\ UNCHANGED <<flushIn, reason>>
      BY <3>2 DEF TypeOK
    <3> QED
      BY <1>2, <3>1, <3>2 DEF NameChanges, NameThrottled
  <2>2. nameIn' \in 0 .. NameThrottle \cup {Disarmed} /\ sinceName' \in 0 .. NameThrottle
    BY <1>2 DEF NameChanges, NameThrottled, TypeOK, Disarmed
  <2>3. strayed' \in BOOLEAN
    BY <1>2 DEF NameChanges
  <2>4. UNCHANGED <<trailIn, sinceProbe, backupIn, focus, told, sinceTold, gap>>
    BY <1>2 DEF NameChanges, toldVars
  <2> QED
    BY <2>1, <2>2, <2>3, <2>4 DEF TypeOK
<1>3. CASE FlushCoalesce
  BY <1>3 DEF TypeOK, FlushCoalesce, EmitFocusWin, toldVars, Disarmed
<1>4. CASE TrailTick
  BY <1>4 DEF TypeOK, TrailTick, EmitFocusWin, toldVars, Disarmed
<1>5. CASE NameTrailFlush
  <2>1. /\ flushIn' \in 0 .. Coalesce \cup {Disarmed} /\ reason' \in {"activate", "name"}
        /\ win' \in Windows \cup {NoWindow}
    <3>1. CASE win # NoWindow
      <4>1. win \in Windows /\ ArmWin(win, "name")
        BY <1>5, <3>1 DEF NameTrailFlush, TypeOK
      <4> QED
        BY <4>1, ArmWinArms
    <3>2. CASE win = NoWindow
      BY <1>5, <3>2 DEF NameTrailFlush, TypeOK
    <3> QED
      BY <3>1, <3>2
  <2> QED
    BY <1>5, <2>1 DEF TypeOK, NameTrailFlush, toldVars, Disarmed
<1>6. CASE DoProbe
  BY <1>6 DEF TypeOK, DoProbe, toldVars
<1>7. CASE Tick
  <2>1. flushIn' \in 0 .. Coalesce \cup {Disarmed}
    BY <1>7, ElapsedTimer DEF TypeOK, Tick
  <2>2. trailIn' \in 0 .. ProbeMin \cup {Disarmed}
    BY <1>7, ElapsedTimer DEF TypeOK, Tick
  <2>3. nameIn' \in 0 .. NameThrottle \cup {Disarmed}
    BY <1>7, ElapsedTimer DEF TypeOK, Tick
  <2>4. backupIn' \in 0 .. BackupEvery
    BY <1>7 DEF TypeOK, Tick, Elapsed
  <2>5. /\ sinceProbe' \in 0 .. ProbeMin /\ sinceName' \in 0 .. NameThrottle
        /\ sinceTold' \in 0 .. ProbeMin
    BY <1>7, GrownTime DEF TypeOK, Tick
  <2> QED
    BY <1>7, <2>1, <2>2, <2>3, <2>4, <2>5 DEF TypeOK, Tick
<1>8. CASE UNCHANGED vars
  BY <1>8 DEF TypeOK, vars
<1> QED
  BY <1>1, <1>2, <1>3, <1>4, <1>5, <1>6, <1>7, <1>8 DEF Next, Timeout

(* Every timer stays within the delay it is armed with.                     *)
THEOREM TypeCorrect == Spec => []TypeOK
BY TypeOKInit, TypeOKStep, PTL DEF Spec

-----------------------------------------------------------------------------
LEMMA PendingStep ==
    TypeOK /\ PendingIsScheduled /\ [Next]_vars => PendingIsScheduled'
<1> SUFFICES ASSUME TypeOK, PendingIsScheduled, [Next]_vars
             PROVE  PendingIsScheduled'
  OBVIOUS
<1> USE AgentWorkerAssumption DEF PendingIsScheduled, Quiet
<1>1. ASSUME NEW w \in Windows, Activate(w)
      PROVE  PendingIsScheduled'
  <2>1. flushIn' \in 0 .. Coalesce
    BY <1>1, ArmWinArms DEF Activate
  <2> QED
    BY <2>1 DEF Disarmed
<1>2. ASSUME NEW w \in Windows, NameChanges(w)
      PROVE  PendingIsScheduled'
  <2>1. CASE ArmWin(w, "name")
    <3>1. flushIn' \in 0 .. Coalesce
      BY <2>1, ArmWinArms
    <3> QED
      BY <3>1 DEF Disarmed
  <2>2. CASE nameIn = Disarmed /\ nameIn' = NameThrottle - sinceName
    BY <2>2 DEF TypeOK, Disarmed
  <2>3. CASE UNCHANGED <<nameIn, win, flushIn, trailIn>>
    BY <2>3
  <2> QED
    BY <1>2, <2>1, <2>2, <2>3 DEF NameChanges, NameThrottled
<1>3. CASE FlushCoalesce
  BY <1>3 DEF FlushCoalesce, TypeOK, Disarmed, EmitFocusWin
<1>4. CASE TrailTick
  BY <1>4 DEF TrailTick
<1>5. CASE NameTrailFlush
  <2>1. CASE win # NoWindow
    <3>1. win \in Windows /\ ArmWin(win, "name")
      BY <1>5, <2>1 DEF NameTrailFlush, TypeOK
    <3>2. flushIn' \in 0 .. Coalesce
      BY <3>1, ArmWinArms
    <3> QED
      BY <3>2 DEF Disarmed
  <2>2. CASE win = NoWindow
    BY <1>5, <2>2 DEF NameTrailFlush
  <2> QED
    BY <2>1, <2>2
<1>6. CASE DoProbe
  BY <1>6 DEF DoProbe
<1>7. CASE Tick
  <2>1. /\ flushIn' = Disarmed <=> flushIn = Disarmed
        /\ trailIn' = Disarmed <=> trailIn = Disarmed
        /\ nameIn' = Disarmed <=> nameIn = Disarmed
    BY <1>7, ElapsedTimer DEF Tick, TypeOK
  <2> QED
    BY <1>7, <2>1 DEF Tick
<1>8. CASE UNCHANGED vars
  BY <1>8 DEF vars
<1> QED
  BY <1>1, <1>2, <1>3, <1>4, <1>5, <1>6, <1>7, <1>8 DEF Next, Timeout

(* Whatever overwrote or cleared _pending_win, a window that waits in it    *)
(* has an armed timer.                                                      *)
THEOREM PendingIsAlwaysScheduled == Spec => []PendingIsScheduled
<1>1. Init => PendingIsScheduled
  BY DEF Init, PendingIsScheduled
<1> QED
  BY <1>1, TypeCorrect, PendingStep, PTL DEF Spec

-----------------------------------------------------------------------------
\* An emission is allowed once the minimum has passed since the last result.
LEMMA EmissionIsSpaced ==
    ASSUME TypeOK, NEW w, EmitFocusWin(w), sinceTold = ProbeMin, trailIn' = Disarmed
    PROVE  SpacingInv'
BY AgentWorkerAssumption DEF SpacingInv, EmitFocusWin, TypeOK

LEMMA SpacingStep == TypeOK /\ SpacingInv /\ [Next]_vars => SpacingInv'
<1> SUFFICES ASSUME TypeOK, SpacingInv, [Next]_vars
             PROVE  SpacingInv'
  OBVIOUS
<1> USE AgentWorkerAssumption
<1>1. CASE \E w \in Windows : Activate(w) \/ NameChanges(w)
  <2>1. UNCHANGED <<sinceProbe, sinceTold, trailIn, gap>>
    BY <1>1 DEF Activate, NameChanges, toldVars
  <2> QED
    BY <2>1 DEF SpacingInv
<1>2. CASE FlushCoalesce
  <2>1. CASE win # NoWindow /\ sinceProbe = ProbeMin
    <3>1. sinceTold = ProbeMin
      BY <2>1 DEF SpacingInv, TypeOK
    <3> QED
      BY <1>2, <2>1, <3>1, EmissionIsSpaced DEF FlushCoalesce
  <2>2. CASE win # NoWindow /\ sinceProbe # ProbeMin
    <3>1. trailIn' = ProbeMin - sinceProbe /\ UNCHANGED <<sinceProbe, sinceTold, gap>>
      BY <1>2, <2>2 DEF FlushCoalesce, toldVars
    <3> QED
      BY <3>1 DEF SpacingInv, TypeOK
  <2>3. CASE win = NoWindow
    <3>1. UNCHANGED <<trailIn, sinceProbe, sinceTold, gap>>
      BY <1>2, <2>3 DEF FlushCoalesce, toldVars
    <3> QED
      BY <3>1 DEF SpacingInv
  <2> QED
    BY <2>1, <2>2, <2>3
<1>3. CASE TrailTick
  <2>1. sinceTold = ProbeMin /\ trailIn' = Disarmed
    BY <1>3 DEF TrailTick, SpacingInv, TypeOK, Disarmed
  <2>2. CASE win # NoWindow
    BY <1>3, <2>1, <2>2, EmissionIsSpaced DEF TrailTick
  <2>3. CASE win = NoWindow
    BY <1>3, <2>1, <2>3 DEF TrailTick, toldVars, SpacingInv
  <2> QED
    BY <2>2, <2>3
<1>4. CASE NameTrailFlush
  BY <1>4 DEF NameTrailFlush, toldVars, SpacingInv
<1>5. CASE DoProbe
  BY <1>5 DEF DoProbe, toldVars, SpacingInv, TypeOK
<1>6. CASE Tick
  <2>1. /\ trailIn' = Disarmed <=> trailIn = Disarmed
        /\ trailIn # Disarmed => trailIn' = trailIn - 1
    BY <1>6, ElapsedTimer DEF Tick, TypeOK
  <2>2. sinceProbe' = Grown(sinceProbe, ProbeMin) /\ sinceTold' = Grown(sinceTold, ProbeMin)
        /\ gap' = gap
    BY <1>6 DEF Tick
  <2>3. sinceProbe' <= sinceTold'
    BY <2>2 DEF Grown, SpacingInv, TypeOK
  <2>4. trailIn' # Disarmed => trailIn' + sinceTold' >= ProbeMin
    BY <2>1, <2>2 DEF Grown, SpacingInv, TypeOK, Disarmed
  <2> QED
    BY <2>2, <2>3, <2>4 DEF SpacingInv
<1>7. CASE UNCHANGED vars
  BY <1>7 DEF vars, SpacingInv
<1> QED
  BY <1>1, <1>2, <1>3, <1>4, <1>5, <1>6, <1>7 DEF Next, Timeout

(* Focus results are at least PROBE_MIN apart: those of the coalesce        *)
(* window, those of the trail, and across the desktop probes between them.  *)
THEOREM ResultsKeepTheirDistance == Spec => []ResultsAreSpaced
<1>1. Init => SpacingInv
  BY AgentWorkerAssumption DEF Init, SpacingInv, Disarmed
<1>2. SpacingInv => ResultsAreSpaced
  BY DEF SpacingInv, ResultsAreSpaced
<1> QED
  BY <1>1, <1>2, TypeCorrect, SpacingStep, PTL DEF Spec
=============================================================================
