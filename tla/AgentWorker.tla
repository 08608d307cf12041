---------------------------- MODULE AgentWorker -----------------------------
(***************************************************************************)
(* The worker process of the AT-SPI agent (atspi/agent_worker.py): how the *)
(* events of the accessibility bus become focus results.  An event is      *)
(* coalesced for 80 ms, results are at least PROBE_MIN apart (a result     *)
(* that comes too early waits in a trail), title changes are throttled     *)
(* with a trail of their own, and all three keep their window in the one   *)
(* global _pending_win.                                                    *)
(*                                                                         *)
(* Everything runs on one GLib main loop: a callback is a step, callbacks  *)
(* that are due run in any order, and a unit of time passes when none is.  *)
(***************************************************************************)
EXTENDS Integers

CONSTANTS Windows,
          NameMode,      \* SENSE_ATSPI_NAME_MODE
          Background,    \* the windows that change their titles without the focus
          Coalesce,      \* the delay of flush_coalesce
          ProbeMin,      \* SENSE_ATSPI_PROBE_MS
          NameThrottle,  \* SENSE_ATSPI_NAME_MS
          BackupEvery    \* the daemon's focus_backup_seconds: desktop commands are this far apart

ASSUME AgentWorkerAssumption ==
    /\ "none" \notin Windows
    /\ NameMode \in {"off", "throttled", "on"} /\ Background \subseteq Windows
    /\ Coalesce \in Nat \ {0} /\ ProbeMin \in Nat \ {0} /\ NameThrottle \in Nat \ {0}
    /\ BackupEvery \in Nat \ {0}

VARIABLES
    flushIn,    \* time to flush_coalesce; Disarmed: _pending is False
    reason,     \* _pending_reason
    win,        \* _pending_win
    trailIn,    \* _trail_at - now; Disarmed: None
    nameIn,     \* time to name_trail_flush; Disarmed: _name_trail is False
    sinceProbe, \* now - _last_probe_ms, capped at ProbeMin
    sinceName,  \* now - _name_last, capped at NameThrottle
    backupIn,   \* time before the next desktop command may come
    focus,      \* the window activated last
    told,       \* the window of the last focus result
    strayed,    \* a window without the focus changed its title since that activation
    sinceTold,  \* time since that result, capped at ProbeMin
    gap         \* sinceTold when the last result was emitted

toldVars == <<told, sinceTold, gap>>
vars == <<flushIn, reason, win, trailIn, nameIn, sinceProbe, sinceName, backupIn, focus, told,
          strayed, sinceTold, gap>>

Disarmed == -1
NoWindow == "none"

Init == /\ flushIn = Disarmed /\ reason = "activate" /\ win = NoWindow
        /\ trailIn = Disarmed /\ nameIn = Disarmed
        /\ sinceProbe = ProbeMin /\ sinceName = NameThrottle
        /\ backupIn = BackupEvery
        /\ focus = NoWindow /\ strayed = FALSE /\ told = NoWindow
        /\ sinceTold = ProbeMin /\ gap = ProbeMin

-----------------------------------------------------------------------------
(* Building blocks *)

EmitFocusWin(w) == /\ sinceProbe' = 0
                   /\ told' = w /\ sinceTold' = 0 /\ gap' = sinceTold

\* A name does not replace an activation in the coalesce window.
ArmWin(w, r) ==
    IF flushIn # Disarmed
    THEN /\ IF r = "activate" \/ reason # "activate"
            THEN reason' = (IF r = "activate" THEN r ELSE reason) /\ win' = w
            ELSE UNCHANGED <<reason, win>>
         /\ UNCHANGED flushIn
    ELSE flushIn' = Coalesce /\ reason' = r /\ win' = w

-----------------------------------------------------------------------------
(* on_event *)

Activate(w) ==
    /\ focus' = w /\ strayed' = FALSE
    /\ ArmWin(w, "activate")
    /\ UNCHANGED <<trailIn, nameIn, sinceProbe, sinceName, backupIn, toldVars>>

NameThrottled(w) ==
    IF sinceName = NameThrottle
    THEN sinceName' = 0 /\ ArmWin(w, "name") /\ UNCHANGED nameIn
    ELSE /\ IF nameIn = Disarmed THEN nameIn' = NameThrottle - sinceName /\ win' = w
            ELSE UNCHANGED <<nameIn, win>>
         /\ UNCHANGED <<sinceName, flushIn, reason>>

NameChanges(w) ==
    /\ NameMode # "off"
    /\ w \in Background \cup {focus}
    /\ strayed' = (strayed \/ w # focus)
    /\ IF NameMode = "throttled" THEN NameThrottled(w)
       ELSE ArmWin(w, "name") /\ UNCHANGED <<nameIn, sinceName>>
    /\ UNCHANGED <<trailIn, sinceProbe, backupIn, focus, toldVars>>

-----------------------------------------------------------------------------
(* The timeouts *)

\* Mutant: a result that comes too early is dropped.
FlushCoalesceNoTrail ==
    /\ flushIn = 0
    /\ flushIn' = Disarmed /\ reason' = "activate" /\ win' = NoWindow
    /\ IF win # NoWindow /\ sinceProbe = ProbeMin
       THEN trailIn' = Disarmed /\ EmitFocusWin(win)
       ELSE UNCHANGED <<trailIn, sinceProbe, toldVars>>
    /\ UNCHANGED <<nameIn, sinceName, backupIn, focus, strayed>>

\* Mutant: a result is emitted whenever the coalesce window ends.
FlushCoalesceAlways ==
    /\ flushIn = 0
    /\ flushIn' = Disarmed /\ reason' = "activate" /\ win' = NoWindow
    /\ IF win # NoWindow THEN trailIn' = Disarmed /\ EmitFocusWin(win)
       ELSE UNCHANGED <<trailIn, sinceProbe, toldVars>>
    /\ UNCHANGED <<nameIn, sinceName, backupIn, focus, strayed>>

\* Mutant: the window stays behind when it was emitted.
FlushCoalesceKeeps ==
    /\ flushIn = 0
    /\ flushIn' = Disarmed /\ reason' = "activate"
    /\ IF win = NoWindow THEN UNCHANGED <<trailIn, sinceProbe, toldVars>>
       ELSE IF sinceProbe = ProbeMin THEN trailIn' = Disarmed /\ EmitFocusWin(win)
       ELSE trailIn' = ProbeMin - sinceProbe /\ UNCHANGED <<sinceProbe, toldVars>>
    /\ UNCHANGED <<win, nameIn, sinceName, backupIn, focus, strayed>>

\* Mutant: the coalesce window is added to the minimum.
FlushCoalesceLate ==
    /\ flushIn = 0
    /\ flushIn' = Disarmed /\ reason' = "activate"
    /\ IF win = NoWindow THEN UNCHANGED <<win, trailIn, sinceProbe, toldVars>>
       ELSE IF sinceProbe = ProbeMin
       THEN win' = NoWindow /\ trailIn' = Disarmed /\ EmitFocusWin(win)
       ELSE trailIn' = ProbeMin + Coalesce - sinceProbe /\ UNCHANGED <<win, sinceProbe, toldVars>>
    /\ UNCHANGED <<nameIn, sinceName, backupIn, focus, strayed>>

\* flush_coalesce and schedule_focus_win: emit, or wait in the trail.
FlushCoalesce ==
    /\ flushIn = 0
    /\ flushIn' = Disarmed /\ reason' = "activate"
    /\ IF win = NoWindow THEN UNCHANGED <<win, trailIn, sinceProbe, toldVars>>
       ELSE IF sinceProbe = ProbeMin
       THEN win' = NoWindow /\ trailIn' = Disarmed /\ EmitFocusWin(win)
       ELSE trailIn' = ProbeMin - sinceProbe /\ UNCHANGED <<win, sinceProbe, toldVars>>
    /\ UNCHANGED <<nameIn, sinceName, backupIn, focus, strayed>>

\* trail_tick, which also takes the window of a burst that is still coalesced.
TrailTick ==
    /\ trailIn = 0
    /\ trailIn' = Disarmed /\ win' = NoWindow
    /\ IF win # NoWindow THEN EmitFocusWin(win) ELSE UNCHANGED <<sinceProbe, toldVars>>
    /\ UNCHANGED <<flushIn, reason, nameIn, sinceName, backupIn, focus, strayed>>

NameTrailFlush ==
    /\ nameIn = 0
    /\ nameIn' = Disarmed
    /\ IF win # NoWindow THEN ArmWin(win, "name") ELSE UNCHANGED <<flushIn, reason, win>>
    /\ UNCHANGED <<trailIn, sinceProbe, sinceName, backupIn, focus, strayed, toldVars>>

\* do_probe of a desktop command: an inventory, which also restarts the minimum.
DoProbe ==
    /\ backupIn = 0 /\ backupIn' = BackupEvery
    /\ sinceProbe' = 0
    /\ UNCHANGED <<flushIn, trailIn, nameIn, sinceName, reason, win, focus, strayed, toldVars>>

Timeout == FlushCoalesce \/ TrailTick \/ NameTrailFlush

-----------------------------------------------------------------------------
Elapsed(t)     == IF t > 0 THEN t - 1 ELSE t
Grown(t, most) == IF t < most THEN t + 1 ELSE t

Tick == /\ 0 \notin {flushIn, trailIn, nameIn}
        /\ flushIn' = Elapsed(flushIn) /\ trailIn' = Elapsed(trailIn)
        /\ nameIn' = Elapsed(nameIn) /\ backupIn' = Elapsed(backupIn)
        /\ sinceProbe' = Grown(sinceProbe, ProbeMin)
        /\ sinceName' = Grown(sinceName, NameThrottle)
        /\ sinceTold' = Grown(sinceTold, ProbeMin)
        /\ UNCHANGED <<reason, win, focus, strayed, told, gap>>

Next == \/ \E w \in Windows : Activate(w) \/ NameChanges(w)
        \/ Timeout \/ DoProbe \/ Tick

Spec == Init /\ [][Next]_vars

\* The GLib loop runs what is due, and time passes.
LiveSpec == /\ Spec /\ WF_vars(Tick)
            /\ WF_vars(FlushCoalesce) /\ WF_vars(TrailTick) /\ WF_vars(NameTrailFlush)

-----------------------------------------------------------------------------
(* Every timer stays within the delay it is armed with, whichever callback  *)
(* armed it, and the window that waits or was told is one that exists.      *)
TypeOK ==
    /\ flushIn \in 0 .. Coalesce \cup {Disarmed} /\ reason \in {"activate", "name"}
    /\ win \in Windows \cup {NoWindow}
    /\ trailIn \in 0 .. ProbeMin \cup {Disarmed}
    /\ nameIn \in 0 .. NameThrottle \cup {Disarmed}
    /\ sinceProbe \in 0 .. ProbeMin /\ sinceName \in 0 .. NameThrottle
    /\ backupIn \in 0 .. BackupEvery
    /\ focus \in Windows \cup {NoWindow} /\ strayed \in BOOLEAN /\ told \in Windows \cup {NoWindow}
    /\ sinceTold \in 0 .. ProbeMin /\ gap \in 0 .. ProbeMin

Quiet == flushIn = Disarmed /\ trailIn = Disarmed /\ nameIn = Disarmed

(* A window that waits in _pending_win is always going to be told: whatever *)
(* overwrote or cleared it, one of the three timers that share it is armed. *)
PendingIsScheduled == win # NoWindow => ~Quiet

(* Focus results are at least PROBE_MIN apart, those of the trail included, *)
(* and a desktop probe between them does not bring them closer.             *)
ResultsAreSpaced == gap = ProbeMin

(* Coalescing, the minimum and the two trails lose no activation for good:  *)
(* a window that keeps the focus is told in the end, and stays told, unless *)
(* another window changes its title since it was activated.                 *)
FocusIsTold == \A w \in Windows : <>[](focus = w /\ ~strayed) => <>[](told = w)

-----------------------------------------------------------------------------
(* "Prefer activate over name" (arm_win): the window of an activation that  *)
(* is being coalesced is not replaced by the title change of another        *)
(* window; only a later activation replaces it.                             *)
ActivateOutranksName ==
    [][flushIn # Disarmed /\ reason = "activate" /\ flushIn' # Disarmed
          => win' \in {focus', NoWindow}]_vars
=============================================================================
