----------------------------- MODULE Supervisor ------------------------------
(***************************************************************************)
(* What run_main_loop promises of a child process it keeps: the idle       *)
(* listener and the AT-SPI worker are both respawned this way.  An exit is *)
(* noticed once and arms a deadline; the deadline runs out and one start   *)
(* is tried; the delay doubles up to a cap until the child says that it is *)
(* ready.  IdleChain and FocusChain implement it, each with its own        *)
(* messages, metas and modes around it.                                    *)
(***************************************************************************)
EXTENDS Integers

CONSTANTS Base,    \* the first delay, at least 1
          Cap,     \* the longest delay, at least Base
          Retries  \* TRUE if a start that fails is tried again

VARIABLES child,  \* "none": the loop holds no child
          dueIn,  \* the time until the respawn, or NotDue
          delay   \* of the next respawn

vars == <<child, dueIn, delay>>

NotDue == -1
Longer == IF 2 * delay < Cap THEN 2 * delay ELSE Cap
Arm    == dueIn' = delay /\ delay' = Longer

Init == child = "none" /\ dueIn = NotDue /\ delay = Base

\* The first start of a daemon is not retried: a child that exits at once is.
FirstStart == /\ child = "none" /\ dueIn = NotDue
              /\ child' \in {"up", "dead"}
              /\ UNCHANGED <<dueIn, delay>>

Exit == /\ child = "up"
        /\ child' = "dead"
        /\ UNCHANGED <<dueIn, delay>>

\* The exit is seen: the loop may let go of the child at once, or keep it until the respawn.
Notice == /\ child = "dead" /\ dueIn = NotDue
          /\ child' \in {"dead", "none"}
          /\ Arm

Elapse == /\ dueIn > 0
          /\ dueIn' = dueIn - 1
          /\ UNCHANGED <<child, delay>>

\* One attempt for each deadline, and never beside a living child.
Respawn == /\ dueIn = 0 /\ child # "up"
           /\ \/ child' = "up" /\ dueIn' = NotDue /\ UNCHANGED delay
              \/ child' \in {"none", "dead"} /\ Retries /\ Arm
              \/ child' = "none" /\ ~Retries /\ dueIn' = NotDue /\ UNCHANGED delay

\* A `ready`, which may be read after the child has exited.
Ready == delay' = Base /\ UNCHANGED <<child, dueIn>>

\* The daemon goes down and takes its child along.
Down == child' = "none" /\ dueIn' = NotDue /\ delay' = Base

Next == FirstStart \/ Exit \/ Notice \/ Elapse \/ Respawn \/ Ready \/ Down

SafeSpec == Init /\ [][Next]_vars

\* A child that was lost comes to its deadline, and a deadline to its attempt.
Lost == child = "dead" \/ dueIn # NotDue
Gone == child = "none" /\ dueIn = NotDue

Live == /\ Lost ~> (dueIn = 0 \/ Gone)
        /\ dueIn = 0 ~> dueIn # 0

Spec == SafeSpec /\ Live
=============================================================================
