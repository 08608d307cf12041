-------------------------- MODULE WatchStop_proofs ---------------------------
(***************************************************************************)
(* stop() and the reader thread, for both wrappers, for a child that obeys *)
(* or does not, and for every bound on its lines: at most one line is late,*)
(* and none comes once stop() has returned.                                *)
(***************************************************************************)
EXTENDS WatchStop, TLAPS

\* A line past its check is the only one that may still be delivered, and it was checked
\* before the flag; once the thread is joined it has ended.
LateInv ==
    /\ stopFlag /\ reader = "deliver" => delivered = 0
    /\ ~stopFlag => delivered = 0
    /\ delivered <= 1

JoinInv == main = "stopped" => reader = "done"

IInv == TypeOK /\ LateInv /\ JoinInv

LEMMA InitIInv == Init => IInv
  <1> SUFFICES ASSUME Init
               PROVE  IInv
    OBVIOUS
  <1>1. pipe \in 0 .. MaxPipe /\ delivered \in 0 .. 2
    BY WatchStopAssumption DEF Init
  <1>2. TypeOK
    BY <1>1 DEF Init, TypeOK, MainStep
  <1> QED
    BY <1>2 DEF Init, IInv, LateInv, JoinInv

LEMMA NextType == TypeOK /\ [Next]_vars => TypeOK'
  <1> SUFFICES ASSUME TypeOK, [Next]_vars
               PROVE  TypeOK'
    OBVIOUS
  <1> USE WatchStopAssumption DEF TypeOK, MainStep, Goto
  <1>1. CASE SetStop
    BY <1>1 DEF SetStop
  <1>2. CASE SendQuit \/ CloseStdout \/ Terminate
    BY <1>2 DEF SendQuit, CloseStdout, Terminate
  <1>3. CASE Wait \/ Kill \/ Reap \/ Join
    BY <1>3 DEF Wait, Kill, Reap, Join
  <1>4. CASE ReadNext
    BY <1>4 DEF ReadNext
  <1>5. CASE ReadReturns
    BY <1>5 DEF ReadReturns
  <1>6. CASE CheckStop \/ Deliver
    BY <1>6 DEF CheckStop, Deliver
  <1>7. CASE ChildWrites \/ ChildObeys \/ ChildExits
    BY <1>7 DEF ChildWrites, ChildObeys, ChildExits
  <1>8. CASE UNCHANGED vars
    BY <1>8 DEF vars
  <1> QED
    BY <1>1, <1>2, <1>3, <1>4, <1>5, <1>6, <1>7, <1>8 DEF Next, Stop, Reader, Finished

LEMMA NextLate == IInv /\ [Next]_vars => LateInv'
  <1> SUFFICES ASSUME IInv, [Next]_vars
               PROVE  LateInv'
    OBVIOUS
  <1> USE DEF IInv, LateInv
  <1>1. CASE SetStop
    BY <1>1 DEF SetStop
  <1>2. CASE Stop
    BY <1>2 DEF Stop, SendQuit, CloseStdout, Terminate, Wait, Kill, Reap, Join
  <1>3. CASE ReadNext \/ ReadReturns
    BY <1>3 DEF ReadNext, ReadReturns
  \* The flag is read here: a line that passes finds it unset.
  <1>4. CASE CheckStop
    BY <1>4 DEF CheckStop
  <1>5. CASE Deliver
    BY <1>5 DEF Deliver
  <1>6. CASE ChildWrites \/ ChildObeys \/ ChildExits
    BY <1>6 DEF ChildWrites, ChildObeys, ChildExits
  <1>7. CASE UNCHANGED vars
    BY <1>7 DEF vars
  <1> QED
    BY <1>1, <1>2, <1>3, <1>4, <1>5, <1>6, <1>7 DEF Next, Reader, Finished

LEMMA NextJoin == IInv /\ [Next]_vars => JoinInv'
  <1> SUFFICES ASSUME IInv, [Next]_vars
               PROVE  JoinInv'
    OBVIOUS
  <1> USE DEF IInv, JoinInv, Goto
  <1>1. CASE SetStop
    BY <1>1, WatchStopAssumption DEF SetStop
  <1>2. CASE Stop
    BY <1>2 DEF Stop, SendQuit, CloseStdout, Terminate, Wait, Kill, Reap, Join
  <1>3. CASE Reader
    BY <1>3 DEF Reader, ReadNext, ReadReturns, CheckStop, Deliver
  <1>4. CASE ChildWrites \/ ChildObeys \/ ChildExits
    BY <1>4 DEF ChildWrites, ChildObeys, ChildExits
  <1>5. CASE UNCHANGED vars
    BY <1>5 DEF vars
  <1> QED
    BY <1>1, <1>2, <1>3, <1>4, <1>5 DEF Next, Finished

LEMMA IInvHolds == Spec => []IInv
  <1>1. IInv /\ [Next]_vars => IInv'
    BY NextType, NextLate, NextJoin DEF IInv
  <1> QED
    BY InitIInv, <1>1, PTL DEF Spec

(* stop() and the reader stay at their statements, and the reader takes no  *)
(* line the child did not write.                                            *)
THEOREM TypeCorrect == Spec => []TypeOK
  <1>1. IInv => TypeOK
    BY DEF IInv
  <1> QED
    BY <1>1, IInvHolds, PTL

(* _read_loop looks at _stop after it read a line: however the child, the   *)
(* reader and stop() interleave, one line at most slips through.            *)
THEOREM OneLineIsLate == Spec => []AtMostOneLateLine
  <1>1. IInv => AtMostOneLateLine
    BY DEF IInv, LateInv, AtMostOneLateLine
  <1> QED
    BY <1>1, IInvHolds, PTL

(* Once stop() has returned the reader has ended, so the queue receives     *)
(* nothing more of the old child.                                           *)
THEOREM NoLineAfterStop == Spec => NothingAfterStop
  <1>1. IInv /\ [Next]_vars => (main = "stopped" => delivered' = delivered)
    <2> SUFFICES ASSUME IInv, [Next]_vars, main = "stopped"
                 PROVE  delivered' = delivered
      OBVIOUS
    <2>1. reader = "done"
      BY DEF IInv, JoinInv
    <2> QED
      BY <2>1 DEF Next, SetStop, Stop, SendQuit, CloseStdout, Terminate, Wait, Kill, Reap, Join,
                  Reader, ReadNext, ReadReturns, CheckStop, Deliver, ChildWrites, ChildObeys,
                  ChildExits, Finished, Goto, vars
  <1> QED
    BY <1>1, IInvHolds, PTL DEF Spec, NothingAfterStop
=============================================================================
