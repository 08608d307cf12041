----------------------------- MODULE WatchStop ------------------------------
(***************************************************************************)
(* stop() of the two long-lived subprocess wrappers, IdleWatch             *)
(* (collectors/idle_watch.py) and FocusAtspiAgent (atspi/agent.py), step   *)
(* by step: the main thread tears down while the reader thread iterates    *)
(* the child's stdout.  The stdout object has a lock, which a read holds   *)
(* while it blocks and which close() needs (CPython's buffered reader).    *)
(* The agent is first sent a quit command; the watch has no such command.  *)
(***************************************************************************)
EXTENDS Naturals, Sequences

CONSTANTS HasQuit,   \* FocusAtspiAgent (TRUE) or IdleWatch (FALSE)
          Stubborn,  \* the child may outlive SIGTERM for longer than the timeout
          MaxPipe    \* bound: lines in the child's stdout

ASSUME WatchStopAssumption == HasQuit \in BOOLEAN /\ Stubborn \in BOOLEAN /\ MaxPipe \in Nat

VARIABLES
    main,      \* the step of stop() the main thread is at
    stopFlag,  \* _stop is set
    child,     \* the subprocess
    told,      \* what the child was told: "nothing", "quit", "term" or "kill"
    pipe,      \* lines it has written and nobody has read
    closed,    \* stdout is closed on our side
    lock,      \* who holds the lock of the stdout object
    reader,    \* where the reader thread is
    delivered  \* lines handed to the callback since stop() was called, up to 2

vars == <<main, stopFlag, child, told, pipe, closed, lock, reader, delivered>>

MainStep == {"run", "quit", "close", "terminate", "wait", "kill", "reap", "join", "stopped"}

(* stop() and the reader are at one of their statements, and the reader is  *)
(* handed no line that the child did not write.                             *)
TypeOK == /\ main \in MainStep /\ stopFlag \in BOOLEAN
          /\ child \in {"alive", "exited"} /\ told \in {"nothing", "quit", "term", "kill"}
          /\ pipe \in 0 .. MaxPipe /\ closed \in BOOLEAN
          /\ lock \in {"free", "reader"}
          /\ reader \in {"next", "reading", "check", "deliver", "done"}
          /\ delivered \in 0 .. 2

Init == /\ main = "run" /\ stopFlag = FALSE
        /\ child = "alive" /\ told = "nothing" /\ pipe = 0 /\ closed = FALSE
        /\ lock = "free" /\ reader = "next" /\ delivered = 0

-----------------------------------------------------------------------------
(* The main thread: stop() *)

Goto(from, to) == main = from /\ main' = to

SetStop == /\ Goto("run", IF HasQuit THEN "quit" ELSE "close")
           /\ stopFlag' = TRUE /\ delivered' = 0
           /\ UNCHANGED <<child, told, pipe, closed, lock, reader>>

\* Mutant: the command is lost in a buffer that is not flushed.
SendQuitLost == /\ Goto("quit", "close")
                /\ UNCHANGED <<stopFlag, child, told, pipe, closed, lock, reader, delivered>>

\* _send({"cmd": "quit"}) and stdin.close(); dropped when the child has exited.
SendQuit == /\ Goto("quit", "close")
            /\ told' = IF child = "alive" THEN "quit" ELSE told
            /\ UNCHANGED <<stopFlag, child, pipe, closed, lock, reader, delivered>>

\* stdout.close() waits for the lock of the object.
CloseStdout == /\ Goto("close", "terminate")
               /\ lock = "free"
               /\ closed' = TRUE
               /\ UNCHANGED <<stopFlag, child, told, pipe, lock, reader, delivered>>

Terminate == /\ Goto("terminate", "wait")
             /\ told' = "term"
             /\ UNCHANGED <<stopFlag, child, pipe, closed, lock, reader, delivered>>

\* wait(timeout) returns because the child exited, or raises after the timeout.
Wait == /\ \/ child = "exited" /\ Goto("wait", "join")
           \/ child = "alive" /\ Stubborn /\ Goto("wait", "kill")
        /\ UNCHANGED <<stopFlag, child, told, pipe, closed, lock, reader, delivered>>

Kill == /\ Goto("kill", "reap")
        /\ told' = "kill"
        /\ UNCHANGED <<stopFlag, child, pipe, closed, lock, reader, delivered>>

Reap == /\ child = "exited" /\ Goto("reap", "join")
        /\ UNCHANGED <<stopFlag, child, told, pipe, closed, lock, reader, delivered>>

\* Mutant: the thread is not joined.
JoinNothing == /\ Goto("join", "stopped")
               /\ UNCHANGED <<stopFlag, child, told, pipe, closed, lock, reader, delivered>>

\* join(timeout); the timeout is only reached by a reader that never ends.
Join == /\ reader = "done" /\ Goto("join", "stopped")
        /\ UNCHANGED <<stopFlag, child, told, pipe, closed, lock, reader, delivered>>

Stop == \/ SendQuit \/ CloseStdout \/ Terminate \/ Wait \/ Kill \/ Reap \/ Join

-----------------------------------------------------------------------------
(* The reader thread: _read_loop *)

\* `for line in proc.stdout`: a closed file raises ValueError, which ends the loop.
ReadNext == /\ reader = "next"
            /\ IF closed THEN reader' = "done" /\ UNCHANGED lock
               ELSE lock = "free" /\ lock' = "reader" /\ reader' = "reading"
            /\ UNCHANGED <<main, stopFlag, child, told, pipe, closed, delivered>>

\* Mutant: an empty line is read before the end of file.
ReadPastEnd == /\ reader = "reading"
               /\ \/ pipe' = pipe - 1 /\ reader' = "check"
                  \/ pipe = 0 /\ child = "exited" /\ reader' = "done" /\ UNCHANGED pipe
               /\ lock' = "free"
               /\ UNCHANGED <<main, stopFlag, child, told, closed, delivered>>

\* The read returns a line, or end of file once the child has exited.
ReadReturns == /\ reader = "reading"
               /\ \/ pipe > 0 /\ pipe' = pipe - 1 /\ reader' = "check"
                  \/ pipe = 0 /\ child = "exited" /\ reader' = "done" /\ UNCHANGED pipe
               /\ lock' = "free"
               /\ UNCHANGED <<main, stopFlag, child, told, closed, delivered>>

\* Mutant: the loop does not look at _stop.
CheckNothing == /\ reader = "check"
                /\ reader' = "deliver"
                /\ UNCHANGED <<main, stopFlag, child, told, pipe, closed, lock, delivered>>

CheckStop == /\ reader = "check"
             /\ reader' = IF stopFlag THEN "done" ELSE "deliver"
             /\ UNCHANGED <<main, stopFlag, child, told, pipe, closed, lock, delivered>>

Deliver == /\ reader = "deliver"
           /\ reader' = "next"
           /\ delivered' = IF delivered < 2 /\ stopFlag THEN delivered + 1 ELSE delivered
           /\ UNCHANGED <<main, stopFlag, child, told, pipe, closed, lock>>

Reader == ReadNext \/ ReadReturns \/ CheckStop \/ Deliver

-----------------------------------------------------------------------------
(* The child process *)

\* A line of its own accord: the user went idle, a window was activated.
ChildWrites == /\ child = "alive" /\ pipe < MaxPipe
               /\ pipe' = pipe + 1
               /\ UNCHANGED <<main, stopFlag, child, told, closed, lock, reader, delivered>>

ChildObeys == /\ child = "alive"
              /\ told \in {"quit", "kill"} \/ (told = "term" /\ ~Stubborn)
              /\ child' = "exited"
              /\ UNCHANGED <<main, stopFlag, told, pipe, closed, lock, reader, delivered>>

ChildExits == /\ child = "alive"
              /\ child' = "exited"
              /\ UNCHANGED <<main, stopFlag, told, pipe, closed, lock, reader, delivered>>

Finished == main = "stopped" /\ reader = "done" /\ UNCHANGED vars

Next == SetStop \/ Stop \/ Reader \/ ChildWrites \/ ChildObeys \/ ChildExits \/ Finished

Spec == Init /\ [][Next]_vars

\* The threads run, and a child does what it is told; it owes no line and no exit of its own.
LiveSpec == Spec /\ WF_vars(Stop) /\ WF_vars(Reader) /\ WF_vars(ChildObeys)

-----------------------------------------------------------------------------
(* A stop() that has begun returns.                                         *)
StopReturns == main # "run" ~> main = "stopped"

(* At most the one line whose check was passed before stop() set the flag   *)
(* is handed to the queue after it.                                         *)
AtMostOneLateLine == delivered <= 1

(* Once stop() has returned, no message of the old child reaches the queue: *)
(* the loop may start the next one.                                         *)
NothingAfterStop == [][main = "stopped" => delivered' = delivered]_vars
=============================================================================
