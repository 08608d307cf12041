------------------------------ MODULE MCStatus ------------------------------
(***************************************************************************)
(* The two things active_now (query.py) tells of the present: the presence *)
(* and the newest focus row.  Neither reads what the other is made of, so  *)
(* a behaviour explores one of them, `part`, and leaves the other alone.   *)
(***************************************************************************)
EXTENDS PresenceInputs, MCFocusLink

VARIABLE part

statusVars == <<age, watch, payload, bound, win, front, live, seen, rows, lastKey, newest, part>>

Fixed == /\ age = NoTick /\ watch = "n/a" /\ payload = NoPayload /\ ~bound

OneDesk == CHOOSE w \in Windows : w.shows = "own" /\ w.runs = NoId

StatusInit ==
    /\ part \in {"presence", "focus"}
    /\ PresenceInit /\ LinkInit
    /\ part = "focus" => Fixed
    /\ part = "presence" => win = OneDesk /\ live = {} /\ front = CHOOSE f \in Fronts : TRUE

StatusNext ==
    /\ UNCHANGED part
    /\ \/ part = "presence" /\ PresenceNext /\ UNCHANGED linkVars
       \/ part = "focus" /\ LinkNext /\ UNCHANGED inputs

\* The fairness of the focus part is asked of it alone.
StatusFairness == /\ WF_statusVars(part = "focus" /\ Probe /\ UNCHANGED <<inputs, part>>)
                  /\ WF_statusVars(part = "focus" /\ LinkTick /\ UNCHANGED <<inputs, part>>)

StatusSpec == StatusInit /\ [][StatusNext]_statusVars /\ StatusFairness

\* A behaviour of the presence part says nothing of the link.
FocusLinkConverges == part = "focus" => LinkConverges
=============================================================================
