--------------------------- MODULE SerialListeners --------------------------
(***************************************************************************)
(* What the packet pipeline promises to the application, without locks,    *)
(* queues or awaits: every lane is a first-in first-out server that runs   *)
(* the listeners of one frame at a time.                                   *)
(***************************************************************************)
EXTENDS Naturals, Sequences

CONSTANTS Lanes, FrameId, Idle    \* Idle is not in FrameId

VARIABLES
  waiting,   \* frames accepted and not yet started, by lane, oldest first
  running    \* the frame whose listeners run, or Idle, by lane

vars == <<waiting, running>>

Init ==
  /\ waiting = [l \in Lanes |-> <<>>]
  /\ running = [l \in Lanes |-> Idle]

\* A frame is accepted: it is younger than every frame of the lane.
Accept(l, n) ==
  /\ \A i \in DOMAIN waiting[l] : waiting[l][i] < n
  /\ running[l] # Idle => running[l] < n
  /\ waiting' = [waiting EXCEPT ![l] = Append(@, n)]
  /\ UNCHANGED running

\* The oldest frame's listeners start; none of the lane is running.
Start(l) ==
  /\ waiting[l] # <<>>
  /\ running[l] = Idle
  /\ running' = [running EXCEPT ![l] = Head(waiting[l])]
  /\ waiting' = [waiting EXCEPT ![l] = Tail(@)]

\* The oldest frame is given up without a listener: cancelled, or refused.
Drop(l) ==
  /\ waiting[l] # <<>>
  /\ running[l] = Idle
  /\ waiting' = [waiting EXCEPT ![l] = Tail(@)]
  /\ UNCHANGED running

Finish(l) ==
  /\ running[l] # Idle
  /\ running' = [running EXCEPT ![l] = Idle]
  /\ UNCHANGED waiting

Next ==
  \E l \in Lanes :
    \/ \E n \in FrameId : Accept(l, n)
    \/ Start(l) \/ Drop(l) \/ Finish(l)

Spec == Init /\ [][Next]_vars
=============================================================================
