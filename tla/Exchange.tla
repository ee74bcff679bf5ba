------------------------------- MODULE Exchange -------------------------------
(***************************************************************************)
(* What the dispatch of a request promises: one answer, whole, out of those*)
(* its chain can come to, or the end of the process if a panic in it is    *)
(* recovered nowhere or in a goroutine where nothing can recover it.       *)
(***************************************************************************)
VARIABLES
  answers, \* the answers the chain can come to
  panics,  \* whether a panic can come through
  fatal,   \* whether a goroutine nobody waits for can end the process
  phase,   \* "open", "answered", "crashed"
  answer   \* the answer, once there is one

vars == <<answers, panics, fatal, phase, answer>>

Init == phase = "open"

Reply ==
  /\ phase = "open"
  /\ answer' \in answers
  /\ phase' = "answered"
  /\ UNCHANGED <<answers, panics, fatal>>

\* The second kind of panic also comes after the answer.
Crash ==
  /\ \/ phase = "open" /\ panics
     \/ phase # "crashed" /\ fatal
  /\ phase' = "crashed"
  /\ UNCHANGED <<answers, panics, fatal, answer>>

Next == Reply \/ Crash

Spec == Init /\ [][Next]_vars

\* Nothing is answered but what the chain can come to.
OneOfThem == phase = "answered" => answer \in answers

\* A request whose chain can come to an end gets an answer, or the process ends.
Closes == phase = "open" /\ (answers # {} \/ panics) ~> phase # "open"
=============================================================================
