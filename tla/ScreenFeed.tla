----------------------------- MODULE ScreenFeed -----------------------------
(***************************************************************************)
(* What a terminal session promises a viewer: the program prints chunks     *)
(* 1, 2, 3, ..., and from the moment a viewer is attached it is shown, one  *)
(* after the other, every chunk from some point of the past on: none left   *)
(* out, none twice, none out of order.  It may be cut off at any time.      *)
(***************************************************************************)
EXTENDS Naturals, Sequences

CONSTANT Viewers

VARIABLES
  printed,  \* how many chunks the program printed
  from,     \* the first chunk a viewer is to be shown; 0 for one not attached
  shown     \* the chunks a viewer was shown since it is attached

feedVars == <<printed, from, shown>>

Init ==
  /\ printed = 0
  /\ from = [v \in Viewers |-> 0]
  /\ shown = [v \in Viewers |-> <<>>]

PrintChunk ==
  /\ printed' = printed + 1
  /\ UNCHANGED <<from, shown>>

Attach(v) ==
  /\ from[v] = 0
  /\ \E n \in 1..printed + 1 : from' = [from EXCEPT ![v] = n]
  /\ UNCHANGED <<printed, shown>>

\* The chunk that follows the last one shown.
Due(v) == from[v] + Len(shown[v])

Show(v) ==
  /\ from[v] # 0
  /\ Due(v) <= printed
  /\ shown' = [shown EXCEPT ![v] = Append(@, Due(v))]
  /\ UNCHANGED <<printed, from>>

CutOff(v) ==
  /\ from' = [from EXCEPT ![v] = 0]
  /\ shown' = [shown EXCEPT ![v] = <<>>]
  /\ UNCHANGED printed

Next == PrintChunk \/ \E v \in Viewers : Attach(v) \/ Show(v) \/ CutOff(v)

FeedSpec == Init /\ [][Next]_feedVars
=============================================================================
