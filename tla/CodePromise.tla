--------------------------- MODULE CodePromise ---------------------------
(***************************************************************************)
(* What the login code promises, whatever stores it: each code issued can  *)
(* be guessed wrong at most MaxAttempts times, can be accepted once at     *)
(* most, and is over for good once it was accepted or closed (its link was *)
(* used, or a newer token took its place).                                 *)
(***************************************************************************)
EXTENDS Naturals

CONSTANTS Ids, MaxAttempts

VARIABLES
  tries,     \* wrong guesses answered for each code
  accepted,  \* codes that opened a session
  closed     \* codes that will never be compared again

Init ==
  /\ tries = [i \in Ids |-> 0]
  /\ accepted = {}
  /\ closed = {}

Open(i) == i \notin closed /\ tries[i] < MaxAttempts

Miss(i) ==
  /\ Open(i)
  /\ tries' = [tries EXCEPT ![i] = @ + 1]
  /\ UNCHANGED <<accepted, closed>>

Accept(i) ==
  /\ Open(i)
  /\ accepted' = accepted \cup {i}
  /\ closed' = closed \cup {i}
  /\ UNCHANGED tries

Close ==
  /\ closed \subseteq closed'
  /\ closed' \subseteq Ids
  /\ UNCHANGED <<tries, accepted>>

Next == Close \/ \E i \in Ids : Miss(i) \/ Accept(i)

Spec == Init /\ [][Next]_<<tries, accepted, closed>>
==========================================================================
