---------------------------- MODULE BlockStream ----------------------------
(***************************************************************************)
(* What the users of LinkContext::Send and LinkContext::Recv count on: the *)
(* blocks sent under one key arrive whole, once, and in the order sent.    *)
(* The code promises it until the first fault (a call that breaks or is    *)
(* refused, a kill); after that a block may be missing, repeated or cut    *)
(* short, but nothing arrives that was not sent.                           *)
(***************************************************************************)
EXTENDS Naturals, Sequences

VARIABLES sent,       \* number of blocks whose send has begun
          got,        \* what the receiver has, in the order of arrival
          faulty      \* has there been a fault?

streamVars == <<sent, got, faulty>>

StreamInit == sent = 0 /\ got = <<>> /\ faulty = FALSE

SendBlock == sent' = sent + 1 /\ UNCHANGED <<got, faulty>>

Fault == faulty' = TRUE /\ UNCHANGED <<sent, got>>

TakeBlock ==
  /\ \E k \in 1..sent, whole \in BOOLEAN :
        /\ faulty \/ (whole /\ k = Len(got) + 1)
        /\ got' = Append(got, [block |-> k, whole |-> whole])
  /\ UNCHANGED <<sent, faulty>>

StreamSpec == StreamInit /\ [][SendBlock \/ Fault \/ TakeBlock]_streamVars
=============================================================================
