----------------------------- MODULE FifoQueue -----------------------------
(***************************************************************************)
(* What a ThreadSafeQueue promises its users, with no lock, no condition   *)
(* variable and no thread in sight: what has been put in comes out at most *)
(* once, in the order it went in.  `sent' is everything ever put in, `got' *)
(* everything ever taken out.  A queue that is shut down simply stops      *)
(* delivering, so Close is not a step of its own.                          *)
(***************************************************************************)
EXTENDS Naturals, Sequences

CONSTANT Items

VARIABLES sent, got

fifoVars == <<sent, got>>

FifoInit == sent = <<>> /\ got = <<>>

Put == \E v \in Items : sent' = Append(sent, v) /\ UNCHANGED got

Get == /\ Len(got) < Len(sent)
       /\ got' = Append(got, sent[Len(got) + 1])
       /\ UNCHANGED sent

FifoNext == Put \/ Get

FifoSpec == FifoInit /\ [][FifoNext]_fifoVars
=============================================================================
