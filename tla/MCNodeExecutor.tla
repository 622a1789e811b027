--------------------------- MODULE MCNodeExecutor ---------------------------
(* NodeExecutor for TLC: two calls are enough for every interaction, since    *)
(* workers meet only in the queues and under a common id.  They are a task    *)
(* and a sub task of one request, or tasks of two requests.                   *)
EXTENDS NodeExecutor, TLC

CONSTANTS c1, c2, main, sub, other, r1, r2

TaskAndSub  == c1 :> main @@ c2 :> sub
TwoRequests == c1 :> main @@ c2 :> other
Requests    == main :> r1 @@ sub :> r1 @@ other :> r2
=============================================================================
