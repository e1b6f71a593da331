----------------------------- MODULE Selections -----------------------------
(***************************************************************************)
(* What a filter leaves of a list, by position: the transport, the context  *)
(* manager and the adapters all take some of the items of a list, in order. *)
(***************************************************************************)
EXTENDS Integers, Sequences

\* The items of a list at some of its positions, and these positions, in order.
At(rs, S) ==
    LET upto[n \in 0..Len(rs)] ==
            IF n = 0 THEN <<>>
            ELSE IF n \in S THEN Append(upto[n - 1], rs[n]) ELSE upto[n - 1]
    IN  upto[Len(rs)]
InOrder(rs, S) == At([k \in 1..Len(rs) |-> k], S)
=============================================================================
