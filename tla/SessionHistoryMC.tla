-------------------------- MODULE SessionHistoryMC --------------------------
(***************************************************************************)
(* Values for the constants of SessionHistory that a .cfg cannot write.    *)
(***************************************************************************)
EXTENDS SessionHistory, TLC

Says(m, t) == [msg |-> m, text |-> t, parts |-> {}]

\* No tree at all: the session is new.
NoLegacy == [nodes |-> <<[parent |-> 0, upserts |-> <<>>]>>, active |-> 1]

\* What one node writes: nothing, a message, a revision of it, or two messages.
Upserts == {<<>>, <<Says(1, 2)>>, <<Says(2, 1)>>, <<Says(1, 1), Says(2, 2)>>}

\* Every tree of three nodes.
MCLegacies ==
    {NoLegacy} \cup
    {[nodes |-> <<[parent |-> 0, upserts |-> a], [parent |-> 1, upserts |-> b],
                  [parent |-> p, upserts |-> c]>>, active |-> 2] :
        a \in Upserts \ {<<>>}, b \in Upserts, c \in Upserts, p \in 1..2}

MCSymmetry == Permutations(Calls)

=============================================================================
