------------------------- MODULE TranslationStream -------------------------
(* What a streaming translation promises its listener: pieces of text, then *)
(* one end, and nothing at all once the listener cancelled.                 *)
EXTENDS Naturals, Sequences

CONSTANT MaxPieces   \* bound on the pieces of a translation

VARIABLES
    heard,       \* what the listener got, in order
    listening

Ends == {"finish", "error"}

Init == heard = <<>> /\ listening = TRUE

Ended == heard # <<>> /\ heard[Len(heard)] \in Ends

Piece ==
    /\ listening = TRUE /\ ~Ended
    /\ Len(heard) < MaxPieces
    /\ heard' = Append(heard, "piece")
    /\ UNCHANGED listening

End ==
    /\ listening = TRUE /\ ~Ended
    /\ \E e \in Ends : heard' = Append(heard, e)
    /\ UNCHANGED listening

Cancel ==
    /\ listening = TRUE
    /\ listening' = FALSE
    /\ UNCHANGED heard

Next == Piece \/ End \/ Cancel

Spec == Init /\ [][Next]_<<heard, listening>>
=============================================================================
