------------------------------ MODULE Selection ------------------------------
(***************************************************************************)
(* Loops of the code that go through a list and keep some of its elements. *)
(***************************************************************************)
EXTENDS Naturals, Sequences

\* The elements of a sequence at some of its positions, in their order.
Select(s, positions) ==
  LET upto[i \in 0 .. Len(s)] ==
        IF i = 0 THEN <<>>
        ELSE IF i \in positions THEN Append(upto[i - 1], s[i]) ELSE upto[i - 1]
  IN upto[Len(s)]
=============================================================================
