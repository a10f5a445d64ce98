----------------------------- MODULE MCGeneration -----------------------------
(* Small instances of Generation.                                          *)
EXTENDS Generation

\* Windows shorter than the context, as long, and longer.
SmallShapes == {[context |-> 3, window |-> 2], [context |-> 4, window |-> 3],
                [context |-> 2, window |-> 5]}
\* A letter, two words with a paragraph between, a sentence end, the two
\* halves of a wide character.
SmallPieces == {<<"word">>, <<"word", "para", "word">>, <<"stop">>, <<"lead">>, <<"cont">>}
=============================================================================
