--------------------------- MODULE MCHttpMessages ---------------------------
(* An instance of HttpMessages for TLC.                                    *)
EXTENDS HttpMessages

\* "/a:"
SomePaths == {<<47, 97, 58>>}
\* The empty text, and "z&/", of which one character stays as it is.
SomeTexts == {<<>>, <<122, 38, 47>>}
\* Up to two of: "z" without a value, "z" and "=&" with the value "+ /"; a
\* name can come twice.
SomeQueries ==
  LET pairs == {<< <<122>>, <<>> >>, << <<122>>, <<43, 32, 47>> >>,
                << <<61, 38>>, <<43, 32, 47>> >>}
  IN {<<>>} \cup {q \in pairs \X pairs : q[1] # q[2]}
\* No header, "a" without a blank and " a:", nothing, nothing at the end.
SomeHeaders ==
  {<<>>, << <<97>>, <<32, 97, 58>> >>, << <<>> >>, << <<32, 97, 58>>, <<>> >>}
SomeCalls == [request |-> 5, response |-> 5]
ObjectSymmetry == Permutations(Objects)
=============================================================================
