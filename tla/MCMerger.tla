------------------------------ MODULE MCMerger ------------------------------
(***************************************************************************)
(* A scalar and a vector of two tag sets, or two scalars.  A stream emits  *)
(* facts at increasing times; the guess of a time comes before its fact,   *)
(* which then confirms it.                                                 *)
(***************************************************************************)
EXTENDS Merger

Value(i, tp, t, fact) == [of |-> i, tp |-> tp, tags |-> t, fact |-> fact]
ScalarAt(i, tp, fact) == [tp |-> tp, fact |-> fact, data |-> Value(i, tp, 0, fact)]
VectorAt(i, tp, ts, fact) ==
  [tp |-> tp, fact |-> fact, data |-> [t \in ts |-> Value(i, tp, t, fact)]]

F(i, tp) == ScalarAt(i, tp, TRUE)
G(i, tp) == ScalarAt(i, tp, FALSE)

Both(i, tp) == VectorAt(i, tp, {"a", "b"}, TRUE)
Guess(i, tp, t) == VectorAt(i, tp, {t}, FALSE)

ScalarScripts(i) ==
  {<<F(i, 1), F(i, 3)>>, <<F(i, 2), F(i, 4)>>, <<G(i, 2), F(i, 1), F(i, 2)>>,
   <<G(i, 1), G(i, 3), F(i, 2), F(i, 3)>>, <<>>}
VectorScripts(i) ==
  {<<Both(i, 1), Both(i, 3)>>, <<Guess(i, 2, "a"), Both(i, 1), Both(i, 2)>>}

Pipe(kinds, says, calls) == [kinds |-> kinds, says |-> says, calls |-> calls]
Blocking_ == {"pull", "front", "wait"}
MCPipes ==
  {Pipe(<<"scalar", "scalar">>, <<x, y>>, c) :
     x \in ScalarScripts(1), y \in {<<F(2, 2), F(2, 3)>>, <<G(2, 2), F(2, 2)>>}, c \in {Blocking_, {"try_pull"}}}
  \cup {Pipe(<<"scalar", "vector">>, <<x, y>>, {"pull"}) : x \in ScalarScripts(1), y \in VectorScripts(2)}
  \cup {Pipe(<<"vector", "vector">>, <<x, <<Both(2, 2), Both(2, 3)>>>>, {"pull"}) : x \in VectorScripts(1)}

\* A reader that does not wait, on a scalar and a vector.
TryPipes == {Pipe(<<"scalar", "vector">>, <<(<<F(1, 1)>>), (<<Both(2, 1)>>)>>, {"try_pull"})}

\* A guess of the next time, which is still there when the first fact is out.
EarlyGuess == {Pipe(<<"scalar", "scalar">>,
                    <<(<<G(1, 2), F(1, 1), F(1, 2)>>), (<<F(2, 1), F(2, 2)>>)>>, Blocking_)}

\* Streams that are not orderly: a guess that is still there when a later fact
\* comes, and a guess whose tag set the fact of its time does not have.
LateFact == {Pipe(<<"scalar", "scalar">>,
                  <<(<<G(1, 1), F(1, 3)>>), (<<F(2, 2), F(2, 3)>>)>>, Blocking_)}
OtherTags == {Pipe(<<"vector">>,
                   <<(<<Guess(1, 1, "a"), VectorAt(1, 1, {"b"}, TRUE), Both(1, 3)>>)>>, {"pull"})}
=============================================================================
