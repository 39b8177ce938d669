----------------------------- MODULE BuildTask -----------------------------
(***************************************************************************)
(* The engine: what one collector's collections become on their way to the *)
(* histories and to the readers of its metrics.                            *)
(*                                                                         *)
(* A collection is [tp, elements, complete], an element <<name, value>>    *)
(* with the name <<group, metric>>.  A converter is its queue of records   *)
(* and what it has handed on; the member `complete` of a record is not     *)
(* initialised, and holds what the memory held, `rest`.                    *)
(***************************************************************************)
EXTENDS Matchers

Collection(tp, elements, complete) == [tp |-> tp, elements |-> elements, complete |-> complete]
Fact(tp, data) == [fact |-> TRUE, tp |-> tp, data |-> data]
Guess(tp, element) == [fact |-> FALSE, tp |-> tp, data |-> element]

\* insert_or_assign: of two elements of one name the later one stays.
DataOf(c) == FoldLeft(LAMBDA data, e : e[1] :> e[2] @@ data, << >>, c.elements)

MergeRecord(r, c) == [r EXCEPT !.data = DataOf(c) @@ @, !.complete = @ \/ c.complete]
NewRecord(c, rest) == MergeRecord([tp |-> c.tp, data |-> << >>, complete |-> rest], c)

\* accept: the queue has its times in order, each once.
\* A slip: a time that is not the last is taken for new.
AcceptAtEnd(queue, c, rest) ==
    LET n == Len(queue)
    IN  IF n > 0 /\ queue[n].tp = c.tp THEN [queue EXCEPT ![n] = MergeRecord(@, c)]
        ELSE LET i == Len(SelectSeq(queue, LAMBDA r : r.tp < c.tp))
             IN  SubSeq(queue, 1, i) \o <<NewRecord(c, rest)>> \o SubSeq(queue, i + 1, n)
Accept(queue, c, rest) ==
    LET n == Len(SelectSeq(queue, LAMBDA r : r.tp < c.tp))
        held == n < Len(queue) /\ queue[n + 1].tp = c.tp
    IN  SubSeq(queue, 1, n)
          \o <<IF held THEN MergeRecord(queue[n + 1], c) ELSE NewRecord(c, rest)>>
          \o SubSeq(queue, IF held THEN n + 2 ELSE n + 1, Len(queue))

\* maybe_emit: only the first record, however many of the others are complete.
MayEmit(queue) == queue # << >> /\ queue[1].complete
FirstFact(queue) == Fact(queue[1].tp, queue[1].data)

Speculations(c) == [i \in DOMAIN c.elements |-> Guess(c.tp, c.elements[i])]

\* collector_metricsource_push_: one collection, with everything it completes.
RECURSIVE Drain(_)
Drain(conv) ==
    IF MayEmit(conv.queue)
    THEN Drain([queue |-> Tail(conv.queue), out |-> Append(conv.out, FirstFact(conv.queue))])
    ELSE conv
PushTurn(conv, c, rest) ==
    LET queue == Accept(conv.queue, c, rest)
    IN  IF MayEmit(queue) THEN Drain([queue |-> queue, out |-> conv.out])
        ELSE [queue |-> queue, out |-> conv.out \o Speculations(c)]

\* collector_metricsource_pipe_::front: one collection, with one fact at most.
PullTurn(conv, c, rest) ==
    LET queue == Accept(conv.queue, c, rest)
    IN  IF MayEmit(queue)
        THEN [queue |-> Tail(queue), out |-> Append(conv.out, FirstFact(queue))]
        ELSE [queue |-> queue, out |-> conv.out \o Speculations(c)]

-----------------------------------------------------------------------------
\* A filter and a provided wildcard name are [group, tags, metric].
Takes(f, name) == DoMatch(f.group, name[1].path) /\ MatchTags(f.tags, name[1].tags) /\ DoMatch(f.metric, name[2])
FilterElements(f, c) == [c EXCEPT !.elements = SelectSeq(@, LAMBDA e : Takes(f, e[1]))]
Intersects(f, names) ==
    \/ \E name \in names.known : Takes(f, name)
    \/ \E w \in names.unknown :
          DoOverlap(f.group, w.group) /\ TagsOverlap(f.tags, w.tags) /\ DoOverlap(f.metric, w.metric)

\* collector_metric_source: one collection to every pipe that still takes it,
\* each with its own filter and converter; a pipe that answers anything but
\* success is erased.
\* A slip: the pipe after an erased one is passed over.
CollectSkipping(sinks, c, answers, rest) ==
    LET gone == {i \in DOMAIN sinks : answers[sinks[i].id] # "success"}
        Turn(s) == [s EXCEPT !.conv = PushTurn(@, FilterElements(s.filter, c), rest)]
    IN  SelectSeq([i \in DOMAIN sinks |-> IF i - 1 \in gone THEN sinks[i] ELSE Turn(sinks[i])],
                  LAMBDA s : answers[s.id] = "success")
Collect(sinks, c, answers, rest) ==
    LET Turn(s) == [s EXCEPT !.conv = PushTurn(@, FilterElements(s.filter, c), rest)]
    IN  SelectSeq([i \in DOMAIN sinks |-> Turn(sinks[i])], LAMBDA s : answers[s.id] = "success")

\* history_multiplexer: every history gets the facts, and only these.
HistoryGets(out) == SelectSeq(out, LAMBDA e : e.fact)
=============================================================================
