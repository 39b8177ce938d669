------------------------------- MODULE Merger -------------------------------
(***************************************************************************)
(* The merger of an operator's arguments (expressions/merger.cc).  Every   *)
(* argument is a stream of emissions: a speculation, which a later         *)
(* emission may revise, or a fact, which is final.  The merger buffers     *)
(* what it reads of each stream in a sink, picks the next time point, asks *)
(* every sink for its value there, interpolating up to a slack, and emits  *)
(* the function of the values.  Streams are filled by other threads.       *)
(*                                                                         *)
(* A value is the term that names where it comes from; the operator's      *)
(* function is the tuple of its arguments.  The match clause is the        *)
(* default one, which compares whole tag sets (module MatchClause has all  *)
(* of them).  The push mode of the pipes is not modelled.                  *)
(***************************************************************************)
EXTENDS Integers, Sequences, FiniteSets, SequencesExt

CONSTANTS
  Pipes,     \* the pipes to look at: the kinds of the arguments ("scalar" or
             \* "vector"), what each emits, and the calls the reader makes
  Slack      \* how far interpolation reaches

Absent == [absent |-> TRUE]            \* an optional without a value
NoTime == -1                           \* the same for a time point

\* A stream is a sequence of emissions, of a value or of values by tag set.
Emissions(kind, says) ==
  /\ says \in Seq([tp : Nat, fact : BOOLEAN, data : {e.data : e \in ToSet(says)}])
  /\ \A e \in ToSet(says) :
       IF kind = "scalar" THEN e.data # Absent
       ELSE IsFiniteSet(DOMAIN e.data) /\ \A t \in DOMAIN e.data : e.data[t] # Absent

ASSUME MergerAssumption ==
  /\ Slack \in Nat
  /\ \A p \in Pipes :
       /\ p.kinds \in Seq({"scalar", "vector"}) /\ p.kinds # << >>
       /\ DOMAIN p.says = DOMAIN p.kinds
       /\ p.calls \subseteq {"pull", "try_pull", "wait", "front"}
       /\ \A i \in DOMAIN p.kinds : Emissions(p.kinds[i], p.says[i])

VARIABLES
  pipe,      \* the pipe
  pushed,    \* how many emissions each stream holds or held
  open,      \* whether the other end of each stream may still push
  taken,     \* how many of them the merger has read
  sink,      \* pull_cycle::sink_
  next_tp_,  \* pull_cycle::next_tp_
  call,      \* the running call and its place, or Idle
  pending,   \* pending_pop_
  answer,    \* what the last call returned
  out        \* what the merger has emitted

vars == <<pipe, pushed, open, taken, sink, next_tp_, call, pending, answer, out>>

Inputs == DOMAIN pipe.kinds
Scalar(i) == pipe.kinds[i] = "scalar"

Earlier(x, y) == IF y = NoTime \/ (x # NoTime /\ x <= y) THEN x ELSE y
Selector(s, f) == [speculative |-> s, factual |-> f]
NoSelector == Selector(NoTime, NoTime)
Chosen(s) == IF s.factual = NoTime THEN s.speculative ELSE s.factual

(* ------------------------------ scalar sink ------------------------------ *)

EmptySink == [data |-> <<>>, recent |-> Absent]
Entry(e) == [tp |-> e.tp, data |-> e.data, fact |-> e.fact, emitted |-> FALSE]
IsEmpty(s) == s.data = <<>> /\ s.recent = Absent

Least(S) == CHOOSE n \in S : \A m \in S : n <= m

\* The first entry at or after tp, one past the end when there is none.
LowerBound(data, tp) == Least({k \in DOMAIN data : data[k].tp >= tp} \cup {Len(data) + 1})

\* The binary search for the first speculation among the first n entries.  It
\* is the search itself, for it is run on sequences that are not partitioned.
FirstSpeculation(data, n) ==
  LET search[r \in {r \in (1 .. n + 1) \X (0 .. n) : r[1] + r[2] <= n + 1}] ==
        LET first == r[1]
            half  == r[2] \div 2
        IN IF r[2] = 0 THEN first
           ELSE IF data[first + half].fact
                THEN search[<<first + half + 1, r[2] - half - 1>>]
                ELSE search[<<first, half>>]
  IN search[<<1, n>>]

\* The entries from a to b (not included) are erased.
Erase(data, a, b) == SubSeq(data, 1, a - 1) \o SubSeq(data, b, Len(data))

SuggestScalar(s) ==
  LET fresh == {k \in DOMAIN s.data : ~s.data[k].emitted}
  IN IF s.data = <<>> THEN NoSelector
     ELSE Selector(IF fresh = {} THEN NoTime ELSE s.data[Least(fresh)].tp, s.data[1].tp)

MarkScalar(s, tp) ==
  [s EXCEPT !.data = [k \in DOMAIN s.data |->
      IF s.data[k].tp = tp THEN [s.data[k] EXCEPT !.emitted = TRUE] ELSE s.data[k]]]

FactEnd(s) ==
  LET first == FirstSpeculation(s.data, Len(s.data))
  IN IF first = 1 THEN NoTime ELSE s.data[first - 1].tp

Interpolate(tp, x, y) == [at |-> tp, from |-> x, to |-> y]

\* The same, with a speculation taken for a fact when its stream has ended.
GetTrusts(s, tp, lo, hi, closed) ==
  LET k == LowerBound(s.data, tp)
  IN IF k > Len(s.data) THEN [fact |-> closed, value |-> Absent]
     ELSE [fact |-> closed \/ s.data[k].fact,
           value |-> IF s.data[k].tp = tp THEN s.data[k].data ELSE Absent]

GetScalar(s, tp, lo, hi, closed) ==
  LET k    == LowerBound(s.data, tp)
      none == k > Len(s.data)
      v    == s.data[k]
      prev == IF k = 1 THEN s.recent ELSE [tp |-> s.data[k - 1].tp, data |-> s.data[k - 1].data]
  IN IF closed /\ (none \/ ~v.fact) THEN [fact |-> TRUE, value |-> Absent]
     ELSE IF none THEN [fact |-> FALSE, value |-> Absent]
     ELSE [fact  |-> v.fact,
           value |-> IF v.tp = tp THEN v.data
                     ELSE IF v.tp > hi \/ prev = Absent \/ prev.tp < lo THEN Absent
                     ELSE Interpolate(tp, prev.data, v.data)]

DropSpeculativeBefore(s, tp) ==
  LET b == LowerBound(s.data, tp)
  IN IF b <= Len(s.data) /\ s.data[b].fact THEN s
     ELSE [s EXCEPT !.data = Erase(s.data, FirstSpeculation(s.data, b - 1), b)]

\* The same without the last fact, which interpolation may still need.
ForwardForgets(s, tp, expire) ==
  [data |-> SelectSeq(s.data, LAMBDA v : v.tp > tp), recent |-> Absent]

ForwardScalar(s, tp, expire) ==
  LET recent == IF s.recent # Absent /\ s.recent.tp < expire THEN Absent ELSE s.recent
      b      == LowerBound(s.data, tp)
      keep   == IF b <= Len(s.data) /\ s.data[b].tp = tp THEN b + 1 ELSE b
      first  == FirstSpeculation(s.data, keep - 1)
      saved  == first > 1 /\ s.data[first - 1].tp >= expire
  IN [data   |-> SubSeq(s.data, keep, Len(s.data)),
      recent |-> IF saved THEN [tp |-> s.data[first - 1].tp, data |-> s.data[first - 1].data]
                 ELSE recent]

\* The entry e is put at k: a fact erases the speculations before it.  The
\* position after an insertion at the end is the end, so that the search
\* covers the new entry too.
PutOnly(s, e, data, k) == [ok |-> TRUE, sink |-> [s EXCEPT !.data = data]]

Put(s, e, data, k) ==
  [ok   |-> TRUE,
   sink |-> [s EXCEPT !.data = IF e.fact THEN Erase(data, FirstSpeculation(data, k - 1), k)
                               ELSE data]]

AcceptScalar(s, e) ==
  LET k    == LowerBound(s.data, e.tp)
      none == k > Len(s.data)
  IN IF s.recent # Absent /\ e.tp < s.recent.tp THEN [ok |-> FALSE, sink |-> s]
     ELSE IF none THEN LET data == Append(s.data, Entry(e)) IN Put(s, e, data, Len(data) + 1)
     ELSE IF s.data[k].tp = e.tp THEN Put(s, e, [s.data EXCEPT ![k] = Entry(e)], k)
     ELSE IF ~s.data[k].fact \/ e.fact THEN Put(s, e, InsertAt(s.data, k, Entry(e)), k)
     ELSE [ok |-> FALSE, sink |-> s]

\* scalar_sink::invariant: facts first, in the order of their times, all after
\* the last fact that was dropped.
ScalarSound(s) ==
  /\ s.recent # Absent /\ s.data # <<>> => s.recent.tp < s.data[1].tp
  /\ \A j, k \in DOMAIN s.data : j < k =>
       s.data[j].tp <= s.data[k].tp /\ (s.data[k].fact => s.data[j].fact)

(* ------------------------------ vector sink ------------------------------ *)

EmptyVector == [data |-> <<>>, last |-> NoTime, done |-> FALSE]

\* Entries that hold nothing are erased.
Held(data) == Restrict(data, {t \in DOMAIN data : ~IsEmpty(data[t])})

SuggestVector(s) ==
  LET all == {SuggestScalar(s.data[t]) : t \in DOMAIN s.data}
      First(times) == IF times = {} THEN NoTime ELSE Least(times)
  IN Selector(First({x.speculative : x \in all} \ {NoTime}),
              First({x.factual : x \in all} \ {NoTime}))

MarkVector(s, tp) == [s EXCEPT !.data = [t \in DOMAIN s.data |-> MarkScalar(s.data[t], tp)]]

GetVector(s, tp, lo, hi, closed) ==
  LET got   == [t \in DOMAIN s.data |-> GetScalar(s.data[t], tp, lo, hi, closed)]
      there == {t \in DOMAIN got : got[t].value # Absent}
  IN [fact   |-> \A t \in DOMAIN got : got[t].fact \/ s.last >= hi,
      values |-> [t \in there |-> got[t].value]]

ForwardVector(s, tp, expire) ==
  [s EXCEPT !.data = Held([t \in DOMAIN s.data |-> ForwardScalar(s.data[t], tp, expire)]),
            !.done = s.done \/ s.last = tp]

EntryOf(s, t) == IF t \in DOMAIN s.data THEN s.data[t] ELSE EmptySink

\* A speculation brings one tag set, a fact all of them.
AcceptVector(s, e) ==
  LET Of(t) == AcceptScalar(EntryOf(s, t), [tp |-> e.tp, fact |-> e.fact, data |-> e.data[t]])
      all   == DOMAIN e.data \cup DOMAIN s.data
      data  == [t \in all |-> IF t \in DOMAIN e.data THEN Of(t).sink ELSE s.data[t]]
  IN IF e.fact
     THEN [ok |-> TRUE,
           sink |-> [data |-> Held([t \in all |-> DropSpeculativeBefore(data[t], e.tp)]),
                     last |-> e.tp, done |-> FALSE]]
     ELSE [ok |-> \A t \in DOMAIN e.data : Of(t).ok, sink |-> [s EXCEPT !.data = data]]

VectorSound(s) ==
  /\ \A t \in DOMAIN s.data : FactEnd(s.data[t]) <= s.last
  /\ \A t \in DOMAIN s.data : ~IsEmpty(s.data[t])

(* --------------------------- the sink of an input ------------------------ *)

Sink(i)             == IF Scalar(i) THEN EmptySink ELSE EmptyVector
Suggest(i, s)       == IF Scalar(i) THEN SuggestScalar(s) ELSE SuggestVector(s)
Mark(i, s, tp)      == IF Scalar(i) THEN MarkScalar(s, tp) ELSE MarkVector(s, tp)
Accept(i, s, e)     == IF Scalar(i) THEN AcceptScalar(s, e) ELSE AcceptVector(s, e)
Forward(i, s, tp)   == IF Scalar(i) THEN ForwardScalar(s, tp, tp - Slack)
                       ELSE ForwardVector(s, tp, tp - Slack)

\* source_.is_pullable(): an emission waits or one may still come.
Pullable(i) == taken[i] < pushed[i] \/ open[i]

Get(i, tp) == IF Scalar(i) THEN GetScalar(sink[i], tp, tp - Slack, tp + Slack, ~Pullable(i))
              ELSE GetVector(sink[i], tp, tp - Slack, tp + Slack, ~Pullable(i))

(* ------------------------------ computation ------------------------------ *)

\* The arguments at tp are complete when every scalar has a value.
Args(tp) == [i \in Inputs |-> Get(i, tp)]
Complete(args) == \A i \in Inputs : Scalar(i) => args[i].value # Absent
Fact(args) == \A i \in Inputs : args[i].fact

\* The tag sets all vectors have; a scalar goes with each.
SharedTags(args) ==
  LET vectors == {i \in Inputs : ~Scalar(i)}
  IN {t \in UNION {DOMAIN args[i].values : i \in vectors} :
        \A i \in vectors : t \in DOMAIN args[i].values}
ArgsAt(args, t) ==
  [i \in Inputs |-> IF Scalar(i) THEN args[i].value ELSE args[i].values[t]]

Vectors == \E i \in Inputs : ~Scalar(i)

EmitScalar(tp, args) ==
  IF Complete(args)
  THEN <<[tp |-> tp, fact |-> Fact(args), data |-> [i \in Inputs |-> args[i].value]]>>
  ELSE <<>>

EmitVector(tp, args) ==
  LET tags   == IF Complete(args) THEN SharedTags(args) ELSE {}
      One(t) == [tp |-> tp, fact |-> FALSE, data |-> (t :> ArgsAt(args, t))]
  IN IF Fact(args)
     THEN <<[tp |-> tp, fact |-> TRUE, data |-> [t \in tags |-> ArgsAt(args, t)]]>>
     ELSE SetToSeq({One(t) : t \in tags})

Emission(tp, args) == IF Vectors THEN EmitVector(tp, args) ELSE EmitScalar(tp, args)

\* suggest_emit_tp: the least factual time of tps_min is absent as soon as one
\* selector, the first of which is empty, has none; so it is always absent.
Suggestion ==
  LET times == {next_tp_[i].speculative : i \in Inputs} \ {NoTime}
  IN IF times = {} THEN NoSelector
     ELSE Selector(Least(times), NoTime)

(* ------------------------------- the pipe -------------------------------- *)

Idle == [at |-> "idle"]

Init ==
  /\ pipe \in Pipes
  /\ pushed = [i \in Inputs |-> 0]
  /\ open = [i \in Inputs |-> TRUE]
  /\ taken = [i \in Inputs |-> 0]
  /\ sink = [i \in Inputs |-> Sink(i)]
  /\ next_tp_ = [i \in Inputs |-> NoSelector]
  /\ call = Idle
  /\ pending = FALSE
  /\ answer = "none"
  /\ out = <<>>

\* The threads that fill the streams.
Push(i) ==
  /\ pushed[i] < Len(pipe.says[i])
  /\ pushed' = [pushed EXCEPT ![i] = @ + 1]
  /\ UNCHANGED <<pipe, open, taken, sink, next_tp_, call, pending, answer, out>>

Close(i) ==
  /\ pushed[i] = Len(pipe.says[i]) /\ open[i]
  /\ open' = [open EXCEPT ![i] = FALSE]
  /\ UNCHANGED <<pipe, pushed, taken, sink, next_tp_, call, pending, answer, out>>

\* A call starts with the first input.  The pipe is closed at the end of
\* time: its reader does not call again.
Call(kind) ==
  /\ call = Idle /\ answer # "closed"
  /\ IF pending /\ kind = "wait"
     THEN answer' = "success" /\ UNCHANGED call
     ELSE ~pending /\ call' = [at |-> "suggest", input |-> 1, kind |-> kind] /\ UNCHANGED answer
  /\ UNCHANGED <<pipe, pushed, open, taken, sink, next_tp_, pending, out>>

PopFront ==
  /\ call = Idle /\ pending
  /\ pending' = FALSE
  /\ answer' = "success"
  /\ UNCHANGED <<pipe, pushed, open, taken, sink, next_tp_, call, out>>

Blocking == call.kind # "try_pull"

\* The next input, or the computation when there is none.
Onward == [call EXCEPT !.input = @ + 1, !.at = IF call.input = Len(pipe.kinds) THEN "emit" ELSE "suggest"]

\* An input that has a factual time point is not read.
Ready ==
  /\ call.at = "suggest" /\ next_tp_[call.input].factual # NoTime
  /\ call' = Onward
  /\ UNCHANGED <<pipe, pushed, open, taken, sink, next_tp_, pending, answer, out>>

EnterReadMore ==
  /\ call.at = "suggest" /\ next_tp_[call.input].factual = NoTime
  /\ call' = IF Pullable(call.input) THEN [call EXCEPT !.at = "read"] ELSE Onward
  /\ UNCHANGED <<pipe, pushed, open, taken, sink, next_tp_, pending, answer, out>>

\* One turn of the loop takes an emission.
ReadMore ==
  /\ call.at = "read"
  /\ LET i == call.input
         e == pipe.says[i][taken[i] + 1]
         a == Accept(i, sink[i], e)
         n == next_tp_[i]
     IN /\ taken[i] < pushed[i]
        /\ taken' = [taken EXCEPT ![i] = @ + 1]
        /\ sink' = [sink EXCEPT ![i] = a.sink]
        /\ next_tp_' = [next_tp_ EXCEPT ![i] =
             IF ~a.ok THEN n
             ELSE Selector(Earlier(n.speculative, e.tp),
                           IF e.fact /\ n.factual = NoTime THEN e.tp ELSE n.factual)]
  /\ UNCHANGED <<pipe, pushed, open, call, pending, answer, out>>

\* The loop ends when nothing can be taken: at once after a fact or in a call
\* that does not block, else only when the stream is closed.
EndReadMore ==
  /\ call.at = "read"
  /\ taken[call.input] = pushed[call.input]
  /\ Blocking /\ next_tp_[call.input].factual = NoTime => ~open[call.input]
  /\ call' = Onward
  /\ UNCHANGED <<pipe, pushed, open, taken, sink, next_tp_, pending, answer, out>>

\* The end of wait, and of a pull that finds no time point.
Nothing ==
  /\ call.at = "emit"
  /\ Chosen(Suggestion) = NoTime \/ call.kind = "wait"
  /\ answer' = IF Chosen(Suggestion) # NoTime THEN "success"
               ELSE IF Blocking \/ \A i \in Inputs : ~Pullable(i) THEN "closed" ELSE "empty"
  /\ pending' = (call.kind = "front")
  /\ call' = Idle
  /\ UNCHANGED <<pipe, pushed, open, taken, sink, next_tp_, out>>

\* A fact that is marked as emitted and not dropped.
EmitKeeps ==
  /\ call.at = "emit" /\ call.kind # "wait" /\ Chosen(Suggestion) # NoTime
  /\ LET tp   == Chosen(Suggestion)
         args == Args(tp)
     IN /\ out' = out \o Emission(tp, args)
        /\ sink' = [i \in Inputs |-> IF Fact(args) /\ Scalar(i) THEN sink[i]
                                     ELSE Mark(i, sink[i], tp)]
  /\ next_tp_' = [i \in Inputs |-> Suggest(i, sink'[i])]
  /\ answer' = "success"
  /\ pending' = (call.kind = "front")
  /\ call' = Idle
  /\ UNCHANGED <<pipe, pushed, open, taken>>

\* The computation at the chosen time point: a fact drops everything up to it,
\* a speculation is marked as emitted.
Emit ==
  /\ call.at = "emit" /\ call.kind # "wait" /\ Chosen(Suggestion) # NoTime
  /\ LET tp   == Chosen(Suggestion)
         args == Args(tp)
     IN /\ out' = out \o Emission(tp, args)
        /\ sink' = [i \in Inputs |-> IF Fact(args) THEN Forward(i, sink[i], tp)
                                     ELSE Mark(i, sink[i], tp)]
  /\ next_tp_' = [i \in Inputs |-> Suggest(i, sink'[i])]
  /\ answer' = "success"
  /\ pending' = (call.kind = "front")
  /\ call' = Idle
  /\ UNCHANGED <<pipe, pushed, open, taken>>

Feed == \E i \in Inputs : Push(i) \/ Close(i)
Work == Ready \/ EnterReadMore \/ ReadMore \/ EndReadMore \/ Nothing \/ Emit
Ask  == \/ \E kind \in pipe.calls : Call(kind)
        \/ PopFront

Next == Feed \/ Work \/ Ask

\* The reader keeps pulling and the streams end; both are outside merger.cc.
Take == (\E kind \in pipe.calls \ {"wait"} : Call(kind)) \/ PopFront
Spec == Init /\ [][Next]_vars /\ WF_vars(Feed) /\ WF_vars(Work) /\ SF_vars(Take)

(* ------------------------------ properties ------------------------------- *)

\* What the properties need of the streams.  A fact is final: what follows it
\* is later (expression.h: never overridden, no speculation at or before it).
Final(says) == \A j, k \in DOMAIN says : j < k /\ says[j].fact => says[j].tp < says[k].tp

\* A fact confirms the guesses of its time, and one that comes after all that
\* is buffered finds no guess there.
Names(kind, e) == IF kind = "scalar" THEN {"the scalar"} ELSE DOMAIN e.data
Confirmed(kind, says) ==
  \A j, k \in DOMAIN says : j < k /\ ~says[j].fact /\ says[k].fact =>
    \A t \in Names(kind, says[j]) :
      /\ says[j].tp = says[k].tp => t \in Names(kind, says[k])
      /\ says[j].tp < says[k].tp /\ t \in Names(kind, says[k]) =>
           \E m \in 1 .. k - 1 : IF says[m].fact THEN m > j /\ says[j].tp <= says[m].tp
                                ELSE t \in Names(kind, says[m]) /\ says[k].tp <= says[m].tp
StreamsAreOrderly ==
  \A i \in Inputs : Final(pipe.says[i]) /\ Confirmed(pipe.kinds[i], pipe.says[i])

\* The time of a fact: a reader that never waits takes what there is for all
\* there is, which a vector that holds nothing yet does not tell from the end.
Waits == "try_pull" \in pipe.calls => \A i \in Inputs : Scalar(i)

\* What the facts of a stream say of tag set t (of the value, for a scalar) at
\* tp: the value at tp, or an interpolation of the facts on both sides, each
\* within the slack; nothing when there is none.
FactsOn(i, t) == {k \in DOMAIN pipe.says[i] :
  pipe.says[i][k].fact /\ (Scalar(i) \/ t \in DOMAIN pipe.says[i][k].data)}
Reference(i, t, tp) ==
  LET at     == FactsOn(i, t)
      Val(k) == IF Scalar(i) THEN pipe.says[i][k].data ELSE pipe.says[i][k].data[t]
      T(k)   == pipe.says[i][k].tp
      before == {k \in at : T(k) < tp /\ \A j \in at : T(j) < tp => T(j) <= T(k)}
      after  == {k \in at : T(k) > tp /\ \A j \in at : T(j) > tp => T(j) >= T(k)}
  IN {Val(k) : k \in {j \in at : T(j) = tp}}
       \cup {Interpolate(tp, Val(j), Val(k)) :
               j \in {b \in before : T(b) >= tp - Slack /\ ~\E e \in at : T(e) = tp},
               k \in {a \in after : T(a) <= tp + Slack}}

\* The argument tuples that the facts of all streams give at tp: by tag set for
\* a vector, a set of at most one for scalars.
ReferenceAt(tp, t) ==
  {args \in [Inputs -> UNION {Reference(i, t, tp) : i \in Inputs}] :
     \A i \in Inputs : args[i] \in Reference(i, t, tp)}
FactTags == UNION {UNION {DOMAIN e.data : e \in {x \in ToSet(pipe.says[i]) : x.fact}} :
                     i \in {j \in Inputs : ~Scalar(j)}}
ReferenceFact(tp) ==
  IF Vectors
  THEN LET tags == {t \in FactTags : ReferenceAt(tp, t) # {}}
       IN {[t \in tags |-> CHOOSE a \in ReferenceAt(tp, t) : TRUE]}
  ELSE ReferenceAt(tp, 0)

\* A fact is what the complete streams say at its time, whatever the order in
\* which the streams delivered, what else they speculated and when they ended:
\* expression.h says facts are known correct and never overridden.
\* Nothing follows a fact at or before its time, so a reader may forget
\* everything up to it.
FactsAreFinal ==
  \A k \in DOMAIN out : out[k].fact =>
    /\ out[k].data \in ReferenceFact(out[k].tp)
    /\ \A j \in k + 1 .. Len(out) : out[k].tp < out[j].tp

\* The invariants the sinks assert: facts before speculations, times in order,
\* nothing at or before what interpolation remembers.
SinksAreSound ==
  \A i \in Inputs : IF Scalar(i) THEN ScalarSound(sink[i])
                    ELSE VectorSound(sink[i]) /\ \A t \in DOMAIN sink[i].data : ScalarSound(sink[i].data[t])

\* The times at which the facts of all streams give an answer.
FactTimes ==
  {e.tp : e \in UNION {{x \in ToSet(pipe.says[i]) : x.fact} : i \in Inputs}}
Answered == {tp \in FactTimes : ReferenceFact(tp) \notin {{}, {<<>>}}}

\* A reader that only makes calls that block gets the fact of every time at
\* which the streams have one, and then the end: no fact is lost, factual
\* emissions being the ones that contain all data (expression.h:98).
AllFactsCome ==
  "try_pull" \notin pipe.calls =>
    <>(/\ answer = "closed"
       /\ \A tp \in Answered : \E k \in DOMAIN out : out[k].fact /\ out[k].tp = tp)

\* The same when the fact of a guess follows it at once.  (After the emission
\* of a speculation its time counts as factual, the input is not read again,
\* and what it still has to say is lost: AllFactsCome does not hold.)
Settled(i) ==
  \A k \in DOMAIN pipe.says[i] : ~pipe.says[i][k].fact =>
    /\ k < Len(pipe.says[i])
    /\ pipe.says[i][k + 1].fact /\ pipe.says[i][k + 1].tp = pipe.says[i][k].tp
FactsComplete == (\A i \in Inputs : Settled(i)) => AllFactsCome
=============================================================================
