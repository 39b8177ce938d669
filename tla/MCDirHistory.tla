---------------------------- MODULE MCDirHistory ----------------------------
(* Instances of DirHistory. *)
EXTENDS DirHistory

CONSTANTS FileTimes, Ends

FileOf(S, ks, owner) ==
  [begin |-> Min(S), end |-> Max(S), valid |-> TRUE, owner |-> owner,
   recs |-> {[tp |-> t, keys |-> ks, between |-> {}] : t \in S}]

\* Up to three files, of any times; one may be written by the program.
Some(ks) == {FileOf(S, ks, TRUE) : S \in (SUBSET FileTimes) \ {{}}}
MCDisks ==
  {<<>>}
    \union {<<0, 0>> :> FileOf({1}, {"x"}, FALSE) @@ <<0, 91>> :> f : f \in Some({"y"})}
    \union {<<0, 0>> :> f @@ <<0, 91>> :> g : f \in Some({"x"}), g \in Some({"y"})}
    \union {<<0, 0>> :> FileOf({1, 3}, {"x"}, TRUE) @@ <<0, 91>> :> f @@ <<0, 92>> :> g :
              f \in Some({"x", "y"}), g \in Some({"y"})}

Opts(S) == {{}} \union {{t} : t \in S}
TimeRange(b, e, i) == [begin |-> b, end |-> e, interval |-> i]
MCReaders ==
  {[kind |-> "emit", tr |-> TimeRange(b, e, {}), slack |-> s] :
     b \in Opts({2}), e \in Opts(Ends), s \in {0, 1}}
  \union
  {[kind |-> "emit", tr |-> TimeRange(b, e, {2}), slack |-> 1] :
     b \in Opts({1}), e \in Opts(Ends)}
  \union
  {[kind |-> k, tr |-> TimeRange(b, e, {}), slack |-> 0] :
     k \in {"time", "push"}, b \in Opts({2}), e \in Opts(Ends)}

-----------------------------------------------------------------------------
\* metric_source.h: "A factual emit contains all emited values for the given
\* timestamp."  At the ends of the range it does not.
EmitsAllValues ==
  reader.status # "none" /\ reader.kind = "emit" =>
    \A i \in DOMAIN out, x \in reader.due : x.tp = out[i].tp => x.keys \subseteq out[i].keys

\* A reader comes to its end or goes on.
ReadersReturn == reader.status # "undefined"

\* A directory the program wrote to can be opened again.
DirectoryOpens == \A n \in DOMAIN disk : disk[n].valid
=============================================================================
