-------------------------- MODULE MCTTSEventSource --------------------------
(* Two clients listen for one event; an event of another name has no        *)
(* listener and passes over both.                                           *)
EXTENDS TTSEventSource

CONSTANTS l1, l2

Clients == {l1, l2}
ForSpoke == [l \in Clients |-> "spoke"]

MainOnly == {"main"}
Both     == {"main", "speaker"}

\* What Subsequence says by places is what the loops compute, one element after
\* the other: compared on every short list.
ASSUME LoopsReference ==
  \A s \in BoundedSeq(1..3, 4), some \in SUBSET (1..3) :
    /\ Without(s, some) = SelectSeq(s, LAMBDA x : x \notin some)
    /\ Unknown(s, some) =
         FoldLeft(LAMBDA met, x : IF x \in some \cup Range(met) THEN met ELSE Append(met, x), <<>>, s)
=============================================================================
