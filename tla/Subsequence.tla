----------------------------- MODULE Subsequence -----------------------------
(***************************************************************************)
(* Lists some of whose elements are erased: the loops over m_queue         *)
(* (ttsengine/TTSSpeaker.cpp:204-218) and over mEntries                    *)
(* (ttsengine/TTSEventSource.cpp:83-96) keep what they do not erase, in    *)
(* its order.  What is kept is said by its places, and not one element     *)
(* after the other, so that it can be reasoned about.                      *)
(***************************************************************************)
EXTENDS Naturals, Sequences, FiniteSets

\* How many of the places come up to i.
Rank(places, i) == Cardinality({j \in places : j <= i})

\* The k-th of the places.
Place(places, k) == CHOOSE i \in places : Rank(places, i) = k

\* What is at these places of s, in its order.
KeptAt(s, places) == [k \in 1..Cardinality(places) |-> s[Place(places, k)]]

\* Every element that is in `gone` is erased.
Without(s, gone) == KeptAt(s, {i \in 1..Len(s) : s[i] \notin gone})

\* The elements of s that are not known, each once.
Unknown(s, known) ==
  KeptAt(s, {i \in 1..Len(s) : s[i] \notin known /\ \A j \in 1..(i - 1) : s[j] # s[i]})

\* No element occurs twice.
Distinct(s) == \A i, j \in 1..Len(s) : s[i] = s[j] => i = j

Elements(s) == {s[i] : i \in 1..Len(s)}
=============================================================================
