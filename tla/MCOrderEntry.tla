----------------------------- MODULE MCOrderEntry -----------------------------
(***************************************************************************)
(* Small instances of OrderEntry for TLC.                                  *)
(***************************************************************************)
EXTENDS OrderEntry, TLC

\* Every signal has a pair of its own; every pair is that of two signals.
OwnPair == [s \in Signals |-> s]
TwoEach == CHOOSE f \in [Signals -> Symbols] :
    \A x \in Symbols : Cardinality({s \in Signals : f[s] = x}) = 2

\* Workers are alike, and so are the signals of one pair.
Alike == Permutations(Workers) \union
         {p \in Permutations(Signals) : \A s \in Signals : SymbolOf[p[s]] = SymbolOf[s]}
=============================================================================
