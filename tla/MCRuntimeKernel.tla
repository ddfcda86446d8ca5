--------------------------- MODULE MCRuntimeKernel ---------------------------
(***************************************************************************)
(* Instances of RuntimeKernel for TLC.                                     *)
(***************************************************************************)
EXTENDS RuntimeKernel, TLC

CONSTANTS t1, t2, k1, c1, c2, e1, e2, e3

TwoTenants == { t1, t2 }
OneName == { k1 }
TwoCalls == { c1, c2 }
ThreeEntries == { e1, e2, e3 }

\* The plugins of the two tenants have a capability in common; the one of t1
\* may come back from a suspension without it.
Common == t1 :> { {k1}, {} } @@ t2 :> { {k1} }

Interchangeable == Permutations(TwoCalls) \cup Permutations(ThreeEntries)

=============================================================================
