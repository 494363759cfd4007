----------------------- MODULE MCConstantFoldingCache -----------------------
(* Batches of folding requests small enough for TLC.                       *)
EXTENDS ConstantFoldingCache, TLC

CONSTANTS x, y, z, w1, w2, w3

FoldOf(a) == [kind |-> "fold", attr |-> a, from |-> a]
EquivalenceOf(old, new) == [kind |-> "equivalence", attr |-> new, from |-> old]
PartialOf(a, prefix) == [kind |-> "partial", attr |-> a, from |-> prefix]

\* x and y are equivalent.
MCMeaning == [a \in {x, y, z} |-> IF a = z THEN "zeros" ELSE "ones"]
MCSize == [a \in {x, y, z} |-> IF a = z THEN 2 ELSE 3]

\* Workers differ in nothing but their requests: one batch stands for all that
\* give the same requests to other workers.
Given(p, q, r) == w1 :> p @@ w2 :> q @@ w3 :> r

\* Distinct attributes; and an attribute that is folded while it is also to take
\* the place of another.
Evicting ==
    {Given(FoldOf(x), FoldOf(y), FoldOf(z)), Given(FoldOf(x), EquivalenceOf(x, y), FoldOf(y))}

\* Those, one attribute folded by every task, and a partial folding of z, which
\* is x with one more transformation, beside plain folds of both.  The contents
\* of that last batch do not fill the cache: what a partial folding reads is not
\* evicted.
Mixed ==
    Evicting \cup
    {Given(FoldOf(x), FoldOf(x), FoldOf(x)), Given(FoldOf(x), FoldOf(z), PartialOf(z, x))}

\* The content of x is moved to y, while a clean-up may have listed x already.
Moving == {Given(FoldOf(x), EquivalenceOf(x, y), FoldOf(z))}

SameFolds == [Worker -> {FoldOf(x)}]
=============================================================================
