-------------------------------- MODULE Sums --------------------------------
(* Sums, as a function rather than an operator of what is added: a lemma     *)
(* about all functions can be cited, one about all operators cannot.         *)
EXTENDS Integers, Folds

\* The sum of f[x] over the domain of f.
SumOf(f) ==
    MapThenFoldSet(LAMBDA a, b : a + b, 0, LAMBDA x : f[x],
                   LAMBDA s : CHOOSE x \in s : TRUE, DOMAIN f)

=============================================================================
