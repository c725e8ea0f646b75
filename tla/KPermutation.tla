---------------------------- MODULE KPermutation ----------------------------
(***************************************************************************)
(* src/src/common/algo/perm.c: the sequences of k different ones of n      *)
(* elements, one after the other in lexicographic order.  All n elements   *)
(* are kept, the first k are the sequence and the others ascend.  The key  *)
(* codes of the selection mode are made with it (keyboard.c).              *)
(***************************************************************************)
EXTENDS Integers, SequencesExt

LexLess(s, t) ==
    \E i \in DOMAIN s : s[i] < t[i] /\ \A j \in 1..(i - 1) : s[j] = t[j]

num_k_perm(n, k) == FoldFunction(LAMBDA a, b : a * b, 1, [i \in (n - k + 1)..n |-> i])

\* flip: the elements after the first lo up to the hi-th change their order.
flip(a, lo, hi) ==
    [i \in DOMAIN a |-> IF i \in (lo + 1)..hi THEN a[lo + 1 + hi - i] ELSE a[i]]

\* The last place of the sequence with a smaller element than what can follow
\* there: 0 for the last sequence.
PivotPlace(a, k) ==
    Max({0} \cup {t \in 1..k : a[t] < IF t = k THEN a[Len(a)] ELSE a[t + 1]})

\* The place of the least element after the pivot's that is greater: the end of
\* the sequence descends, the elements that are not in it ascend.
SwapIn(a, k, tail) ==
    IF a[tail] >= a[Len(a)]
    THEN Min({p \in (tail + 1)..k : p = k \/ a[p + 1] <= a[tail]})
    ELSE Max({p \in 1..Len(a) : p <= k + 1 \/ a[p - 1] <= a[tail]})

\* The elements after the call, unless it returns 0.
next_k_permutation(a, k) ==
    LET tail == PivotPlace(a, k)
        p == SwapIn(a, k, tail)
        swapped == [a EXCEPT ![tail] = a[p], ![p] = a[tail]]
    IN  flip(flip(swapped, k, Len(a)), tail, Len(a))

\* key_gen_init and key_gen_get: all states of struct key_gen, in order.
KeyGen(n, k) ==
    LET gen[i \in 1..num_k_perm(n, k)] ==
            IF i = 1 THEN [j \in 1..n |-> j - 1] ELSE next_k_permutation(gen[i - 1], k)
    IN  gen

\* What perm.c says of itself: each sequence once, in lexicographic order,
\* until the call that returns 0.
Lexicographic(n, k) ==
    LET gen == KeyGen(n, k)
        prefix == [i \in DOMAIN gen |-> SubSeq(gen[i], 1, k)]
    IN  \A i \in DOMAIN gen :
          /\ Range(gen[i]) = 0..(n - 1)
          /\ i + 1 \in DOMAIN gen => LexLess(prefix[i], prefix[i + 1])
          /\ PivotPlace(gen[i], k) = 0 <=> i = num_k_perm(n, k)
=============================================================================
