------------------------------- MODULE Score -------------------------------
(***************************************************************************)
(* Saturating score arithmetic of the scheduler: merge_weights() of        *)
(* src/lib/pengine/common.c.  The allocator builds, per resource, a node   *)
(* weight map that starts at 0 for every node and folds in one score per   *)
(* location or colocation constraint that applies to the node.  Map       *)
(* entries are independent of each other under merging, so this module    *)
(* follows one entry: `weight' is its current value and `merged' is the    *)
(* sequence of scores folded into it so far, in order.                     *)
(***************************************************************************)
EXTENDS Integers, Sequences, SequencesExt, Functions

CONSTANTS
  INFINITY,   (* CRM score INFINITY: a large sentinel, 1000000 in the code *)
  Scores,     (* the constraint scores that may be folded in             *)
  MaxMerges   (* how many constraints apply to the node                   *)

ASSUME INFINITY \in Nat \ {0}
ASSUME Scores \subseteq -INFINITY .. INFINITY
ASSUME MaxMerges \in Nat

VARIABLES weight, merged

vars == <<weight, merged>>

(***************************************************************************)
(* C `int' addition.  Scores lie in -INFINITY..INFINITY (the score parser  *)
(* clamps them), so |w1 + w2| <= 2 * INFINITY never leaves the 32-bit      *)
(* range and the sum is exact; the wrap-around test of merge_weights() is  *)
(* kept below as the code has it, and never fires for such inputs.         *)
(***************************************************************************)
IntAdd(a, b) == a + b

(* The sum after the "detect wrap-around" block of merge_weights().        *)
Unwrapped(w1, w2) ==
  LET result == IntAdd(w1, w2)
  IN  IF result > 0
        THEN IF w1 <= 0 /\ w2 < 0 THEN -INFINITY ELSE result
        ELSE IF w1 > 0 /\ w2 > 0 THEN INFINITY ELSE result

(* The final "detect +/- INFINITY" block: the sum clamped to the sentinels. *)
Clamped(r) == IF r >= INFINITY THEN INFINITY ELSE IF r <= -INFINITY THEN -INFINITY ELSE r

(* Mutant: the final "detect +/- INFINITY" clamp left out.                *)
merge_weights_no_clamp(w1, w2) ==
  IF w1 <= -INFINITY \/ w2 <= -INFINITY THEN -INFINITY
  ELSE IF w1 >= INFINITY \/ w2 >= INFINITY THEN INFINITY
  ELSE Unwrapped(w1, w2)

(* Mutant: the +INFINITY test made before the -INFINITY one.               *)
merge_weights_force_first(w1, w2) ==
  IF w1 >= INFINITY \/ w2 >= INFINITY THEN INFINITY
  ELSE IF w1 <= -INFINITY \/ w2 <= -INFINITY THEN -INFINITY
  ELSE Clamped(Unwrapped(w1, w2))

(***************************************************************************)
(* merge_weights(w1, w2): a ban (-INFINITY) wins over everything, else a   *)
(* forced preference (+INFINITY); otherwise the sum, clamped to the        *)
(* sentinels.  The if / else if of the code is kept as nested IFs, so the *)
(* ban wins by the formula when both sentinels meet.                       *)
(***************************************************************************)
merge_weights(w1, w2) ==
  IF w1 <= -INFINITY \/ w2 <= -INFINITY THEN -INFINITY
  ELSE IF w1 >= INFINITY \/ w2 >= INFINITY THEN INFINITY
  ELSE Clamped(Unwrapped(w1, w2))

-----------------------------------------------------------------------------
(* Step 1 of allocation: every candidate node starts with weight 0.        *)
Init ==
  /\ weight = 0
  /\ merged = <<>>

(* One constraint's score is merged into the node's weight.                *)
MergeScore(s) ==
  /\ Len(merged) < MaxMerges
  /\ weight' = merge_weights(weight, s)
  /\ merged' = Append(merged, s)

Next == \E s \in Scores : MergeScore(s)

Spec == Init /\ [][Next]_vars

-----------------------------------------------------------------------------
TypeOK ==
  /\ weight \in -INFINITY .. INFINITY
  /\ merged \in Seq(Scores)

(***************************************************************************)
(* The weight a node ends with follows from the scores merge_weights()   *)
(* folded into it: -INFINITY if any was a ban (a mandatory location ban   *)
(* or anti-colocation), whether it came before or after a forced          *)
(* preference; else +INFINITY if any was forced and the finite scores     *)
(* before the first forced one did not saturate; else, while no running   *)
(* total has reached a sentinel, exactly their sum.  The allocator reads  *)
(* -INFINITY as "cannot run here" and +INFINITY as "must".                *)
(***************************************************************************)
RunningTotal(k) == FoldLeft(LAMBDA a, b : a + b, 0, SubSeq(merged, 1, k))

(* No running total of the first n scores reached a sentinel.              *)
Unsaturated(n) == \A k \in 1 .. n : RunningTotal(k) \in -INFINITY + 1 .. INFINITY - 1

WeightFollowsScores ==
  LET sentinels == Range(merged) \cap {-INFINITY, INFINITY}
      forced    == {k \in DOMAIN merged : merged[k] = INFINITY}
  IN  /\ -INFINITY \in sentinels => weight = -INFINITY
      /\ (sentinels = {INFINITY} /\ Unsaturated(Min(forced) - 1)) => weight = INFINITY
      /\ (sentinels = {} /\ Unsaturated(Len(merged))) => weight = RunningTotal(Len(merged))

(***************************************************************************)
(* The weight is the same whatever order the constraints are applied in:   *)
(* folding any permutation of the merged scores from 0 gives the current   *)
(* weight.  The spec (section 4.1 and 8) requires merge_weights to be      *)
(* associative and commutative so that constraint order cannot change a   *)
(* placement.                                                              *)
(***************************************************************************)
Reorderings(s) ==
  { [i \in DOMAIN s |-> s[p[i]]] : p \in Bijection(DOMAIN s, DOMAIN s) }

OrderIndependent ==
  \A p \in Reorderings(merged) : FoldLeft(merge_weights, 0, p) = weight

=============================================================================
