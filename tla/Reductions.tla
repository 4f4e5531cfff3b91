----------------------------- MODULE Reductions -----------------------------
(***************************************************************************)
(* What the planner of csrc/include/plan.cuh, the schedule kernel of       *)
(* build_decode_schedule.cu and the host side of build_k2q_csr.cu are      *)
(* built from: quotients, least and greatest elements, sums and ranks.     *)
(***************************************************************************)
EXTENDS Integers, FiniteSetsExt

CeilDiv(a, b) == (a + b - 1) \div b

Smaller(a, b) == IF a < b THEN a ELSE b
Larger(a, b)  == IF a > b THEN a ELSE b

Largest(S)  == CHOOSE x \in S : \A y \in S : x >= y
Smallest(S) == CHOOSE x \in S : \A y \in S : x <= y

\* Powers of two.
Doubled[k \in Nat] == IF k = 0 THEN 1 ELSE 2 * Doubled[k - 1]

\* The sum of f over S.
Total(f, S) == MapThenSumSet(LAMBDA x : f[x], S)

\* my_rank of an SM: how many have less work, or as much and a smaller number.
Rank(cost, sm) ==
    Cardinality({i \in DOMAIN cost : cost[i] < cost[sm] \/ (cost[i] = cost[sm] /\ i < sm)})

=============================================================================
