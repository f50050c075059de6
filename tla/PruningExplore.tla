---------------------------- MODULE PruningExplore ----------------------------
(***************************************************************************)
(* PruningExploreManager of zeus._legacy.policy.optimizer: the generator   *)
(* that says which batch size to explore next, first down from the default *)
(* batch size and then up, and prunes those that did not reach the target. *)
(***************************************************************************)
EXTENDS Integers, FiniteSets, FiniteSetsExt

CONSTANTS BatchSizes, DefaultBatchSize, NumPruningRounds

(* Where no cost is known yet: any cost is less. *)
Infinity == 1000000

(* The two directions of a round: what is still to be explored in each,    *)
(* of which down is sorted from the largest and up from the smallest.      *)
StartRound(g, left) ==
  [g EXCEPT !.left = left, !.good = {}, !.best_cost = Infinity, !.round = @ + 1,
            !.down = {b \in left : b <= g.default}, !.up = {b \in left : b > g.default}]

NewGenerator ==
  [is |-> "start", round |-> 0, left |-> {}, default |-> DefaultBatchSize, down |-> {},
   up |-> {}, good |-> {}, best_cost |-> Infinity, expecting |-> DefaultBatchSize]

(* With the last round over, it returns what is left; with nothing left to *)
(* begin a round with, index raises.                                       *)
EndRound(g) ==
  IF g.round = NumPruningRounds THEN [g EXCEPT !.is = "over", !.left = g.good, !.expecting = 0]
  ELSE IF g.good = {} THEN [g EXCEPT !.is = "infeasible", !.expecting = 0]
  ELSE StartRound(g, g.good)

(* The round to go on with. *)
Proceed(g) ==
  IF g.is = "start" THEN StartRound(g, BatchSizes)
  ELSE IF g.down \cup g.up # {} THEN g
  ELSE EndRound(g)

(* next(gen): out of order if it waits for a result. *)
NextBatch(g) ==
  LET p == Proceed(g)
      bs == IF p.down # {} THEN Max(p.down) ELSE Min(p.up)
  IN
  CASE g.is = "asked" -> [g EXCEPT !.is = "broken"]
    [] g.is # "asked" /\ p.is \in {"over", "infeasible"} -> p
    [] OTHER -> [p EXCEPT !.is = "asked", !.expecting = bs, !.down = @ \ {bs}, !.up = @ \ {bs}]

Cheaper(g, cost) == g.good = {} \/ cost < g.best_cost

(* gen.send: out of order if it expects no result, or another one.  A      *)
(* batch size that did not reach the target ends its direction; the        *)
(* default is one already explored, and on the way down not below it.      *)
SendResult(g, bs, cost, reached) ==
  IF g.is # "asked" \/ g.expecting # bs THEN [g EXCEPT !.is = "broken"]
  ELSE IF ~reached THEN [g EXCEPT !.is = "told", !.expecting = 0, !.down = {},
                              !.up = IF bs <= g.default THEN @ ELSE {}]
  ELSE [g EXCEPT !.is = "told", !.expecting = 0, !.good = @ \union {bs},
                 !.default = IF Cheaper(g, cost) THEN bs ELSE @,
                 !.best_cost = IF Cheaper(g, cost) THEN cost ELSE @]

=============================================================================
