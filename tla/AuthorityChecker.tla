-------------------------- MODULE AuthorityChecker --------------------------
(***************************************************************************)
(* Whether signing keys and a delay satisfy a permission                   *)
(* (authority_checker.hpp), and the meaning it should have.                *)
(*                                                                         *)
(* A permission level is a pair <<account, name>>.  An authority has a     *)
(* threshold and three sets of weighted factors: keys, other permission    *)
(* levels and waits (seconds of delay).  The checker walks the factors     *)
(* from the heaviest to the lightest and descends into other levels; it    *)
(* marks the keys it uses and remembers the outcome of every level it has  *)
(* visited.                                                                *)
(***************************************************************************)
EXTENDS Integers, SequencesExt

CONSTANTS KeyOrder,    \* the keys in ascending order
          LevelOrder,  \* the permission levels that may exist, in ascending order
          Authority,   \* the authorities in use
          MaxWeight,   \* largest weight of a factor
          MaxWait,     \* longest wait of a factor
          MaxDepth     \* max_authority_depth of the chain configuration

Key == Range(KeyOrder)
Level == Range(LevelOrder)
EmptyName == ""

ASSUME CheckerAssumption ==
  /\ MaxWeight \in Nat \ {0} /\ MaxWait \in Nat /\ MaxDepth \in Nat
  /\ \A level \in Level : level[2] # EmptyName

(* The factors of an authority in the order of meta_permission_set: heavier *)
(* first, at equal weight waits before keys before levels.                  *)
Factors ==
  LET Of(kind, order, set, weight) ==
        LET chosen == SelectSeq(order, LAMBDA x : <<x, weight>> \in set)
        IN [i \in DOMAIN chosen |-> [kind |-> kind, what |-> chosen[i], weight |-> weight]]
      At(auth, weight) ==
           Of("wait", [i \in 1..MaxWait |-> i], auth.waits, weight)
        \o Of("key", KeyOrder, auth.keys, weight)
        \o Of("level", LevelOrder, auth.accounts, weight)
  IN [auth \in Authority |->
        FlattenSeq([i \in 1..MaxWeight |-> At(auth, MaxWeight + 1 - i)])]

(* What an evaluation carries along: the used keys and the visited levels. *)
Started(provided) ==
  [used |-> {}, cache |-> [level \in provided |-> "satisfied"]]

StatusOf(cache, level) ==
  LET any == <<level[1], EmptyName>>
  IN IF level \in DOMAIN cache THEN cache[level]
     ELSE IF any \in DOMAIN cache THEN cache[any] ELSE "none"

Marked(walk, level, status) ==
  [walk EXCEPT !.cache = (level :> status) @@ @]

(* A level under evaluation counts: a cycle of levels grants itself. *)
CountsUnlessUnsatisfied(status) == status \notin {"none", "unsatisfied"}

Counts(status) == status = "satisfied"

MayDescend(depth) == depth < MaxDepth

(* env has the authorities of the levels that exist, the provided keys and  *)
(* the provided delay.  Weigh answers whether one factor counts, Tally      *)
(* whether the factors left reach the threshold, Satisfies whether a whole  *)
(* authority does: if not, the keys marked on the way are unmarked again.   *)
RECURSIVE Weigh(_, _, _, _), Tally(_, _, _, _, _, _)

Satisfies(env, auth, depth, walk) ==
  LET end == Tally(env, Factors[auth], auth.threshold, depth, 0, walk)
  IN IF end.ok THEN end ELSE [end EXCEPT !.walk.used = walk.used]

Weigh(env, factor, depth, walk) ==
  CASE factor.kind = "wait" -> [ok |-> env.delay >= factor.what, walk |-> walk]
    [] factor.kind = "key" ->
         [ok   |-> factor.what \in env.keys,
          walk |-> [walk EXCEPT !.used = @ \cup ({factor.what} \cap env.keys)]]
    [] factor.kind = "level" ->
         LET level == factor.what
             status == StatusOf(walk.cache, level)
         IN IF status # "none" \/ ~MayDescend(depth) \/ level \notin DOMAIN env.auths
            THEN [ok |-> Counts(status), walk |-> walk]
            ELSE LET r == Satisfies(env, env.auths[level], depth + 1,
                                    Marked(walk, level, "being_evaluated"))
                 IN [ok |-> r.ok, walk |-> Marked(r.walk, level,
                       IF r.ok THEN "satisfied" ELSE "unsatisfied")]

Tally(env, factors, threshold, depth, total, walk) ==
  IF factors = <<>> THEN [ok |-> FALSE, walk |-> walk]
  ELSE LET r == Weigh(env, Head(factors), depth, walk)
           sum == total + IF r.ok THEN Head(factors).weight ELSE 0
       IN IF sum >= threshold THEN [ok |-> TRUE, walk |-> r.walk]
          ELSE Tally(env, Tail(factors), threshold, depth, sum, r.walk)

(* satisfied(permission): the level is weighed at depth 0 with a cache of   *)
(* its own; the used keys are carried over from the levels checked before.  *)
CheckLevel(env, provided, used, level) ==
  LET r == Weigh(env, [kind |-> "level", what |-> level, weight |-> 1], 0,
                 [Started(provided) EXCEPT !.used = used])
  IN [ok |-> r.ok, used |-> r.walk.used]

-----------------------------------------------------------------------------
(* The meaning: the least set of levels in which every level is provided or *)
(* has enough weight from the keys, the delay and the set itself.           *)

WeightIn(env, auth, granted) ==
  LET Sum(factors, Given(_)) ==
        MapThenSumSet(LAMBDA f : f[2], {f \in factors : Given(f[1])})
  IN Sum(auth.keys, LAMBDA k : k \in env.keys)
     + Sum(auth.waits, LAMBDA w : env.delay >= w)
     + Sum(auth.accounts, LAMBDA l :
             l \in granted \/ <<l[1], EmptyName>> \in granted)

GrantedBy(env, provided) ==
  LET Step(granted) ==
        granted \cup {l \in DOMAIN env.auths :
                        WeightIn(env, env.auths[l], granted) >= env.auths[l].threshold}
      grow[n \in 0..Cardinality(DOMAIN env.auths)] ==
        IF n = 0 THEN provided ELSE Step(grow[n - 1])
  IN grow[Cardinality(DOMAIN env.auths)]

(* The levels that lead to no cycle and to no chain of more than MaxDepth   *)
(* levels.                                                                  *)
Shallow(auths) ==
  LET Refers(l, m) == \E weight \in 1..MaxWeight : <<m, weight>> \in auths[l].accounts
      chain[n \in 0..MaxDepth] ==
        IF n = 0 THEN DOMAIN auths
        ELSE {l \in DOMAIN auths : \E m \in chain[n - 1] : Refers(l, m)}
  IN DOMAIN auths \ chain[MaxDepth]
=============================================================================
