------------------------------ MODULE RiskRating ------------------------------
(***************************************************************************)
(* risk_rating.py: rate() derives a rating from factor scores, problems()   *)
(* checks one that was stored, and between the two an analyst re-scores a   *)
(* factor or rewrites a derived value by hand.                              *)
(*                                                                         *)
(* A factor set is its total (the mean depends on nothing else), or Bad     *)
(* when a factor is missing, unknown or not an integer from 0 to 9. A score *)
(* is counted in grains, Grain to a thousandth: the mean of eight or four   *)
(* integers has at most three decimals, so round(mean, 3) loses nothing,    *)
(* and one written by hand may lie anywhere between two thousandths. A      *)
(* grain is coarser than the rounding of floats, which decides one case     *)
(* only (RoundsIn).                                                         *)
(***************************************************************************)
EXTENDS Integers

CONSTANTS
  LikelihoodTotals,  \* totals of the eight likelihood factors to look at
  ImpactTotals,      \* totals of four impact factors
  Grain,             \* grains to a thousandth
  Scores,            \* scores an analyst writes by hand, Bad for what is no number
  RoundsIn,          \* pairs (stored, derived) exactly a thousandth apart whose
                     \* difference as floats is no more than 10**-3
  MaxRewrites,          \* bound: rewrites by hand between two calls of rate()
  Bad,               \* a malformed factor set
  Absent             \* an absent set or basis

VARIABLES
  rating,   \* the stored rating, Absent before the first
  raised,   \* rate() refused the factors it was last given
  rewrites     \* rewrites by hand since rate()

ratingVars == <<rating, raised, rewrites>>

LIKELIHOOD_FACTORS == 8
IMPACT_FACTORS == 4
LEVELS == {"low", "medium", "high"}
SEVERITIES == <<"note", "low", "medium", "high", "critical">>

(* Impact level, then likelihood level.                                     *)
SEVERITY_TABLE ==
  [high |-> [low |-> "medium", medium |-> "high", high |-> "critical"],
   medium |-> [low |-> "low", medium |-> "medium", high |-> "high"],
   low |-> [low |-> "note", medium |-> "low", high |-> "medium"]]

(* round(_mean(factors), 3), in grains.                                     *)
Mean(total, n) == Grain * ((1000 * total) \div n)

level(score) ==
  CASE score < 3000 * Grain -> "low"
    [] score >= 3000 * Grain /\ score < 6000 * Grain -> "medium"
    [] OTHER -> "high"

(* The impact basis: business when known, unless the caller says otherwise. *)
Basis(basis, business) ==
  IF basis # Absent THEN basis ELSE IF business # Absent THEN "business" ELSE "technical"

(* The factor sets rate() accepts.                                          *)
Rateable(likelihood, technical, business, basis) ==
  /\ likelihood # Bad /\ technical # Bad /\ business # Bad
  /\ basis \in {"technical", "business"}
  /\ basis = "business" => business # Absent

(* rate(): everything derived from the factors.                             *)
rate(likelihood, technical, business, basis) ==
  LET l == Mean(likelihood, LIKELIHOOD_FACTORS)
      i == Mean(IF basis = "business" THEN business ELSE technical, IMPACT_FACTORS)
  IN [likelihood |-> likelihood, technical |-> technical, business |-> business,
      basis |-> basis, lscore |-> l, llevel |-> level(l), iscore |-> i, ilevel |-> level(i),
      severity |-> SEVERITY_TABLE[level(i)][level(l)]]

Apart(x, y) == IF x < y THEN y - x ELSE x - y

(* Mutant: a difference of a fifth is let through.                          *)
Agrees_Loose(stored, want) == stored # Bad /\ Apart(stored, want) <= 200 * Grain

(* A number, and not abs(score - want) > 10**-3: exactly one thousandth off *)
(* falls either way with the rounding of the two floats.                    *)
Agrees(stored, want) ==
  /\ stored # Bad
  /\ \/ Apart(stored, want) < Grain
     \/ Apart(stored, want) = Grain /\ <<stored, want>> \in RoundsIn

(* problems(): nothing to report about a stored rating.                     *)
NoProblems(r) ==
  LET basis == Basis(r.basis, r.business)
      want == rate(r.likelihood, r.technical, r.business, basis)
  IN /\ Rateable(r.likelihood, r.technical, r.business, basis)
     /\ Agrees(r.lscore, want.lscore) /\ r.llevel = want.llevel
     /\ Agrees(r.iscore, want.iscore) /\ r.ilevel = want.ilevel
     /\ r.severity = want.severity

(* Eight and four factors of 0 to 9; the sentinels are no totals.           *)
ASSUME TotalsAssumption ==
  /\ LikelihoodTotals \subseteq 0..72 /\ ImpactTotals \subseteq 0..36
  /\ Grain \in Nat \ {0} /\ Scores \subseteq Int \cup {Bad}
  /\ Bad # Absent /\ {Bad, Absent} \cap Int = {}
  /\ Absent \notin {"technical", "business", "other"}

-----------------------------------------------------------------------------
Likelihoods == LikelihoodTotals \cup {Bad}
Technicals == ImpactTotals \cup {Bad}
Businesses == ImpactTotals \cup {Absent, Bad}
Bases == {Absent, "technical", "business", "other"}

RatingInit == rating = Absent /\ raised = FALSE /\ rewrites = 0

(* A producer rates a threat, afresh or again.                              *)
Rate(likelihood, technical, business, given) ==
  LET basis == Basis(given, business) IN
  IF Rateable(likelihood, technical, business, basis)
  THEN rating' = rate(likelihood, technical, business, basis) /\ raised' = FALSE /\ rewrites' = 0
  ELSE raised' = TRUE /\ UNCHANGED <<rating, rewrites>>

(* One factor is re-scored in the stored document and nothing re-derived.   *)
Near(a, b) == a # b /\ (Bad \notin {a, b} => a - b <= 9 /\ b - a <= 9)
Rescore ==
  /\ rating # Absent /\ rewrites < MaxRewrites
  /\ \/ \E l \in Likelihoods : Near(l, rating.likelihood) /\ rating' = [rating EXCEPT !.likelihood = l]
     \/ \E t \in Technicals : Near(t, rating.technical) /\ rating' = [rating EXCEPT !.technical = t]
     \/ \E b \in Technicals : /\ rating.business # Absent /\ Near(b, rating.business)
                              /\ rating' = [rating EXCEPT !.business = b]
     \/ \E b \in Bases : rating' = [rating EXCEPT !.basis = b]
  /\ rewrites' = rewrites + 1
  /\ UNCHANGED raised

(* A derived value is rewritten by hand.                                    *)
Rewrite ==
  /\ rating # Absent /\ rewrites < MaxRewrites
  /\ \/ \E x \in Scores : rating' = [rating EXCEPT !.lscore = x] \/ rating' = [rating EXCEPT !.iscore = x]
     \/ \E x \in LEVELS : rating' = [rating EXCEPT !.llevel = x] \/ rating' = [rating EXCEPT !.ilevel = x]
     \/ \E i \in 1..5 : rating' = [rating EXCEPT !.severity = SEVERITIES[i]]
  /\ rewrites' = rewrites + 1
  /\ UNCHANGED raised

RatingNext ==
  \/ \E l \in Likelihoods, t \in Technicals, b \in Businesses, g \in Bases : Rate(l, t, b, g)
  \/ Rescore
  \/ Rewrite

RatingSpec == RatingInit /\ [][RatingNext]_ratingVars

-----------------------------------------------------------------------------
(* The method, stated on totals: a score below 3 (6) of n factors is a      *)
(* total below 3n (6n), and severity counts the levels above low.           *)
Grade(total, n) == IF total < 3 * n THEN 0 ELSE IF total < 6 * n THEN 1 ELSE 2
Levels == <<"low", "medium", "high">>
UsedTotal(r) == IF Basis(r.basis, r.business) = "business" THEN r.business ELSE r.technical
Follows(r) ==
  /\ r.llevel = Levels[Grade(r.likelihood, 8) + 1]
  /\ r.ilevel = Levels[Grade(UsedTotal(r), 4) + 1]
  /\ r.severity = SEVERITIES[Grade(r.likelihood, 8) + Grade(UsedTotal(r), 4) + 1]

(* A score no more than d grains off the mean of n factors with that total. *)
Within(d, score, total, n) ==
  score # Bad /\ Apart(n * score, 1000 * Grain * total) <= n * d
ScoresWithin(d, r) ==
  Within(d, r.lscore, r.likelihood, 8) /\ Within(d, r.iscore, UsedTotal(r), 4)

(* What problems() lets through can be rated, has the levels and the        *)
(* severity of its factors and scores within a thousandth of their means,   *)
(* and those scores are within a thousandth of no other total's mean: the   *)
(* tolerance hides no re-scored factor, at a level boundary or elsewhere.   *)
(* It lets through all of those whose scores are closer than a thousandth,  *)
(* so everything rate() builds.                                             *)
ProblemsIsExact ==
  rating # Absent =>
    LET sound == /\ Rateable(rating.likelihood, rating.technical, rating.business,
                             Basis(rating.basis, rating.business))
                 /\ Follows(rating)
    IN /\ NoProblems(rating) =>
            /\ sound /\ ScoresWithin(Grain, rating)
            /\ \A t \in 0..72 : Within(Grain, rating.lscore, t, 8) => t = rating.likelihood
            /\ \A t \in 0..36 : Within(Grain, rating.iscore, t, 4) => t = UsedTotal(rating)
       /\ sound /\ ScoresWithin(Grain - 1, rating) => NoProblems(rating)

=============================================================================
