----------------------------- MODULE Comparison -----------------------------
(***************************************************************************)
(* Comparison of images (resx/src/analysis/comparison): the profile of an  *)
(* image, the candidate pairs of functions and their scores, the greedy    *)
(* matching that diff, diff --show-cfg and hunt share, the summaries, and  *)
(* the corpus that hunt searches.                                          *)
(*                                                                         *)
(* A discovered function has a hash of its normalized code (code), of its  *)
(* shape (shape), of the APIs it calls (api) and a fuzzy hash, the number  *)
(* of low bits it has set (0: it has no tokens), so that two differ in as  *)
(* many bits as their numbers do.  Instructions are four bytes.  The mean  *)
(* of the similarity signals of two codes, which score_pair weighs, is any *)
(* number of Means.  The names that an image imports and exports, and its  *)
(* strings, are those of its functions.                                    *)
(***************************************************************************)
EXTENDS Integers, FiniteSets, Functions, FiniteSetsExt

CONSTANTS
  Binaries,       \* sets of discovered functions of distinct RVAs
  Means,          \* weighted means of the signals of a pair
  Thresholds,     \* --threshold, and whether --include-weak is given
  MaxFunctions,   \* --max-functions
  MaxCandidates,  \* --max-candidates
  MaxPairs        \* the most pairs that are compared without an index, 250,000

\* Functions are counted, and have numbers and an RVA of their own.
ASSUME BinariesAssumption ==
  \A fs \in Binaries :
    /\ IsFiniteSet(fs)
    /\ \A f \in fs : {f.rva, f.size, f.blocks, f.confidence, f.fuzzy} \subseteq Nat
    /\ \A f, g \in fs : f.rva = g.rva => f = g
\* Percentages are; a limit of no candidate is one of one.
ASSUME LimitsAssumption ==
  /\ Means \subseteq 0 .. 100
  /\ \A o \in Thresholds : o.threshold \in 0 .. 100
  /\ MaxCandidates \in Nat \ {0}

VARIABLES
  left, right,  \* the two images
  mean,         \* the mean of the signals of two codes
  options,      \* threshold and includeWeak
  report        \* what the command made, NoReport before

comparisonVars == <<left, right, mean, options, report>>

NoReport == [kind |-> "none"]

-----------------------------------------------------------------------------
(* Profiles.                                                                *)

\* Those of a set that are taken one after another, when whoever comes is left
\* out if one of its rivals, who came before, was taken.
Taken(S, rivals) ==
  LET taken[x \in S] == \A y \in rivals[x] : ~ taken[y]
  IN  {x \in S : taken[x]}

Named(f) == f.name # "none"  \* normalized_name is not empty

\* classify_function
Noise(f) ==
  \/ f.size <= 8
  \/ f.name = "helper"
  \/ f.source = "pdata" /\ ~ Named(f)
     /\ (f.api = "runtime" \/ (f.api = "none" /\ ~ f.strings /\ f.size <= 1024))
  \/ f.source = "prologue" /\ f.confidence <= 35

\* The functions that --max-functions leaves: the most confident, then the first.
Surer(f, g) == f.confidence > g.confidence \/ (f.confidence = g.confidence /\ f.rva < g.rva)
Truncated(fs) == {f \in fs : Cardinality({g \in fs : Surer(g, f)}) < MaxFunctions}

\* prune_nested_function_hints: an anonymous hint inside a function that was
\* kept is dropped.
NestedIn(f, parent) ==
  /\ f.rva > parent.rva /\ f.rva + f.size <= parent.rva + parent.size
  /\ parent.size >= f.size + 16
  /\ f.confidence < parent.confidence /\ f.confidence <= 55 /\ ~ Named(f)
Pruned(fs) == Taken(fs, [f \in fs |-> {p \in fs : NestedIn(f, p)}])

Profile(fs) == Pruned(Truncated(fs))

-----------------------------------------------------------------------------
(* Candidate pairs.                                                         *)

Abs(n) == IF n < 0 THEN -n ELSE n
SameName(l, r) == Named(l) /\ l.name = r.name
\* ratio(l, r) is at least percent hundredths.
SizeRatio(l, r, percent) ==
  100 * Min({l.size, r.size}) >= percent * Max({l.size, r.size})

Plausible(l, r) ==
  \/ l.code = r.code
  \/ IF Noise(l) \/ Noise(r)
     THEN SameName(l, r) /\ SizeRatio(l, r, 80)
     ELSE SameName(l, r) \/ Abs(l.fuzzy - r.fuzzy) <= 16 \/ SizeRatio(l, r, 25)

\* The functions whose buckets l looks into: equal hashes and names, and block
\* counts within a factor of four.  Of small images, all if there are none.
Bucketed(l, rights) ==
  {r \in rights :
     \/ l.code = r.code \/ l.shape = r.shape
     \/ l.api # "none" /\ l.api = r.api
     \/ l.fuzzy # 0 /\ l.fuzzy = r.fuzzy
     \/ SameName(l, r)
     \/ l.blocks > 0 /\ r.blocks \in (l.blocks \div 4) - 4 .. 4 * l.blocks + 4}

Considered(l, lefts, rights) ==
  IF Bucketed(l, rights) = {} /\ Cardinality(lefts) * Cardinality(rights) <= MaxPairs
  THEN rights ELSE Bucketed(l, rights)

\* Mutant: noise is never worth more than a changed match.
ScoreCapped(l, r, data) ==
  IF Noise(l) \/ Noise(r) THEN 72
  ELSE IF l.code = r.code THEN 100 ELSE mean[{l.code, r.code}]

\* score_pair and score_indexed_pair, which also looks at the fuzzy hashes.
Score(l, r, data) ==
  LET base == mean[{l.code, r.code}]
      fuzzy == Min({79, (5 * (64 - Abs(l.fuzzy - r.fuzzy)) + 2) \div 4})
      raised ==
        IF l.code = r.code THEN (IF l.size = r.size THEN 100 ELSE Max({base, 98}))
        ELSE IF l.shape = r.shape /\ l.api = r.api THEN Max({base, 86})
        ELSE IF l.shape = r.shape THEN Max({base, 80})
        ELSE IF data = "index" THEN Max({base, fuzzy}) ELSE base
      noisy == (Noise(l) \/ Noise(r)) /\ ~ (l.code = r.code /\ Noise(l) = Noise(r))
  IN  IF noisy THEN Min({raised, 72}) ELSE raised

MinScore == IF options.includeWeak THEN Min({options.threshold, 50}) ELSE options.threshold

Pair(l, r, data) == [left |-> l, right |-> r, score |-> Score(l, r, data)]
Pairs(L, R, data) == {Pair(l, r, data) : l \in L, r \in R}

Candidates(L, R, minScore) ==
  {c \in Pairs(L, R, "image") :
     c.right \in Considered(c.left, L, R) /\ Plausible(c.left, c.right) /\ c.score >= minScore}
IndexedCandidates(L, R) ==
  {c \in Pairs(L, R, "index") : Plausible(c.left, c.right) /\ c.score >= MinScore}

-----------------------------------------------------------------------------
(* Matching.                                                                *)

\* Mutant: a tie goes to the last function of the right image.
BestLast(a, b) ==
  \/ a.score > b.score
  \/ a.score = b.score /\ a.left.rva < b.left.rva
  \/ a.score = b.score /\ a.left.rva = b.left.rva /\ a.right.rva > b.right.rva

Best(a, b) ==
  \/ a.score > b.score
  \/ a.score = b.score /\ a.left.rva < b.left.rva
  \/ a.score = b.score /\ a.left.rva = b.left.rva /\ a.right.rva < b.right.rva

\* Best first, each function once.
Greedy(cands) ==
  Taken(cands, [c \in cands |->
                  {d \in cands : Best(d, c) /\ (d.left = c.left \/ d.right = c.right)}])

Lefts(matches) == {m.left : m \in matches}
Rights(matches) == {m.right : m \in matches}

-----------------------------------------------------------------------------
(* Summaries.                                                               *)

Rounded(a, b) == (2 * a + b) \div (2 * b)
Tier(score) ==
  IF score >= 98 THEN "exact" ELSE IF score >= 80 THEN "strong"
  ELSE IF score >= 65 THEN "changed" ELSE IF score >= 50 THEN "weak" ELSE "low"
Coverage(matched, total) == IF total = 0 THEN 0 ELSE Rounded(100 * matched, total)
Weight(f) == Max({f.size, 1})
Bytes(fs) == SumFunction([f \in fs |-> Weight(f)])
Unique(fs) == {f \in fs : ~ Noise(f)}

\* The score of the average byte, where some bytes more score nothing.
PairWeight(m) == Weight(m.left) + Weight(m.right)
Average(matches, rest) ==
  LET total == SumFunction([m \in matches |-> PairWeight(m)]) + rest
  IN  IF total = 0 THEN 0 ELSE Rounded(SumFunction([m \in matches |-> PairWeight(m) * m.score]), total)

\* build_summary, build_indexed_summary
Noisy(matches) == {m \in matches : Noise(m.left) \/ Noise(m.right)}
Raw(matches) == Average(matches, 0)
UniqueScore(L, R, matches) ==
  Average(matches \ Noisy(matches),
          Bytes(Unique(L \ Lefts(matches))) + Bytes(Unique(R \ Rights(matches))))
Similarity(L, R, matches) ==
  IF /\ matches # {} /\ 2 * Cardinality(Noisy(matches)) >= Cardinality(matches)
     /\ UniqueScore(L, R, matches) > 0
  THEN Rounded(3 * UniqueScore(L, R, matches) + Raw(matches), 4) ELSE Raw(matches)
Summary(L, R, matches) ==
  [similarity |-> Similarity(L, R, matches),
   unique |-> UniqueScore(L, R, matches),
   leftCoverage |-> Coverage(Bytes(Lefts(matches)), Bytes(L)),
   rightCoverage |-> Coverage(Bytes(Rights(matches)), Bytes(R)),
   matched |-> Cardinality(matches)]

Jaccard(A, B) ==
  IF A \cup B = {} THEN 100 ELSE Rounded(100 * Cardinality(A \cap B), Cardinality(A \cup B))
\* metadata_similarity_score
ImportsOf(fs) == {f.api : f \in fs} \ {"none"}
ExportsOf(fs) == {f.name : f \in {f \in fs : f.source = "export"}}
StringsOf(fs) == {f.code : f \in {f \in fs : f.strings}}
Metadata(L, R) ==
  Rounded(45 * Jaccard(ImportsOf(L), ImportsOf(R)) + 35 * Jaccard(ExportsOf(L), ExportsOf(R))
          + 20 * Jaccard(StringsOf(L), StringsOf(R)), 100)

-----------------------------------------------------------------------------
(* The commands.                                                            *)

CompareInit ==
  /\ left \in Binaries /\ right \in Binaries
  /\ mean \in [{{f.code, g.code} : f, g \in left \cup right} -> Means]
  /\ options \in Thresholds
  /\ report = NoReport

Diffed(L, R) ==
  LET matches == Greedy(Candidates(L, R, MinScore))
  IN  [kind |-> "diff", matches |-> matches,
       leftOnly |-> L \ Lefts(matches), rightOnly |-> R \ Rights(matches),
       summary |-> Summary(L, R, matches)]

\* diff_images
Diff ==
  /\ report = NoReport
  /\ report' = Diffed(Profile(left), Profile(right))
  /\ UNCHANGED <<left, right, mean, options>>

\* select_cfg_diff_pair: a target is "auto", or the name or the RVA of a function.
Hits(f, target) == (Named(f) /\ target = [name |-> f.name]) \/ target = [rva |-> f.rva]
AutoTarget == [name |-> "auto"]
FirstOf(pairs) == {m \in pairs : \A n \in pairs \ {m} : Best(m, n)}
Automatic(pairs) ==
  LET changed == {m \in pairs : /\ ~ Noise(m.left) /\ ~ Noise(m.right)
                                /\ Tier(m.score) \in {"changed", "weak"}}
      clean == {m \in pairs : ~ Noise(m.left)}
  IN  IF changed # {}
      THEN {m \in changed : \A n \in changed :
              m.score > n.score \/ (m.score = n.score /\ m.left.size >= n.left.size)}
      ELSE FirstOf(IF clean # {} THEN clean ELSE pairs)
FirstHit(fs, target) ==
  {f \in fs : Hits(f, target) /\ \A g \in fs : Hits(g, target) => f.rva <= g.rva}
Selected(L, R, target) ==
  LET pairs == Greedy(Candidates(L, R, 0))
      hits == {m \in pairs : Hits(m.left, target) \/ Hits(m.right, target)}
  IN  IF pairs = {} THEN {}
      ELSE IF target = AutoTarget THEN Automatic(pairs)
      ELSE IF hits # {} THEN FirstOf(hits)
      ELSE {Pair(l, r, "image") : l \in FirstHit(L, target), r \in FirstHit(R, target)}

Targets == {AutoTarget} \cup {[name |-> f.name] : f \in left} \cup {[rva |-> f.rva] : f \in left}

\* diff_function_cfg, up to the pair whose blocks it compares
CfgDiff ==
  /\ report = NoReport
  /\ \E target \in Targets :
       report' = [kind |-> "cfg", target |-> target,
                  pair |-> Selected(Profile(left), Profile(right), target)]
  /\ UNCHANGED <<left, right, mean, options>>

\* score_indexed_images: what one indexed image is worth, if anything.
Hunted(sample, path, image) ==
  LET matches == Greedy(IndexedCandidates(sample, image))
      summary == Summary(sample, image, matches)
      score == Rounded(70 * summary.similarity + 20 * summary.unique
                       + 10 * Metadata(sample, image), 100)
  IN  IF matches = {} \/ (score < MinScore /\ summary.unique < MinScore) THEN {}
      ELSE {[path |-> path, score |-> score, unique |-> summary.unique,
             matched |-> summary.matched, matches |-> matches]}

Ranked(a, b) ==
  \/ a.score > b.score
  \/ a.score = b.score /\ a.unique > b.unique
  \/ a.score = b.score /\ a.unique = b.unique /\ a.matched > b.matched
  \/ a.score = b.score /\ a.unique = b.unique /\ a.matched = b.matched /\ a.path < b.path

\* hunt_corpus: the left image, in a corpus of the two.
Found(sample, other) == Hunted(sample, 1, other) \cup Hunted(sample, 2, sample)
Hunt ==
  /\ report = NoReport
  /\ LET found == Found(Profile(left), Profile(right))
     IN  report' = [kind |-> "hunt",
                    candidates |-> {c \in found : Cardinality({d \in found : Ranked(d, c)}) < MaxCandidates}]
  /\ UNCHANGED <<left, right, mean, options>>

Compare == Diff \/ CfgDiff \/ Hunt
ComparisonSpec == CompareInit /\ [][Compare]_comparisonVars

-----------------------------------------------------------------------------
(* Properties.                                                              *)

Own(f) == [left |-> f, right |-> f, score |-> 100]

\* An image differs in nothing from itself: diff pairs every function with
\* itself, also where functions share their code, and reports no difference,
\* and diff --show-cfg compares the blocks of the target with its own.
SelfIsIdentical ==
  left = right =>
    /\ report.kind = "diff" =>
         /\ report.matches = {Own(f) : f \in Profile(left)}
         /\ report.leftOnly = {} /\ report.rightOnly = {}
         /\ Profile(left) # {} =>
              report.summary.leftCoverage = 100 /\ report.summary.similarity = 100
    /\ report.kind = "cfg" => \A m \in report.pair : m.left = m.right

\* What hunt makes of the image itself: every score at its most, and every function
\* matched with itself.
OwnHit(fs, path) ==
  [path |-> path, score |-> 100, unique |-> 100, matched |-> Cardinality(fs), matches |-> {Own(f) : f \in fs}]
Ties(a, b) == a.score = b.score /\ a.unique = b.unique /\ a.matched = b.matched

\* An image that was indexed is found by hunt with every score at its most, and what
\* ranks above it ties with it in every score and count and has an earlier path.
\* --max-candidates leaves it out only where it lists nothing but such images.  This is
\* so unless all the functions of the image are noise.
IndexedImageFound ==
  report.kind = "hunt" /\ Unique(Profile(left)) # {} =>
    LET own == OwnHit(Profile(left), 2) IN
    /\ \A c \in report.candidates : Ranked(c, own) => Ties(c, own)
    /\ \/ own \in report.candidates
       \/ /\ Cardinality(report.candidates) = MaxCandidates
          /\ \A c \in report.candidates : Ranked(c, own)

\* Which image is called left makes no difference, in spite of ties, but for
\* pairs that the block counts admit from one side only.
OneSided(L, R) ==
  \E l \in L, r \in R : (r \in Considered(l, L, R)) # (l \in Considered(r, R, L))
SidesSwap ==
  report.kind = "diff" /\ ~ OneSided(Profile(left), Profile(right)) =>
    {<<m.right, m.left>> : m \in report.matches}
      = {<<m.left, m.right>> : m \in Diffed(Profile(right), Profile(left)).matches}

\* An image compared with itself has no difference; one that was indexed is listed with
\* every score at its most, below nothing but images that tie with it; and which image
\* is called left makes no difference.
ComparisonIsFair == SelfIsIdentical /\ IndexedImageFound /\ SidesSwap

=============================================================================
