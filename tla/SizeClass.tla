----------------------------- MODULE SizeClass -----------------------------
(***************************************************************************)
(* The size-class arithmetic of internal/arena/freelist.go, formula by     *)
(* formula.  Freelist takes the classes as a table; FormulasRight says what *)
(* table the formulas amount to, for every length from 1 word to a bound.   *)
(* Classes and buckets are numbered from 0, as in the code.                *)
(***************************************************************************)
EXTENDS Integers

numSizeClasses == 20
largeThresholdWords == 64
numLargeClasses == 24

sizeClassOneShort(w) ==
    CASE w <= 8  -> w - 1
      [] 8 < w /\ w <= 16  -> 8 + (w - 8) \div 2
      [] 16 < w /\ w <= 32 -> 12 + (w - 17) \div 4
      [] OTHER -> 16 + (w - 33) \div 8
sizeClass(w) ==
    CASE w <= 8  -> w - 1
      [] 8 < w /\ w <= 16  -> 8 + (w - 9) \div 2
      [] 16 < w /\ w <= 32 -> 12 + (w - 17) \div 4
      [] OTHER -> 16 + (w - 33) \div 8

classWords(c) ==
    CASE c < 8  -> c + 1
      [] 8 <= c /\ c < 12  -> 10 + 2 * (c - 8)
      [] 12 <= c /\ c < 16 -> 20 + 4 * (c - 12)
      [] OTHER -> 40 + 8 * (c - 16)

\* The loop of floorClass: from the class of the clamped length down to one
\* that fits.
FirstThatFits(w) ==
    CHOOSE c \in -1 .. sizeClass(w) :
        /\ c >= 0 => classWords(c) <= w
        /\ \A d \in c + 1 .. sizeClass(w) : d >= 0 => classWords(d) > w
floorClass(w) ==
    IF w = 0 THEN -1 ELSE FirstThatFits(IF w > largeThresholdWords THEN largeThresholdWords ELSE w)

\* bits.Len32: the number of binary digits of n.
Len32(n) == CHOOSE k \in 0 .. 30 : n < 2^k /\ (k = 0 \/ 2^(k - 1) <= n)
largeSizeClass(w) == LET c == Len32(w - 1) - 7 IN IF c >= numLargeClasses THEN numLargeClasses - 1 ELSE c

\* A small request is served from the tightest class: its blocks hold the
\* request and those of the class below do not.
TightestClass(words) ==
    words <= largeThresholdWords =>
        LET c == sizeClass(words)
        IN  /\ c \in 0 .. numSizeClasses - 1
            /\ words <= classWords(c)
            /\ c > 0 => classWords(c - 1) < words

\* What popLarge hands back of a remainder fits in it, and the tail it drops is
\* at most 7 words for every remainder a split can leave.
TailAtMostSeven(words) ==
    words <= largeThresholdWords =>
        LET c == floorClass(words)
        IN  c >= 0 /\ classWords(c) <= words /\ words - classWords(c) <= 7

\* LARGE bucket i holds exactly the lengths in (2^(6+i), 2^(7+i)], so a climb from
\* the bucket of a request never skips a block that would fit.
LargeBucketRange(words) ==
    words > largeThresholdWords =>
        LET c == largeSizeClass(words)
        IN  c >= 0 /\ 2^(6 + c) < words /\ words <= 2^(7 + c)

\* All three, for every length: the boundaries at powers of two among them.
FormulasRight(maxWords) ==
    \A words \in 1 .. maxWords :
        TightestClass(words) /\ TailAtMostSeven(words) /\ LargeBucketRange(words)
=============================================================================
