------------------------ MODULE SettlementAmountsProofs ------------------------
(***************************************************************************)
(* Proofs about SettlementAmounts, for every width of the integers, every  *)
(* day count, every fee and tax the configuration admits and every row of  *)
(* investments.                                                            *)
(***************************************************************************)
EXTENDS SettlementAmounts, TLAPS

(* Integer division brackets its quotient.                                 *)
LEMMA DivBounds ==
    ASSUME NEW n \in Nat, NEW d \in Nat, d > 0
    PROVE  /\ n \div d \in Nat
           /\ (n \div d) * d <= n
           /\ n < (n \div d) * d + d
OBVIOUS

(* A common positive factor can be taken off a strict inequality.          *)
LEMMA CancelFactor ==
    ASSUME NEW a \in Int, NEW b \in Int, NEW d \in Nat, d > 0, a * d < b * d
    PROVE  a < b
OBVIOUS

(* A value that fits is kept as it is.                                     *)
LEMMA WrapFits ==
    ASSUME NEW x \in Int, -(MaxInt + 1) <= x, x <= MaxInt
    PROVE  Wrap(x) = x
BY WidthAssumption DEF Wrap

(* Whatever is computed, the machine keeps a value that fits.              *)
LEMMA WrapRange ==
    ASSUME NEW x \in Int
    PROVE  Wrap(x) \in Int /\ -(MaxInt + 1) <= Wrap(x) /\ Wrap(x) <= MaxInt
BY WidthAssumption DEF Wrap

-----------------------------------------------------------------------------
(* The rounding idiom (n + d/2) / d rounds half up while the sum fits.     *)
LEMMA RoundQuoHalfUp ==
    ASSUME NEW n \in Nat, NEW d \in Nat, d > 0, d = 2 * (d \div 2),
           n + d <= MaxInt
    PROVE  RoundQuo(n, d) \in Nat /\ HalfUp(RoundQuo(n, d), n, d)
<1> DEFINE x == n + d \div 2
           q == x \div d
<1>1. x \in Nat /\ 2 * x = 2 * n + d /\ x <= MaxInt
    BY WidthAssumption
<1>2. Wrap(x) = x
    BY <1>1, WrapFits, WidthAssumption
<1>3. RoundQuo(n, d) = q
    BY <1>1, <1>2 DEF RoundQuo, Quo
<1>4. q \in Nat /\ q * d <= x /\ x < q * d + d
    BY <1>1, DivBounds
<1>5. q * d \in Int
    BY <1>4
<1>6. HalfUp(q, n, d)
    BY <1>1, <1>4, <1>5 DEF HalfUp
<1>7. QED
    BY <1>3, <1>4, <1>6

(* A cut of a non-negative amount is rounded half up and no more than the  *)
(* amount itself.                                                          *)
LEMMA CutRounds ==
    ASSUME NEW a \in Nat, NEW bps \in 0..D, a * D + D <= MaxInt
    PROVE  /\ ApplyBasisPoints(a, bps) \in 0..a
           /\ HalfUp(ApplyBasisPoints(a, bps), a * bps, D)
<1> USE DenominatorAssumption
<1> DEFINE q == RoundQuo(a * bps, D)
<1>1. a * bps \in Nat /\ a * bps <= a * D
    OBVIOUS
<1>2. q \in Nat /\ HalfUp(q, a * bps, D)
  <2>1. a * D \in Nat /\ a * bps + D <= MaxInt
      BY <1>1, WidthAssumption
  <2>2. \A n \in Nat : n + D <= MaxInt
                          => RoundQuo(n, D) \in Nat /\ HalfUp(RoundQuo(n, D), n, D)
    <3>1. D \in Nat /\ D > 0 /\ D = 2 * (D \div 2)
        OBVIOUS
    <3>2. QED
        BY <3>1, RoundQuoHalfUp, Zenon
  <2>3. QED
      BY <1>1, <2>1, <2>2, Zenon
<1>3. q * D < (a + 1) * D
  <2>1. a * D \in Nat /\ q * D \in Nat /\ (a + 1) * D = a * D + D
      BY <1>2
  <2>2. 2 * (q * D) <= 2 * (a * bps) + D
      BY <1>2 DEF HalfUp
  <2>3. QED
      BY <1>1, <2>1, <2>2
<1>4. q <= a
    BY <1>2, <1>3, CancelFactor
<1>5. Wrap(a * bps) = a * bps
    BY <1>1, WrapFits, WidthAssumption
<1>6. CASE a = 0 \/ bps = 0
  <2>1. a * bps = 0
      BY <1>6
  <2>2. QED
      BY <1>6, <2>1 DEF ApplyBasisPoints, HalfUp
<1>7. CASE ~(a = 0 \/ bps = 0)
    BY <1>2, <1>4, <1>5, <1>7 DEF ApplyBasisPoints
<1>8. QED
    BY <1>6, <1>7

(* The denominator of the return is even, and more than one year's worth.  *)
LEMMA ReturnDenominatorIsEven ==
    /\ ReturnDenominator \in Nat
    /\ ReturnDenominator >= 2 * D
    /\ ReturnDenominator = 2 * (ReturnDenominator \div 2)
<1> USE DenominatorAssumption
<1> DEFINE h == (D \div 2) * DaysPerYear
<1>1. h \in Nat /\ ReturnDenominator = 2 * h
    BY DEF ReturnDenominator
<1>2. ReturnDenominator >= 2 * D
    BY DEF ReturnDenominator
<1>3. QED
    BY <1>1, <1>2

(* A quotient that is not negative came from a dividend that fits.         *)
LEMMA QuoBound ==
    ASSUME NEW x \in Int, x <= MaxInt, NEW d \in Nat, d > 0
    PROVE  /\ Quo(x, d) \in Int
           /\ Quo(x, d) >= 0 => Quo(x, d) * d <= MaxInt
<1>1. CASE x >= 0
  <2>1. Quo(x, d) = x \div d /\ x \in Nat
      BY <1>1 DEF Quo
  <2>2. x \div d \in Nat /\ (x \div d) * d <= x
      BY <2>1, DivBounds
  <2>3. (x \div d) * d \in Int
      BY <2>2
  <2>4. QED
      BY <2>1, <2>2, <2>3, WidthAssumption
<1>2. CASE x < 0
  <2>1. Quo(x, d) = -((-x) \div d) /\ -x \in Nat
      BY <1>2 DEF Quo
  <2>2. (-x) \div d \in Nat
      BY <2>1, DivBounds
  <2>3. Quo(x, d) >= 0 => Quo(x, d) = 0
      BY <2>1, <2>2
  <2>4. QED
      BY <2>1, <2>2, <2>3, WidthAssumption
<1>3. QED
    BY <1>1, <1>2

(* A return that is not negative, overflowed or not, is small enough for   *)
(* ApplyBasisPoints.                                                       *)
LEMMA GrossFits ==
    ASSUME NEW t \in Terms
    PROVE  LET g == ProratedReturn(t.principal, t.rate, t.days)
           IN  /\ g \in Int
               /\ g >= 0 => g * D + D <= MaxInt
<1> DEFINE g == ProratedReturn(t.principal, t.rate, t.days)
           R == ReturnDenominator
<1>0. t.principal \in Nat /\ t.rate \in Nat /\ t.days \in Nat
    BY TermsAssumption
<1>1. D \in Nat /\ D > 1 /\ R \in Nat /\ R >= 2 * D /\ R <= MaxInt /\ MaxInt \in Nat
    BY DenominatorAssumption, ReturnDenominatorIsEven, WidthAssumption
<1>2. CASE t.principal = 0 \/ t.rate = 0
    BY <1>1, <1>2 DEF ProratedReturn
<1>3. CASE ~(t.principal = 0 \/ t.rate = 0)
  <2> DEFINE n == Wrap(Wrap(t.principal * t.rate) * t.days)
             x == Wrap(n + R \div 2)
  <2>1. n \in Int
    <3>1. t.principal * t.rate \in Int
        BY <1>0
    <3>2. Wrap(t.principal * t.rate) \in Int
        BY <3>1, WrapRange
    <3>3. Wrap(t.principal * t.rate) * t.days \in Int
        BY <1>0, <3>2
    <3>4. QED
        BY <3>3, WrapRange
  <2>2. n + R \div 2 \in Int
      BY <1>1, <2>1
  <2>3. x \in Int /\ x <= MaxInt
      BY <2>2, WrapRange
  <2>4. g = Quo(x, R)
      BY <1>3 DEF ProratedReturn, RoundQuo
  <2>5. g \in Int /\ (g >= 0 => g * R <= MaxInt)
    <3> HIDE DEF x, g
    <3>1. R > 0
        BY <1>1
    <3>2. QED
        BY <1>1, <2>3, <2>4, <3>1, QuoBound
  <2>6. ASSUME g >= 0 PROVE g * D + D <= MaxInt
    <3> HIDE DEF g, R
    <3>1. g * (2 * D) <= g * R
        BY <1>1, <2>5, <2>6
    <3>2. g * D \in Int /\ g * (2 * D) = 2 * (g * D) /\ g * R \in Int
        BY <1>1, <2>5
    <3>3. QED
        BY <1>1, <2>5, <2>6, <3>1, <3>2
  <2>7. QED
      BY <2>5, <2>6
<1>4. QED
    BY <1>2, <1>3

(* What Calculate makes of valid terms whose return is not negative: the   *)
(* cuts are rounded, stay within the return, and no sum overflows.         *)
LEMMA AmountsAreRight ==
    ASSUME NEW t \in Terms, ValidTerms(t), Amounts(t).gross >= 0
    PROVE  LET b == Amounts(t)
           IN  /\ b.principal = t.principal /\ b.principal \in Nat \ {0}
               /\ b.gross \in Nat
               /\ b.fee \in 0..b.gross
               /\ HalfUp(b.fee, b.gross * PlatformFeeBPS, D)
               /\ b.tax \in 0..(b.gross - b.fee)
               /\ HalfUp(b.tax, (b.gross - b.fee) * WithholdingTaxBPS, D)
               /\ b.principal + b.gross <= MaxInt
               /\ b.net = b.principal + b.gross - b.fee - b.tax
<1> DEFINE p == t.principal
           g == ProratedReturn(t.principal, t.rate, t.days)
           f == ApplyBasisPoints(g, PlatformFeeBPS)
           x == ApplyBasisPoints(Wrap(g - f), WithholdingTaxBPS)
<1>1. /\ Amounts(t).principal = p /\ Amounts(t).gross = g
      /\ Amounts(t).fee = f /\ Amounts(t).tax = x
      /\ Amounts(t).net = Wrap(Wrap(Wrap(p + g) - f) - x)
    BY DEF Amounts
<1>2. g \in Nat /\ g * D + D <= MaxInt
    BY <1>1, GrossFits
<1>3. D \in Nat /\ D > 1 /\ MaxInt \in Nat /\ MaxInt >= D
    BY DenominatorAssumption, ReturnDenominatorIsEven, WidthAssumption
<1>4. f \in 0..g /\ HalfUp(f, g * PlatformFeeBPS, D)
  <2> HIDE DEF g
  <2>1. QED
      BY <1>2, ConfigAssumption, CutRounds
<1>5. g <= MaxInt \div 2
  <2> HIDE DEF g
  <2>1. 2 * g <= g * D
      BY <1>2, <1>3
  <2>2. g * D \in Nat
      BY <1>2, <1>3
  <2>3. QED
      BY <1>2, <1>3, <2>1, <2>2
<1>6. Wrap(g - f) = g - f /\ g - f \in Nat
  <2> HIDE DEF g, f
  <2>1. QED
      BY <1>3, <1>4, <1>2, <1>5, WrapFits
<1>7. x \in 0..(g - f) /\ HalfUp(x, (g - f) * WithholdingTaxBPS, D)
  <2> HIDE DEF g, f
  <2>1. (g - f) * D <= g * D /\ g * D \in Nat /\ (g - f) * D \in Nat
      BY <1>2, <1>3, <1>4, <1>6
  <2>2. (g - f) * D + D <= MaxInt
      BY <1>2, <1>3, <2>1
  <2> DEFINE y == g - f
  <2>3. y \in Nat /\ y * D + D <= MaxInt
      BY <1>6, <2>2
  <2> HIDE DEF y
  <2>4. /\ ApplyBasisPoints(y, WithholdingTaxBPS) \in 0..y
        /\ HalfUp(ApplyBasisPoints(y, WithholdingTaxBPS), y * WithholdingTaxBPS, D)
      BY <2>3, ConfigAssumption, CutRounds
  <2> USE DEF y
  <2>5. QED
      BY <1>6, <2>4
<1>8. p \in Nat \ {0} /\ p <= MaxInt \div 2
  <2>1. p \in Nat \ {0} /\ p <= MaxInt \div D
      BY TermsAssumption DEF ValidTerms, ValidatePrincipal
  <2>2. (MaxInt \div D) * D <= MaxInt /\ MaxInt \div D \in Nat
      BY <1>3, DivBounds
  <2>3. 2 * (MaxInt \div D) <= (MaxInt \div D) * D
      BY <1>3, <2>2
  <2>4. (MaxInt \div D) * D \in Nat
      BY <1>3, <2>2
  <2>5. QED
      BY <1>3, <2>1, <2>2, <2>3, <2>4
<1>9. p + g <= MaxInt /\ Wrap(p + g) = p + g
  <2> HIDE DEF p, g
  <2>1. QED
      BY <1>2, <1>3, <1>5, <1>8, WrapFits
<1>10. Wrap(Wrap(Wrap(p + g) - f) - x) = p + g - f - x
  <2> HIDE DEF p, g, f, x
  <2>1. p + g - f \in Int /\ -(MaxInt + 1) <= p + g - f /\ p + g - f <= MaxInt
      BY <1>2, <1>3, <1>4, <1>8, <1>9
  <2>2. p + g - f - x \in Int /\ -(MaxInt + 1) <= p + g - f - x
           /\ p + g - f - x <= MaxInt
      BY <1>2, <1>3, <1>4, <1>7, <1>8, <1>9
  <2>3. p \in Int /\ g \in Int /\ f \in Int /\ x \in Int
      BY <1>2, <1>4, <1>7, <1>8
  <2>4. Wrap(Wrap(p + g) - f) = p + g - f
      BY <1>9, <2>1, <2>3, WrapFits
  <2>5. QED
      BY <2>2, <2>3, <2>4, WrapFits
<1>11. QED
  <2> HIDE DEF p, g, f, x
  <2>1. QED
      BY <1>1, <1>2, <1>4, <1>7, <1>8, <1>9, <1>10 DEF p

(* Terms whose product fits give a return that is rounded half up.         *)
LEMMA SafeGrossRounds ==
    ASSUME NEW t \in Terms, Safe(t)
    PROVE  LET g == ProratedReturn(t.principal, t.rate, t.days)
           IN  /\ g \in Nat
               /\ HalfUp(g, t.principal * t.rate * t.days, ReturnDenominator)
<1> DEFINE n == t.principal * t.rate * t.days
           R == ReturnDenominator
<1>1. t.principal \in Nat \ {0} /\ t.rate \in Nat /\ t.days \in Nat \ {0}
    BY TermsAssumption
<1>2. R \in Nat /\ R > 0 /\ R = 2 * (R \div 2) /\ MaxInt \in Nat
    BY DenominatorAssumption, ReturnDenominatorIsEven, WidthAssumption
<1>3. /\ t.principal * t.rate \in Nat /\ n \in Nat
      /\ t.principal * t.rate <= n
    BY <1>1
<1>4. n + R <= MaxInt
    BY DEF Safe
<1>5. Wrap(t.principal * t.rate) = t.principal * t.rate
  <2>1. t.principal * t.rate <= MaxInt
    <3> HIDE DEF n, R
    <3>1. QED
        BY <1>2, <1>3, <1>4
  <2>2. QED
      BY <1>2, <1>3, <2>1, WrapFits
<1>6. Wrap(n) = n
  <2> HIDE DEF n, R
  <2>1. QED
      BY <1>2, <1>3, <1>4, WrapFits
<1>7. RoundQuo(n, R) \in Nat /\ HalfUp(RoundQuo(n, R), n, R)
  <2> HIDE DEF n, R
  <2>1. QED
      BY <1>2, <1>3, <1>4, RoundQuoHalfUp
<1>8. CASE t.rate = 0
  <2>1. n = 0
      BY <1>1, <1>8
  <2>2. ProratedReturn(t.principal, t.rate, t.days) = 0
      BY <1>8 DEF ProratedReturn
  <2>3. HalfUp(0, 0, R)
      BY <1>2 DEF HalfUp
  <2>4. QED
      BY <2>1, <2>2, <2>3
<1>9. CASE t.rate # 0
  <2>1. ProratedReturn(t.principal, t.rate, t.days) = RoundQuo(n, R)
      BY <1>1, <1>5, <1>6, <1>9 DEF ProratedReturn
  <2>2. QED
      BY <1>7, <2>1
<1>10. QED
    BY <1>8, <1>9

(* Breakdown.Validate accepts the breakdown that Calculate forms whenever  *)
(* the return is not negative.                                             *)
LEMMA AmountsAreValid ==
    ASSUME NEW t \in Terms, ValidTerms(t), Amounts(t).gross >= 0
    PROVE  ValidBreakdown(Amounts(t))
<1> DEFINE b == Amounts(t)
<1>1. /\ b.principal \in Nat \ {0} /\ b.gross \in Nat
      /\ b.fee \in 0..b.gross /\ b.tax \in 0..(b.gross - b.fee)
      /\ b.principal + b.gross <= MaxInt
      /\ b.net = b.principal + b.gross - b.fee - b.tax
    BY AmountsAreRight
<1>2. b.net = Wrap(Wrap(Wrap(b.principal + b.gross) - b.fee) - b.tax)
    BY DEF Amounts
<1> HIDE DEF b
<1>3. Wrap(b.gross - b.fee) = b.gross - b.fee
    BY <1>1, WidthAssumption, WrapFits
<1>4. QED
    BY <1>1, <1>2, <1>3 DEF ValidBreakdown, b

(* The stored breakdown is the calculated one, at every stage.             *)
Snapshot ==
    /\ terms \in Terms
    /\ stage \in {"maturing", "enqueued", "refused", "posted", "rejected"}
    /\ Calculated => Accepted(terms) /\ breakdown = Amounts(terms)
    /\ stage = "refused" => ~Accepted(terms)
    /\ stage = "rejected" =>
          ~(ValidBreakdown(breakdown) /\ LinesAccepted(breakdown))

(* The snapshot taken at enqueue stays the one that is posted.             *)
LEMMA SnapshotHolds == Spec => []Snapshot
<1>1. Init => Snapshot
    BY DEF Init, Snapshot, Calculated
<1>2. Snapshot /\ [Next]_vars => Snapshot'
  <2> SUFFICES ASSUME Snapshot, [Next]_vars PROVE Snapshot'
      OBVIOUS
  <2>1. CASE Calculate
      BY <2>1 DEF Calculate, Snapshot, Calculated
  <2>2. CASE PostSettlement
      BY <2>2 DEF PostSettlement, Snapshot, Calculated
  <2>3. CASE UNCHANGED vars
      BY <2>3 DEF vars, Snapshot, Calculated
  <2>4. QED
      BY <2>1, <2>2, <2>3 DEF Next
<1>3. QED
    BY <1>1, <1>2, PTL DEF Spec

(* Everything AmountsAreRight says holds of a stored breakdown.            *)
LEMMA StoredAreRight ==
    ASSUME Snapshot, Calculated
    PROVE  /\ breakdown = Amounts(terms)
           /\ terms \in Terms /\ ValidTerms(terms) /\ Amounts(terms).gross >= 0
BY DEF Snapshot, Accepted, ValidBreakdown

-----------------------------------------------------------------------------
(* The stored return is simple interest rounded half up whenever the       *)
(* product of ProratedReturn fits its type.                                *)
THEOREM ReturnIsRounded == Spec => []GrossIsRounded
<1>1. Snapshot => GrossIsRounded
  <2> SUFFICES ASSUME Snapshot, Calculated, Safe(terms)
               PROVE  HalfUp(breakdown.gross,
                             terms.principal * terms.rate * terms.days,
                             ReturnDenominator)
      BY DEF GrossIsRounded
  <2>1. breakdown.gross
           = ProratedReturn(terms.principal, terms.rate, terms.days)
      BY StoredAreRight DEF Amounts
  <2>2. QED
      BY <2>1, StoredAreRight, SafeGrossRounds
<1>2. QED
    BY <1>1, SnapshotHolds, PTL

(* Fee and tax are rounded half up for every return that is stored:        *)
(* ApplyBasisPoints never overflows.                                       *)
THEOREM CutsAlwaysRounded == Spec => []CutsAreRounded
<1>1. Snapshot => CutsAreRounded
    BY StoredAreRight, AmountsAreRight DEF CutsAreRounded
<1>2. QED
    BY <1>1, SnapshotHolds, PTL

(* Principal and return are paid out, kept as fee or withheld as tax, to   *)
(* the cent, and the investor never gets less than the principal.          *)
THEOREM MoneyIsConserved == Spec => []MoneyConserved
<1>1. Snapshot => MoneyConserved
  <2> SUFFICES ASSUME Snapshot, Calculated PROVE MoneyConserved
      BY DEF MoneyConserved
  <2> DEFINE b == breakdown
  <2>1. /\ b.principal = terms.principal /\ b.principal \in Nat
        /\ b.gross \in Nat /\ b.fee \in 0..b.gross
        /\ b.tax \in 0..(b.gross - b.fee)
        /\ b.net = b.principal + b.gross - b.fee - b.tax
      BY StoredAreRight, AmountsAreRight
  <2>2. QED
      BY <2>1 DEF MoneyConserved
<1>2. QED
    BY <1>1, SnapshotHolds, PTL

(* Breakdown.Validate, behind Calculate, turns down no valid terms whose   *)
(* product fits.                                                           *)
THEOREM SafeTermsPass == Spec => []SafeTermsAreAccepted
<1>1. Snapshot => SafeTermsAreAccepted
  <2> SUFFICES ASSUME Snapshot, ValidTerms(terms), Safe(terms)
               PROVE  Accepted(terms)
      BY DEF SafeTermsAreAccepted, Snapshot
  <2>1. terms \in Terms
      BY DEF Snapshot
  <2>2. Amounts(terms).gross \in Nat
      BY <2>1, SafeGrossRounds DEF Amounts
  <2>3. QED
      BY <2>1, <2>2, AmountsAreValid DEF Accepted
<1>2. QED
    BY <1>1, SnapshotHolds, PTL

(* The ledger turns down a stored breakdown only for a fee or a tax of     *)
(* zero: debit and credits always balance, and no line overflows.          *)
THEOREM RejectionMeansZeroCut == Spec => []OnlyZeroCutsAreRejected
<1>1. Snapshot => OnlyZeroCutsAreRejected
  <2> SUFFICES ASSUME Snapshot, stage = "rejected",
                      breakdown.fee # 0, breakdown.tax # 0
               PROVE  ValidBreakdown(breakdown) /\ LinesAccepted(breakdown)
      BY DEF OnlyZeroCutsAreRejected, Snapshot
  <2> DEFINE b == breakdown
  <2>1. b = Amounts(terms) /\ terms \in Terms /\ ValidTerms(terms)
           /\ Amounts(terms).gross >= 0
      BY StoredAreRight DEF Calculated
  <2>2. ValidBreakdown(b)
      BY <2>1, AmountsAreValid
  <2>3. /\ b.principal \in Nat \ {0} /\ b.gross \in Nat
        /\ b.fee \in 1..b.gross /\ b.tax \in 1..(b.gross - b.fee)
        /\ b.principal + b.gross <= MaxInt
        /\ b.net = b.principal + b.gross - b.fee - b.tax
      BY <2>1, AmountsAreRight
  <2>4. /\ Wrap(b.principal + b.gross) = b.principal + b.gross
        /\ Wrap(b.net + b.fee) = b.net + b.fee
        /\ Wrap(b.net + b.fee + b.tax) = b.net + b.fee + b.tax
      BY <2>3, WidthAssumption, WrapFits
  <2>5. LinesAccepted(b)
      BY <2>3, <2>4 DEF LinesAccepted, ValidateBalanced, PostingLines
  <2>6. QED
      BY <2>2, <2>5
<1>2. QED
    BY <1>1, SnapshotHolds, PTL
=============================================================================
