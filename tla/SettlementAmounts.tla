--------------------------- MODULE SettlementAmounts ---------------------------
(***************************************************************************)
(* The money of one settlement: the calculator that turns an investment's  *)
(* terms into a breakdown when its maturity is enqueued, and the ledger    *)
(* posting that turns the stored breakdown into four lines when the payout *)
(* has gone through.  Go's int64 is modelled with its overflow, at a width *)
(* that is a parameter.  The engine module knows the outcome only: which   *)
(* maturities are Calculable and which are Postable.                       *)
(***************************************************************************)
EXTENDS Integers, Sequences

CONSTANTS
    BasisPointsDenominator,     \* 10_000
    DaysPerYear,                \* 365
    MaxInt,                     \* math.MaxInt64
    PlatformFeeBPS,             \* configuration, checked by calculator.New
    WithholdingTaxBPS,
    Terms                       \* rows of investments, as the schema admits

D == BasisPointsDenominator
ReturnDenominator == D * DaysPerYear

ASSUME DenominatorAssumption ==
    /\ D \in Nat /\ D > 1
    /\ D = 2 * (D \div 2)
    /\ DaysPerYear \in Nat /\ DaysPerYear > 1
ASSUME WidthAssumption == MaxInt \in Nat /\ MaxInt >= ReturnDenominator
ASSUME ConfigAssumption == PlatformFeeBPS \in 0..D /\ WithholdingTaxBPS \in 0..D
ASSUME TermsAssumption ==
    Terms \subseteq [principal : Nat \ {0}, rate : Nat, days : Nat \ {0},
                     currency : {"code", "short"}]

VARIABLES
    terms,      \* the investment
    stage,      \* how far its settlement has got
    breakdown,  \* settlement_jobs: the amounts snapshotted at enqueue
    lines       \* ledger_entries: the lines of its entry group

vars == <<terms, stage, breakdown, lines>>

-----------------------------------------------------------------------------
(* int64 arithmetic.                                                       *)

(* The sum or product as the machine keeps it.                             *)
Wrap(x) == ((x + MaxInt + 1) % (2 * (MaxInt + 1))) - (MaxInt + 1)

(* Go's division truncates toward zero.                                    *)
Quo(x, d) == IF x >= 0 THEN x \div d ELSE -((-x) \div d)

(* (n + d/2) / d, with n already computed.                                 *)
RoundQuo(n, d) == Quo(Wrap(n + d \div 2), d)

-----------------------------------------------------------------------------
(* Package money.                                                          *)

ValidatePrincipal(cents) == cents > 0 /\ cents <= MaxInt \div D

ValidateBasisPoints(bps) == bps \in 0..D

ValidateTermDays(days) == days > 0

(* Mutant: the cut is truncated.                                           *)
TruncatedCut(amount, bps) == Quo(Wrap(amount * bps), D)

ApplyBasisPoints(amount, bps) ==
    IF amount = 0 \/ bps = 0 THEN 0 ELSE RoundQuo(Wrap(amount * bps), D)

(* Mutant: the day count is taken to be a whole year.                      *)
TermIgnored(principal, rate, days) == RoundQuo(Wrap(principal * rate), D)

ProratedReturn(principal, rate, days) ==
    IF principal = 0 \/ rate = 0 THEN 0
    ELSE RoundQuo(Wrap(Wrap(principal * rate) * days), ReturnDenominator)

-----------------------------------------------------------------------------
(* Package settlement and the calculator.                                  *)

ValidTerms(t) == /\ ValidatePrincipal(t.principal)
                 /\ ValidateBasisPoints(t.rate)
                 /\ ValidateTermDays(t.days)
                 /\ t.currency = "code"

(* Mutant: the return is added to the stored principal as well.            *)
ReturnAddedTwice(t) ==
    LET gross == ProratedReturn(t.principal, t.rate, t.days)
        fee == ApplyBasisPoints(gross, PlatformFeeBPS)
        tax == ApplyBasisPoints(Wrap(gross - fee), WithholdingTaxBPS)
    IN  [principal |-> t.principal + gross, gross |-> gross, fee |-> fee,
         tax |-> tax,
         net |-> Wrap(Wrap(Wrap(t.principal + gross + gross) - fee) - tax)]

(* Service.Calculate, before its final check.                              *)
Amounts(t) ==
    LET gross == ProratedReturn(t.principal, t.rate, t.days)
        fee == ApplyBasisPoints(gross, PlatformFeeBPS)
        tax == ApplyBasisPoints(Wrap(gross - fee), WithholdingTaxBPS)
    IN  [principal |-> t.principal, gross |-> gross, fee |-> fee, tax |-> tax,
         net |-> Wrap(Wrap(Wrap(t.principal + gross) - fee) - tax)]

(* Mutant: a return of zero is refused.                                    *)
PositiveReturnOnly(b) == b.gross > 0

(* Breakdown.Validate.                                                     *)
ValidBreakdown(b) ==
    /\ b.principal > 0
    /\ b.gross >= 0
    /\ b.fee >= 0
    /\ b.tax >= 0
    /\ b.net > 0
    /\ b.net = Wrap(Wrap(Wrap(b.principal + b.gross) - b.fee) - b.tax)
    /\ b.tax <= Wrap(b.gross - b.fee)

(* What the engine calls Calculable.                                       *)
Accepted(t) == ValidTerms(t) /\ ValidBreakdown(Amounts(t))

-----------------------------------------------------------------------------
(* The ledger.                                                             *)

(* Mutant: the payable is debited by the principal alone.                  *)
PrincipalOnly(b) ==
    <<[side |-> "D", amount |-> b.principal],
      [side |-> "C", amount |-> b.net],
      [side |-> "C", amount |-> b.fee],
      [side |-> "C", amount |-> b.tax]>>

(* buildPostingLines: payable, wallet, platform fee, withholding tax.      *)
PostingLines(b) ==
    <<[side |-> "D", amount |-> Wrap(b.principal + b.gross)],
      [side |-> "C", amount |-> b.net],
      [side |-> "C", amount |-> b.fee],
      [side |-> "C", amount |-> b.tax]>>

(* validateBalanced: one debit line and three credit lines.                *)
ValidateBalanced(ls) ==
    /\ \A i \in 1..4 : ls[i].amount > 0
    /\ ls[1].amount = Wrap(Wrap(ls[2].amount + ls[3].amount) + ls[4].amount)

(* What the engine calls Postable.                                         *)
LinesAccepted(b) == ValidateBalanced(PostingLines(b))

-----------------------------------------------------------------------------
NoAmounts == [principal |-> 0, gross |-> 0, fee |-> 0, tax |-> 0, net |-> 0]

Init ==
    /\ terms \in Terms
    /\ stage = "maturing"
    /\ breakdown = NoAmounts
    /\ lines = <<>>

(* The tick calculates and stores the breakdown, or is refused.            *)
Calculate ==
    /\ stage = "maturing"
    /\ stage' = IF Accepted(terms) THEN "enqueued" ELSE "refused"
    /\ breakdown' = IF Accepted(terms) THEN Amounts(terms) ELSE breakdown
    /\ UNCHANGED <<terms, lines>>

(* The worker validates the stored breakdown again and posts its lines.    *)
PostSettlement ==
    /\ stage = "enqueued"
    /\ IF ValidBreakdown(breakdown) /\ LinesAccepted(breakdown)
       THEN stage' = "posted" /\ lines' = PostingLines(breakdown)
       ELSE stage' = "rejected" /\ UNCHANGED lines
    /\ UNCHANGED <<terms, breakdown>>

Next == Calculate \/ PostSettlement

Spec == Init /\ [][Next]_vars

-----------------------------------------------------------------------------
(* q is n/d rounded half up, in exact arithmetic.                          *)
HalfUp(q, n, d) == 2 * n - d < 2 * (q * d) /\ 2 * (q * d) <= 2 * n + d

(* The product that ProratedReturn forms fits its type.                    *)
Safe(t) == t.principal * t.rate * t.days + ReturnDenominator <= MaxInt

Calculated == stage \in {"enqueued", "posted", "rejected"}

(* The stored return is simple interest on the terms, rounded half up, as  *)
(* long as ProratedReturn's product fits its type.                         *)
GrossIsRounded ==
    Calculated /\ Safe(terms) =>
        HalfUp(breakdown.gross, terms.principal * terms.rate * terms.days,
               ReturnDenominator)

(* Fee and tax are the configured shares of the return, and of the return  *)
(* after the fee, each rounded half up; ApplyBasisPoints never overflows,  *)
(* whatever ProratedReturn hands it.                                       *)
CutsAreRounded ==
    Calculated =>
        /\ HalfUp(breakdown.fee, breakdown.gross * PlatformFeeBPS, D)
        /\ HalfUp(breakdown.tax,
                  (breakdown.gross - breakdown.fee) * WithholdingTaxBPS, D)

(* No cent is made or lost, and the investor gets at least the principal   *)
(* back, for every fee and tax rate calculator.New lets through.           *)
MoneyConserved ==
    Calculated =>
        /\ breakdown.principal = terms.principal
        /\ breakdown.net + breakdown.fee + breakdown.tax
              = breakdown.principal + breakdown.gross
        /\ breakdown.net >= breakdown.principal

(* Breakdown.Validate never turns down what Calculate made of valid terms  *)
(* that do not overflow: such a maturity cannot stop the scheduler's tick. *)
SafeTermsAreAccepted ==
    stage = "refused" => ~ValidTerms(terms) \/ ~Safe(terms)

(* validateBalanced turns down a stored breakdown only for a fee or a tax  *)
(* of zero; its lines always balance.                                      *)
OnlyZeroCutsAreRejected ==
    stage = "rejected" => breakdown.fee = 0 \/ breakdown.tax = 0
=============================================================================
