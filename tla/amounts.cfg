SPECIFICATION Spec
CONSTANTS
    BasisPointsDenominator = 10000
    DaysPerYear = 365
    MaxInt = 600000000
    PlatformFeeBPS = 9000
    WithholdingTaxBPS = 9000
    Terms <- SmallTerms
INVARIANTS GrossIsRounded CutsAreRounded MoneyConserved SafeTermsAreAccepted OnlyZeroCutsAreRejected
CHECK_DEADLOCK FALSE
