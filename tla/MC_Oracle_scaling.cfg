\* Every combination of source, account checks, price, confidence, exponent
\* and publish time around the staleness bound.  The widths are scaled so
\* that a price of 999 at exponent 0 (99900 at PRICE_SCALE) overflows u64
\* but not u128, at exponent 2 it overflows u128, at exponent +-6 the power
\* itself overflows, and a price of 100 at exponent -4 scales to 1 with a
\* confidence of 0.0002 rounded up to 1.  Fill prices sit near 1, 100 and
\* 99900.
CONSTANTS
    PRICE_SCALE = 100
    U64_MAX = 65535
    U128_MAX = 200000
    Now = 100
    Staleness = 60
    MaxConfBpsChoices = {100, 1000}
    MaxFillDevBps = 200
    Prices = {0, 1, 7, 100, 999, 12345}
    Confs = {0, 1, 9, 40}
    Exponents <- ScalingExponents
    PublishTimes <- ScalingPublishTimes
    FillPrices = {1, 100, 99900}

SPECIFICATION Spec
\* One call per behaviour: the state after it has no successor.
CHECK_DEADLOCK FALSE
INVARIANTS
    TypeOK
    ScalingMatchesReference
    ConfidenceCheckConservative
