-------------------------------- MODULE Oracle --------------------------------
(***************************************************************************)
(* order_engine's helpers/oracle.rs: read_oracle_price_update, which takes *)
(* either a Pyth PriceUpdateV2 account or the executor's fallback triple,  *)
(* converts the feed's exponent-scaled price and confidence to the         *)
(* engine's PRICE_SCALE (price rounded down, confidence rounded up), and   *)
(* validate_oracle, which then checks staleness, the confidence width and  *)
(* the fill price's deviation.                                             *)
(*                                                                         *)
(* A Rust Result is a record [ok, err, val]; AndThen is the `?` operator.  *)
(* u64 and u128 keep their overflow checks against the bounds U64_MAX and  *)
(* U128_MAX, which a model takes smaller than 2^64 and 2^128 together with *)
(* a small PRICE_SCALE, so that every overflow branch is reachable.        *)
(*                                                                         *)
(* The state is one call: the inputs, fixed by Init, and its outcome.      *)
(***************************************************************************)
EXTENDS Integers

CONSTANTS
    PRICE_SCALE,
    U64_MAX,
    U128_MAX,
    Now,              \* Clock::unix_timestamp of the call
    Staleness,        \* pricing_params.max_oracle_staleness_sec
    MaxConfBpsChoices,\* pricing_params.max_conf_bps
    MaxFillDevBps,    \* pricing_params.max_fill_deviation_bps
    Prices,           \* feed prices (i64) and fallback prices
    Confs,            \* feed and fallback confidences (u64)
    Exponents,        \* feed exponents (i32)
    PublishTimes,     \* publish times, feed and fallback
    FillPrices        \* executor's fill prices

BPS_DENOM == 10000

VARIABLES update, result

vars == <<update, result>>

Ok(v) == [ok |-> TRUE, err |-> "None", val |-> v]
Err(code) == [ok |-> FALSE, err |-> code, val |-> 0]
AndThen(r, Op(_)) == IF r.ok THEN Op(r.val) ELSE r

\* A u128 checked_mul/checked_add that overflowed.
CheckedU128(v) == IF v <= U128_MAX THEN Ok(v) ELSE Err("MathOverflow")

\* u64::try_from of a u128.
FitU64Unchecked(v) == Ok(v)

FitU64(v) == IF v <= U64_MAX THEN Ok(v) ELSE Err("MathOverflow")

RECURSIVE Pow10(_)
Pow10(power) == IF power = 0 THEN 1 ELSE 10 * Pow10(power - 1)

\* 10_u128.checked_pow(power).
pow10_u128(power) == CheckedU128(Pow10(power))

scale_unsigned_value(value, exponent) ==
    IF exponent >= 0
    THEN AndThen(pow10_u128(exponent),
                 LAMBDA power : AndThen(CheckedU128(value * power),
                                        LAMBDA x : CheckedU128(x * PRICE_SCALE)))
    ELSE AndThen(pow10_u128(-exponent),
                 LAMBDA divisor : AndThen(CheckedU128(value * PRICE_SCALE),
                                          LAMBDA n : Ok(n \div divisor)))

ceil_div_u128(numerator, denominator) ==
    IF denominator = 0 THEN Err("MathOverflow")
    ELSE AndThen(CheckedU128(numerator + denominator - 1),
                 LAMBDA adjusted : Ok(adjusted \div denominator))

scale_unsigned_value_ceil(value, exponent) ==
    IF exponent >= 0 THEN scale_unsigned_value(value, exponent)
    ELSE AndThen(pow10_u128(-exponent),
                 LAMBDA divisor : AndThen(CheckedU128(value * PRICE_SCALE),
                                          LAMBDA n : ceil_div_u128(n, divisor)))

\* The price rounded up, as scale_unsigned_value_ceil does for confidences.
ScaleSignedPriceCeil(price, exponent) ==
    IF price <= 0 THEN Err("InvalidPrice")
    ELSE AndThen(scale_unsigned_value_ceil(price, exponent),
                 LAMBDA s : IF s = 0 THEN Err("InvalidPrice") ELSE FitU64(s))

scale_signed_price_to_engine(price, exponent) ==
    IF price <= 0 THEN Err("InvalidPrice")
    ELSE AndThen(scale_unsigned_value(price, exponent),
                 LAMBDA s : IF s = 0 THEN Err("InvalidPrice") ELSE FitU64(s))

\* The confidence rounded down, like the price.
ScaleConfidenceFloor(conf, exponent) ==
    AndThen(scale_unsigned_value(conf, exponent), LAMBDA s : FitU64(s))

scale_confidence_to_engine(conf, exponent) ==
    AndThen(scale_unsigned_value_ceil(conf, exponent), LAMBDA s : FitU64(s))

\* The age checks shared by both sources.
CheckAge(publish_time) ==
    IF Now - publish_time < 0 THEN Err("InvalidOracle")
    ELSE IF Now - publish_time > Staleness THEN Err("StaleOracle")
    ELSE Ok(publish_time)

\* The executor's fallback (price_update is the system program): a
\* non-positive publish time means "now".
ReadFallback(u) ==
    IF u.price <= 0 THEN Err("InvalidOracle")
    ELSE AndThen(CheckAge(IF u.publish_time <= 0 THEN Now ELSE u.publish_time),
                 LAMBDA t : Ok([price |-> u.price, conf |-> u.conf, publish_time |-> t]))

\* A Pyth account: owner, discriminator and Borsh decoding (wire_ok),
\* verification level and feed id are accepted or not as a whole.
ReadPyth(u) ==
    IF ~(u.owner_ok /\ u.wire_ok /\ u.full_verification /\ u.feed_matches)
    THEN Err("InvalidOracle")
    ELSE AndThen(CheckAge(u.publish_time),
           LAMBDA t : AndThen(scale_signed_price_to_engine(u.price, u.exponent),
             LAMBDA p : AndThen(scale_confidence_to_engine(u.conf, u.exponent),
               LAMBDA c : Ok([price |-> p, conf |-> c, publish_time |-> t]))))

read_oracle_price_update(u) ==
    IF u.source = "Fallback" THEN ReadFallback(u) ELSE ReadPyth(u)

abs_diff(a, b) == IF a > b THEN a - b ELSE b - a

\* validate_oracle on the triple read_oracle_price_update returned
\* (its age checks repeat the ones above and cannot fail here).
validate_oracle(u, o) ==
    LET conf_bps == (o.conf * BPS_DENOM) \div o.price
        deviation_bps == (abs_diff(u.fill_price, o.price) * BPS_DENOM) \div o.price
    IN CASE conf_bps > u.max_conf_bps -> Err("OracleConfidenceTooWide")
         [] deviation_bps > MaxFillDevBps -> Err("FillPriceDeviationTooLarge")
         [] OTHER -> Ok(o)

Updates ==
    [source : {"Fallback"}, price : Prices, conf : Confs, publish_time : PublishTimes,
     max_conf_bps : MaxConfBpsChoices, fill_price : FillPrices]
    \cup
    [source : {"Pyth"}, owner_ok : BOOLEAN, wire_ok : BOOLEAN,
     full_verification : BOOLEAN, feed_matches : BOOLEAN,
     price : Prices, conf : Confs, exponent : Exponents, publish_time : PublishTimes,
     max_conf_bps : MaxConfBpsChoices, fill_price : FillPrices]

NoResult == [ok |-> FALSE, err |-> "NotRun", val |-> 0]

Init ==
    /\ update \in Updates
    /\ result = NoResult

\* execute_order's two calls: read, then validate.
ReadAndValidate ==
    /\ result = NoResult
    /\ result' = AndThen(read_oracle_price_update(update),
                         LAMBDA o : validate_oracle(update, o))
    /\ UNCHANGED update

Next == ReadAndValidate

Spec == Init /\ [][Next]_vars

-----------------------------------------------------------------------------
TypeOK ==
    /\ update \in Updates
    /\ result.ok => /\ result.val.price \in 1..U64_MAX
                    /\ result.val.conf \in 0..U64_MAX
                    /\ result.val.publish_time \in PublishTimes \cup {Now}

\* Reference: v * 10^exponent * PRICE_SCALE as the fraction RefNum / RefDen,
\* with the standard exponentiation of Integers instead of Pow10.
RefNum(v, exponent) == v * PRICE_SCALE * (IF exponent >= 0 THEN 10^exponent ELSE 1)
RefDen(exponent) == IF exponent >= 0 THEN 1 ELSE 10^(-exponent)

\* A feed price the engine accepts is the exact price at PRICE_SCALE
\* rounded down, and its confidence the exact confidence rounded up, for
\* every exponent (spec section 4.1); nothing above u64 is accepted.
ScalingMatchesReference ==
    result.ok /\ update.source = "Pyth" =>
        LET d == RefDen(update.exponent)
            p == result.val.price
            c == result.val.conf
        IN /\ p * d <= RefNum(update.price, update.exponent)
           /\ RefNum(update.price, update.exponent) < (p + 1) * d
           /\ c * d >= RefNum(update.conf, update.exponent)
           /\ RefNum(update.conf, update.exponent) > (c - 1) * d

\* Rounding never lets a feed pass the confidence check that its exact
\* confidence/price ratio fails: whenever validate_oracle accepts, the
\* ratio in the feed's own units is within max_conf_bps.
ConfidenceCheckConservative ==
    result.ok => (update.conf * BPS_DENOM) \div update.price <= update.max_conf_bps
=============================================================================
