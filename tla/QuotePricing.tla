---------------------------- MODULE QuotePricing ----------------------------
(***************************************************************************)
(* The arithmetic of a quote (src/modules/quotes/QuoteService.ts and       *)
(* src/lib/amounts.ts): integers only, every division rounds down.         *)
(*                                                                         *)
(* A decimal string stands for the integer it is in units finer than a     *)
(* stroop, so that what toStroops cuts off is there to be cut off.         *)
(***************************************************************************)
EXTENDS Integers

CONSTANTS
  Fineness,      \* units of a decimal string in one stroop
  RateScale,     \* RATE_SCALE, the fixed point of a rate
  Bps,           \* BPS, the fixed point of a fee
  PlatformBps,   \* PLATFORM_FEE_BPS
  CorridorBps,   \* CORRIDOR_FEE_BPS
  ProviderRates, \* the rates the provider may answer (none when it is not set)
  StaticRates    \* the rate CORRIDOR_RATES_JSON has for the corridor, if any

ASSUME PricingAssumption ==
  /\ Fineness \in Nat \ {0}
  /\ RateScale \in Nat \ {0}
  /\ Bps \in Nat \ {0}
  /\ PlatformBps \in Nat
  /\ CorridorBps \in Nat
  /\ ProviderRates \subseteq Nat
  /\ StaticRates \subseteq Nat

ToStroops(amount) == amount \div Fineness
FromStroops(stroops) == stroops * Fineness

\* parseRate throws for the others.
ValidRate(rate) == rate > 0

\* What resolveRate may return: the provider's rate; when it fails, answers
\* nothing or answers nonsense, the static one; without that, one to one.
Fallback ==
  IF \E rate \in StaticRates : ValidRate(rate)
    THEN {rate \in StaticRates : ValidRate(rate)}
    ELSE {RateScale}

ResolvedRates == {rate \in ProviderRates : ValidRate(rate)} \union Fallback

NoFee == [fixed |-> 0, bps |-> 0]

Fees == [fixed : Nat, bps : Nat]

\* Faulty variant: the two fees are rounded together.
AfterSourceFeesTogether(source) ==
  source - (source * (PlatformBps + CorridorBps)) \div Bps

AfterSourceFees(source) ==
  source - (source * PlatformBps) \div Bps - (source * CorridorBps) \div Bps

Gross(source, rate) == (AfterSourceFees(source) * rate) \div RateScale

AnchorFee(gross, fee) == (gross * fee.bps) \div Bps + fee.fixed

\* computeDestination: the amounts of a quote for a source amount in stroops, a
\* scaled rate and the anchor's fee.
ComputeDestination(source, rate, fee) ==
  LET gross == Gross(source, rate) IN
  [source      |-> source,
   rate        |-> rate,
   platform    |-> (source * PlatformBps) \div Bps,
   corridor    |-> (source * CorridorBps) \div Bps,
   anchor      |-> AnchorFee(gross, fee),
   destination |-> gross - AnchorFee(gross, fee)]

\* Faulty variant: only the fees taken from the source are looked at.
PayableUnchecked(source, rate, fee) == source > 0 /\ AfterSourceFees(source) > 0

\* It throws when the fees exceed the source or leave nothing to deliver.
Payable(source, rate, fee) ==
  /\ source > 0
  /\ AfterSourceFees(source) > 0
  /\ ComputeDestination(source, rate, fee).destination > 0

\* The terms compute answers and createQuote stores, the fees by way of their
\* decimal strings.  The fingerprint hashes exactly these.
Terms(source, rate, fee) ==
  LET t == ComputeDestination(source, rate, fee) IN
  [t EXCEPT !.platform = ToStroops(FromStroops(@)),
            !.corridor = ToStroops(FromStroops(@)),
            !.anchor = ToStroops(FromStroops(@))]
=============================================================================
