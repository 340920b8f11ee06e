---------------------------- MODULE ContractRules ----------------------------
(***************************************************************************)
(* Which contract a view is expressed with, and whether it is the right    *)
(* one: `pick_contract` and the order gates that look at nothing but the   *)
(* proposal and the contract (src/src/agent/entry.py 49-149,               *)
(* src/src/agent/gates.py 292-418 and 448-505).                            *)
(*                                                                         *)
(* A contract is a record: `right` and `monthly`, `delta` without its      *)
(* sign in hundredths, `bid` and `ask` in cents, `days` to expiry, and     *)
(* `richness` and `decay`, the implied volatility in per cent of the       *)
(* realized one and the daily decay in basis points, each of which may be  *)
(* Unmeasured.  An offer is what the model and the market put up for one   *)
(* name: the proposal, with its `confidence` in per cent and its `quality` *)
(* from 0 to 10, and the `contracts` of its direction.                     *)
(***************************************************************************)
EXTENDS Integers

CONSTANTS
  MinConfidence,      \* settings.min_confidence, in per cent
  MinSetupQuality,    \* settings.min_setup_quality
  DeltaMin, DeltaMax, \* settings.delta_min, delta_max, in hundredths
  MaxSpread,          \* settings.max_spread_pct, in per cent
  CloseBeforeExpiry,  \* settings.close_before_expiry, in days
  DteMin, DteMax,     \* settings.dte_min, dte_max, in days
  MaxRichness,        \* settings.max_iv_to_realized, in per cent
  MaxDecay,           \* settings.max_daily_decay, in basis points
  Aggression          \* settings.entry_aggression, in per cent of the spread

ASSUME ContractAssumption ==
  /\ {MinConfidence, MinSetupQuality, DeltaMin, DeltaMax, MaxSpread,
      CloseBeforeExpiry, DteMin, DteMax, MaxRichness, MaxDecay} \subseteq Nat
  /\ Aggression \in 0 .. 100
  /\ (DeltaMin + DeltaMax) % 2 = 0  \* else rounding would make more deltas alike

Unmeasured == -1

Rights == {"call", "put"}

Contract ==
  [right : Rights, monthly : BOOLEAN, delta : Nat, bid : Nat, ask : Nat, days : Int,
   richness : Nat \cup {Unmeasured}, decay : Nat \cup {Unmeasured}]

Distance(x, y) == IF x < y THEN y - x ELSE x - y

-----------------------------------------------------------------------------
(***************************************************************************)
(* The choice of a contract.                                               *)
(***************************************************************************)
HasBid(c) == c.bid > 0

InDeltaBand(c) == DeltaMin <= c.delta /\ c.delta <= DeltaMax

Usable(offer) ==
  {c \in offer.contracts : c.right = offer.right /\ HasBid(c) /\ InDeltaBand(c)}

\* Twice the distance from the middle of the band.
OffTarget(c) == Distance(2 * c.delta, DeltaMin + DeltaMax)

\* The spread is measured against the middle of the quote.
TighterThan(c, d) == (c.ask - c.bid) * (d.ask + d.bid) < (d.ask - d.bid) * (c.ask + c.bid)

Better(c, d) ==
  \/ c.monthly /\ ~d.monthly
  \/ /\ c.monthly = d.monthly
     /\ \/ OffTarget(c) < OffTarget(d)
        \/ OffTarget(c) = OffTarget(d) /\ TighterThan(c, d)

\* One than which none is better; of two alike the first of the chain is taken.
PickContract(offer) ==
  CHOOSE c \in Usable(offer) : \A d \in Usable(offer) : ~Better(d, c)

\* Rounded to the cent, halves up.
LimitPrice(c) == c.bid + ((c.ask - c.bid) * Aggression + 50) \div 100

-----------------------------------------------------------------------------
(***************************************************************************)
(* The gates, in the order of ORDER_GATES.  What was not measured blocks.  *)
(***************************************************************************)
ConfidentEnough(offer) == offer.confidence >= MinConfidence

\* Off while the floor is 0.
GoodEnough(offer) == MinSetupQuality > 0 => offer.quality >= MinSetupQuality

\* A delta of 0 is one the chain did not give.
DeltaKnownAndInBand(c) == c.delta # 0 /\ InDeltaBand(c)

\* A quote whose middle is no price is as wide as can be.
SpreadOf(c) == IF c.bid + c.ask <= 0 THEN <<1, 1>> ELSE <<2 * (c.ask - c.bid), c.ask + c.bid>>

NarrowEnough(c) == SpreadOf(c)[1] * 100 <= MaxSpread * SpreadOf(c)[2]

\* (Faulty variant: the close-out window is left to the band.)
InExpiryBand(c) == DteMin <= c.days /\ c.days <= DteMax

InExpiryWindow(c) == c.days > CloseBeforeExpiry /\ InExpiryBand(c)

NotRich(c) == c.richness # Unmeasured /\ c.richness <= MaxRichness

SlowEnough(c) == c.decay # Unmeasured /\ c.decay <= MaxDecay

RightContract(c) ==
  /\ DeltaKnownAndInBand(c)
  /\ NarrowEnough(c)
  /\ InExpiryWindow(c)
  /\ NotRich(c)
  /\ SlowEnough(c)

\* A view is worth sizing if it is one at all, a contract expresses it, and no
\* gate refuses it.
WorthSizing(offer) ==
  /\ offer.confidence > 0
  /\ Usable(offer) # {}
  /\ ConfidentEnough(offer)
  /\ GoodEnough(offer)
  /\ RightContract(PickContract(offer))

=============================================================================
