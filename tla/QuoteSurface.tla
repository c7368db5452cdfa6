----------------------------- MODULE QuoteSurface -----------------------------
(***************************************************************************)
(* amm/quote_surface.py.  A quote is identified by its key <<side, level>> *)
(* and generate() emits them in Rank order: buy 0, sell 0, buy 1, sell 1.. *)
(*                                                                         *)
(* The exponential surface is taken to first order: exp(-d) is 1 - d, with *)
(* distances in ticks and the skew in percent.  What the quotes depend on, *)
(* the direction in which they move and every cut-off are the code's.      *)
(***************************************************************************)
EXTENDS Market

CONSTANTS
  Levels, HalfSpread, LevelStep,     (* levels and their distance, in ticks *)
  SkewStrength,                      (* ticks the surface moves per 100% skew *)
  BaseOrderSize, SizeSkewStrength,   (* percent of size per percent of skew *)
  FullActivation,                    (* the activation that stands for 1.0  *)
  MinOrderSize, LotSize

ASSUME QuoteSurfaceAssumption ==
  /\ Levels \in Nat /\ HalfSpread \in Nat /\ LevelStep \in Nat
  /\ SkewStrength \in Nat /\ SizeSkewStrength \in Nat /\ BaseOrderSize \in Nat
  /\ FullActivation \in Nat \ {0} /\ LotSize \in Nat \ {0}
  /\ MinOrderSize \in Nat \ {0}

Keys == Sides \X (0 .. Levels - 1)
Side(k) == k[1]
Rank(k) == 2 * k[2] + (IF Side(k) = "buy" THEN 0 ELSE 1)

QuotePrice(k, fair, skew) ==
  LET distance == HalfSpread + k[2] * LevelStep
      shift    == (SkewStrength * skew) \div 100
  IN  IF Side(k) = "buy" THEN fair - distance - shift ELSE fair + distance - shift

RawSize(k, v, skew) ==
  LET act  == IF Side(k) = "buy" THEN v.bidAct ELSE v.askAct
      tilt == IF Side(k) = "buy" THEN 100 - SizeSkewStrength * skew
                                 ELSE 100 + SizeSkewStrength * skew
  IN  (BaseOrderSize * act * tilt) \div (100 * FullActivation)

(***************************************************************************)
(* _floor_quote_size: below the minimum there is no quote, above the       *)
(* maximum the size is cut, and flooring to the lot may again end below.   *)
(***************************************************************************)
FlooredSize(value) == (MinOf2(value, MaxOrderSize) \div LotSize) * LotSize
Quotable(value) == value >= MinOrderSize /\ FlooredSize(value) >= MinOrderSize

QuotedKeys(v, skew) ==
  IF v.fair = None THEN {}
  ELSE {k \in Keys : /\ v.fair > 0
                     /\ v.bidAct > 0 \/ v.askAct > 0
                     /\ Quotable(RawSize(k, v, skew))}

(***************************************************************************)
(* generate(), as a function from the quoted keys.  process() passes 0     *)
(* when the inventory has no skew.                                         *)
(***************************************************************************)
Generate(v, skew) ==
  LET z == IF skew = None THEN 0 ELSE skew
  IN  [k \in QuotedKeys(v, z) |-> [price |-> QuotePrice(k, v.fair, z),
                                   size  |-> FlooredSize(RawSize(k, v, z))]]
===============================================================================
