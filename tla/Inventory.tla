------------------------------ MODULE Inventory ------------------------------
(***************************************************************************)
(* amm/inventory.py: the base and quote balances a virtual fill moves.     *)
(***************************************************************************)
EXTENDS Market

CONSTANTS
  InitialBase, InitialQuote,
  TargetRatio,               (* target_base_ratio, in percent              *)
  NegativeBalancesAllowed

ASSUME InventoryAssumption ==
  /\ InitialBase \in Int /\ InitialQuote \in Int
  /\ TargetRatio \in 0..100
  /\ NegativeBalancesAllowed \in BOOLEAN

VARIABLES base, quote

inventoryVars == <<base, quote>>

InventoryInit == base = InitialBase /\ quote = InitialQuote

Equity(fair) == base * fair + quote

(***************************************************************************)
(* InventoryState.skew in percent; None without a positive fair or equity. *)
(***************************************************************************)
Skew(fair) ==
  IF fair = None THEN None
  ELSE IF fair <= 0 \/ Equity(fair) <= 0 THEN None
  ELSE (100 * base * fair) \div Equity(fair) - TargetRatio

(***************************************************************************)
(* The balances after a fill.  apply_fill assigns them first and raises    *)
(* afterwards, so Overdrawn is a property of the balances already taken.   *)
(* Mutant: a sell's fee has the wrong sign.                                *)
(***************************************************************************)
SellFeeCredited(side, price, size, fee) ==
  /\ base' = IF side = "buy" THEN base + size ELSE base - size
  /\ quote' = IF side = "buy" THEN quote - (price * size + fee)
                              ELSE quote + (price * size + fee)
ApplyFill(side, price, size, fee) ==
  /\ base' = IF side = "buy" THEN base + size ELSE base - size
  /\ quote' = IF side = "buy" THEN quote - (price * size + fee)
                              ELSE quote + (price * size - fee)

Overdrawn(b, q) == ~NegativeBalancesAllowed /\ (b < 0 \/ q < 0)
==============================================================================
