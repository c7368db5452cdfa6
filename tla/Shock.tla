-------------------------------- MODULE Shock --------------------------------
(***************************************************************************)
(* market/shock.py: a burst of taker volume against the depth of the book  *)
(* is a shock; some time after it the quote surface is activated, on the   *)
(* side the shock hit, and the activation decays.                          *)
(*                                                                         *)
(* Ratios are percentages; the exponentials are taken to first order:      *)
(* sigmoid(x) as 1/2 + x/4 and exp(-x) as 1 - x, within their range.       *)
(***************************************************************************)
EXTENDS FairPrice

CONSTANTS
  ShockWindow,         (* shock.forced_flow_window_ms          *)
  DepthBps,            (* shock.depth_bps                      *)
  Threshold,           (* shock.threshold, in percent          *)
  Temperature,         (* shock.temperature                    *)
  MinWait,             (* shock.minimum_wait_after_shock_ms    *)
  Decay,               (* shock.activation_decay_ms            *)
  OppositeRatio        (* shock.opposite_side_activation_ratio, in percent *)

ASSUME ShockAssumption ==
  /\ \A n \in {ShockWindow, DepthBps, Threshold, Temperature, MinWait} : n \in Nat
  /\ Decay \in Nat \ {0} /\ OppositeRatio \in 0..100

VARIABLES
  trades,        (* deque of [ts, side, notional]                        *)
  lastShock      (* None or [ts, direction]                              *)

shockVars == <<trades, lastShock>>

ShockInit == trades = <<>> /\ lastShock = None

Directions == {"sell_shock", "buy_shock", "neutral"}

Taken(deque, side) ==
  SumFunctionOnSet([n \in 1..Len(deque) |-> deque[n].notional],
                    {n \in 1..Len(deque) : deque[n].side = side})
Bought == Taken(trades, "buy")
Sold == Taken(trades, "sell")

ForceRatio == (100 * MaxOf2(Bought, Sold)) \div MaxOf2(Depth(DepthBps), 1)
Forced == ForceRatio >= Threshold

Pressure ==
  IF Sold > Bought THEN "sell_shock" ELSE IF Bought > Sold THEN "buy_shock" ELSE "neutral"

(***************************************************************************)
(* The first half of update(), with the book as it is now: the trade       *)
(* enters, old ones leave, and a burst is a new shock if the last one is   *)
(* over.  Mutants: the window loses a trade too early; the direction of a  *)
(* shock turns with the flow after it.                                     *)
(***************************************************************************)
WindowClosed(prints) == trades' = Expire(trades \o prints, now', ShockWindow - 1)
Window(prints) == trades' = Expire(trades \o prints, now', ShockWindow)

LastIsOver == IF lastShock = None THEN TRUE ELSE now' - lastShock.ts > ShockWindow
DirectionTurns ==
  lastShock' = IF ~Forced' THEN lastShock
               ELSE [ts |-> IF LastIsOver THEN now' ELSE lastShock.ts, direction |-> Pressure']
Detect ==
  lastShock' = IF Forced' /\ LastIsOver THEN [ts |-> now', direction |-> Pressure'] ELSE lastShock

(***************************************************************************)
(* The second half: nothing without a fair price, waiting, then active.    *)
(* Mutant: active at once.                                                 *)
(***************************************************************************)
Within(low, n, high) == MaxOf2(low, MinOf2(n, high))
Raw == Within(0, 50 + (Temperature * (ForceRatio - Threshold)) \div 4, 100)

ActiveAtOnce ==
  IF Fair = None \/ lastShock = None THEN 0
  ELSE Within(0, (Raw * (Decay - (now - lastShock.ts))) \div Decay, 100)
Activation ==
  IF Fair = None \/ lastShock = None THEN 0
  ELSE IF now - lastShock.ts < MinWait THEN 0
  ELSE Within(0, (Raw * (Decay - (now - lastShock.ts))) \div Decay, 100)

Direction == IF Fair = None \/ lastShock = None THEN "neutral" ELSE lastShock.direction

(***************************************************************************)
(* _side_activations: a sell shock activates the bids.                     *)
(***************************************************************************)
SideActivation(hit) ==
  IF Direction = "neutral" THEN 0
  ELSE IF Direction = hit THEN Activation ELSE (OppositeRatio * Activation) \div 100
==============================================================================
