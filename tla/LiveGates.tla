------------------------------ MODULE LiveGates ------------------------------
(***************************************************************************)
(* execution/live_gates.py and exchange/bitbank_rules.py, validate_order:  *)
(* the gates an order would have to pass to be sent to the exchange.       *)
(* process() asks them for every virtual order it places and records the   *)
(* answer; none is ever sent.  The pair's unit_amount and amount step are  *)
(* the MinOrderSize and LotSize of the quotes; a price of whole ticks is   *)
(* an integer.                                                             *)
(***************************************************************************)
EXTENDS QuoteSurface, FiniteSetsExt

CONSTANTS
  OpenGates,          (* the settings and environment variables that permit *)
  LimitMaxAmount      (* the pair's limit_max_amount                         *)

ConfigGates == {"mode", "venue", "enabled", "environment", "keys", "post_only",
                "managed", "no_withdrawal", "quality", "pair"}

ASSUME LiveGatesAssumption ==
  /\ OpenGates \subseteq ConfigGates
  /\ LimitMaxAmount \in Nat

(***************************************************************************)
(* A limit order that reaches the opposite best price would not rest.      *)
(***************************************************************************)
WouldCross(side, price, v) ==
  IF side = "buy" THEN IF v.ask = None THEN FALSE ELSE price >= v.ask
                  ELSE IF v.bid = None THEN FALSE ELSE price <= v.bid

(***************************************************************************)
(* evaluate_live_order_gates: the gates in the code's order, each with the *)
(* reason it gives.  The result is the reason of the first closed one; the *)
(* pipeline puts its own in place of a permission.  The pipeline's intents *)
(* are post-only limit orders and its clock drift is 0.                    *)
(***************************************************************************)
Gates(side, order, v, spec, status, allowed) ==
  << <<"execution_mode_not_live",   "mode" \in OpenGates>>,
     <<"venue_not_bitbank",         "venue" \in OpenGates>>,
     <<"enable_live_orders_false",  "enabled" \in OpenGates>>,
     <<"live_env_var_missing",      "environment" \in OpenGates>>,
     <<"api_key_or_secret_missing", "keys" \in OpenGates>>,
     <<"pair_metadata_unfetched",   "fetched" \in spec>>,
     <<"bitbank_status_not_normal", status = "normal">>,
     <<"post_only_only_false",      "post_only" \in OpenGates>>,
     <<"unmanaged_open_orders",     "managed" \in OpenGates>>,
     <<"withdrawal_unconfirmed",    "no_withdrawal" \in OpenGates>>,
     <<"quality_gate_not_passed",   "quality" \in OpenGates>>,
     <<"mvp_pair_must_be_btc_jpy",  "pair" \in OpenGates>>,
     <<"pair_disabled",             "disabled" \notin spec>>,
     <<"pair_order_stopped",        "stop" \notin spec>>,
     <<"side_stopped",              side = "buy" => "stop_buy" \notin spec>>,
     <<"side_stopped",              side = "sell" => "stop_sell" \notin spec>>,
     <<"risk_kernel_blocked",       side \in allowed>>,
     <<"would_cross",               ~WouldCross(side, order.price, v)>>,
     <<"amount_below_unit_amount",  order.size >= MinOrderSize>>,
     <<"amount_above_limit_max",    order.size <= LimitMaxAmount>>,
     <<"amount_precision_invalid",  order.size % LotSize = 0>>,
     <<"price_precision_invalid",   order.price \in Int>> >>

Closed(gates) == {n \in DOMAIN gates : ~gates[n][2]}
GateReason(side, order, v, spec, status, allowed) ==
  LET gates == Gates(side, order, v, spec, status, allowed)
  IN  IF Closed(gates) = {} THEN "mvp_live_submission_disabled" ELSE gates[Min(Closed(gates))][1]
==============================================================================
