----------------------------- MODULE SigningReview -----------------------------
(***************************************************************************)
(* What a user is shown of a transaction before signing it, and what the   *)
(* wallet builds from what the user asked for: operations from descriptors *)
(* (operationBuilders.ts, buildSend.ts), summaries from operations         *)
(* (txSummary.ts), and amounts as numerals (money.ts).                     *)
(*                                                                         *)
(* Data.  A call is [contract, fn, args].  An argument is what             *)
(* scValToNative makes of it: addresses, strings and symbols are "string", *)
(* a u32 is a "number", an i128 a "bigint", a vector or a variant an       *)
(* "array", a map an "object".  A numeral is a whole part and its digits   *)
(* after the point.                                                        *)
(***************************************************************************)
EXTENDS Integers, Sequences

CONSTANTS
  XLM_FRACTION_DIGITS,
  MAX_LIMIT_XLM,  \* the highest spending limit
  Registry        \* the name-registry

js(type, v) == [js |-> type, v |-> v]
string(v) == js("string", v)

call(contract, fn, args) == [contract |-> contract, fn |-> fn, args |-> args]

-----------------------------------------------------------------------------
(* What the wallet builds.                                                 *)

buildSendOperation(account, token, to, amount) ==
  call(account, "execute",
       <<string(token), string("transfer"),
         js("array", <<string(account), string(to), js("bigint", amount)>>)>>)

(* The arguments of add_context_rule: the type, the name, the expiry, the
   signers and the policies. *)
add_context_rule(d, account) ==
  call(account, "add_context_rule",
       <<js("array", <<string("CallContract"), string(d.target)>>), string(d.label),
         js("number", d.validUntil), js("array", <<d.key>>), js("object", d.limit)>>)

buildOperation(d, account) ==
  CASE d.type = "register" -> call(Registry, "register", <<string(account), string(d.name)>>)
    [] d.type = "transfer" -> buildSendOperation(account, d.token, d.to, d.amountRaw)
    [] d.type = "add-context-rule" -> add_context_rule(d, account)
    [] d.type = "remove-context-rule" ->
         call(account, "remove_context_rule", <<js("number", d.ruleId)>>)

-----------------------------------------------------------------------------
(* What is shown of a call.                                                *)

invoke(c) == [kind |-> "invoke", contract |-> c.contract, fn |-> c.fn, argsCount |-> Len(c.args)]

(* BigInt() takes a number and a bigint, and throws on the rest. *)
integral(a) == a.js \in {"number", "bigint"}

transfer_summary(token, args) ==
  [kind |-> "transfer", token |-> token, from |-> args[1].v, to |-> args[2].v, amount |-> args[3].v]

wrapped_transfer(c) ==
  /\ c.fn = "execute" /\ Len(c.args) = 3
  /\ c.args[2].js = "string" /\ c.args[2].v = "transfer"
  /\ c.args[3].js = "array" /\ Len(c.args[3].v) = 3 /\ integral(c.args[3].v[3])

bare_transfer(c) == c.fn = "transfer" /\ Len(c.args) = 3 /\ integral(c.args[3])

name_register(c) ==
  c.fn = "register" /\ Len(c.args) = 2 /\ c.args[1].js = "string" /\ c.args[2].js = "string"

session_revoke(c) ==
  c.fn = "remove_context_rule" /\ Len(c.args) = 1 /\ c.args[1].js = "number"

(* A grant is looked for in one argument, a map. *)
session_grant(c) == c.fn = "add_context_rule" /\ Len(c.args) = 1 /\ c.args[1].js = "object"

describeInvokeContract(c) ==
  CASE wrapped_transfer(c) -> transfer_summary(c.args[1].v, c.args[3].v)
    [] bare_transfer(c)    -> transfer_summary(c.contract, c.args)
    [] name_register(c)    -> [kind |-> "name-register", contract |-> c.contract,
                               account |-> c.args[1].v, name |-> c.args[2].v]
    [] session_revoke(c)   -> [kind |-> "session-revoke", contract |-> c.contract,
                               ruleId |-> c.args[1].v]
    [] session_grant(c)    -> [kind |-> "session-grant", contract |-> c.contract]
    [] OTHER               -> invoke(c)

(* Operations that are no contract calls are shown by their type. *)
describeHostFunction(f) ==
  IF f.type = "invokeContract" THEN describeInvokeContract(f.call)
  ELSE [kind |-> "other", type |-> f.type]

describeTransaction(ops) == [i \in DOMAIN ops |-> describeHostFunction(ops[i])]

-----------------------------------------------------------------------------
(* Amounts.                                                                *)

digits(n, width) == [i \in 1..width |-> (n \div 10^(width - i)) % 10]

number(frac) ==
  LET value[i \in 0..Len(frac)] == IF i = 0 THEN 0 ELSE 10 * value[i - 1] + frac[i]
  IN value[Len(frac)]

(* Without the zeros at its end. *)
stripped(frac) ==
  SubSeq(frac, 1, CHOOSE n \in 0..Len(frac) :
                    /\ n = 0 \/ frac[n] # 0
                    /\ \A i \in (n + 1)..Len(frac) : frac[i] = 0)

numeral(neg, whole, frac) == [neg |-> neg, whole |-> whole, frac |-> frac]

rawToDecimal(raw, decimals) ==
  LET abs == IF raw < 0 THEN -raw ELSE raw
  IN numeral(raw < 0, abs \div 10^decimals, stripped(digits(abs % 10^decimals, decimals)))

stroopsToXlm(stroops) == rawToDecimal(stroops, XLM_FRACTION_DIGITS)

Shown(below, d) == [below |-> below, numeral |-> d]

(* An amount that would be shown as zero is shown as less than the least that
   can be shown, its sign left out. *)
formatDecimal(d, maxFractionDigits) ==
  LET places == IF Len(d.frac) < maxFractionDigits THEN Len(d.frac) ELSE maxFractionDigits
      frac == stripped(SubSeq(d.frac, 1, places))
      dust == d.whole = 0 /\ frac = <<>> /\ \E i \in DOMAIN d.frac : d.frac[i] # 0
  IN CASE ~dust -> Shown(FALSE, numeral(d.neg, d.whole, frac))
       [] dust /\ maxFractionDigits > 0 -> Shown(TRUE, numeral(FALSE, 0, digits(1, maxFractionDigits)))
       [] dust /\ maxFractionDigits = 0 -> Shown(TRUE, numeral(FALSE, 1, <<>>))

(* What the review of a transfer says of an amount whose decimals are known. *)
amountText(raw, decimals) == formatDecimal(rawToDecimal(raw, decimals), decimals)

(* What the amount field takes. *)
accepted(d, decimals) == ~d.neg /\ Len(d.frac) <= decimals

padEnd(frac, width) == [i \in 1..width |-> IF i <= Len(frac) THEN frac[i] ELSE 0]

decimalToRaw(d, decimals) == d.whole * 10^decimals + number(padEnd(d.frac, decimals))

xlmToStroops(d) == decimalToRaw(d, XLM_FRACTION_DIGITS)

limit_accepted(d) ==
  /\ accepted(d, XLM_FRACTION_DIGITS)
  /\ xlmToStroops(d) > 0
  /\ xlmToStroops(d) <= MAX_LIMIT_XLM * 10^XLM_FRACTION_DIGITS
=============================================================================
