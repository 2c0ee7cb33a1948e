------------------------------ MODULE MCNameClaim ------------------------------
(* An instance of NameClaim small enough for TLC, and what /sign/ shows of *)
(* requests, computed for short calls and small amounts.                   *)
EXTENDS NameClaim, Integers, Sequences

Review == INSTANCE SigningReview
            WITH XLM_FRACTION_DIGITS <- 2, MAX_LIMIT_XLM <- 3, Registry <- "registry"

Account == "account"
Scalars == {Review!string("account"), Review!string("token"), Review!string("transfer"),
            Review!js("number", 7), Review!js("bigint", 7)}
Vectors == {Review!js("array", v) : v \in (UNION {[1..n -> Scalars] : n \in 1..3})}
Objects == {Review!js("object", 0)}
ArgLists == {<<>>} \cup {<<a>> : a \in Scalars \cup Objects} \cup [1..2 -> Scalars]
              \cup {<<a, b, c>> : a, b \in Scalars, c \in Scalars \cup Vectors}
Functions == {"execute", "transfer", "register", "remove_context_rule", "add_context_rule"}
CallsTo(contract) == {Review!call(contract, fn, args) : fn \in Functions, args \in ArgLists}

(* What a call of the account does: execute passes on what it is given. *)
innermost(c) ==
  IF c.contract = Account /\ c.fn = "execute" /\ Len(c.args) = 3
     /\ c.args[2].js = "string" /\ c.args[3].js = "array"
  THEN Review!call(c.args[1].v, c.args[2].v, c.args[3].v) ELSE c

is_transfer(c) == c.fn = "transfer" /\ Len(c.args) = 3 /\ Review!integral(c.args[3])

(* A call of the account or of a token is shown as a transfer when and only
   when it is one, with the token, the parties and the amount it is of. *)
ASSUME TransfersAreShown ==
  \A c \in CallsTo(Account) \cup CallsTo("token") :
    LET shown == Review!describeInvokeContract(c)
        done == innermost(c)
    IN ~(c.contract = "token" /\ c.fn = "execute") =>
         /\ shown.kind = "transfer" <=> is_transfer(done)
         /\ shown.kind = "transfer" =>
              shown = [kind |-> "transfer", token |-> done.contract, from |-> done.args[1].v,
                       to |-> done.args[2].v, amount |-> done.args[3].v]

(* What the wallet builds from a request is shown as that request; but a grant,
   whose call has five arguments, is shown as a call. *)
ASSUME RequestsAreShown ==
  \A to \in {"account", "token"}, n \in 0..3 :
    LET shown(d) == Review!describeInvokeContract(Review!buildOperation(d, Account))
    IN /\ shown([type |-> "transfer", token |-> "token", to |-> to, amountRaw |-> n])
            = [kind |-> "transfer", token |-> "token", from |-> Account, to |-> to, amount |-> n]
       /\ shown([type |-> "register", name |-> to])
            = [kind |-> "name-register", contract |-> "registry", account |-> Account, name |-> to]
       /\ shown([type |-> "remove-context-rule", ruleId |-> n])
            = [kind |-> "session-revoke", contract |-> Account, ruleId |-> n]
       /\ shown([type |-> "add-context-rule", target |-> to, label |-> "", validUntil |-> n,
                 key |-> Review!string("key"), limit |-> 0]).kind = "invoke"

Amounts == 0..120 \cup 990..1110
Decimals == 0..3
Numerals == [neg: {FALSE}, whole: 0..4, frac: UNION {[1..n -> {0, 1, 9}] : n \in 0..3}]

(* An amount that is written out and read again is the same amount: the whole
   balance can be sent. *)
ASSUME RoundTrip ==
  \A raw \in Amounts, decimals \in Decimals :
    LET d == Review!rawToDecimal(raw, decimals)
    IN Review!accepted(d, decimals) /\ Review!decimalToRaw(d, decimals) = raw

(* What is entered is what is signed and what the review shows. *)
ASSUME EnteredIsReviewed ==
  \A d \in Numerals, decimals \in Decimals :
    Review!accepted(d, decimals) =>
      Review!amountText(Review!decimalToRaw(d, decimals), decimals)
        = Review!Shown(FALSE, [d EXCEPT !.frac = Review!stripped(d.frac)])

(* A shortened amount is never more than the amount, is off by less than its
   last place, and is zero for nothing but zero. *)
ASSUME ShortenedIsBelow ==
  \A raw \in Amounts, decimals \in Decimals : \A places \in 0..decimals :
    LET shown == Review!formatDecimal(Review!rawToDecimal(raw, decimals), places)
        value == Review!decimalToRaw(shown.numeral, decimals)
        unit == 10^(decimals - places)
    IN IF shown.below THEN 0 < raw /\ raw < value /\ value = unit
       ELSE value <= raw /\ raw < value + unit /\ (value = 0 => raw = 0)

(* A limit is positive, at most the highest, and shown as it was entered. *)
ASSUME LimitsAreShown ==
  \A d \in Numerals :
    Review!limit_accepted(d) =>
      /\ d.whole < 3 \/ (d.whole = 3 /\ Review!number(d.frac) = 0)
      /\ Review!stroopsToXlm(Review!xlmToStroops(d)) = [d EXCEPT !.frac = Review!stripped(d.frac)]
=============================================================================
