------------------------------- MODULE Pricing -------------------------------
(***************************************************************************)
(* The price of the model's tokens in credits:                             *)
(* crates/x402-payments/src/credits/pricing.rs with the PricingConfig of   *)
(* config.rs.  Tokens are counted in u32 and credits in u64, and a release *)
(* build wraps around; TokenWidth stands for 2^32.                         *)
(***************************************************************************)
EXTENDS CreditBalance

CONSTANTS PromptRate,      \* config prompt_credits_per_million
          CompletionRate,  \* config completion_credits_per_million
          MinimumCredits,  \* config minimum_credits_per_message
          Million,         \* tokens the rates are for
          TokenWidth       \* number of values of u32

ASSUME PricingAssumption ==
    /\ {PromptRate, CompletionRate, MinimumCredits} \subseteq Credits
    /\ Million \in Nat \ {0} /\ TokenWidth \in Nat \ {0}

Wrap32(n) == n % TokenWidth
Wrap64(n) == n % (MaxCredits + 1)

Tokens == 0 .. TokenWidth - 1
TokenUsage == [prompt_tokens : Tokens, completion_tokens : Tokens]
NoTokens == [prompt_tokens |-> 0, completion_tokens |-> 0]

\* The cost of some tokens, rounded down.
Cost(tokens, rate) == Wrap64(tokens * rate) \div Million

CalculateCredits(usage) ==
    LET total == Wrap64(Cost(usage.prompt_tokens, PromptRate)
                        + Cost(usage.completion_tokens, CompletionRate))
    IN  IF total > MinimumCredits THEN total ELSE MinimumCredits

\* Four bytes are taken for a token, and an answer for twice the question.
EstimateCredits(length) ==
    LET prompt == IF length \div 4 > 1 THEN Wrap32(length \div 4) ELSE 1
    IN  CalculateCredits([prompt_tokens     |-> prompt,
                          completion_tokens |-> Wrap32(prompt * 2)])

\* The tokens of a message's answers are added up before they are priced.
Accumulate(usage, more) ==
    [prompt_tokens     |-> Wrap32(usage.prompt_tokens + more.prompt_tokens),
     completion_tokens |-> Wrap32(usage.completion_tokens + more.completion_tokens)]

\* What tokens are worth, in fractions of a credit.
Worth(usage) == usage.prompt_tokens * PromptRate
                + usage.completion_tokens * CompletionRate
=============================================================================
