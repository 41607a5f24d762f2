-------------------------------- MODULE Pricing --------------------------------
(***************************************************************************)
(* pricing/index.ts: the bundled rates and PricingCatalog.estimate().      *)
(* Rates are thousandths of a dollar per million tokens, so that a price   *)
(* is a whole number of billionths of a dollar: the code's floating point  *)
(* is left out.  A usage is [input, output, cached, read, created].        *)
(***************************************************************************)
EXTENDS Integers, Collections

\* What a row may leave out: the fallbacks of estimate() apply.
NoRate == -1
Rates(input, output, read, cached, created) ==
    [input |-> input, output |-> output, cache_read |-> read, cached_input |-> cached, cache_creation |-> created]
Entry(row, created) == Rates(row[1], row[2], row[3], row[4], IF created = NoRate THEN row[1] ELSE created)
Fifth(n) == (5 * n) \div 4
Tenth(n) == n \div 10

OpenAIPricing ==
    [ model \in {"gpt-6-astra", "gpt-5.6-sol", "gpt-5.6-terra", "gpt-5.6-luna"} |->
        LET row == CASE model = "gpt-6-astra"   -> <<10000, 50000>>
                     [] model = "gpt-5.6-sol"   -> <<4000, 20000>>
                     [] model = "gpt-5.6-terra" -> <<2000, 12000>>
                     [] model = "gpt-5.6-luna"  -> <<200, 1200>>
        IN  Entry(<<row[1], row[2], Tenth(row[1]), Tenth(row[1])>>, Fifth(row[1])) ]
    ++ Single("gpt-5.5", Entry(<<5000, 30000, 500, 500>>, NoRate))
    ++ Single("gpt-5.4", Entry(<<2500, 15000, 250, 250>>, NoRate))
    ++ Single("gpt-5.4-mini", Entry(<<750, 4500, 75, 75>>, NoRate))

AnthropicRow(input, output, read) == Entry(<<input, output, read, NoRate>>, Fifth(input))
AliasPricing(models, input, output) == [model \in models |-> AnthropicRow(input, output, Tenth(input))]
AnthropicPricing ==
    Single("claude-fable-5-1", AnthropicRow(10000, 50000, 250))
    ++ Single("claude-fable-5", AnthropicRow(10000, 50000, 1000))
    ++ [model \in {"claude-opus-5", "claude-opus-4-8", "claude-opus-4-7", "claude-opus-4-6", "claude-opus-4-5"} |->
           AnthropicRow(5000, 25000, 500)]
    ++ Single("claude-sonnet-5", AnthropicRow(2000, 10000, 200))
    ++ Single("claude-sonnet-4-6", AnthropicRow(3000, 15000, 300))
    ++ AliasPricing({"claude-opus-4-1", "claude-opus-4-1-20250805", "claude-opus-4", "claude-opus-4-20250514"}, 15000, 75000)
    ++ AliasPricing({"claude-sonnet-4-5", "claude-sonnet-4-5-20250929", "claude-sonnet-4", "claude-sonnet-4-20250514"}, 3000, 15000)
    ++ AliasPricing({"claude-haiku-4-5", "claude-haiku-4-5-20251001"}, 1000, 5000)
    ++ AliasPricing({"claude-haiku-3-5", "claude-3-5-haiku-20241022"}, 800, 4000)

GooglePricing ==
    Single("gemini-3-flash-preview", Entry(<<500, 3000, 50, 50>>, NoRate))
    ++ Single("gemini-2.5-pro", Entry(<<1250, 10000, 125, 125>>, NoRate))
    ++ Single("gemini-2.5-flash", Entry(<<300, 2500, 30, 30>>, NoRate))
    ++ Single("gemini-2.5-flash-lite", Entry(<<100, 400, 10, 10>>, NoRate))

XAIPricing ==
    Single("grok-4.6", Entry(<<2000, 6000, 500, 500>>, NoRate))
    ++ [model \in {"grok-4.3", "grok-4-1-fast-reasoning", "grok-4-1-fast-non-reasoning"} |->
           Entry(<<1250, 2500, 200, 200>>, NoRate)]

Bundled == [openai |-> OpenAIPricing, anthropic |-> AnthropicPricing, google |-> GooglePricing, xai |-> XAIPricing]
\* The aliases of the bundled models that are asked for.
Aliases == Single("gpt-5.6", "gpt-5.6-sol")

\* PricingCatalog.get(): the model's own entry before that of what it is an alias of.
Canonical(provider, model) ==
    IF model \notin DOMAIN Bundled[provider] /\ model \in DOMAIN Aliases THEN Aliases[model] ELSE model
Priced(provider, model) == provider \in DOMAIN Bundled /\ Canonical(provider, model) \in DOMAIN Bundled[provider]
RatesOf(provider, model) == Bundled[provider][Canonical(provider, model)]

--------------------------------------------------------------------------
(* PricingCatalog.estimate().                                              *)

NotBelowZero(n) == IF n < 0 THEN 0 ELSE n
CachedRate(rates, rate) ==
    IF rate # NoRate THEN rate ELSE IF rates.cached_input # NoRate THEN rates.cached_input ELSE rates.input

\* A mutant: the cached tokens stay in the input as well.
ComponentsCachedTwice(rates, usage) ==
    [ input |-> usage.input * rates.input, output |-> usage.output * rates.output,
      cache_read |-> usage.read * CachedRate(rates, rates.cache_read),
      cache_creation |-> usage.created * CachedRate(rates, rates.cache_creation) ]

\* Cached tokens that are in neither split counter count as read.
Components(rates, usage) ==
    LET legacy == NotBelowZero(usage.cached - usage.read - usage.created)
    IN  [ input |-> NotBelowZero(usage.input - usage.cached) * rates.input,
          output |-> usage.output * rates.output,
          cache_read |-> (usage.read + legacy) * CachedRate(rates, rates.cache_read),
          cache_creation |-> usage.created * CachedRate(rates, rates.cache_creation) ]

\* The markup is in hundredths of a percent; the increment is a millionth of a dollar by default.
DefaultPolicy == [markup |-> 0, minimum |-> 0, increment |-> 1000]
Estimate(rates, usage, policy) ==
    LET parts    == Components(rates, usage)
        cost     == parts.input + parts.output + parts.cache_read + parts.cache_creation
        marked   == cost + (cost * policy.markup) \div 10000
        charged  == IF marked < policy.minimum THEN policy.minimum ELSE marked
    IN  [ cost |-> cost,
          user_billable |-> ((charged + policy.increment - 1) \div policy.increment) * policy.increment ]
=============================================================================
