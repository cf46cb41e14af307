---------------------------- MODULE MCQuoteToOrder ----------------------------
(***************************************************************************)
(* Instances of QuoteToOrder for TLC.                                      *)
(***************************************************************************)
EXTENDS QuoteToOrder, TLC

CONSTANTS q1, o1, o2, cheap, dear

\* 57.142857... and 14.2857... percent of margin.
SubtotalOf == (cheap :> 7) @@ (dear :> 7)
CostOf     == (cheap :> 3) @@ (dear :> 6)

\* Between the margin of "cheap" and its rounding, and exactly the rounding.
AroundTheMargin == {57142880, 57142900}

Create(l) == [type |-> "quote.create", quote |-> q1, lines |-> l]

Decision(v, s, d) ==
    [type |-> "quote.margin_approval.decide", quote |-> q1, expects |-> v,
     status |-> s, decision |-> d]

Convert(v, o) ==
    [type |-> "order.create_from_accepted_quote", quote |-> q1, expects |-> v, order |-> o]

Intend(v, l) ==
    [type |-> "fulfillment.intent.request", order |-> o1, expects |-> v, lines |-> l]

\* One quote with two economics versions, decided while it waits for approval
\* and after the customer took it, and two orders that want it.
OneQuote ==
    {Create(cheap),
     Decision(1, "approval_required", "approved"),
     Decision(1, "approval_required", "rejected"),
     Decision(2, "customer_accepted", "rejected"),
     Convert(1, o1), Convert(2, o1), Convert(1, o2),
     Intend(1, cheap), Intend(2, dear)}

OneOrder == {Create(cheap), Convert(1, o1)}

Interchangeable == Permutations(Handlers)
===============================================================================
