------------------------- MODULE MCCatalogProjection -------------------------
\* A walk of two variants that agrees with Shopify, one that misses a product,
\* one that lists a product twice, and one after a product was archived.
EXTENDS CatalogProjection, TLC

CONSTANTS h1, h2, l1, k1, k2, lamp, chair

ProductOf(r, live) ==
    [id |-> r, active |-> live, version |-> 0, variants |-> << [id |-> r, sku |-> None] >>]

Walk(products, counted, exact) ==
    [products |-> products, counted |-> [products |-> counted, variants |-> counted],
     precise |-> exact]

Lamp     == ProductOf(lamp, TRUE)
Archived == ProductOf(lamp, FALSE)
Bare     == [ProductOf(chair, TRUE) EXCEPT !.variants = <<>>]

MCCommands ==
    {Walk(<<Lamp, Bare>>, 2, TRUE), Walk(<<Lamp>>, 2, TRUE),
     Walk(<<Lamp, Lamp>>, 2, TRUE), Walk(<<Archived>>, 1, TRUE)}

MCRecordable ==
    {[refs |-> {lamp}, state |-> s, current |-> TRUE] : s \in {"accepted", "rejected"}}

Interchangeable == Permutations({h1, h2}) \cup Permutations({k1, k2})
===============================================================================
