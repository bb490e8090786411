---------------------------- MODULE CostService ----------------------------
(***************************************************************************)
(* CostService of services/cost_service.py with PricingRepository: the     *)
(* rows of one model's price list in Postgres, and the cached price, or    *)
(* the cached absence of one, in Redis.                                    *)
(*                                                                         *)
(* A price is one value for the pair of input and output prices.  No code  *)
(* writes effective_to, so a row is effective from its instant on.         *)
(***************************************************************************)
EXTENDS Integers, ApiBase

CONSTANTS
    Prices,
    NoPrice,
    MaxDay          \* bound: the last instant

ASSUME CostAssumption ==
    /\ NoPrice \notin Prices
    /\ "none" \notin Prices \union {NoPrice}
    /\ MaxDay \in Nat

VARIABLES
    day,        \* the clock, as far as effective_from can tell
    tariff,     \* the rows of model_pricing: [from, price]
    priceCache, \* the entry in Redis: a price, NoPrice (the sentinel), or "none"
    quote,      \* quote[r] : where calculate_cost_usd of request r stands
    blamed,     \* history: an absent price was cached although one was effective
    effective,  \* history: every price that has been effective
    unpriced    \* history: at some instant no price was effective

costHistory == <<blamed, effective, unpriced>>
costVars == <<day, tariff, priceCache, quote, costHistory>>

NotQuoted == [pc |-> "idle", price |-> NoPrice]

CostTypeOK ==
    /\ day \in 0..MaxDay
    /\ tariff \subseteq [from : 0..MaxDay, price : Prices]
    /\ priceCache \in Prices \union {NoPrice, "none"}
    /\ quote \in [Requests -> [pc : {"idle", "looking", "loading", "storing", "done"},
                               price : Prices \union {NoPrice}]]
    /\ blamed \in BOOLEAN
    /\ effective \subseteq Prices
    /\ unpriced \in BOOLEAN

\* get_active_price: of the rows already effective those with the latest start.
ActivePrices(rows, at) ==
    LET due == {row \in rows : row.from <= at}
    IN  {row.price : row \in {x \in due : \A y \in due : y.from <= x.from}}

CostInit ==
    /\ day \in 0..MaxDay
    /\ tariff \in SUBSET [from : 0..MaxDay, price : Prices]
    /\ priceCache = "none"
    /\ quote = [r \in Requests |-> NotQuoted]
    /\ blamed = FALSE
    /\ effective = ActivePrices(tariff, day)
    /\ unpriced = (effective = {})

Quoting(r, from, to, price) ==
    /\ quote[r].pc = from
    /\ quote' = [quote EXCEPT ![r] = [pc |-> to, price |-> price]]

-----------------------------------------------------------------------------
StartQuote(r) ==
    /\ Quoting(r, "idle", "looking", NoPrice)
    /\ UNCHANGED <<day, tariff, priceCache, costHistory>>

GetCachedPrice(r) ==
    /\ \/ priceCache # "none" /\ Quoting(r, "looking", "done", priceCache)
       \/ (priceCache = "none" \/ StoresMayFail) /\ Quoting(r, "looking", "loading", NoPrice)
    /\ UNCHANGED <<day, tariff, priceCache, costHistory>>

\* Mutant of LoadPrice: ordered by effective_from, but ascending.
LoadOldestPrice(r) ==
    LET due    == {row \in tariff : row.from <= day}
        oldest == {row.price : row \in {x \in due : \A y \in due : x.from <= y.from}}
    IN  /\ \E price \in IF due = {} THEN {NoPrice} ELSE oldest :
              Quoting(r, "loading", "storing", price)
        /\ UNCHANGED <<day, tariff, priceCache, costHistory>>

\* An error of the database and an empty result are the same to the caller.
LoadPrice(r) ==
    LET active == ActivePrices(tariff, day) IN
    /\ \/ \E price \in IF active = {} THEN {NoPrice} ELSE active :
             Quoting(r, "loading", "storing", price) /\ UNCHANGED blamed
       \/ /\ StoresMayFail
          /\ Quoting(r, "loading", "storing", NoPrice)
          /\ blamed' = (blamed \/ active # {})
    /\ UNCHANGED <<day, tariff, priceCache, effective, unpriced>>

\* Mutants of StorePrice: the sentinel is written whatever was found; a missing
\* price is written as it is.
StoreSentinel(r) ==
    /\ Quoting(r, "storing", "done", quote[r].price)
    /\ priceCache' = NoPrice
    /\ UNCHANGED <<day, tariff, costHistory>>

StoreUnencoded(r) ==
    /\ Quoting(r, "storing", "done", quote[r].price)
    /\ priceCache' = IF quote[r].price = NoPrice THEN "null" ELSE quote[r].price
    /\ UNCHANGED <<day, tariff, costHistory>>

StorePrice(r) ==
    /\ Quoting(r, "storing", "done", quote[r].price)
    /\ \/ priceCache' = quote[r].price
       \/ StoresMayFail /\ UNCHANGED priceCache
    /\ UNCHANGED <<day, tariff, costHistory>>

LeaveQuote(r) ==
    /\ Quoting(r, "done", "idle", NoPrice)
    /\ UNCHANGED <<day, tariff, priceCache, costHistory>>

-----------------------------------------------------------------------------
Record(rows, at) ==
    /\ effective' = effective \union ActivePrices(rows, at)
    /\ unpriced' = (unpriced \/ ActivePrices(rows, at) = {})

\* The admin endpoint: a row is added, earlier rows are not closed and nothing
\* is said to the cache.
CreatePricing(from, price) ==
    /\ tariff' = tariff \union {[from |-> from, price |-> price]}
    /\ Record(tariff', day)
    /\ UNCHANGED <<day, priceCache, quote, blamed>>

NextDay ==
    /\ day < MaxDay
    /\ day' = day + 1
    /\ Record(tariff, day')
    /\ UNCHANGED <<tariff, priceCache, quote, blamed>>

ExpirePrice ==
    /\ priceCache # "none"
    /\ priceCache' = "none"
    /\ UNCHANGED <<day, tariff, quote, costHistory>>

QuoteStep(r) == GetCachedPrice(r) \/ LoadPrice(r) \/ StorePrice(r)

CostNext ==
    \/ \E r \in Requests : StartQuote(r) \/ QuoteStep(r) \/ LeaveQuote(r)
    \/ \E from \in 0..MaxDay, price \in Prices : CreatePricing(from, price)
    \/ NextDay
    \/ ExpirePrice

CostSpec == CostInit /\ [][CostNext]_costVars

-----------------------------------------------------------------------------
(* Properties *)

\* A quote is a price that has been effective, and is nothing only if at some
\* instant none was or a database error was taken for that and perhaps cached
\* (cost_service.py:51-66, :71-82).
FreeOnlyForAReason ==
    \A r \in Requests :
        quote[r].pc = "done" =>
            IF quote[r].price = NoPrice THEN unpriced \/ blamed
            ELSE quote[r].price \in effective

\* Prices change without a word to the cache (admin.py:172-185); when they no
\* longer do, quotes come to be at an effective price, or at none by an error:
\* old copies in flight and the entry's TTL run out.
PriceChangeArrives ==
    <>[](\A r \in Requests : quote[r].pc = "done" =>
            quote[r].price \in ActivePrices(tariff, day) \union {NoPrice})
=============================================================================
