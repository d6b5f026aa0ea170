------------------------------ MODULE Readings ------------------------------
(***************************************************************************)
(* What the five strategies make of an address: detect, which decides what *)
(* kind of watch it becomes, and check, which reads it from then on        *)
(* (monitor/strategies).                                                   *)
(*                                                                         *)
(* A page is an address in the words detection reads it by: whose host it  *)
(* is, what its path is the path of, the product or collection it names,   *)
(* and the search its facets express.  A site is what the host answers at  *)
(* each endpoint, abstracted to what the parsers tell apart.               *)
(***************************************************************************)
EXTENDS Sequences

CONSTANTS
    Names,       \* products and collections an address may name
    NoName,
    SearchKeys,  \* SEARCH_KEYS: the settings that say what to watch for
    HasKey       \* whether BESTBUY_API_KEY is set

ASSUME ReadingsAssumption == NoName \notin Names /\ HasKey \in BOOLEAN

Strategies == {"shopify", "target", "bestbuy", "announce", "retail"}

\* "results" is /search?q=term; "suggest" is /search/suggest.json?q=term;
\* "path" is any path that detection has no word for.
Places == {"product", "grid", "grid_feed", "feed", "results", "suggest", "front", "path"}

\* localized: the path has a segment of its own before the place, /en-us/... .
Pages == [host : {"store", "target", "bestbuy"}, place : Places, localized : BOOLEAN,
          name : Names \cup {NoName}, facets : SUBSET SearchKeys]

\* The first two are no 200.  A page made for people, a challenge or a cookie
\* wall, may or may not be well-formed XML ("html", "xhtml"), and either may
\* mention a <feed ("torn", a feed cut short among them, and "wrapped").
\* "feed" is Atom, "rss" the other kind of feed.
Bodies == {"refused", "slow_down", "html", "xhtml", "torn", "wrapped", "feed", "rss",
           "json", "variants", "products", "hits", "product", "cards", "declared"}

Sites == [item    : Bodies,  \* /products/<handle>.js
          listing : Bodies,  \* products.json
          atom    : Bodies,  \* collections/<name>.atom
          page    : Bodies,  \* the address itself
          api     : Bodies]  \* RedSky, or the Best Buy API

Answered(body) == body \notin {"refused", "slow_down"}

IsJson(body) == body \in {"json", "variants", "products", "hits"}

\* A schema.org Product: the page's own, or the first of a grid of cards.
FindProduct(body) == body \in {"product", "cards", "declared"}

DeclaresItselfAListing(body) == body = "declared"

\* The substring "<feed", which is what detection looks for.
MentionsFeed(body) == body \in {"torn", "wrapped", "feed"}

\* Any well-formed document, which is what the Atom fallback needs.
ParsesAsXml(body) == body \in {"xhtml", "wrapped", "feed", "rss"}

\* Its root says that it is a feed, which is what announce asks.
ParseFeed(body) == body \in {"feed", "rss"}

\* A list of products is read as search results, whichever endpoint gave it.
SearchHits(body) == body \in {"hits", "products"}

\* A grid of products, whoever says so and however deep its path begins.
IsAGrid(page) == page.place \in {"grid", "grid_feed", "results", "suggest", "front"}

\* Only the first segment of the path is looked at: not behind a locale.
LooksLikeAListing(page) == IsAGrid(page) /\ ~page.localized

SearchQuery(page) == page.place = "results"

-----------------------------------------------------------------------------
(* detect: the watch a strategy would make of the address, or nothing *)

Nothing == [strategy |-> "none", kind |-> "none", ref |-> NoName]

Found(strategy, kind, ref) == [strategy |-> strategy, kind |-> kind, ref |-> ref]

\* Told by the address alone: no request is made.
TargetDetect(page) ==
    IF page.host = "target" /\ page.name # NoName
    THEN Found("target", "product", page.name) ELSE Nothing

BestBuyDetect(page) ==
    IF page.host = "bestbuy" /\ page.name # NoName
    THEN Found("bestbuy", "product", page.name) ELSE Nothing

\* Feeds and search endpoints only; a collection's own feed is Shopify's.
AnnounceDetect(page, site) ==
    IF /\ page.place \in {"feed", "results", "suggest"}
       /\ SearchHits(site.page) \/ ParseFeed(site.page)
    THEN Found("announce", "collection", NoName) ELSE Nothing

\* Mutation: any well-formed page at the feed's address is taken for the feed.
ShopifyDetect_AnyXml(page, site) ==
    IF page.place = "product"
    THEN IF site.item = "variants" THEN Found("shopify", "product", page.name) ELSE Nothing
    ELSE IF site.listing = "products" \/ ParsesAsXml(site.atom)
    THEN Found("shopify", "collection",
               IF page.place \in {"grid", "grid_feed"} THEN page.name ELSE NoName)
    ELSE Nothing

\* A product, or else a catalogue: the named collection or the whole store,
\* wherever in the path either is named.
ShopifyDetect(page, site) ==
    IF page.place = "product"
    THEN IF site.item = "variants" THEN Found("shopify", "product", page.name) ELSE Nothing
    ELSE IF site.listing = "products" \/ MentionsFeed(site.atom)
    THEN Found("shopify", "collection",
               IF page.place \in {"grid", "grid_feed"} THEN page.name ELSE NoName)
    ELSE Nothing

\* A grid is refused by the head of its address before, and by its own word
\* after the request: the first Product on it is not what the address is about.
RetailDetect(page, site) ==
    IF /\ ~LooksLikeAListing(page)
       /\ FindProduct(site.page)
       /\ ~DeclaresItselfAListing(site.page)
    THEN Found("retail", "product", NoName) ELSE Nothing

\* Mutation: structured data first, since nearly every page carries it.
DetectOrder_RetailFirst == <<"target", "bestbuy", "announce", "retail", "shopify">>

\* Retail is last: a Shopify product page carries a schema.org Product too.
DetectOrder == <<"target", "bestbuy", "announce", "shopify", "retail">>

Detect(strategy, page, site) ==
    CASE strategy = "target"   -> TargetDetect(page)
      [] strategy = "bestbuy"  -> BestBuyDetect(page)
      [] strategy = "announce" -> AnnounceDetect(page, site)
      [] strategy = "shopify"  -> ShopifyDetect(page, site)
      [] strategy = "retail"   -> RetailDetect(page, site)

-----------------------------------------------------------------------------
(* check: what is read off the site.  "failed" and "slowed" decide nothing  *)
(* about stock; "shown" is a state the body states; "blank" is a state, out *)
(* of stock or an empty listing, read out of a body that shows neither.     *)

Readings == {"shown", "blank", "failed", "slowed"}

Unanswered(body) == IF body = "slow_down" THEN "slowed" ELSE "failed"

\* A rate limit from RedSky or the Best Buy API is an error like any other.
TargetCheck(named, site) ==
    IF ~named \/ ~IsJson(site.api) THEN "failed"
    ELSE IF site.api = "variants" THEN "shown" ELSE "blank"

BestBuyCheck(named, site) ==
    IF HasKey /\ named /\ site.api = "variants" THEN "shown" ELSE "failed"

ShopifyProductCheck(named, site) ==
    IF ~named THEN "failed"
    ELSE IF ~IsJson(site.item) THEN Unanswered(site.item)
    ELSE IF site.item = "variants" THEN "shown" ELSE "blank"

\* A gated products.json leaves the feed; a rate limit does not.  A document
\* without Atom entries is a store without products.
ShopifyListingCheck(site) ==
    IF site.listing = "slow_down" THEN "slowed"
    ELSE IF IsJson(site.listing)
    THEN IF site.listing = "products" THEN "shown" ELSE "blank"
    ELSE IF ~ParsesAsXml(site.atom) THEN "failed"
    ELSE IF site.atom = "feed" THEN "shown" ELSE "blank"

AnnounceCheck(site) ==
    IF ~Answered(site.page) THEN Unanswered(site.page)
    ELSE IF IsJson(site.page) THEN IF SearchHits(site.page) THEN "shown" ELSE "blank"
    ELSE IF ParseFeed(site.page) THEN "shown" ELSE "failed"

\* Mutation: a page with no product on it is sold out.
RetailCheck_SoldOut(site) ==
    IF ~Answered(site.page) THEN Unanswered(site.page)
    ELSE IF FindProduct(site.page) THEN "shown" ELSE "blank"

RetailCheck(site) ==
    IF ~Answered(site.page) THEN Unanswered(site.page)
    ELSE IF FindProduct(site.page) THEN "shown" ELSE "failed"

\* The watch is read by its target_ref, or by its url when it has none.
Reading(watch, site) ==
    LET named == watch.ref # NoName \/ watch.page.name # NoName
    IN  CASE watch.strategy = "target"   -> TargetCheck(named, site)
          [] watch.strategy = "bestbuy"  -> BestBuyCheck(named, site)
          [] watch.strategy = "announce" -> AnnounceCheck(site)
          [] watch.strategy = "retail"   -> RetailCheck(site)
          [] watch.strategy = "shopify"  ->
                IF watch.kind = "collection" THEN ShopifyListingCheck(site)
                ELSE ShopifyProductCheck(watch.ref # NoName \/ watch.page.place = "product",
                                         site)
=============================================================================
