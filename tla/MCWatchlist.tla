---------------------------- MODULE MCWatchlist -----------------------------
(***************************************************************************)
(* A small instance of Watchlist for TLC: one site of each kind the parsers *)
(* tell apart, and an address of each kind that detection does.            *)
(***************************************************************************)
EXTENDS Watchlist

CONSTANTS vendors, max_price, p, q

Page(host, place, name) ==
    [host |-> host, place |-> place, localized |-> FALSE, name |-> name, facets |-> {}]

Localized(page) == [page EXCEPT !.localized = TRUE]

Pasted ==
    {Page("store", "product", p), Page("store", "product", q), Page("store", "grid", p),
     [Page("store", "grid", p) EXCEPT !.facets = {vendors}],
     Page("store", "grid_feed", p), Page("target", "path", p), Page("bestbuy", "path", p),
     Page("target", "path", NoName), Localized(Page("store", "grid", p)),
     Localized(Page("store", "front", NoName))}
    \cup {Page("store", place, NoName) :
            place \in {"feed", "results", "suggest", "front", "path"}}

\* The keywords of the dashboard's announcements are p here.
Asked ==
    {[kind |-> "collection", ref |-> p], [kind |-> "product", ref |-> Unsaid],
     [kind |-> Unsaid, ref |-> q], [kind |-> Unsaid, ref |-> NoName]}

Closed == [item |-> "refused", listing |-> "refused", atom |-> "html", page |-> "html",
           api |-> "refused"]

Storefront == [Closed EXCEPT !.item = "variants", !.listing = "products", !.atom = "feed",
                             !.page = "product"]

Sampled ==
    {Closed, Storefront,
     [Storefront EXCEPT !.listing = "html"],
     [Storefront EXCEPT !.listing = "json", !.item = "json"],
     [Storefront EXCEPT !.listing = "slow_down", !.page = "slow_down", !.api = "slow_down"],
     [Closed EXCEPT !.item = "html", !.listing = "html", !.api = "html"],
     [Closed EXCEPT !.atom = "xhtml", !.page = "xhtml"],
     [Closed EXCEPT !.atom = "torn", !.page = "torn"],
     [Closed EXCEPT !.atom = "wrapped", !.page = "wrapped"],
     [Closed EXCEPT !.atom = "rss", !.page = "rss"]}
    \cup {[Storefront EXCEPT !.page = page] : page \in {"feed", "hits", "json"}}
    \cup {[Closed EXCEPT !.page = page] :
            page \in {"product", "cards", "declared", "feed", "hits"}}
    \cup {[Closed EXCEPT !.api = api] : api \in {"variants", "json"}}
=============================================================================
