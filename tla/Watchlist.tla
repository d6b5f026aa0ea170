----------------------------- MODULE Watchlist ------------------------------
(***************************************************************************)
(* How a watch comes to be and what it is told to look for: an address is  *)
(* pasted into the chat or the dashboard, a share link is followed to the  *)
(* page it opens, the strategies are asked in turn what they make of it,   *)
(* and a row is written; from then on /filter, /star and PATCH change the  *)
(* settings that share the row's filter_json column.                       *)
(*                                                                         *)
(* Two requests never touch the same row before they have written it, so   *)
(* one address is followed at a time.                                      *)
(***************************************************************************)
EXTENDS Readings, Naturals

CONSTANTS
    StarKeys,    \* the gates a star is earned by
    MaxHops,     \* SHARE_MAX_HOPS
    NoWatch,
    Unsaid,      \* a field the request does not bring
    Addresses,   \* bound: the pages that are pasted and linked to
    Worlds,      \* bound: the sites behind them
    Wishes,      \* bound: what the body of POST /watches says of the watch itself
    Overtaking   \* whether PATCH may replace filter_json while a command runs

\* /add and POST /watches make a watch; /check and POST /detect only look.
Doors == {"add", "create", "check", "detect"}

\* What an address is to the resolver: a service of SHARE_HOSTS, Google's
\* share.google hop, its /url wrapper, its results, anything that is not
\* https, or a page.
Links == {"share", "hop", "wrapper", "google", "insecure", "page"}

Unpinned == "none"

Settings == SearchKeys \cup StarKeys

\* The kind and the target_ref a body may bring along, either, both or none.
Own == [kind : {"product", "collection", Unsaid}, ref : Names \cup {NoName, Unsaid}]

Requests == [at    : {"idle", "following", "sniffing"},
             door  : Doors,
             pin   : Strategies \cup {Unpinned},
             given : SUBSET SearchKeys,    \* filter_json in the body
             wish  : Own,
             link  : Links,
             page  : Pages,
             left  : 0..(MaxHops + 1),     \* iterations of the resolver's loop
             next  : DOMAIN DetectOrder]

Rows == [strategy : Strategies, kind : {"product", "collection"},
         ref : Names \cup {NoName}, page : Pages, filter : SUBSET Settings]

\* saw: filter_json as the command read it.
Commands == [at : {"idle", "read"}, set : {"search", "star", "star_off"},
             keys : SUBSET Settings, saw : SUBSET Settings]

ASSUME WatchlistAssumption ==
    /\ MaxHops \in Nat
    /\ StarKeys \cap SearchKeys = {}
    /\ NoWatch \notin Rows
    /\ Unsaid \notin {"product", "collection", NoName} \cup Names
    /\ Addresses \subseteq Pages /\ Worlds \subseteq Sites /\ Wishes \subseteq Own
    /\ Overtaking \in BOOLEAN
    \* Target and Best Buy have a page of its own for each product they name.
    /\ \A page \in Addresses : page.host # "store" /\ page.name # NoName => page.place = "path"

\* The site as it was when the strategies were first asked, when one of them
\* said yes, or another one, another address, or not what they found.
Since == {"asked", "found", "moved"}

VARIABLES
    site,    \* what the host answers now
    request, \* the address being looked at
    row,     \* the watch, once there is one
    command, \* the chat command between its read of the row and its write
    hops,    \* history: the steps a share link has led on
    fresh,   \* history: since when nothing has changed under detection's verdict
    meant    \* history: what was last said, each question on its own

vars == <<site, request, row, command, hops, fresh, meant>>

TypeOK ==
    /\ site \in Worlds
    /\ request \in Requests
    /\ row \in Rows \cup {NoWatch}
    /\ command \in Commands
    /\ hops \in 0..(MaxHops + 1)
    /\ fresh \in Since
    /\ meant \in [search : SUBSET SearchKeys, star : SUBSET StarKeys]

\* A page of a site that detection has no word for.
SomePage == [host |-> "store", place |-> "path", localized |-> FALSE, name |-> NoName,
             facets |-> {}]

NoWish == [kind |-> Unsaid, ref |-> Unsaid]

Idle == [at |-> "idle", door |-> "check", pin |-> Unpinned, given |-> {}, wish |-> NoWish,
         link |-> "page", page |-> SomePage, left |-> 0, next |-> 1]

Quiet == [at |-> "idle", set |-> "search", keys |-> {}, saw |-> {}]

Init ==
    /\ site \in Worlds
    /\ request = Idle
    /\ row = NoWatch
    /\ command = Quiet
    /\ hops = 0
    /\ fresh = "moved"
    /\ meant = [search |-> {}, star |-> {}]

-----------------------------------------------------------------------------
(* The address: follow it, weigh it *)

Ends == request' = Idle /\ hops' = 0

\* Mutation: the address is weighed as it was pasted, before the link opens.
Weigh_Unopened(r) ==
    IF SearchQuery(r.page) /\ r.door # "detect" /\ r.left = 0 THEN Idle
    ELSE [r EXCEPT !.at = "sniffing", !.left = 0, !.link = "page"]

\* A page of search results is refused, except by POST /detect.
Weigh(r) ==
    IF SearchQuery(r.page) /\ r.door # "detect" THEN Idle
    ELSE [r EXCEPT !.at = "sniffing", !.left = 0, !.link = "page"]

\* Only the services of SHARE_HOSTS are followed; a page is taken as it is.
Paste(r) ==
    /\ row = NoWatch
    /\ request.at = "idle"
    /\ r.door # "create" => r.pin = Unpinned /\ r.given = {} /\ r.wish = NoWish
    /\ request' = IF r.link = "page" THEN Weigh(r)
                  ELSE [r EXCEPT !.at = "following", !.left = MaxHops + 1]
    /\ fresh' = "asked"
    /\ UNCHANGED <<site, row, command, hops, meant>>

\* A page, with what the body says: bound: what to watch for, or how, not both.
PagePastes ==
    {r \in [at : {"idle"}, door : Doors, pin : Strategies \cup {Unpinned},
            given : SUBSET SearchKeys, wish : Wishes \cup {NoWish}, link : {"page"},
            page : Addresses, left : {0}, next : {1}] :
        r.given = {} \/ r.wish = NoWish}

\* Bound: a share link comes without a body of its own.
LinkPastes ==
    [at : {"idle"}, door : Doors, pin : {Unpinned}, given : {{}}, wish : {NoWish},
     link : {"share", "insecure"}, page : {SomePage}, left : {0}, next : {1}]

\* Mutation: the hops are not counted.
LeadOn_Uncounted(link, page) ==
    /\ request' = [request EXCEPT !.link = link, !.page = page]
    /\ hops' = IF hops > MaxHops THEN hops ELSE hops + 1

LeadOn(link, page) ==
    /\ request' = [request EXCEPT !.link = link, !.page = page, !.left = @ - 1]
    /\ hops' = hops + 1

Following == request.at = "following" /\ request.left > 0

\* A Location header or a meta refresh, wherever it leads.
FollowHop(link, page) ==
    /\ Following
    /\ request.link \in {"share", "hop"}
    /\ LeadOn(link, page)
    /\ UNCHANGED <<site, row, command, fresh, meant>>

\* The destination is in the wrapper's query, and only https is taken from it.
Unwrap(link, page) ==
    /\ Following
    /\ request.link = "wrapper" /\ link # "insecure"
    /\ LeadOn(link, page)
    /\ UNCHANGED <<site, row, command, fresh, meant>>

\* A wrapper without a destination is a page like any other.
Arrive ==
    /\ Following
    /\ request.link \in {"page", "wrapper"}
    /\ request' = Weigh(request)
    /\ hops' = 0
    /\ UNCHANGED <<site, row, command, fresh, meant>>

\* Not https, a Google search, a service that fails or leads nowhere, or one
\* hop more than are followed.
ShareLinkError ==
    /\ request.at = "following"
    /\ request.left = 0 \/ request.link \in {"insecure", "google", "share", "hop"}
    /\ Ends
    /\ UNCHANGED <<site, row, command, fresh, meant>>

-----------------------------------------------------------------------------
(* The watch: detected or pinned, and written *)

\* The facets are read off the url unless the body brings a search.
SavedSearch(r) == IF r.given # {} THEN r.given ELSE r.page.facets

Prefer(said, found) == IF said # Unsaid THEN said ELSE found

\* What the body says of the watch goes before what detection found.
Write(found) ==
    /\ row' = [strategy |-> found.strategy,
               kind     |-> Prefer(request.wish.kind, found.kind),
               ref      |-> Prefer(request.wish.ref, found.ref),
               page     |-> request.page,
               filter   |-> SavedSearch(request)]
    /\ meant' = [search |-> SavedSearch(request), star |-> {}]
    /\ fresh' = IF request.pin # Unpinned \/ request.wish # NoWish THEN "moved"
                ELSE IF fresh = "moved" THEN "found" ELSE fresh

\* Only POST /watches asks for the Best Buy key at the door.
Refused(found) ==
    \/ request.door \in {"check", "detect"}
    \/ request.door = "create" /\ found.strategy = "bestbuy" /\ ~HasKey

Sniffed == Detect(DetectOrder[request.next], request.page, site)

Sniff ==
    /\ request.at = "sniffing" /\ request.pin = Unpinned
    /\ Sniffed = Nothing /\ request.next < Len(DetectOrder)
    /\ request' = [request EXCEPT !.next = @ + 1]
    /\ UNCHANGED <<site, row, command, hops, fresh, meant>>

\* No strategy knows the site, or the request only looks.
Decline ==
    /\ request.at = "sniffing" /\ request.pin = Unpinned
    /\ IF Sniffed = Nothing THEN request.next = Len(DetectOrder) ELSE Refused(Sniffed)
    /\ Ends
    /\ UNCHANGED <<site, row, command, fresh, meant>>

Add ==
    /\ request.at = "sniffing" /\ request.pin = Unpinned
    /\ Sniffed # Nothing /\ ~Refused(Sniffed)
    /\ Write(Sniffed)
    /\ Ends
    /\ UNCHANGED <<site, command>>

\* A pinned strategy skips detection: what the body does not say is a product,
\* and no target_ref.
AddPinned ==
    /\ request.at = "sniffing" /\ request.pin # Unpinned
    /\ LET pinned == Found(request.pin, "product", NoName)
       IN  IF Refused(pinned) THEN UNCHANGED <<row, meant, fresh>> ELSE Write(pinned)
    /\ Ends
    /\ UNCHANGED <<site, command>>

-----------------------------------------------------------------------------
(* The settings: two questions in one column *)

\* The row as the command reads it; the write comes two calls later.
Hear(set, keys) ==
    /\ row # NoWatch /\ command.at = "idle"
    /\ command' = [at |-> "read", set |-> set, keys |-> keys, saw |-> row.filter]
    /\ UNCHANGED <<site, request, row, hops, fresh, meant>>

\* /filter and /filter off, /star, which adds to the gates, and /star off.
Said ==
    \/ \E keys \in SUBSET SearchKeys : Hear("search", keys)
    \/ \E keys \in SUBSET StarKeys \ {{}} : Hear("star", keys)
    \/ Hear("star_off", {})

\* Mutation: a search replaces everything the column holds.
SaveFilter_Whole(saw, keys) == keys

\* Only the keys of a search make way for it; the star settings stay.
SaveFilter(saw, keys) == (saw \ SearchKeys) \cup keys

Obey ==
    /\ command.at = "read"
    /\ row' = [row EXCEPT !.filter =
                CASE command.set = "search"   -> SaveFilter(command.saw, command.keys)
                  [] command.set = "star"     -> command.saw \cup command.keys
                  [] command.set = "star_off" -> command.saw \ StarKeys]
    /\ meant' = CASE command.set = "search"   -> [meant EXCEPT !.search = command.keys]
                  [] command.set = "star"     -> [meant EXCEPT !.star = @ \cup command.keys]
                  [] command.set = "star_off" -> [meant EXCEPT !.star = {}]
    /\ command' = Quiet
    /\ UNCHANGED <<site, request, hops, fresh>>

\* PATCH with filter_json replaces the column; it says both things at once.
PatchFilter(keys) ==
    /\ row # NoWatch
    /\ Overtaking \/ command.at = "idle"
    /\ row' = [row EXCEPT !.filter = keys]
    /\ meant' = [search |-> keys \cap SearchKeys, star |-> keys \cap StarKeys]
    /\ UNCHANGED <<site, request, command, hops, fresh>>

\* PATCH with a url: neither the facets nor the target_ref are read off it.
PatchUrl(page) ==
    /\ row # NoWatch
    /\ row' = [row EXCEPT !.page = page]
    /\ fresh' = "moved"
    /\ UNCHANGED <<site, request, command, hops, meant>>

SiteMoves ==
    /\ request.at = "sniffing" \/ (row # NoWatch /\ fresh # "moved")
    /\ site' \in Worlds
    /\ fresh' = "moved"
    /\ UNCHANGED <<request, row, command, hops, meant>>

\* A command that was not finished is not taken up again.
Crash ==
    /\ Ends
    /\ command' = Quiet
    /\ UNCHANGED <<site, row, fresh, meant>>

Follow ==
    \/ \E link \in Links \ {"page"} : FollowHop(link, SomePage) \/ Unwrap(link, SomePage)
    \/ \E page \in Addresses : FollowHop("page", page) \/ Unwrap("page", page)
    \/ Arrive \/ ShareLinkError

Settle == Sniff \/ Decline \/ Add \/ AddPinned

Next ==
    \/ \E r \in PagePastes \cup LinkPastes : Paste(r)
    \/ Follow \/ Settle
    \/ Said \/ Obey
    \/ \E keys \in SUBSET Settings : PatchFilter(keys)
    \/ \E page \in Addresses : PatchUrl(page)
    \/ SiteMoves \/ Crash

Spec == Init /\ [][Next]_vars

\* Every request of the handler has a timeout, so the handler goes on.
FairSpec == Spec /\ WF_vars(Follow) /\ WF_vars(Settle)

-----------------------------------------------------------------------------
(* Properties *)

Added == row = NoWatch /\ row' # NoWatch

\* A search is never ignored: no watch is made of a page of search results,
\* however many hops a link takes to it, and the facets an address carries are
\* the watch's own saved search, whichever door it came in by.
SearchIsNeverIgnored ==
    [][Added => /\ ~SearchQuery(row'.page)
                /\ request.given = {} => row'.page.facets = row'.filter]_vars

\* What detection promises, checking keeps: while the site is as it was, a
\* watch that a probe of the site found, and that is taken as it was found, is
\* read by the check of the same strategy.  The exceptions are a store that
\* limits the rate, one that answers products.json with some other JSON object,
\* which detection takes for gated and checking for an empty catalogue, and one
\* whose feed's address answers with something that only mentions a <feed.
AddedCanBeRead ==
    /\ row # NoWatch /\ fresh # "moved"
    /\ row.strategy \in {"announce", "shopify", "retail"}
    => \/ Reading(row, site) = "shown"
       \/ /\ row.strategy = "shopify" /\ row.kind = "collection"
          /\ \/ site.listing = "slow_down" \/ IsJson(site.listing)
             \/ MentionsFeed(site.atom) /\ ~ParseFeed(site.atom)

\* A watch is what its address is, if the site stands still while it is being
\* looked at and the request leaves it to detection: a grid that Shopify can list
\* is never taken for one of the products on it, however deep its path, nor is
\* any grid whose address says so first; what Shopify can read per variant is
\* never left to the page's structured data; and a feed is never taken for the
\* catalogue of the store that serves it.
AddedAsWhatItIs ==
    [][Added /\ fresh' = "asked" =>
        LET page == row'.page
        IN  /\ row'.kind = "product" /\ IsAGrid(page) =>
                page.localized /\ ~(site.listing = "products" \/ MentionsFeed(site.atom))
            /\ row'.strategy = "retail" => ~(page.place = "product" /\ site.item = "variants")
            /\ row'.strategy = "shopify" => ~(page.place = "feed" /\ ParseFeed(site.page))]_vars

\* No grid is taken for a product, be its path behind a locale and its store
\* closed to Shopify's probe.  (The code fails here: see the violations.)
GridsAreNotProducts ==
    [][Added /\ fresh' = "asked" /\ IsAGrid(row'.page) => row'.kind = "collection"]_vars

\* A search endpoint is watched for what its search announces.
SearchesAreAnnounced ==
    [][Added /\ fresh' # "moved" /\ row'.page.place = "suggest" =>
        row'.strategy = "announce"]_vars

\* Nothing but refusals and pages made for people: the site says nothing.
Silent ==
    \A endpoint \in DOMAIN site :
        site[endpoint] \in {"refused", "slow_down", "html", "xhtml", "torn", "wrapped"}

\* The catalogue check has fallen back to a feed and been given a document.
FallsBackOnADocument ==
    /\ row.strategy = "shopify" /\ row.kind = "collection"
    /\ site.listing # "slow_down" /\ ParsesAsXml(site.atom)

\* Silence is no news: no strategy, detected or pinned, of whatever kind and
\* with whatever address since, reads a state of stock out of a site that says
\* nothing, unless it takes a well-formed page for Shopify's feed.
SilenceIsNoNews ==
    row # NoWatch /\ Silent /\ ~FallsBackOnADocument => Reading(row, site) \in {"failed", "slowed"}

\* No page made for people is a state of stock.  (The code fails here: see the
\* violations.)
SilenceIsNeverNews ==
    row # NoWatch /\ Silent => Reading(row, site) \in {"failed", "slowed"}

\* A link is followed while its page is within SHARE_MAX_HOPS hops, and not
\* one hop further.
PagesInReachAreOpened ==
    request.at = "following" => (request.left > 0 <=> hops <= MaxHops)

\* The saved search and the star settings are what was last said of each,
\* whatever was said of the other in between.
SettingsStandAsSaid ==
    row # NoWatch => row.filter = meant.search \cup meant.star

\* Every pasted address is answered, also one whose link leads on for ever and
\* whose site keeps changing while it is being looked at.
EveryPasteIsAnswered == (request.at # "idle") ~> (request.at = "idle")
=============================================================================
