-------------------------- MODULE Watchlist_proofs --------------------------
(***************************************************************************)
(* Theorems about Watchlist, for any addresses and sites, any saved search *)
(* and any number of hops.                                                 *)
(***************************************************************************)
EXTENDS Watchlist, TLAPS

Watches == [strategy : Strategies, kind : {"product", "collection"},
            ref : Names \cup {NoName}]

-----------------------------------------------------------------------------
(* What detection and checking return *)

\* A strategy makes a watch of its own, or nothing.
LEMMA DetectType ==
    ASSUME NEW s \in Strategies, NEW page \in Pages, NEW there \in Sites
    PROVE  \/ Detect(s, page, there) = Nothing
           \/ /\ Detect(s, page, there) \in Watches
              /\ Detect(s, page, there).strategy = s
<1> USE DEF Nothing, Found, Pages, Watches
<1>1. CASE s = "target"
    BY <1>1 DEF Detect, TargetDetect, Strategies
<1>2. CASE s = "bestbuy"
    BY <1>2 DEF Detect, BestBuyDetect, Strategies
<1>3. CASE s = "announce"
    BY <1>3 DEF Detect, AnnounceDetect, Strategies
<1>4. CASE s = "shopify"
    BY <1>4 DEF Detect, ShopifyDetect, Strategies
<1>5. CASE s = "retail"
    BY <1>5 DEF Detect, RetailDetect, Strategies
<1> QED BY <1>1, <1>2, <1>3, <1>4, <1>5 DEF Strategies

LEMMA OrderType ==
    /\ Len(DetectOrder) = 5 /\ DOMAIN DetectOrder = 1..5
    /\ \A i \in DOMAIN DetectOrder : DetectOrder[i] \in Strategies
    BY DEF DetectOrder, Strategies

\* A site that says nothing gives no state of stock away, but for a document
\* at the address of Shopify's feed.
LEMMA ReadingOfSilence ==
    ASSUME NEW watch \in Rows, NEW there \in Sites,
           \A endpoint \in {"item", "listing", "atom", "page", "api"} : there[endpoint] \in
                {"refused", "slow_down", "html", "xhtml", "torn", "wrapped"},
           ~(/\ watch.strategy = "shopify" /\ watch.kind = "collection"
             /\ there.listing # "slow_down" /\ ParsesAsXml(there.atom))
    PROVE  Reading(watch, there) \in {"failed", "slowed"}
<1> DEFINE quiet == {"refused", "slow_down", "html", "xhtml", "torn", "wrapped"}
<1>1. /\ there.item \in quiet /\ there.listing \in quiet /\ there.atom \in quiet
      /\ there.page \in quiet /\ there.api \in quiet
    OBVIOUS
<1> USE <1>1 DEF Unanswered, Answered, IsJson, FindProduct, ParsesAsXml, ParseFeed
<1>2. CASE watch.strategy = "target"
    BY <1>2 DEF Reading, TargetCheck
<1>3. CASE watch.strategy = "bestbuy"
    BY <1>3 DEF Reading, BestBuyCheck
<1>4. CASE watch.strategy = "announce"
    BY <1>4 DEF Reading, AnnounceCheck
<1>5. CASE watch.strategy = "retail"
    BY <1>5 DEF Reading, RetailCheck
<1>6. CASE watch.strategy = "shopify"
  <2>1. CASE watch.kind = "collection"
      BY <1>6, <2>1 DEF Reading, ShopifyListingCheck
  <2>2. CASE watch.kind # "collection"
      BY <1>6, <2>2 DEF Reading, ShopifyProductCheck
  <2> QED BY <2>1, <2>2
<1>7. watch.strategy \in Strategies
    BY DEF Rows
<1> QED BY <1>2, <1>3, <1>4, <1>5, <1>6, <1>7 DEF Strategies

\* What a probe of the site found, the check of the same strategy reads.
LEMMA DetectedIsRead ==
    ASSUME NEW watch \in Rows, NEW there \in Sites,
           watch.strategy \in {"announce", "shopify", "retail"},
           Detect(watch.strategy, watch.page, there)
                = Found(watch.strategy, watch.kind, watch.ref),
           watch.strategy = "shopify" /\ watch.kind = "collection"
                => /\ there.listing # "slow_down" /\ ~IsJson(there.listing)
                   /\ ~(MentionsFeed(there.atom) /\ ~ParseFeed(there.atom))
    PROVE  Reading(watch, there) = "shown"
<1> USE DEF Nothing, Found, Rows, Sites, Bodies, Unanswered, Answered, IsJson, FindProduct,
            ParsesAsXml, ParseFeed, MentionsFeed
<1>1. CASE watch.strategy = "announce"
    BY <1>1 DEF Reading, AnnounceCheck, Detect, AnnounceDetect, SearchHits
<1>2. CASE watch.strategy = "retail"
    BY <1>2 DEF Reading, RetailCheck, Detect, RetailDetect
<1>3. CASE watch.strategy = "shopify" /\ watch.page.place = "product"
  <2>1. there.item = "variants" /\ watch.kind = "product"
      BY <1>3 DEF Detect, ShopifyDetect
  <2> QED BY <1>3, <2>1, ReadingsAssumption DEF Reading, ShopifyProductCheck
<1>4. CASE watch.strategy = "shopify" /\ watch.page.place # "product"
  <2>1. watch.kind = "collection" /\ there.atom = "feed"
      BY <1>4 DEF Detect, ShopifyDetect
  <2> QED BY <1>4, <2>1 DEF Reading, ShopifyListingCheck
<1> QED BY <1>1, <1>2, <1>3, <1>4

-----------------------------------------------------------------------------
(* The invariant *)

\* hops and left count the same steps from both ends.
HopsAreCounted ==
    hops = IF request.at = "following" THEN MaxHops + 1 - request.left ELSE 0

\* There is one row: it is being looked for, or it is there and may be changed.
OneRow ==
    /\ request.at # "idle" => row = NoWatch
    /\ command.at = "read" => row # NoWatch

\* A page of search results goes no further than the door.
NoSearchIsSniffed ==
    request.at = "sniffing" => request.door = "detect" \/ ~SearchQuery(request.page)

\* What is looked at is an address of the instance, or a page unknown to it.
OwnPages == request.page \in Addresses \cup {SomePage}

KeysAreApart ==
    /\ command.set = "search" => command.keys \subseteq SearchKeys
    /\ command.set = "star" => command.keys \subseteq StarKeys

\* What a command is about to write back is still what it read.
SawTheRow == ~Overtaking /\ command.at = "read" => command.saw = row.filter

\* The strategies asked so far know nothing of the address.
AskedInOrder ==
    /\ request.at # "sniffing" => request.next = 1
    /\ request.at = "sniffing" /\ fresh = "asked" =>
        \A i \in DOMAIN DetectOrder :
            i < request.next => Detect(DetectOrder[i], request.page, site) = Nothing

\* Detection would say the same today.
Detected ==
    row # NoWatch /\ fresh # "moved" =>
        Detect(row.strategy, row.page, site) = Found(row.strategy, row.kind, row.ref)

Inv ==
    /\ TypeOK
    /\ HopsAreCounted
    /\ OneRow
    /\ NoSearchIsSniffed
    /\ OwnPages
    /\ KeysAreApart
    /\ SawTheRow
    /\ Overtaking \/ SettingsStandAsSaid
    /\ AskedInOrder
    /\ Detected

LEMMA IdleType ==
    SomePage \in Pages /\ Idle \in Requests /\ Idle.at = "idle" /\ Idle.next = 1
    /\ Idle.page = SomePage
<1>1. SomePage \in Pages
    BY DEF SomePage, Pages, Places
<1>2. NoWish \in Own
    BY DEF NoWish, Own
<1>3. 0 \in 0..(MaxHops + 1)
    BY WatchlistAssumption
<1> QED BY <1>1, <1>2, <1>3, OrderType DEF Idle, Requests, Doors, Links, Unpinned

LEMMA InvInit == Init => Inv
<1> SUFFICES ASSUME Init PROVE Inv
    OBVIOUS
<1>1. TypeOK
    BY IdleType, WatchlistAssumption
    DEF Init, TypeOK, Quiet, Commands, Since
<1> QED BY <1>1, WatchlistAssumption
    DEF Init, Inv, HopsAreCounted, OneRow, NoSearchIsSniffed, OwnPages, KeysAreApart, SawTheRow,
        SettingsStandAsSaid, AskedInOrder, Detected, Idle, Quiet

-----------------------------------------------------------------------------
(* Steps that write the row *)

\* The watch that Sniff, Decline and Add look at.
LEMMA SniffedType ==
    ASSUME TypeOK
    PROVE  /\ DetectOrder[request.next] \in Strategies
           /\ Sniffed = Nothing \/ /\ Sniffed \in Watches
                                   /\ Sniffed.strategy = DetectOrder[request.next]
<1>1. request.page \in Pages /\ site \in Sites
    BY WatchlistAssumption DEF TypeOK, Requests
<1>2. DetectOrder[request.next] \in Strategies
    BY OrderType DEF TypeOK, Requests
<1> QED BY <1>1, <1>2, DetectType DEF Sniffed

LEMMA WriteType ==
    ASSUME TypeOK, NEW found \in Watches, Write(found)
    PROVE  /\ row' \in Rows
           /\ row'.filter = SavedSearch(request)
           /\ SavedSearch(request) \subseteq SearchKeys
           /\ meant' = [search |-> SavedSearch(request), star |-> {}]
           /\ fresh' \in Since
           /\ fresh' # "moved" => row'.kind = found.kind /\ row'.ref = found.ref
<1>1. request \in Requests
    BY DEF TypeOK
<1>2. request.page \in Pages /\ request.given \subseteq SearchKeys /\ request.wish \in Own
    BY <1>1 DEF Requests
<1>3. request.page.facets \subseteq SearchKeys
    BY <1>2 DEF Pages
<1>4. SavedSearch(request) \subseteq SearchKeys
    BY <1>2, <1>3 DEF SavedSearch
<1>5. fresh \in Since
    BY DEF TypeOK
<1>6. /\ Prefer(request.wish.kind, found.kind) \in {"product", "collection"}
      /\ Prefer(request.wish.ref, found.ref) \in Names \cup {NoName}
    BY <1>2 DEF Prefer, Own, Watches
<1>7. row' \in Rows
    BY <1>2, <1>4, <1>6 DEF Write, Rows, Watches, Settings
<1>8. request.wish = NoWish =>
        /\ Prefer(request.wish.kind, found.kind) = found.kind
        /\ Prefer(request.wish.ref, found.ref) = found.ref
    BY DEF Prefer, NoWish
<1> QED BY <1>4, <1>5, <1>7, <1>8 DEF Write, Since

LEMMA AddStep == Inv /\ Add => Inv'
<1> SUFFICES ASSUME Inv, Add PROVE Inv'
    OBVIOUS
<1> USE DEF Inv
<1>1. Sniffed \in Watches /\ Sniffed.strategy = DetectOrder[request.next]
    BY SniffedType DEF Add
<1>2. Write(Sniffed) /\ Ends /\ UNCHANGED <<site, command>> /\ command.at # "read"
    BY DEF Add, OneRow
<1>3. /\ row' \in Rows /\ row'.filter = meant'.search \cup meant'.star
      /\ meant' \in [search : SUBSET SearchKeys, star : SUBSET StarKeys] /\ fresh' \in Since
      /\ fresh' # "moved" => row'.kind = Sniffed.kind /\ row'.ref = Sniffed.ref
    BY <1>1, <1>2, WriteType
<1>4. request' = Idle /\ hops' = 0
    BY <1>2 DEF Ends
<1>5. Idle \in Requests /\ Idle.at = "idle" /\ Idle.next = 1
      /\ Idle.page = SomePage
    BY IdleType
<1>6. TypeOK'
    BY <1>2, <1>3, <1>4, <1>5, WatchlistAssumption DEF TypeOK
<1>7. Detected'
  <2>1. row'.strategy = Sniffed.strategy /\ row'.page = request.page
      BY <1>2 DEF Write
  <2>2. Sniffed = Found(Sniffed.strategy, Sniffed.kind, Sniffed.ref)
      BY <1>1 DEF Watches, Found
  <2> QED BY <1>1, <1>2, <1>3, <2>1, <2>2 DEF Detected, Sniffed
<1>8. row' # NoWatch
    BY <1>3, WatchlistAssumption
<1> QED BY <1>2, <1>3, <1>4, <1>5, <1>6, <1>7, <1>8
    DEF HopsAreCounted, OneRow, NoSearchIsSniffed, OwnPages, KeysAreApart, SawTheRow,
        SettingsStandAsSaid, AskedInOrder

LEMMA AddPinnedStep == Inv /\ AddPinned => Inv'
<1> SUFFICES ASSUME Inv, AddPinned PROVE Inv'
    OBVIOUS
<1> USE DEF Inv
<1> DEFINE pinned == Found(request.pin, "product", NoName)
<1>1. request \in Requests
    BY DEF TypeOK
<1>2. pinned \in Watches /\ request.pin \in Strategies
    BY <1>1 DEF AddPinned, Requests, Found, Watches
<1>3. /\ Ends /\ UNCHANGED <<site, command>> /\ command.at # "read"
      /\ UNCHANGED <<row, meant, fresh>> \/ Write(pinned)
    BY DEF AddPinned, OneRow
<1>4. request' = Idle /\ hops' = 0 /\ Idle \in Requests /\ Idle.at = "idle" /\ Idle.next = 1
      /\ Idle.page = SomePage
    BY <1>3, IdleType DEF Ends
<1>5. CASE UNCHANGED <<row, meant, fresh>>
  <2>1. TypeOK'
      BY <1>3, <1>4, <1>5, WatchlistAssumption DEF TypeOK
  <2>2. Detected'
      BY <1>3, <1>5 DEF Detected
  <2> QED BY <1>3, <1>4, <1>5, <2>1, <2>2
      DEF HopsAreCounted, OneRow, NoSearchIsSniffed, OwnPages, KeysAreApart, SawTheRow,
          SettingsStandAsSaid, AskedInOrder
<1>6. CASE Write(pinned)
  <2>1. /\ row' \in Rows /\ row'.filter = meant'.search \cup meant'.star
        /\ meant' \in [search : SUBSET SearchKeys, star : SUBSET StarKeys] /\ fresh' \in Since
      BY <1>2, <1>6, WriteType
  <2>2. fresh' = "moved"
      BY <1>2, <1>6 DEF AddPinned, Write
  <2>3. TypeOK'
      BY <1>3, <1>4, <2>1, WatchlistAssumption DEF TypeOK
  <2> QED BY <1>3, <1>4, <2>1, <2>2, <2>3, WatchlistAssumption
      DEF HopsAreCounted, OneRow, NoSearchIsSniffed, OwnPages, KeysAreApart, SawTheRow,
          SettingsStandAsSaid, AskedInOrder, Detected
<1> QED BY <1>3, <1>5, <1>6

\* What a command writes is what it read, with its own keys changed.
LEMMA ObeyStep == Inv /\ Obey => Inv'
<1> SUFFICES ASSUME Inv, Obey PROVE Inv'
    OBVIOUS
<1> USE DEF Inv
<1>1. /\ command \in Commands /\ row \in Rows /\ command.at = "read"
      /\ UNCHANGED <<site, request, hops, fresh>> /\ request.at = "idle"
      /\ meant \in [search : SUBSET SearchKeys, star : SUBSET StarKeys]
    BY DEF Obey, OneRow, TypeOK, Requests
<1>2. command' = Quiet /\ Quiet \in Commands /\ Quiet.at = "idle" /\ Quiet.keys = {}
    BY DEF Obey, Quiet, Commands
<1> DEFINE written == CASE command.set = "search"   -> SaveFilter(command.saw, command.keys)
                        [] command.set = "star"     -> command.saw \cup command.keys
                        [] command.set = "star_off" -> command.saw \ StarKeys
<1>3. row' = [row EXCEPT !.filter = written]
    BY DEF Obey
<1>4. /\ written \subseteq Settings
      /\ meant' \in [search : SUBSET SearchKeys, star : SUBSET StarKeys]
      /\ Overtaking \/ written = meant'.search \cup meant'.star
  <2> USE <1>1, WatchlistAssumption
      DEF Obey, SaveFilter, KeysAreApart, SawTheRow, SettingsStandAsSaid, Settings, Commands
  <2>1. CASE command.set = "search"
      BY <2>1
  <2>2. CASE command.set = "star"
      BY <2>2
  <2>3. CASE command.set = "star_off"
      BY <2>3
  <2> QED BY <2>1, <2>2, <2>3
<1>5. /\ row' \in Rows /\ row'.filter = written /\ row' # NoWatch
      /\ row'.strategy = row.strategy /\ row'.kind = row.kind /\ row'.ref = row.ref
      /\ row'.page = row.page
    BY <1>1, <1>3, <1>4, WatchlistAssumption DEF Rows
<1>6. row # NoWatch
    BY <1>1 DEF OneRow
<1>7. TypeOK'
    BY <1>1, <1>2, <1>4, <1>5 DEF TypeOK
<1> QED BY <1>1, <1>2, <1>4, <1>5, <1>6, <1>7
    DEF HopsAreCounted, OneRow, NoSearchIsSniffed, OwnPages, KeysAreApart, SawTheRow,
        SettingsStandAsSaid, AskedInOrder, Detected

LEMMA PatchStep ==
    ASSUME Inv,
           \/ \E keys \in SUBSET Settings : PatchFilter(keys)
           \/ \E page \in Addresses : PatchUrl(page)
    PROVE  Inv'
<1> USE DEF Inv
<1>1. ASSUME NEW keys \in SUBSET Settings, PatchFilter(keys) PROVE Inv'
  <2>1. /\ row \in Rows /\ row # NoWatch
        /\ UNCHANGED <<site, request, command, hops, fresh>>
      BY <1>1 DEF PatchFilter, TypeOK
  <2>2. /\ row' \in Rows /\ row'.filter = keys /\ row' # NoWatch
        /\ row'.strategy = row.strategy /\ row'.kind = row.kind /\ row'.ref = row.ref
        /\ row'.page = row.page
      BY <1>1, <2>1, WatchlistAssumption DEF PatchFilter, Rows
  <2>3. /\ meant' \in [search : SUBSET SearchKeys, star : SUBSET StarKeys]
        /\ keys = meant'.search \cup meant'.star
      BY <1>1 DEF PatchFilter, Settings
  <2>4. TypeOK'
      BY <2>1, <2>2, <2>3 DEF TypeOK
  <2> QED BY <1>1, <2>1, <2>2, <2>3, <2>4, WatchlistAssumption
      DEF PatchFilter, HopsAreCounted, OneRow, NoSearchIsSniffed, OwnPages, KeysAreApart, SawTheRow,
          SettingsStandAsSaid, AskedInOrder, Detected, TypeOK, Commands
<1>2. ASSUME NEW page \in Addresses, PatchUrl(page) PROVE Inv'
  <2>1. /\ row \in Rows /\ row # NoWatch /\ fresh' = "moved" /\ page \in Pages
        /\ UNCHANGED <<site, request, command, hops, meant>>
      BY <1>2, WatchlistAssumption DEF PatchUrl, TypeOK
  <2>2. row' \in Rows /\ row'.filter = row.filter /\ row' # NoWatch
      BY <1>2, <2>1, WatchlistAssumption DEF PatchUrl, Rows
  <2>3. TypeOK'
      BY <2>1, <2>2 DEF TypeOK, Since
  <2> QED BY <2>1, <2>2, <2>3
      DEF HopsAreCounted, OneRow, NoSearchIsSniffed, OwnPages, KeysAreApart, SawTheRow,
          SettingsStandAsSaid, AskedInOrder, Detected
<1> QED BY <1>1, <1>2

-----------------------------------------------------------------------------
(* Steps that leave the row alone *)

LEMMA WeighType ==
    ASSUME NEW r \in Requests
    PROVE  /\ Weigh(r) \in Requests
           /\ \/ Weigh(r) = Idle
              \/ /\ Weigh(r).at = "sniffing"
                 /\ r.door = "detect" \/ ~SearchQuery(r.page)
                 /\ Weigh(r).door = r.door /\ Weigh(r).page = r.page
                 /\ Weigh(r).next = r.next
<1>1. CASE SearchQuery(r.page) /\ r.door # "detect"
    BY <1>1, IdleType DEF Weigh
<1>2. CASE ~(SearchQuery(r.page) /\ r.door # "detect")
  <2>1. Weigh(r) = [r EXCEPT !.at = "sniffing", !.left = 0, !.link = "page"]
      BY <1>2 DEF Weigh
  <2>2. 0 \in 0..(MaxHops + 1) /\ "page" \in Links
      BY WatchlistAssumption DEF Links
  <2>3. Weigh(r) \in Requests
      BY <2>1, <2>2 DEF Requests
  <2>4. /\ Weigh(r).at = "sniffing" /\ Weigh(r).door = r.door
        /\ Weigh(r).page = r.page /\ Weigh(r).next = r.next
      BY <2>1 DEF Requests
  <2> QED BY <1>2, <2>3, <2>4
<1> QED BY <1>1, <1>2

\* A step of the request that leaves the row, the site and the command alone.
LEMMA LookStep ==
    ASSUME Inv, UNCHANGED <<site, row, command, meant>>,
           request' \in Requests, fresh' \in Since, hops' \in 0..(MaxHops + 1),
           HopsAreCounted', NoSearchIsSniffed', OwnPages', AskedInOrder',
           request'.at # "idle" => row = NoWatch,
           row # NoWatch => fresh' = fresh
    PROVE  Inv'
<1>1. TypeOK'
    BY DEF Inv, TypeOK
<1> QED BY <1>1
    DEF Inv, OneRow, KeysAreApart, SawTheRow, SettingsStandAsSaid, Detected

LEMMA WeighStep ==
    ASSUME Inv, UNCHANGED <<site, row, command, meant>>, row = NoWatch,
           NEW r \in Requests, r.next = 1, r.page \in Addresses \cup {SomePage},
           request' = Weigh(r), hops' = 0, fresh' \in Since
    PROVE  Inv'
<1>1. request' \in Requests /\ request'.at \in {"idle", "sniffing"}
    BY WeighType, IdleType
<1>2. request'.next = 1 /\ request'.page \in Addresses \cup {SomePage}
    BY WeighType, IdleType
<1>3. NoSearchIsSniffed'
    BY WeighType, IdleType DEF NoSearchIsSniffed
<1>4. HopsAreCounted' /\ OwnPages'
    BY <1>1, <1>2 DEF HopsAreCounted, OwnPages
<1>5. AskedInOrder'
    BY <1>2, OrderType DEF AskedInOrder
<1> QED BY <1>1, <1>3, <1>4, <1>5, LookStep, WatchlistAssumption

LEMMA PasteStep ==
    ASSUME Inv, NEW r \in PagePastes \cup LinkPastes, Paste(r)
    PROVE  Inv'
<1> USE DEF Inv
<1>1. /\ row = NoWatch /\ hops' = 0 /\ fresh' = "asked"
      /\ UNCHANGED <<site, row, command, meant>>
    BY DEF Paste, HopsAreCounted
<1>2. r \in Requests /\ r.next = 1 /\ r.page \in Addresses \cup {SomePage}
  <2>1. NoWish \in Own /\ {"page", "share", "insecure"} \subseteq Links
        /\ 0 \in 0..(MaxHops + 1) /\ 1 \in DOMAIN DetectOrder /\ SomePage \in Pages
      BY OrderType, IdleType, WatchlistAssumption DEF NoWish, Own, Links
  <2>2. CASE r \in LinkPastes
      BY <2>1, <2>2 DEF LinkPastes, Requests
  <2>3. CASE r \in PagePastes
      BY <2>1, <2>3, WatchlistAssumption DEF PagePastes, Requests
  <2> QED BY <2>2, <2>3
<1>3. CASE r.link = "page"
  <2>1. request' = Weigh(r)
      BY <1>3 DEF Paste
  <2> QED BY <1>1, <1>2, <2>1, WeighStep, WatchlistAssumption DEF Since
<1>4. CASE r.link # "page"
  <2>1. request' = [r EXCEPT !.at = "following", !.left = MaxHops + 1]
      BY <1>4 DEF Paste
  <2>2. request'.at = "following" /\ request'.left = MaxHops + 1 /\ request'.next = 1
        /\ request'.page = r.page
      BY <1>2, <2>1 DEF Requests
  <2>3. request' \in Requests
    <3>1. MaxHops + 1 \in 0..(MaxHops + 1)
        BY WatchlistAssumption
    <3> QED BY <1>2, <2>1, <3>1 DEF Requests
  <2>4. OwnPages'
      BY <1>2, <2>2 DEF OwnPages
  <2> QED BY <1>1, <2>2, <2>3, <2>4, LookStep, WatchlistAssumption
      DEF HopsAreCounted, NoSearchIsSniffed, OwnPages, AskedInOrder, Since
<1> QED BY <1>3, <1>4

LEMMA FollowStep == Inv /\ Follow => Inv'
<1> SUFFICES ASSUME Inv, Follow PROVE Inv'
    OBVIOUS
<1> USE DEF Inv
<1>1. /\ request \in Requests /\ request.at = "following" /\ row = NoWatch
      /\ fresh \in Since /\ UNCHANGED <<site, row, command, fresh, meant>>
      /\ request.next = 1 /\ hops = MaxHops + 1 - request.left
    BY DEF Follow, FollowHop, Unwrap, Arrive, ShareLinkError, Following, TypeOK, OneRow,
           AskedInOrder, HopsAreCounted
<1>2. ASSUME NEW link \in Links, NEW page \in Addresses \cup {SomePage}, Following,
             LeadOn(link, page)
      PROVE  Inv'
  <2>1. request.left \in 1..(MaxHops + 1)
      BY <1>1, <1>2 DEF Following, Requests
  <2>2. request' = [request EXCEPT !.link = link, !.page = page, !.left = request.left - 1]
        /\ hops' = hops + 1
      BY <1>2 DEF LeadOn
  <2>3. request'.left = request.left - 1 /\ request'.next = 1 /\ request'.page = page
        /\ request'.at = "following"
      BY <1>1, <2>2 DEF Requests
  <2>4. request' \in Requests
    <3>1. request.left - 1 \in 0..(MaxHops + 1) /\ page \in Pages
        BY <2>1, IdleType, WatchlistAssumption
    <3> QED BY <1>1, <1>2, <2>2, <3>1 DEF Requests
  <2>5. hops' = MaxHops + 1 - request'.left /\ hops' \in 0..(MaxHops + 1)
      BY <1>1, <2>1, <2>2, <2>3, WatchlistAssumption
  <2> QED BY <1>1, <2>3, <2>4, <2>5, LookStep
      DEF HopsAreCounted, NoSearchIsSniffed, OwnPages, AskedInOrder
<1>3. CASE Arrive
  <2>1. request' = Weigh(request) /\ hops' = 0
      BY <1>3 DEF Arrive
  <2> QED BY <1>1, <2>1, WeighStep, WatchlistAssumption DEF OwnPages
<1>4. CASE ShareLinkError
    BY <1>1, <1>4, IdleType, LookStep, WatchlistAssumption
    DEF ShareLinkError, Ends, HopsAreCounted, NoSearchIsSniffed, OwnPages, AskedInOrder
<1>5. ASSUME NEW link \in Links \ {"page"},
             FollowHop(link, SomePage) \/ Unwrap(link, SomePage)
      PROVE  Inv'
    BY <1>2, <1>5, IdleType DEF FollowHop, Unwrap
<1>6. ASSUME NEW page \in Addresses, FollowHop("page", page) \/ Unwrap("page", page)
      PROVE  Inv'
  <2>1. "page" \in Links
      BY DEF Links
  <2> QED BY <1>2, <1>6, <2>1 DEF FollowHop, Unwrap
<1> QED BY <1>3, <1>4, <1>5, <1>6 DEF Follow

LEMMA SniffStep == Inv /\ Sniff => Inv'
<1> SUFFICES ASSUME Inv, Sniff PROVE Inv'
    OBVIOUS
<1> USE DEF Inv
<1>1. /\ request \in Requests /\ request.at = "sniffing" /\ row = NoWatch
      /\ Sniffed = Nothing /\ UNCHANGED <<site, row, command, hops, fresh, meant>>
      /\ fresh \in Since /\ hops = 0
    BY DEF Sniff, TypeOK, OneRow, HopsAreCounted
<1>2. /\ request' \in Requests /\ request'.next = request.next + 1
      /\ request'.at = request.at /\ request'.page = request.page
      /\ request'.door = request.door
  <2>1. request.next \in 1..5 /\ request.next + 1 \in 1..5
      BY <1>1, OrderType DEF Sniff, Requests
  <2> QED BY <1>1, <2>1, OrderType DEF Sniff, Requests
<1>3. AskedInOrder'
  <2> SUFFICES ASSUME fresh = "asked", NEW i \in 1..5, i < request.next + 1
               PROVE  Detect(DetectOrder[i], request.page, site) = Nothing
      BY <1>1, <1>2, OrderType DEF AskedInOrder
  <2>1. request.next \in 1..5
      BY <1>1, OrderType DEF Requests
  <2>2. CASE i = request.next
      BY <1>1, <2>2 DEF Sniffed
  <2>3. CASE i < request.next
      BY <1>1, <2>3, OrderType DEF AskedInOrder
  <2> QED BY <2>1, <2>2, <2>3
<1> QED BY <1>1, <1>2, <1>3, LookStep, WatchlistAssumption
    DEF HopsAreCounted, NoSearchIsSniffed, OwnPages

LEMMA EndStep ==
    ASSUME Inv, Ends, UNCHANGED <<site, row, fresh, meant>>,
           command' = command \/ command' = Quiet
    PROVE  Inv'
<1> USE DEF Inv
<1>1. /\ request' = Idle /\ hops' = 0 /\ Idle \in Requests /\ Idle.at = "idle"
      /\ Idle.next = 1 /\ Idle.page = SomePage
    BY IdleType DEF Ends
<1>2. Quiet \in Commands /\ Quiet.at = "idle" /\ Quiet.keys = {}
    BY DEF Quiet, Commands
<1>3. TypeOK'
    BY <1>1, <1>2, WatchlistAssumption DEF TypeOK
<1> QED BY <1>1, <1>2, <1>3
    DEF HopsAreCounted, NoSearchIsSniffed, OwnPages, AskedInOrder, OneRow, KeysAreApart, SawTheRow,
        SettingsStandAsSaid, Detected

LEMMA HearStep ==
    ASSUME Inv, Said
    PROVE  Inv'
<1> USE DEF Inv
<1>1. PICK set \in {"search", "star", "star_off"}, keys \in SUBSET Settings :
        /\ Hear(set, keys)
        /\ set = "search" => keys \subseteq SearchKeys
        /\ set = "star" => keys \subseteq StarKeys
    BY DEF Said, Settings
<1>2. /\ row # NoWatch /\ row \in Rows
      /\ command' = [at |-> "read", set |-> set, keys |-> keys, saw |-> row.filter]
      /\ UNCHANGED <<site, request, row, hops, fresh, meant>>
    BY <1>1 DEF Hear, TypeOK
<1>3. command' \in Commands
    BY <1>2 DEF Commands, Rows
<1>4. TypeOK'
    BY <1>2, <1>3 DEF TypeOK
<1> QED BY <1>1, <1>2, <1>4
    DEF HopsAreCounted, NoSearchIsSniffed, OwnPages, AskedInOrder, OneRow, KeysAreApart, SawTheRow,
        SettingsStandAsSaid, Detected

LEMMA SiteStep == Inv /\ SiteMoves => Inv'
<1> SUFFICES ASSUME Inv, SiteMoves PROVE Inv'
    OBVIOUS
<1> USE DEF Inv
<1>1. TypeOK'
    BY DEF SiteMoves, TypeOK, Since
<1> QED BY <1>1
    DEF SiteMoves, HopsAreCounted, NoSearchIsSniffed, OwnPages, AskedInOrder, OneRow, KeysAreApart,
        SawTheRow, SettingsStandAsSaid, Detected

LEMMA InvStep == Inv /\ [Next]_vars => Inv'
<1> SUFFICES ASSUME Inv, [Next]_vars PROVE Inv'
    OBVIOUS
<1>1. CASE Decline
    BY <1>1, EndStep DEF Decline
<1>2. CASE Crash
    BY <1>2, EndStep DEF Crash
<1>3. CASE UNCHANGED vars
    BY <1>3 DEF vars, Inv, TypeOK, HopsAreCounted, NoSearchIsSniffed, OwnPages, AskedInOrder, OneRow,
                KeysAreApart, SawTheRow, SettingsStandAsSaid, Detected
<1>4. CASE Settle
    BY <1>1, <1>4, SniffStep, AddStep, AddPinnedStep DEF Settle
<1> QED BY <1>2, <1>3, <1>4, PasteStep, FollowStep, HearStep, ObeyStep, PatchStep, SiteStep
    DEF Next

LEMMA Invariant == Spec => []Inv
    BY InvInit, InvStep, PTL DEF Spec

-----------------------------------------------------------------------------
(* The theorems *)

\* Every request, row and command has its shape: no hop is counted beyond the
\* bound of the resolver's loop.
THEOREM TypeCorrect == Spec => []TypeOK
<1>1. Inv => TypeOK
    BY DEF Inv
<1> QED BY <1>1, Invariant, PTL

\* A link is followed exactly as far as SHARE_MAX_HOPS allows.
THEOREM InReachIsOpened == Spec => []PagesInReachAreOpened
<1>1. Inv => PagesInReachAreOpened
  <2> SUFFICES ASSUME Inv, request.at = "following"
               PROVE  request.left > 0 <=> hops <= MaxHops
      BY DEF PagesInReachAreOpened
  <2>1. request.left \in 0..(MaxHops + 1) /\ hops = MaxHops + 1 - request.left
      BY DEF Inv, TypeOK, Requests, HopsAreCounted
  <2> QED BY <2>1, WatchlistAssumption
<1> QED BY <1>1, Invariant, PTL

\* Whatever is said of the search and of the stars, in whatever order, the row
\* holds what was last said of each, unless PATCH overtakes a command.
THEOREM SettingsStand == ASSUME ~Overtaking PROVE Spec => []SettingsStandAsSaid
<1>1. Inv => SettingsStandAsSaid
    BY DEF Inv
<1> QED BY <1>1, Invariant, PTL

\* No strategy reads a state of stock out of a site that says nothing, however
\* the watch was made and whatever was pointed at since; the one way round it is
\* a well-formed page in the place of Shopify's feed.
THEOREM SilenceTellsNothing == Spec => []SilenceIsNoNews
<1>1. Inv => SilenceIsNoNews
  <2> SUFFICES ASSUME Inv, row # NoWatch, Silent, ~FallsBackOnADocument
               PROVE  Reading(row, site) \in {"failed", "slowed"}
      BY DEF SilenceIsNoNews
  <2>1. row \in Rows /\ site \in Sites
      BY WatchlistAssumption DEF Inv, TypeOK
  <2>2. DOMAIN site = {"item", "listing", "atom", "page", "api"}
      BY <2>1 DEF Sites
  <2> QED BY <2>1, <2>2, ReadingOfSilence DEF Silent, FallsBackOnADocument
<1> QED BY <1>1, Invariant, PTL

\* What a probe found, and the request left as it was found, can be read for as
\* long as the site stays as it was: it shows variants, products, entries or a
\* price, but for the stores that AddedCanBeRead excepts.
THEOREM DetectionIsKept == Spec => []AddedCanBeRead
<1>1. Inv => AddedCanBeRead
  <2> SUFFICES ASSUME Inv, row # NoWatch, fresh # "moved",
                      row.strategy \in {"announce", "shopify", "retail"},
                      row.strategy = "shopify" /\ row.kind = "collection" =>
                        /\ site.listing # "slow_down" /\ ~IsJson(site.listing)
                        /\ ~(MentionsFeed(site.atom) /\ ~ParseFeed(site.atom))
               PROVE  Reading(row, site) = "shown"
      BY DEF AddedCanBeRead
  <2>1. row \in Rows /\ site \in Sites
      BY WatchlistAssumption DEF Inv, TypeOK
  <2> QED BY <2>1, DetectedIsRead DEF Inv, Detected
<1> QED BY <1>1, Invariant, PTL

\* A new row is the work of Add or AddPinned.
LEMMA AddedBy ==
    ASSUME Inv, Next, Added
    PROVE  Add \/ AddPinned
    BY DEF Added, Inv, OneRow, Next, Paste, Follow, FollowHop, Unwrap, Arrive, ShareLinkError,
           Settle, Sniff, Decline, Said, Hear, Obey, PatchFilter, PatchUrl, SiteMoves, Crash

\* No watch is made of a page of search results, and the facets of an address
\* become the saved search.
THEOREM SearchesAreKept == Spec => SearchIsNeverIgnored
<1>1. Inv /\ [Next]_vars
        => [Added => /\ ~SearchQuery(row'.page)
                     /\ request.given = {} => row'.page.facets = row'.filter]_vars
  <2> SUFFICES ASSUME Inv, Next, Added
               PROVE  /\ ~SearchQuery(row'.page)
                      /\ request.given = {} => row'.page.facets = row'.filter
      OBVIOUS
  <2>1. PICK found : Write(found) /\ ~Refused(found) /\ request.at = "sniffing"
      BY AddedBy DEF Add, AddPinned, Added
  <2>2. row'.page = request.page /\ row'.filter = SavedSearch(request)
      BY <2>1 DEF Write
  <2>3. request.door # "detect"
      BY <2>1 DEF Refused
  <2> QED BY <2>1, <2>2, <2>3 DEF Inv, NoSearchIsSniffed, SavedSearch
<1> QED BY <1>1, Invariant, PTL DEF Spec, SearchIsNeverIgnored

\* The order of detection makes of an address what it is: retail, asked last,
\* sees no grid that Shopify can list and no product that Shopify can read.
THEOREM WatchesAreWhatTheyAre == Spec => AddedAsWhatItIs
<1> DEFINE AsItIs ==
      LET page == row'.page
      IN  /\ row'.kind = "product" /\ IsAGrid(page) =>
              page.localized /\ ~(site.listing = "products" \/ MentionsFeed(site.atom))
          /\ row'.strategy = "retail" => ~(page.place = "product" /\ site.item = "variants")
          /\ row'.strategy = "shopify" => ~(page.place = "feed" /\ ParseFeed(site.page))
<1>1. Inv /\ [Next]_vars => [Added /\ fresh' = "asked" => AsItIs]_vars
  <2> SUFFICES ASSUME Inv, Next, Added, fresh' = "asked"
               PROVE  AsItIs
      OBVIOUS
  <2>1. Add
      BY AddedBy DEF AddPinned, Write, Added
  <2> DEFINE page == request.page
  <2>2. /\ row' \in Rows /\ row'.page = page
        /\ row'.kind = Sniffed.kind /\ row'.strategy = Sniffed.strategy
        /\ page \in Pages /\ request.next \in 1..5
        /\ fresh = "asked" /\ request.at = "sniffing"
    <3>1. Sniffed \in Watches /\ Write(Sniffed)
        BY <2>1, SniffedType DEF Inv, Add
    <3>2. row' \in Rows /\ row'.kind = Sniffed.kind
        BY <3>1, WriteType DEF Inv
    <3> QED BY <2>1, <3>1, <3>2, OrderType DEF Add, Write, Inv, TypeOK, Requests
  <2>3. /\ Sniffed = Detect(row'.strategy, page, site)
        /\ row'.strategy = DetectOrder[request.next] /\ Sniffed # Nothing
      BY <2>1, <2>2, SniffedType DEF Add, Sniffed, Inv
  <2>4. \A i \in 1..5 : i < request.next => Detect(DetectOrder[i], page, site) = Nothing
      BY <2>2, OrderType DEF Inv, AskedInOrder
  <2> USE DEF Nothing, Found, ParseFeed
  <2>5. CASE row'.strategy = "retail"
    <3>1. request.next = 5
        BY <2>2, <2>3, <2>5 DEF DetectOrder
    <3>2. Detect("shopify", page, site) = Nothing
        BY <2>4, <3>1 DEF DetectOrder
    <3>3. IsAGrid(page) => page.localized
        BY <2>3, <2>5 DEF Detect, RetailDetect, LooksLikeAListing
    <3>4. page.place # "product" => ~(site.listing = "products" \/ MentionsFeed(site.atom))
        BY <3>2 DEF Detect, ShopifyDetect
    <3>5. ~(page.place = "product" /\ site.item = "variants")
        BY <3>2 DEF Detect, ShopifyDetect
    <3> QED BY <2>2, <2>5, <3>3, <3>4, <3>5 DEF IsAGrid
  <2>6. CASE row'.strategy = "shopify"
    <3>1. request.next = 4
        BY <2>2, <2>3, <2>6 DEF DetectOrder
    <3>2. Detect("announce", page, site) = Nothing
        BY <2>4, <3>1 DEF DetectOrder
    <3> QED BY <2>2, <2>3, <2>6, <3>2
        DEF Detect, AnnounceDetect, ShopifyDetect, IsAGrid
  <2>7. CASE row'.strategy = "announce"
      BY <2>2, <2>3, <2>7 DEF Detect, AnnounceDetect
  <2>8. CASE row'.strategy \in {"target", "bestbuy"}
    <3>1. page \in Addresses \/ page.host = "store"
        BY DEF Inv, OwnPages, SomePage
    <3> QED BY <2>2, <2>3, <2>8, <3>1, WatchlistAssumption
        DEF Detect, TargetDetect, BestBuyDetect, IsAGrid
  <2> QED BY <2>2, <2>5, <2>6, <2>7, <2>8 DEF Rows, Strategies
<1> QED BY <1>1, Invariant, PTL DEF Spec, AddedAsWhatItIs
=============================================================================
