\* Two shops, a slump or a meltdown, a channel and a store of two places.
SPECIFICATION FairSpec
CONSTANTS
    acme = acme
    globex = globex
    Shops = {acme, globex}
    DefaultShop = acme
    ShopOrder <- MCShopOrder
    AskedShops = {"none", globex}
    Asked <- MCAsked
    MeltdownDefault = 1
    SlumpDefault = 2
    MaxDuration = 2
    MaxPosts = 1
    MaxDeletes = 1
    Topics = {"orders/create", "transactions/create"}
    Room = 2
    MaxRetained = 2
    Page = 1
    MaxPage = 2
    SeedOrders = 1
    MaxEvents = 3
INVARIANTS
    TypeOK
    NothingLostOrTwice
    OrderFirst
    OnlyTheAsked
    DuplicateBlamesRefund
    RestShowsNewest
PROPERTIES
    QuietsDown
CHECK_DEADLOCK FALSE
