\* Two activations of one knob, the second while the first one's goroutine sleeps.
SPECIFICATION KnobSpec
CONSTANTS
    Shops = {"acme", "globex"}
    DefaultShop = "acme"
    AskedShops = {"acme", "globex"}
    Asked = {1, 3}
    MeltdownDefault = 1
    SlumpDefault = 2
    MaxDuration = 3
    MaxPosts = 2
    MaxDeletes = 1
PROPERTIES
    StandsUntilOver
CHECK_DEADLOCK FALSE
