CONSTANTS
    gf1 = gf1
    gf2 = gf2
    ka = ka
    kb = kb
    kc = kc
    Gf = {gf1, gf2}
    Key <- MCKey
    GfOf <- MCGfOf
    Hash <- MCHash
    Size = 2
    Probe = 2
    Definer = {d1}
    OBJNULL = OBJNULL
    Cnil = Cnil
    Ct = Ct
    MaxVersion <- MCMaxVersion
    MaxDepth = 2
    Nestings = {"early", "any"}
SPECIFICATION CacheSpec
INVARIANTS CacheInv CallsOwnMethod FreshMethods
CHECK_DEADLOCK FALSE
