SPECIFICATION SpellsSpec
CONSTANTS
    me = me
    anon = anon
    flash = flash
    smite = smite
    RiotIds = {me, anon}
    Anonymous = anon
    SpellNames = {flash, smite}
    BaseCooldown <- Bases
    DefaultLoadout <- FlashFirst
    Sessions <- HiddenNames
    Haste = 18
    TicksPerSecond = 2
    Expiration = 8
    HostOffset = 0
PROPERTIES
    OnlyTogglesStart
