SPECIFICATION FairSpec

CONSTANT Configs <- MCConfigs

INVARIANTS
  NothingIsLeft
  OnlyTheseHang
  AdvertisedIsServed
  IdentityAgrees

PROPERTY SignalEnds
