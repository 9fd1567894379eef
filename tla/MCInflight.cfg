SPECIFICATION FairSpec
CONSTANTS
  Tasks = {t1, t2, t3}
  Keys = {k1, k2}
  Results = {ok, err}
  None = None
  Open = Open
INVARIANTS
  TypeOK
  NoOrphanEntry
  OneFlightPerKey
  ReleaseFindsOwnEntry
  FollowersAgreeWithLeader
PROPERTIES
  ImplementsSingleflight
  FlightsLand
  RegisteredFollowersResume
\* Every task calls acquire once, so the modelled system comes to rest.
CHECK_DEADLOCK FALSE
