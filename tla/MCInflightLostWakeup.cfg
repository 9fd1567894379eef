SPECIFICATION FairSpec
CONSTANTS
  Tasks = {t1, t2}
  Keys = {k1}
  Results = {ok}
  None = None
  Open = Open
PROPERTY FollowersResume
\* Every task calls acquire once, so the modelled system comes to rest.
CHECK_DEADLOCK FALSE
