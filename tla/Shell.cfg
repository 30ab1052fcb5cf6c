SPECIFICATION Spec
CONSTANTS
  Places <- MCPlaces
  Login <- MCLogin
  Home <- MCHome
  Protected = {"config", "account"}
  Loading = {"auth", "account"}
  Keys = {k1}
  None = None
  MaxNavs = 4
  MaxAsked = 3
  MaxLogins = 1
CHECK_DEADLOCK FALSE
INVARIANTS TypeOK UrlIsShown SubIsShown ClosedIsOutside
