SPECIFICATION MCSpec
CONSTANTS
    Calls = {r1, r2, r3}
    MaxRequests = 2
    Window = 3
    Never = Never
    Menus <- FewMenus
    PageSizes = {1, 2, 3}
    OrderIds = {1, 2, 3}
    Rows <- FewRows
    Filters <- FewFilters
    Limits = {1, 2}
    MaxChanges = 1
    NoOrder = NoOrder
    Unfiltered = Unfiltered
    NoValue = NoValue
    Kitchens <- SmallKitchens
    Histories <- ShortHistories
    RecentOrders = 2
    HoursPerDay = 3
    ReportRows = 10
    Customers <- TwoCustomers
    Suspended = {"bob"}
    ActiveDays = 1
    Books <- ShortBooks
    Now = 8
    Zones <- SomeZones
    MaxDays = 2
    Unset = Unset
    Letters = 2
    Tables <- SmallTables
INVARIANTS
    FoodsAreOnOnePageUnlessTied
    WalksMissAtMostDepartures
    RepeatsNeedArrivals
    FavouritesNeverSink
    TrendsLoseOnlyUnnamedDates
    ReportsAgreeWithDashboards
    ExportsReadBack
PROPERTIES
    RefusalsEnd
    AllowancesAreAWindowApart
