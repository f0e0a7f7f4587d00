SPECIFICATION Spec
CONSTANTS
    m1 = m1
    m2 = m2
    s1 = s1
    Item = {m1, m2, s1}
    tabOf <- Tabs
    None = None
    MaxActs = 4
INVARIANTS
    TypeOK
    OneLoop
    ListOfActiveTab
    ResetIsShown
    NoClickLost
    PanelOfSelected
    PageInv
PROPERTIES
    ListNeverGoesBack
\* Nothing has to happen any more once the page is not live.
CHECK_DEADLOCK FALSE
