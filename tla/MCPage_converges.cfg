SPECIFICATION FairSpec
CONSTANTS
    m1 = m1
    m2 = m2
    s1 = s1
    Item = {m1, m2, s1}
    tabOf <- Tabs
    None = None
    MaxActs = 3
PROPERTIES
    ListConverges
    PanelConverges
\* Nothing has to happen any more once the page is not live.
CHECK_DEADLOCK FALSE
