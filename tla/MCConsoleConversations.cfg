SPECIFICATION Spec
CONSTANTS
  c1 = c1
  c2 = c2
  a1 = a1
  a2 = a2
  Convs = {c1, c2}
  Accounts = {a1, a2}
  AccountOf <- SampleAccounts
  All = All
  Tasks = {t1}
  MaxQueue = 1
  Unloaded = Unloaded
  NoConv = NoConv
  NoPanel = NoPanel
  Rows = {1, 2, 3}
  Times = {0, 1}
  Home = Home
  Elsewhere = Elsewhere
  NoTitle = NoTitle
  OldTitle = OldTitle
  NewTitle = NewTitle
  MaxEvents = 2
CONSTRAINT OneUnread
SYMMETRY Renamings
INVARIANTS SelectionIsShown Sound MergingAgrees
PROPERTIES BatchIsOnScreen SingleReportIsTrue
