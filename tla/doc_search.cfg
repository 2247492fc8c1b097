SPECIFICATION MCSpec
CONSTANTS
  Label <- MCLabel
  Index <- MCIndex
  SearchData <- MCSearchData
  Char = {97}
  MaxText = 2
  MaxTimers = 1
  MaxPosted = 1
INVARIANTS TypeOK RemembersOpenSearch
PROPERTIES PopupStaysUnderPointer KeysFollowTheList ResultsArrive
