CONSTANTS
  Absent = Absent
  MyHtmlTags <- MCTags
  MyHtmlTexts <- MCTexts
  MyHtmlCharsets <- MCMyHtmlCharsets
  QtCharsets <- MCQtCharsets
  NoPage = NoPage
  StartPage <- MCStartPage
  Pages <- MCPages
  Excluded <- MCExcluded
  Disallowed <- MCDisallowed
SPECIFICATION LinksSpec
INVARIANTS LinksTypeOK NodesAgree ParsersAgree StaysOnHost StaysInFolder
           OptionsAreMonotonic
CHECK_DEADLOCK FALSE
