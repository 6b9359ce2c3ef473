CONSTANTS
  Absent = Absent
  MyHtmlTags <- MCTags
  MyHtmlTexts <- MCTexts
  MyHtmlCharsets <- MCMyHtmlCharsets
  QtCharsets <- MCQtCharsets
  NoPage = NoPage
  StartPage <- MCStartPage
  Pages <- MCPages
  Excluded <- MCExcluded
  Disallowed <- MCDisallowed
SPECIFICATION LinksSpec
INVARIANT ExternalsAreNotScheduled
CHECK_DEADLOCK FALSE
