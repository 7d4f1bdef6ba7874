SPECIFICATION Spec
CONSTANTS
  lister = lister
  other = other
  shell = shell
  Absent = Absent
  AllGpus = AllGpus
  Thread <- Threads
  Exempt = {shell}
  Mode = {"hybrid", "integrated", "smart"}
  Listing <- Returned
  Header = 2
  MaxRecord = 3
  MaxBuffer = 9
  Word = 10
  Slots = 1
  MaxChanges = 2
  MaxFaults = 1
INVARIANT ReaderMeetsRest
INVARIANT ListsWhatOpens
INVARIANT NoneLeftBehind
