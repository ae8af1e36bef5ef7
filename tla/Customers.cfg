\* Two workers racing with failing statements, and one worker alone with restarts.
SPECIFICATION MCSpec
CONSTANTS
  Null = Null
  Names <- MCNames
  Managers <- MCManagers
  Lower <- MCLower
  OwnerOf <- MCOwnerOf
  Workers = {w1, w2}
  Users = {"eve", "Tom", "tom"}
  Contacts = {"k1", "k2"}
  Details = {"d1", "d2"}
  Offered = {"add_customer", "update_customer", "delete_customer", "list", "get_customers"}
  MaxSlots = 2
  MaxRows = 2
  DiskFaults = FALSE
  Crashes = TRUE
INVARIANTS TypeOK
PROPERTIES RowsChangeByTheirOwner RequestsAreAnswered AnswersSayWhatIsStored
