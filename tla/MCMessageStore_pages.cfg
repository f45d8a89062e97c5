SPECIFICATION FairSpec
CONSTANTS
  Me = me
  Users = {u1}
  Contacts = {u1}
  Chats = {c1}
  Ids = {1, 2}
  Notes = {9}
  None = None
  Kinds = {"text", "service"}
  Page = 2
  MaxRuns = 2
  MaxDeeds = 4
  MaxQueue = 2
CHECK_DEADLOCK FALSE
INVARIANTS TypeOK InItsConversation ToldStays
PROPERTIES LostOnPurpose DeletedForGood SentAppears
