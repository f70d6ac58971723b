SPECIFICATION MailboxesSpec
CONSTANTS
  Rows = {f1, f2}
  Names = {"INBOX", "Inbox"}
  Lower <- LowerNames
  Inbox = "INBOX"
  Notes = {e1}
  Devices = {d1}
  MaxSeq = 4
PROPERTY ModSeqsOnlyGrow
CHECK_DEADLOCK FALSE
