CONSTANTS
    Emails = {e1, e2}
    Folders = {"INBOX", "Trash"}
    DefaultFolders = {"INBOX", "Trash"}
    Sessions = {c}
    PopClients = {p}
    FirstFolder = "INBOX"
    MaxChanges = 5
SPECIFICATION ClientsSpec
CHECK_DEADLOCK FALSE
SYMMETRY Interchangeable
INVARIANTS ClientsTypeOK UploadNamesItsMessage
PROPERTY QuitTakesMarkedOnly
