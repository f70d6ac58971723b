CONSTANTS
    Emails = {e1}
    Folders = {"INBOX", "Trash"}
    DefaultFolders = {"INBOX", "Trash"}
    Sessions = {s1}
    MaxChanges = 6
SPECIFICATION Spec
CHECK_DEADLOCK FALSE
PROPERTY PurgeTakesTrashOnly
