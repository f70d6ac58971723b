CONSTANTS
    Emails = {e1, e2}
    Folders = {"INBOX", "Trash", "Work"}
    DefaultFolders = {"INBOX", "Trash"}
    Sessions = {s1}
    MaxChanges = 6
SPECIFICATION Spec
CHECK_DEADLOCK FALSE
SYMMETRY Interchangeable
PROPERTIES UidsAreNeverReused NoMessageDropsOut
