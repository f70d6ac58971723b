CONSTANTS
    Emails = {e1, e2}
    Folders = {f1, f2, f3}
    Sessions = {s1, s2}
    Kinds <- EveryKind
    MaxChanges = 4
SPECIFICATION Spec
CHECK_DEADLOCK FALSE
SYMMETRY Interchangeable
INVARIANTS TypeOK UidsNameOneMessage SidesAgree
PROPERTIES ChangesAreVisible TransactionsAreAtomic
