SPECIFICATION AccountsSpec
CONSTANTS
    root = root
    ann = ann
    t1 = t1
    q1 = q1
    q2 = q2
    Nobody = Nobody
    Users = {root, ann}
    Root = root
    Tokens = {t1}
    Slots = {q1, q2}
SYMMETRY Alike
INVARIANTS
    AccountsType
    NothingDangles
PROPERTIES
    PowerIsGranted
CHECK_DEADLOCK FALSE
