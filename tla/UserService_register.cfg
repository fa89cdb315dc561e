\* Two registrations and logins at a time, with two phones.
SPECIFICATION Spec
CONSTANTS
    Uids = {u1, u2}
    Slots = {s1, s2}
    Phones = {"p1", "p2"}
    Passwords = {"pw1"}
    Names = {"ann"}
    Avatars = {"a1"}
    Blank = Blank
    NoRow = NoRow
    NoCall = NoCall
INVARIANTS
    TypeOK
    PhonesUnique
    TokensAgree
