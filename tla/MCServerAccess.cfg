\* Two users, one of them an admin, two servers with every ownership and
\* every subuser row; pages around the first and per_page around its limits.
CONSTANTS
    Users = {u1, u2}
    Perms = {"control.start"}
    Admins = {u1}
    ServerIds = {1, 2}
    Pages = {0, 1, 2}
    PerPages = {0, 1, 101}
    Null = Null
    Nothing = Nothing
SPECIFICATION Spec
INVARIANT OtherListingFindsOthers
