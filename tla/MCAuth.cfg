\* Three concurrent requests; two existing users, each with or without a
\* TOTP secret and one recovery code; a third user that may
\* register; two passwords; one API key name.
CONSTANTS
    Workers = {w1, w2, w3}
    u1 = u1
    u2 = u2
    u3 = u3
    c1 = c1
    c2 = c2
    Users = {u1, u2, u3}
    Registered = {u1, u2}
    Secrets = {s1}
    Codes = {c1, c2}
    RecoveryCodes <- MCRecoveryCodes
    Passwords = {p1, p2}
    KeyNames = {k1}
    NoTotp = NoTotp
    Bogus = Bogus
    BadLength = BadLength
    Invalid = Invalid
    None = None
    PasswordLogin = PasswordLogin
    Registration = Registration
SPECIFICATION Spec
SYMMETRY MCSymmetry
INVARIANTS
    TypeOK
    SecondFactorBeforeSession
    RecoveryCodeSingleUse
