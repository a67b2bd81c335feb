\* The curve y^2 = x^3 + 22 x^2 + x over GF(53) has 56 points; as on Curve25519 the
\* cofactor is 8 and the base point x = 9, of order 7.
CONSTANTS
    P = 53
    CURVE_ORDER = 7
    WEIERSTRASS_A = 34
    MONT_A = 22
    BaseX = 9
    sha256_bytes <- MCSha256
    Names = {"short", "long", "huge"}
    Passwords = {"p", "q"}
    None = None
    Truncate <- MCTruncate
    Overlong <- MCOverlong
    PasswordHash <- MCPasswordHash
    Salts = {0, 1, 2, 3, 4, 5, 6}
    Keys = {1, 2, 3, 4, 5, 6, 7, 11, 13}
    Nonces = {"n1", "n2"}
SPECIFICATION HandshakeSpec
INVARIANT
    NoFalseRefusal
PROPERTY
    ImplementsLogin
