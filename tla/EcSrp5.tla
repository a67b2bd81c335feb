------------------------------- MODULE EcSrp5 -------------------------------
(***************************************************************************)
(* The arithmetic of src/src/ecsrp5.rs: a Montgomery curve in Weierstrass  *)
(* form, over the prime P, and the two computations of the shared secret.  *)
(* The parameters are constants, so that TLC can use a small curve; every  *)
(* formula is the one of the code, reduced modulo P where that keeps the   *)
(* numbers small.  SHA-256 is a constant operator.                         *)
(*                                                                         *)
(* prime_mod_sqrt is modelled for P = 5 (mod 8), the case of Curve25519;   *)
(* the code's branches for other primes are never taken.                   *)
(***************************************************************************)
EXTENDS Integers

CONSTANTS
    P,                  \* the prime
    CURVE_ORDER,        \* the order of the base point
    WEIERSTRASS_A,
    MONT_A,
    BaseX,              \* the base point, 9 in the code
    sha256_bytes(_)     \* SHA-256 of a number

ASSUME CurveAssumption ==
    /\ P \in Nat /\ P > 5 /\ P % 8 = 5
    /\ CURVE_ORDER \in Nat \ {0}
    /\ MONT_A \in 1 .. P - 1
    /\ WEIERSTRASS_A \in 0 .. P - 1
    /\ (3 * WEIERSTRASS_A + MONT_A * MONT_A - 3) % P = 0
    /\ BaseX \in 0 .. P - 1

-----------------------------------------------------------------------------
(* Modular arithmetic *)

\* a^e modulo P, by repeated squaring
modpow(a, e) ==
    LET pow[k \in 0 .. e] ==
          IF k = 0 THEN 1
          ELSE LET half == pow[k \div 2]
                   square == (half * half) % P
               IN  IF k % 2 = 1 THEN (square * a) % P ELSE square
    IN  pow[e]

modinv(a) == modpow(a, P - 2)

\* -1, 0 or 1
legendre_symbol(a) ==
    LET l == modpow(a, (P - 1) \div 2)
    IN  IF l = P - 1 THEN -1 ELSE IF l = 0 THEN 0 ELSE 1

NoRoot == -1

\* Atkin's algorithm: a square root of a, NoRoot if there is none.  The other root is
\* P - x.
prime_mod_sqrt(a) ==
    IF a = 0 THEN 0
    ELSE IF legendre_symbol(a) # 1 THEN NoRoot
    ELSE LET v == modpow((2 * a) % P, (P - 5) \div 8)
             i == (((2 * a * v) % P) * v) % P
             x == (((a * v) % P) * ((i - 1) % P)) % P
         IN  IF (x * x) % P = a THEN x ELSE NoRoot

-----------------------------------------------------------------------------
(* Points *)

Infinity == [x |-> 0, y |-> 0, infinity |-> TRUE]
Point(px, py) == [x |-> px, y |-> py, infinity |-> FALSE]

Slope(s, t) ==
    IF s = t
      THEN ((3 * s.x * s.x + WEIERSTRASS_A) * modinv((2 * s.y) % P)) % P
      ELSE (((t.y - s.y) % P) * modinv((t.x - s.x) % P)) % P

add(s, t) ==
    IF s.infinity THEN t
    ELSE IF t.infinity THEN s
    ELSE IF s.x = t.x /\ s.y # t.y THEN Infinity
    ELSE LET lam == Slope(s, t)
             x3  == (lam * lam - s.x - t.x) % P
         IN  Point(x3, (lam * (s.x - x3) - s.y) % P)

\* Double and add, from the least significant bit.
scalar_mul(pt, scalar) ==
    LET loop[k \in 0 .. scalar] ==
          IF k = 0 THEN [result |-> Infinity, base |-> pt, rest |-> scalar]
          ELSE LET s == loop[k - 1]
               IN  IF s.rest = 0 THEN s
                   ELSE [result |-> IF s.rest % 2 = 1 THEN add(s.result, s.base)
                                                      ELSE s.result,
                         base   |-> add(s.base, s.base),
                         rest   |-> s.rest \div 2]
    IN  loop[scalar].result

-----------------------------------------------------------------------------
(* WCurve *)

conversion_from_m == (MONT_A * modinv(3)) % P
conversion_to_m == (P - conversion_from_m) % P

\* The x coordinate and the parity of y
to_montgomery(pt) ==
    [x |-> (pt.x + conversion_to_m) % P, parity |-> pt.y % 2]

\* The point with this x coordinate and parity, Infinity if there is none
lift_x(x_mont, parity) ==
    LET x == x_mont % P
        y == prime_mod_sqrt((((x * x) % P) * x + MONT_A * ((x * x) % P) + x) % P)
        other == IF y = 0 THEN 0 ELSE P - y
    IN  IF y = NoRoot THEN Infinity
        ELSE Point((x + conversion_from_m) % P,
                   IF y % 2 = parity THEN y ELSE other)

G == lift_x(BaseX, 0)

gen_public_key(priv_key) == to_montgomery(scalar_mul(G, priv_key))

\* Hash the next number until the result is on the curve; P attempts are enough here.
redp1(x_bytes, parity) ==
    LET start == sha256_bytes(x_bytes)
        try(n) == lift_x(sha256_bytes(start + n), parity)
        loop[n \in 0 .. P] ==
          IF ~try(n).infinity THEN try(n) ELSE loop[n + 1]
    IN  loop[0]

-----------------------------------------------------------------------------
(* The exchange *)

\* The server's public key, blinded with the validator
BlindedKey(s_b, x_gamma) == add(scalar_mul(G, s_b), redp1(x_gamma, 0))

\* Hash of the two public keys
KeyHash(x_w_a, x_w_b) == sha256_bytes(x_w_a * P + x_w_b)

\* z of client_authenticate; i is the hash of its name and password
ClientSecret(i, s_a, x_w_a, w_b) ==
    LET v      == redp1(gen_public_key(i).x, 1)
        j      == KeyHash(x_w_a, w_b.x)
        scalar == (i * j + s_a) % CURVE_ORDER
    IN  to_montgomery(scalar_mul(add(lift_x(w_b.x, w_b.parity), v), scalar)).x

\* z of server_authenticate; gamma is the validator derived at startup
ServerSecret(gamma, s_b, w_a, x_w_b) ==
    LET j   == KeyHash(w_a.x, x_w_b)
        sum == add(lift_x(w_a.x, w_a.parity),
                   scalar_mul(lift_x(gamma.x, gamma.parity), j))
    IN  to_montgomery(scalar_mul(sum, s_b)).x

=============================================================================
