---------------------------- MODULE MCHandshake -----------------------------
EXTENDS Handshake

\* "long" has 33 to 221 bytes, of which the first 32 are the name "short"; "huge" has
\* more.
MCTruncate(name) == IF name = "long" THEN "short" ELSE IF name = "huge" THEN "h" ELSE name
MCOverlong(name) == name = "huge"

\* For every name and password the salts give every hash modulo the order 7 of the
\* base point, 0 included; the two passwords always differ up to sign.
MCPasswordHash(name, pass, salt) ==
    LET i == IF pass = "p" THEN salt
             ELSE IF salt = 0 THEN 1 ELSE IF salt = 4 THEN 7 ELSE 2 * salt
    IN  CASE name = "short" -> i
          [] name = "long"  -> i + 7
          [] OTHER          -> 3 * i

MCSha256(n) == (n * 29 + 17) % 64

\* The hypotheses of the proofs hold on the small curve.
ASSUME MCPrimitives == NoCollision /\ SecretsAgree
=============================================================================
