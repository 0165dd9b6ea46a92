------------------------------ MODULE Tokens ------------------------------
(***************************************************************************)
(* What the builtins sign and check: session cookies, sign_cookie,         *)
(* jwt.sign, csrf_token, magic links, TOTP codes, password hashes          *)
(* (builtins.go, auth_passwordless.go) and the webhooks of providers.      *)
(* Nothing is stored: a credential is checked with the secret and the      *)
(* clock of the server that meets it, which may have changed.              *)
(***************************************************************************)
EXTENDS Integers, Sequences, FiniteSets, FiniteSetsExt

CONSTANTS Payloads,   \* texts that are signed: sequences of symbols, dots among them
          Secrets,    \* names of secrets; the server changes from one to another
          Lives,      \* life times, in ticks: a session's max_age, minutes of a link
          DefaultLife,
          Slot,       \* ticks of a TOTP slot
          Drift, Tolerance,
          MaxClock, MaxIssued

VARIABLES clock, secret,
          issued,    \* history: the credentials made, in order
          jar        \* [Domains -> the session cookie a browser keeps]

tokenVars == <<clock, secret, issued, jar>>

-----------------------------------------------------------------------------
(* Texts: sequences of symbols.  An encoding or a digest is one symbol, which *)
(* holds no dot whatever it encodes.                                          *)

Symbol(tag, holds) == [tag |-> tag, holds |-> holds]
Dot        == Symbol(".", <<>>)
Enc(text)  == Symbol("base64", text)
Hmac(key, text) == Symbol(key, text)
Number(n)  == Symbol("number", [k \in 1 .. n |-> Symbol("1", <<>>)])
Ticks(symbol) == Len(symbol.holds)

Dots(text)     == {k \in DOMAIN text : text[k] = Dot}
Before(text, k) == SubSeq(text, 1, k - 1)
After(text, k)  == SubSeq(text, k + 1, Len(text))

NoText == <<Symbol("null", <<>>)>>

\* A secret is no name of a symbol, and null is not signed.
ASSUME TokensAssumption ==
    /\ Secrets \cap {".", "base64", "number", "header", "null", "pbkdf2", "1"} = {}
    /\ \A p \in Payloads : p \in Seq({p[k] : k \in DOMAIN p}) /\ p # NoText
    /\ Lives \subseteq Int /\ {DefaultLife, Slot} \subseteq Nat \ {0} /\ Drift \in Nat
    /\ Tolerance \in Int /\ MaxClock \in Nat

-----------------------------------------------------------------------------
(* Making and checking *)

Kinds == {"session", "cookie", "jwt", "csrf", "magic", "totp", "password", "stripe", "slack", "svix", "hex"}

\* Those that carry the time they end at: an exp claim that the caller wrote, the
\* minutes of a link.
Timed == {"jwt", "magic"}
LifeOf(kind, life) == IF kind = "magic" /\ life <= 0 THEN DefaultLife ELSE life

\* sign_cookie, and session.create over its encoded claims.
SignCookie(text, key) == text \o <<Dot, Enc(<<Hmac(key, text)>>)>>
JwtSign(payload, until, key) == SignCookie(<<Symbol("header", <<>>), Dot, Enc(Append(payload, until))>>, key)
CsrfToken(session, key) == <<Enc(<<Hmac(key, session)>>)>>
MagicLinkCreate(payload, until, key) ==
    LET text == <<Enc(payload), Dot, until>> IN text \o <<Dot, Hmac(key, text)>>
TotpAt(key, counter) == <<Hmac(key, <<Number(counter)>>)>>
\* Each hash has a salt of its own.
PasswordHash(payload, salt) == <<salt, Hmac("pbkdf2", <<salt>> \o payload)>>

\* The providers of webhooks: most sign a time stamp with the payload.
Stamped(stamp, payload, key) == <<stamp, Hmac(key, <<stamp, Dot>> \o payload)>>

Made(kind, payload, life, key) ==
    LET until == Number(clock + LifeOf(kind, life))
    IN  CASE kind = "session"  -> SignCookie(<<Enc(payload)>>, key)
          [] kind = "cookie"   -> SignCookie(payload, key)
          [] kind = "jwt"      -> JwtSign(payload, until, key)
          [] kind = "csrf"     -> CsrfToken(payload, key)
          [] kind = "magic"    -> MagicLinkCreate(payload, until, key)
          [] kind = "totp"     -> TotpAt(key, clock \div Slot)
          [] kind = "password" -> PasswordHash(payload, Number(Len(issued)))
          [] kind \in {"stripe", "slack", "svix"} -> Stamped(Number(clock), payload, key)
          [] kind = "hex"      -> <<Hmac(key, payload)>>

\* SplitN at the first dot, for a session; at the last one, for a cookie.
OpenAt(text, k, key) ==
    IF After(text, k) = <<Enc(<<Hmac(key, Before(text, k))>>)>> THEN Before(text, k) ELSE NoText

SessionRead(text, key) ==
    IF Dots(text) = {} THEN NoText
    ELSE LET opened == OpenAt(text, Min(Dots(text)), key)
         IN  IF opened = NoText THEN NoText ELSE opened[1].holds

\* Mutant: the value ends at its first dot.
VerifyCookieShort(text, key) == IF Dots(text) = {} THEN NoText ELSE OpenAt(text, Min(Dots(text)), key)

VerifyCookie(text, key) == IF Dots(text) = {} THEN NoText ELSE OpenAt(text, Max(Dots(text)), key)

\* A token lives through the second of its exp.
JwtVerify(text, key) ==
    LET opened == IF Cardinality(Dots(text)) # 2 THEN NoText ELSE OpenAt(text, Max(Dots(text)), key)
        claims == IF opened = NoText THEN NoText ELSE opened[3].holds
    IN  IF opened = NoText \/ Ticks(claims[Len(claims)]) < clock THEN NoText
        ELSE SubSeq(claims, 1, Len(claims) - 1)

MagicLinkVerify(text, key) ==
    IF Cardinality(Dots(text)) # 2 \/ text[5] # Hmac(key, SubSeq(text, 1, 3)) \/ clock > Ticks(text[3])
    THEN NoText ELSE text[1].holds

TOTPVerify(text, key) ==
    \E offset \in -Drift .. Drift :
          /\ (clock \div Slot) + offset >= 0
          /\ text = TotpAt(key, (clock \div Slot) + offset)

Distance(x, y) == IF x < y THEN y - x ELSE x - y

\* A time within the tolerance, unless that is not positive.
Timely(text) == Tolerance > 0 => Distance(clock, Ticks(text[1])) <= Tolerance

\* Stripe sends a signature for each secret of the endpoint, Slack one.
VerifyStripe(text, payload, key) ==
    Timely(text) /\ \E k \in 2 .. Len(text) : text[k] = Stamped(text[1], payload, key)[2]
VerifySlack(text, payload, key) == text = Stamped(text[1], payload, key) /\ Timely(text)

\* The stamp of Svix is signed and not looked at.
VerifySvix(text, payload, key) == \E k \in 2 .. Len(text) : text[k] = Stamped(text[1], payload, key)[2]

\* verify_github, verify_shopify, verify_webhook.
VerifyPlain(text, payload, key) == text = <<Hmac(key, payload)>>

VerifyCsrf(text, session, key) == text = CsrfToken(session, key)

PasswordVerify(text, payload) == text = PasswordHash(payload, text[1])

\* What a check of credential c returns; a check that says yes or no is given the
\* payload, and stands for it or for null.
Checked(c, key) ==
    LET yes(ok) == IF ok THEN c.payload ELSE NoText
    IN  CASE c.kind = "session"  -> SessionRead(c.text, key)
          [] c.kind = "cookie"   -> VerifyCookie(c.text, key)
          [] c.kind = "jwt"      -> JwtVerify(c.text, key)
          [] c.kind = "magic"    -> MagicLinkVerify(c.text, key)
          [] c.kind = "csrf"     -> yes(VerifyCsrf(c.text, c.payload, key))
          [] c.kind = "totp"     -> yes(TOTPVerify(c.text, key))
          [] c.kind = "password" -> yes(PasswordVerify(c.text, c.payload))
          [] c.kind = "stripe"   -> yes(VerifyStripe(c.text, c.payload, key))
          [] c.kind = "slack"    -> yes(VerifySlack(c.text, c.payload, key))
          [] c.kind = "svix"     -> yes(VerifySvix(c.text, c.payload, key))
          [] c.kind = "hex"      -> yes(VerifyPlain(c.text, c.payload, key))

-----------------------------------------------------------------------------
(* Actions *)

Domains  == {"host", "site"}
NoCookie == [text |-> <<>>, until |-> -1]

TokensInit ==
    /\ clock = 1 /\ secret \in Secrets
    /\ issued = <<>>
    /\ jar = [d \in Domains |-> NoCookie]

Record(kind, payload, life, key) ==
    /\ Len(issued) < MaxIssued
    /\ issued' = Append(issued, [kind |-> kind, payload |-> payload, life |-> life, secret |-> key,
                                 at |-> clock, text |-> Made(kind, payload, life, key)])

Issue(kind, payload, life) ==
    /\ kind # "session"
    /\ Record(kind, payload, life, secret)
    /\ UNCHANGED <<clock, secret, jar>>

\* session.create: the browser keeps the cookie max_age, for as long as it runs when
\* that is 0, and not at all when it is negative.
SessionCreate(payload, maxAge, domain) ==
    /\ Record("session", payload, maxAge, secret)
    /\ jar' = [jar EXCEPT ![domain] =
          CASE maxAge > 0 -> [text |-> Made("session", payload, maxAge, secret), until |-> clock + maxAge]
            [] maxAge = 0 -> [text |-> Made("session", payload, maxAge, secret), until |-> MaxClock + 1]
            [] maxAge < 0 -> NoCookie]
    /\ UNCHANGED <<clock, secret>>

\* session.clear names the cookie of the host itself: it sends no domain.
SessionClear ==
    /\ jar' = [jar EXCEPT !["host"] = NoCookie]
    /\ UNCHANGED <<clock, secret, issued>>

Rotate(s) == secret' = s /\ s # secret /\ UNCHANGED <<clock, issued, jar>>

\* A browser drops what has run out.
ClockTick ==
    /\ clock < MaxClock
    /\ clock' = clock + 1
    /\ jar' = [d \in Domains |-> IF jar[d].until <= clock + 1 THEN NoCookie ELSE jar[d]]
    /\ UNCHANGED <<secret, issued>>

TokensNext ==
    \/ \E payload \in Payloads, kind \in Kinds \ Timed : Issue(kind, payload, 0)
    \/ \E payload \in Payloads, life \in Lives :
          \/ \E kind \in Timed : Issue(kind, payload, life)
          \/ \E d \in Domains : SessionCreate(payload, life, d)
    \/ SessionClear \/ ClockTick
    \/ \E s \in Secrets : Rotate(s)

TokensSpec == TokensInit /\ [][TokensNext]_tokenVars

-----------------------------------------------------------------------------
(* Properties *)

\* How old a credential may be when it is checked.
InTime(c) ==
    CASE c.kind \in Timed -> clock <= c.at + LifeOf(c.kind, c.life)
      [] c.kind = "totp"  -> Distance(clock \div Slot, c.at \div Slot) <= Drift
      [] c.kind \in {"stripe", "slack"} -> Tolerance <= 0 \/ clock - c.at <= Tolerance
      [] OTHER -> TRUE

\* A check, whenever it is made, gives back what was signed, dots and all, exactly when
\* the secret is still the one it was made with (a password has none) and its time has
\* not run out: at no rotation, and no second at a boundary, is a good credential
\* refused or an old one taken.
Vouched ==
    \A n \in DOMAIN issued :
       LET c == issued[n]
       IN  Checked(c, secret) = IF (c.kind = "password" \/ c.secret = secret) /\ InTime(c)
                                THEN c.payload ELSE NoText

\* A code is good for drift whole slots after it was shown, and never for more than
\* one slot longer (auth_passwordless.go: "90-second total window").
CodeWindow ==
    \A n \in DOMAIN issued :
       issued[n].kind = "totp" /\ issued[n].secret = secret =>
         LET age == clock - issued[n].at
         IN  /\ age <= Drift * Slot => Checked(issued[n], secret) # NoText
             /\ age >= (Drift + 1) * Slot => Checked(issued[n], secret) = NoText

\* The cookie a browser sends was made by the last session.create for its domain, is not
\* older than its max_age and was not cleared since; the server itself keeps no age.
JarIsLast ==
    \A d \in Domains :
       jar[d] # NoCookie =>
          \E n \in DOMAIN issued :
             /\ issued[n].kind = "session" /\ issued[n].text = jar[d].text
             /\ issued[n].life > 0 => clock < issued[n].at + issued[n].life

\* Credentials hold for as long as they say, and no longer.
CredentialsHold == Vouched /\ CodeWindow /\ JarIsLast
=============================================================================
