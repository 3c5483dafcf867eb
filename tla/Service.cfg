SPECIFICATION SpecParts
CONSTANTS
    Parts = {"lockout", "tokens", "operated", "web", "waiting", "reading", "settled", "currencies", "file", "service"}
    MaxAttempts = 2  LockMinutes = 3  Slowest = 1
    c1 = c1  c2 = c2
    ana = ana  bob = bob  luis = luis
    Calls = {c1, c2}
    Users = {ana, bob}  Players = {luis}
    Passwords = {1, 2}  MaxTokens = 3
    Accounts <- OnlyAna
    tab = tab  switch = switch  request = request
    server = server  hand = hand
    Half = Half
    None = None
INVARIANT RateLimited
INVARIANT SessionsAreAccountedFor
PROPERTY SessionsLastUntilEnded
PROPERTY ReadIsComplete
PROPERTY CopyBeforeChange
PROPERTY EndsInTheEnd
