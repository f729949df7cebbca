------------------------------ MODULE PartsProofs -----------------------------
(***************************************************************************)
(* What holds of the parts of the Hub that keep state of their own, for    *)
(* every value of the constants: who the Hub is at Kitsu, the shell with   *)
(* its dashboards and workers, the import of a production and its data,    *)
(* and an installed workspace; alone and side by side.                     *)
(***************************************************************************)
EXTENDS MCParts, FiniteSetTheorems, WellFoundedInduction, TLAPS

(***************************************************************************)
(* Who the Hub is: the log-in, the seeder and the identity page take turns *)
(* with one client.                                                        *)
(***************************************************************************)

Somewhere == Sites \cup {Nowhere}
Tokens == [who : People \cup {Admin, NoPerson}, at : Somewhere]
Clients == [host : Somewhere, token : Tokens]

SessionShape ==
    /\ place \in {"off", "login", "desk"} /\ inMemory \in BOOLEAN
    /\ client \in Clients /\ authHost \in Somewhere
    /\ signedIn \in People \cup {NoPerson} /\ environ \in People \cup {NoPerson}
    /\ sessionFile \in [is : {"none", "torn", "kept"}, host : Somewhere, token : Tokens]
    /\ attempt \in [who : People \cup {NoPerson}, to : Somewhere,
                    pc : {"idle", "host", "password", "person", "save", "done", "failed"}]
    /\ seeding \in [pc : {"idle", "admin", "accounts", "over"}, back : Somewhere]
    /\ work \in Clients /\ testers \subseteq Sites /\ astray \in BOOLEAN

\* Attempts are made on the login screen; whatever takes the client or works
\* under it begins at the desk and ends before the desk is left.
TakeTurns ==
    /\ attempt # NoAttempt => place = "login"
    /\ attempt.pc # "idle" => attempt.who \in People /\ attempt.to \in Sites
    /\ seeding.pc # "idle" => place = "desk" /\ astray
    /\ seeding.pc = "idle" => seeding = NotSeeding
    /\ work # NoWork => place = "desk"

\* What the steps of a log-in have settled so far.
Settling ==
    /\ attempt.pc \in {"password", "person", "save", "done"} =>
           authHost = attempt.to /\ client.host = attempt.to
    /\ attempt.pc \in {"person", "save", "done"} =>
           client.token = Token(attempt.who, attempt.to)
    /\ attempt.pc \in {"save", "done"} =>
           signedIn = attempt.who /\ attempt.who \notin NoAccess
    /\ attempt.pc = "done" => sessionFile = KeptSession /\ ~ astray

\* What a log-in has settled holds at the desk.
Settled ==
    place = "desk" =>
        /\ signedIn \in People \ NoAccess /\ environ = signedIn
        /\ sessionFile.is = "kept" /\ sessionFile.token = Token(signedIn, sessionFile.host)
        /\ authHost \in Sites /\ client.host \in Sites
        /\ ~ astray => /\ client.host = authHost /\ client.token = sessionFile.token
                       /\ sessionFile.host = authHost
        /\ work # NoWork => work.host \in Sites
        /\ work # NoWork /\ ~ astray => client = work

SessionInv == SessionShape /\ TakeTurns /\ Settling /\ Settled

LEMMA SessionStarts == SessionInit => SessionInv
<1> SUFFICES ASSUME SessionInit PROVE SessionInv
    OBVIOUS
<1>1. NoToken \in Tokens /\ [host |-> Nowhere, token |-> NoToken] \in Clients /\ NoWork \in Clients
    BY DEF NoToken, Token, Tokens, Clients, NoWork, Somewhere
<1>2. SessionShape
    BY <1>1 DEF SessionInit, SessionShape, NoSessionFile, NoAttempt, NotSeeding, Somewhere
<1>3. TakeTurns /\ Settling /\ Settled
    BY DEF SessionInit, TakeTurns, Settling, Settled, NoAttempt, NotSeeding
<1>4. QED BY <1>2, <1>3 DEF SessionInv

\* A Hub that ends leaves nothing in memory.
LEMMA FreshIsQuiet ==
    ASSUME SessionInv, Fresh, place' = "off", inMemory' = inMemory, testers' = testers,
           sessionFile' \in {sessionFile, NoSessionFile, TornSession, KeptSession}
    PROVE  SessionInv'
<1>1. NoToken \in Tokens /\ [host |-> Nowhere, token |-> NoToken] \in Clients /\ NoWork \in Clients
    BY DEF NoToken, Token, Tokens, Clients, NoWork, Somewhere
<1>2. sessionFile' \in [is : {"none", "torn", "kept"}, host : Somewhere, token : Tokens]
    BY <1>1 DEF SessionInv, SessionShape, NoSessionFile, TornSession, KeptSession, Somewhere, Clients
<1>3. SessionShape'
    BY <1>1, <1>2 DEF Fresh, SessionInv, SessionShape, NoAttempt, NotSeeding, Somewhere
<1>4. TakeTurns' /\ Settling' /\ Settled'
    BY DEF Fresh, TakeTurns, Settling, Settled, NoAttempt, NotSeeding
<1>5. QED BY <1>3, <1>4 DEF SessionInv

LEMMA LeavingIsQuiet ==
    ASSUME SessionInv, inMemory' = inMemory, CloseEvent \/ HubDies
    PROVE  SessionInv'
<1>1. Fresh /\ place' = "off" /\ testers' = testers
    BY DEF CloseEvent, HubDies
<1>2. sessionFile' \in {sessionFile, NoSessionFile, TornSession, KeptSession}
    BY DEF CloseEvent, HubDies
<1>3. QED BY <1>1, <1>2, FreshIsQuiet

LEMMA LogoutIsClean ==
    ASSUME SessionInv, inMemory' = inMemory, Logout
    PROVE  SessionInv'
<1>1. /\ place = "desk" /\ place' = "login" /\ environ' = NoPerson /\ signedIn' = NoPerson
      /\ sessionFile' = NoSessionFile
      /\ client' = client \/ client' = [client EXCEPT !.token = NoToken]
      /\ UNCHANGED << authHost, attempt, seeding, work, testers, astray >>
      /\ seeding.pc = "idle" /\ work = NoWork
    BY DEF Logout, Forget, CriticalWork
<1>2. NoToken \in Tokens
    BY DEF NoToken, Token, Tokens, Somewhere
<1>3. SessionShape'
    BY <1>1, <1>2 DEF SessionInv, SessionShape, NoSessionFile, Clients, Somewhere
<1>4. attempt = NoAttempt
    BY <1>1 DEF SessionInv, TakeTurns
<1>5. TakeTurns' /\ Settling' /\ Settled'
    BY <1>1, <1>4 DEF SessionInv, TakeTurns, Settling, Settled, NoAttempt
<1>6. QED BY <1>3, <1>5 DEF SessionInv

(***************************************************************************)
(* The steps of a log-in.                                                  *)
(***************************************************************************)

LEMMA LoginBegins ==
    ASSUME SessionInv, inMemory' = inMemory, NEW a \in People, NEW s \in Sites, Login(a, s)
    PROVE  SessionInv'
<1>1. /\ place = "login" /\ attempt' = [who |-> a, to |-> s, pc |-> "host"]
      /\ UNCHANGED <<place, client, signedIn, authHost, sessionFile, environ, seeding, work,
                     testers, astray>>
    BY DEF Login
<1>2. SessionShape'
    BY <1>1 DEF SessionInv, SessionShape, Somewhere, Clients, Tokens
<1>3. TakeTurns' /\ Settling' /\ Settled'
    BY <1>1 DEF SessionInv, TakeTurns, Settling, Settled
<1>4. QED BY <1>2, <1>3 DEF SessionInv

\* During an attempt nothing else has the client, so a step of it settles what
\* its own assignments say.
LEMMA AttemptGoesOn ==
    ASSUME SessionInv, inMemory' = inMemory, NEW now, NEW next, Attempting(now, next), now # "idle",
           next \in {"password", "person", "save", "done", "failed"},
           client' \in Clients, authHost' \in Somewhere, signedIn' \in People \cup {NoPerson},
           sessionFile' \in [is : {"none", "torn", "kept"}, host : Somewhere, token : Tokens],
           astray' \in BOOLEAN, Settling'
    PROVE  SessionInv'
<1>1. /\ attempt.pc = now /\ attempt' = [attempt EXCEPT !.pc = next]
      /\ UNCHANGED <<place, environ, seeding, work, testers>>
    BY DEF Attempting
<1>2. attempt # NoAttempt /\ place = "login"
    BY <1>1 DEF SessionInv, TakeTurns, NoAttempt
<1>3. attempt'.pc = next /\ attempt'.who = attempt.who /\ attempt'.to = attempt.to
    BY <1>1 DEF SessionInv, SessionShape
<1>4. SessionShape'
    BY <1>1 DEF SessionInv, SessionShape, Somewhere, Clients, Tokens
<1>5. TakeTurns'
    BY <1>1, <1>2, <1>3 DEF SessionInv, TakeTurns
<1>6. Settled'
    BY <1>1, <1>2 DEF Settled
<1>7. QED BY <1>4, <1>5, <1>6 DEF SessionInv

LEMMA AttemptNow ==
    ASSUME SessionInv, NEW now, NEW next, Attempting(now, next), now # "idle"
    PROVE  /\ attempt.pc = now /\ attempt'.pc = next
           /\ attempt'.who = attempt.who /\ attempt'.to = attempt.to
           /\ attempt.who \in People /\ attempt.to \in Sites
           /\ client \in Clients /\ authHost \in Somewhere /\ signedIn \in People \cup {NoPerson}
           /\ sessionFile \in [is : {"none", "torn", "kept"}, host : Somewhere, token : Tokens]
           /\ astray \in BOOLEAN
<1>1. attempt.pc = now /\ attempt' = [attempt EXCEPT !.pc = next]
    BY DEF Attempting
<1>2. QED BY <1>1 DEF SessionInv, SessionShape, TakeTurns

LEMMA HostIsSet ==
    ASSUME SessionInv, inMemory' = inMemory, SetHost
    PROVE  SessionInv'
<1>1. /\ Attempting("host", "password")
      /\ authHost' = attempt.to /\ client' = [client EXCEPT !.host = attempt.to]
      /\ UNCHANGED <<signedIn, sessionFile, astray>>
    BY DEF SetHost
<1>2. /\ attempt.pc = "host" /\ attempt'.pc = "password" /\ attempt'.to = attempt.to
      /\ attempt.to \in Sites /\ client \in Clients /\ signedIn \in People \cup {NoPerson}
      /\ sessionFile \in [is : {"none", "torn", "kept"}, host : Somewhere, token : Tokens]
      /\ astray \in BOOLEAN
    BY <1>1, AttemptNow
<1>3. client' \in Clients /\ client'.host = attempt.to /\ authHost' \in Somewhere
    BY <1>1, <1>2 DEF Clients, Somewhere
<1>4. Settling'
    BY <1>1, <1>2, <1>3 DEF Settling
<1>5. QED BY <1>1, <1>2, <1>3, <1>4, AttemptGoesOn

LEMMA PasswordIsTold ==
    ASSUME SessionInv, inMemory' = inMemory, Authenticate
    PROVE  SessionInv'
<1>1. CASE Attempting("password", "person")
           /\ client' = [client EXCEPT !.token = Token(attempt.who, client.host)]
           /\ UNCHANGED <<signedIn, authHost, sessionFile, astray>>
  <2>1. /\ attempt.pc = "password" /\ attempt'.pc = "person" /\ attempt'.who = attempt.who
        /\ attempt'.to = attempt.to /\ attempt.who \in People
        /\ attempt.to \in Sites /\ client \in Clients /\ signedIn \in People \cup {NoPerson}
        /\ sessionFile \in [is : {"none", "torn", "kept"}, host : Somewhere, token : Tokens]
        /\ astray \in BOOLEAN /\ authHost \in Somewhere
      BY <1>1, AttemptNow
  <2>2. client.host = attempt.to /\ authHost = attempt.to
      BY <2>1 DEF SessionInv, Settling
  <2>3. Token(attempt.who, client.host) \in Tokens
      BY <2>1, <2>2 DEF Token, Tokens, Somewhere
  <2>4. client' \in Clients /\ client'.host = attempt.to /\ client'.token = Token(attempt.who, attempt.to)
      BY <1>1, <2>1, <2>2, <2>3 DEF Clients
  <2>5. Settling'
      BY <1>1, <2>1, <2>2, <2>4 DEF Settling
  <2>6. QED BY <1>1, <2>1, <2>4, <2>5, AttemptGoesOn
<1>2. CASE Attempting("password", "failed")
           /\ UNCHANGED <<client, signedIn, authHost, sessionFile, astray>>
  <2>1. /\ attempt'.pc = "failed" /\ client \in Clients /\ signedIn \in People \cup {NoPerson}
        /\ sessionFile \in [is : {"none", "torn", "kept"}, host : Somewhere, token : Tokens]
        /\ astray \in BOOLEAN /\ authHost \in Somewhere
      BY <1>2, AttemptNow
  <2>2. Settling'
      BY <2>1 DEF Settling
  <2>3. QED BY <1>2, <2>1, <2>2, AttemptGoesOn
<1>3. QED BY <1>1, <1>2 DEF Authenticate

LEMMA PersonIsKnown ==
    ASSUME SessionInv, inMemory' = inMemory, FetchUser
    PROVE  SessionInv'
<1>1. PICK next \in {"save", "failed"} : Attempting("person", next)
    BY DEF FetchUser
<1>2. /\ attempt.pc = "person" /\ attempt'.pc = next
      /\ attempt'.who = attempt.who /\ attempt'.to = attempt.to
      /\ attempt.who \in People /\ attempt.to \in Sites
      /\ client \in Clients /\ authHost \in Somewhere /\ signedIn \in People \cup {NoPerson}
      /\ sessionFile \in [is : {"none", "torn", "kept"}, host : Somewhere, token : Tokens]
      /\ astray \in BOOLEAN
    BY <1>1, AttemptNow
<1>3. UNCHANGED <<authHost, sessionFile, astray>>
    BY DEF FetchUser
<1>4. CASE next = "save"
  <2>1. attempt.who \notin NoAccess /\ signedIn' = attempt.who /\ client' = client
    <3>1. ~ Attempting("person", "failed")
        BY <1>2, <1>4, AttemptNow
    <3>2. QED BY <3>1 DEF FetchUser
  <2>2. Settling'
      BY <1>2, <1>3, <1>4, <2>1 DEF SessionInv, Settling
  <2>3. QED BY <1>1, <1>2, <1>3, <1>4, <2>1, <2>2, AttemptGoesOn
<1>5. CASE next = "failed"
  <2>1. NoToken \in Tokens
      BY DEF NoToken, Token, Tokens, Somewhere
  <2>2. client' = client \/ client' = [client EXCEPT !.token = NoToken]
      BY <1>2, <1>5 DEF FetchUser, Attempting
  <2>3. client' \in Clients
      BY <1>2, <2>1, <2>2 DEF Clients
  <2>4. signedIn' \in People \cup {NoPerson}
      BY <1>2, <1>5 DEF FetchUser, Attempting
  <2>5. Settling'
      BY <1>2, <1>5 DEF Settling
  <2>6. QED BY <1>1, <1>2, <1>3, <1>5, <2>3, <2>4, <2>5, AttemptGoesOn
<1>6. QED BY <1>4, <1>5

LEMMA SessionIsSaved ==
    ASSUME SessionInv, inMemory' = inMemory, SaveSession
    PROVE  SessionInv'
<1>1. PICK next \in {"done", "failed"} : Attempting("save", next)
    BY DEF SaveSession
<1>2. /\ attempt.pc = "save" /\ attempt'.pc = next
      /\ attempt'.who = attempt.who /\ attempt'.to = attempt.to
      /\ attempt.who \in People /\ attempt.to \in Sites
      /\ client \in Clients /\ authHost \in Somewhere /\ signedIn \in People \cup {NoPerson}
      /\ sessionFile \in [is : {"none", "torn", "kept"}, host : Somewhere, token : Tokens]
      /\ astray \in BOOLEAN
    BY <1>1, AttemptNow
<1>3. UNCHANGED <<client, signedIn, authHost>>
    BY DEF SaveSession
<1>4. CASE next = "done"
  <2>1. sessionFile' = KeptSession /\ astray' = FALSE
    <3>1. ~ Attempting("save", "failed")
        BY <1>2, <1>4, AttemptNow
    <3>2. QED BY <3>1 DEF SaveSession
  <2>2. KeptSession' = KeptSession
      BY <1>3 DEF KeptSession
  <2>3. sessionFile' \in [is : {"none", "torn", "kept"}, host : Somewhere, token : Tokens]
      BY <1>2, <2>1 DEF KeptSession, Clients
  <2>4. Settling'
      BY <1>2, <1>3, <1>4, <2>1, <2>2 DEF SessionInv, Settling
  <2>5. QED BY <1>1, <1>2, <1>3, <1>4, <2>1, <2>3, <2>4, AttemptGoesOn
<1>5. CASE next = "failed"
  <2>1. sessionFile' \in {sessionFile, TornSession} /\ astray' = astray
    <3>1. ~ Attempting("save", "done")
        BY <1>2, <1>5, AttemptNow
    <3>2. QED BY <3>1 DEF SaveSession
  <2>2. NoToken \in Tokens
      BY DEF NoToken, Token, Tokens, Somewhere
  <2>3. TornSession \in [is : {"none", "torn", "kept"}, host : Somewhere, token : Tokens]
      BY <2>2 DEF TornSession, NoSessionFile, Somewhere
  <2>4. Settling'
      BY <1>2, <1>5 DEF Settling
  <2>5. QED BY <1>1, <1>2, <1>3, <1>5, <2>1, <2>3, <2>4, AttemptGoesOn
<1>6. QED BY <1>4, <1>5

LEMMA DeskIsReached ==
    ASSUME SessionInv, inMemory' = inMemory, OnLoginSuccess \/ LoginFailed
    PROVE  SessionInv'
<1>1. /\ attempt' = NoAttempt /\ attempt'.pc = "idle"
      /\ UNCHANGED <<client, signedIn, authHost, sessionFile, seeding, work, testers, astray>>
    BY DEF OnLoginSuccess, LoginFailed, NoAttempt
<1>2. CASE OnLoginSuccess
  <2>1. attempt.pc = "done" /\ place = "login" /\ place' = "desk" /\ environ' = attempt.who
      BY <1>2 DEF OnLoginSuccess
  <2>2. /\ attempt.who \in People \ NoAccess /\ attempt.to \in Sites /\ signedIn = attempt.who
        /\ authHost = attempt.to /\ client.host = attempt.to /\ ~ astray
        /\ client.token = Token(attempt.who, attempt.to) /\ sessionFile = KeptSession
        /\ work = NoWork
      BY <2>1 DEF SessionInv, TakeTurns, Settling
  <2>3. SessionShape'
      BY <1>1, <2>1, <2>2 DEF SessionInv, SessionShape, NoAttempt, Clients, Tokens, Somewhere
  <2>4. TakeTurns' /\ Settling'
      BY <1>1, <2>1 DEF SessionInv, TakeTurns, Settling
  <2>5. Settled'
      BY <1>1, <2>1, <2>2 DEF Settled, KeptSession
  <2>6. QED BY <2>3, <2>4, <2>5 DEF SessionInv
<1>3. CASE LoginFailed
  <2>1. UNCHANGED << place, environ >>
      BY <1>3 DEF LoginFailed
  <2>2. SessionShape'
      BY <1>1, <2>1 DEF SessionInv, SessionShape, NoAttempt, Clients, Tokens, Somewhere
  <2>3. TakeTurns' /\ Settling' /\ Settled'
      BY <1>1, <2>1 DEF SessionInv, TakeTurns, Settling, Settled
  <2>4. QED BY <2>2, <2>3 DEF SessionInv
<1>4. QED BY <1>2, <1>3

(***************************************************************************)
(* What is done at the desk.                                               *)
(***************************************************************************)

\* At the desk no attempt runs, so what takes the client settles nothing.
LEMMA TakingIsAstray ==
    ASSUME SessionInv, inMemory' = inMemory, place = "desk",
           UNCHANGED << place, signedIn, sessionFile, environ, attempt, work >>,
           client' \in Clients, client'.host \in Sites, authHost' \in Sites, astray' = TRUE,
           seeding' \in [pc : {"idle", "admin", "accounts", "over"}, back : Somewhere],
           seeding'.pc = "idle" => seeding' = NotSeeding, testers' \subseteq Sites
    PROVE  SessionInv'
<1>1. attempt = NoAttempt /\ attempt.pc = "idle"
    BY DEF SessionInv, TakeTurns, NoAttempt
<1>2. SessionShape'
    BY DEF SessionInv, SessionShape, Somewhere, Clients, Tokens
<1>3. TakeTurns' /\ Settling'
    BY <1>1 DEF SessionInv, TakeTurns, Settling
<1>4. Settled'
    BY DEF SessionInv, Settled
<1>5. QED BY <1>2, <1>3, <1>4 DEF SessionInv

LEMMA SeedingIsAstray ==
    ASSUME SessionInv, inMemory' = inMemory,
           \/ BeginSeeding \/ SeedAdmin \/ SeedAccounts \/ EndSeeding
           \/ \E s \in Sites : SyncIdentity(s)
    PROVE  SessionInv'
<1>1. /\ place = "desk"
      /\ seeding.pc # "idle" => astray
      /\ seeding.pc = "idle" => seeding = NotSeeding
    BY DEF SessionInv, TakeTurns, BeginSeeding, SeedAdmin, SeedAccounts, EndSeeding, SyncIdentity
<1>2. client.host \in Sites /\ authHost \in Sites
    BY <1>1 DEF SessionInv, Settled
<1>3. /\ client \in Clients /\ testers \subseteq Sites /\ Localhost \in Sites
      /\ seeding \in [pc : {"idle", "admin", "accounts", "over"}, back : Somewhere]
      /\ NotSeeding \in [pc : {"idle", "admin", "accounts", "over"}, back : Somewhere]
    BY SessionAssumption DEF SessionInv, SessionShape, NotSeeding, Somewhere
<1>4. UNCHANGED << place, signedIn, sessionFile, environ, attempt, work >>
    BY DEF BeginSeeding, SeedAdmin, SeedAccounts, EndSeeding, SyncIdentity
<1>5. CASE BeginSeeding
  <2>1. /\ seeding' = [pc |-> "admin", back |-> client.host] /\ astray' = TRUE
        /\ client' = [client EXCEPT !.host = Localhost] /\ UNCHANGED << authHost, testers >>
      BY <1>5 DEF BeginSeeding
  <2>2. client' \in Clients /\ client'.host \in Sites
      BY <1>3, <2>1 DEF Clients, Somewhere
  <2>3. /\ seeding' \in [pc : {"idle", "admin", "accounts", "over"}, back : Somewhere]
        /\ seeding'.pc # "idle"
      BY <1>3, <2>1 DEF Clients
  <2>4. QED BY <1>1, <1>2, <1>3, <1>4, <2>1, <2>2, <2>3, TakingIsAstray
<1>6. CASE SeedAdmin
  <2>1. /\ seeding.pc = "admin" /\ UNCHANGED << authHost, testers, astray >>
        /\ seeding' = [seeding EXCEPT !.pc = "accounts"] \/ seeding' = [seeding EXCEPT !.pc = "over"]
        /\ client' = client \/ client' = [client EXCEPT !.token = Token(Admin, client.host)]
      BY <1>6 DEF SeedAdmin
  <2>2. Token(Admin, client.host) \in Tokens
      BY <1>3 DEF Token, Tokens, Clients
  <2>3. client' \in Clients /\ client'.host \in Sites
      BY <1>2, <1>3, <2>1, <2>2 DEF Clients
  <2>4. /\ seeding' \in [pc : {"idle", "admin", "accounts", "over"}, back : Somewhere]
        /\ seeding'.pc # "idle"
      BY <1>3, <2>1
  <2>5. astray' = TRUE
      BY <1>1, <2>1 DEF SessionInv, SessionShape
  <2>6. QED BY <1>1, <1>2, <1>3, <1>4, <2>1, <2>3, <2>4, <2>5, TakingIsAstray
<1>7. CASE SeedAccounts
  <2>1. /\ seeding.pc = "accounts" /\ UNCHANGED << client, authHost, astray >>
        /\ seeding' = [seeding EXCEPT !.pc = "over"] /\ testers' \subseteq Sites
      BY <1>2, <1>3, <1>7 DEF SeedAccounts
  <2>2. /\ seeding' \in [pc : {"idle", "admin", "accounts", "over"}, back : Somewhere]
        /\ seeding'.pc # "idle"
      BY <1>3, <2>1
  <2>3. astray' = TRUE
      BY <1>1, <2>1 DEF SessionInv, SessionShape
  <2>4. QED BY <1>1, <1>2, <1>3, <1>4, <2>1, <2>2, <2>3, TakingIsAstray
<1>8. CASE EndSeeding
  <2>1. /\ seeding.pc = "over" /\ UNCHANGED << authHost, testers, astray >> /\ seeding' = NotSeeding
        /\ client' = IF seeding.back = Nowhere THEN client
                     ELSE [client EXCEPT !.host = seeding.back]
      BY <1>8 DEF EndSeeding
  <2>2. client' \in Clients /\ client'.host \in Sites
      BY <1>2, <1>3, <2>1 DEF Clients, Somewhere
  <2>3. astray' = TRUE
      BY <1>1, <2>1 DEF SessionInv, SessionShape
  <2>4. QED BY <1>1, <1>2, <1>3, <1>4, <2>1, <2>2, <2>3, TakingIsAstray
<1>9. ASSUME NEW s \in Sites, SyncIdentity(s) PROVE SessionInv'
  <2>1. /\ authHost' = s /\ client' = [client EXCEPT !.host = s] /\ astray' = TRUE
        /\ UNCHANGED << seeding, testers >>
      BY <1>9 DEF SyncIdentity
  <2>2. client' \in Clients /\ client'.host \in Sites
      BY <1>3, <2>1 DEF Clients, Somewhere
  <2>3. QED BY <1>1, <1>2, <1>3, <1>4, <2>1, <2>2, TakingIsAstray
<1>10. QED BY <1>5, <1>6, <1>7, <1>8, <1>9

LEMMA OthersAreQuiet ==
    ASSUME SessionInv, inMemory' = inMemory, OpenHub \/ StartWork \/ WorkEnds \/ UNCHANGED sessionVars
    PROVE  SessionInv'
<1>1. UNCHANGED << client, signedIn, authHost, sessionFile, environ, attempt, seeding, testers, astray >>
    BY DEF OpenHub, StartWork, WorkEnds, sessionVars
<1>2. \/ UNCHANGED << place, work >>
      \/ place = "off" /\ place' = "login" /\ work' = work
      \/ place = "desk" /\ place' = place /\ work' \in {client, NoWork}
    BY DEF OpenHub, StartWork, WorkEnds, sessionVars, SessionInv, TakeTurns
<1>3. NoWork \in Clients
    BY DEF NoWork, NoToken, Token, Tokens, Clients, Somewhere
<1>4. SessionShape'
    BY <1>1, <1>2, <1>3 DEF SessionInv, SessionShape
<1>5. TakeTurns'
    BY <1>1, <1>2 DEF SessionInv, TakeTurns
<1>6. Settling'
    BY <1>1 DEF SessionInv, Settling, KeptSession
<1>7. Settled'
    BY <1>1, <1>2 DEF SessionInv, Settled
<1>8. QED BY <1>4, <1>5, <1>6, <1>7 DEF SessionInv

LEMMA SessionSteps == SessionInv /\ [SessionNext]_sessionVars => SessionInv'
<1> SUFFICES ASSUME SessionInv, [SessionNext]_sessionVars PROVE SessionInv'
    OBVIOUS
<1>1. inMemory' = inMemory
    BY DEF SessionNext, sessionVars
<1>2. QED BY <1>1, LeavingIsQuiet, LogoutIsClean, LoginBegins, HostIsSet, PasswordIsTold,
             PersonIsKnown, SessionIsSaved, DeskIsReached, SeedingIsAstray, OthersAreQuiet
          DEF SessionNext

LEMMA SessionInvariant == SessionSpec => []SessionInv
BY SessionStarts, SessionSteps, PTL DEF SessionSpec

\* Whoever is at the dashboard is one account everywhere it is written down,
\* whatever log-ins were refused, log-outs half failed and Hubs died before,
\* and whatever the identity page and the seeder did.
THEOREM DeskIsOnesOwn == SessionSpec => []DeskIsOwn
<1>1. SessionInv => DeskIsOwn
  <2> SUFFICES ASSUME SessionInv, place = "desk"
               PROVE  /\ (inMemory /\ astray) \/ AccessToken = Token(signedIn, sessionFile.host)
                      /\ ~astray => client = [host |-> authHost, token |-> sessionFile.token]
      BY DEF DeskIsOwn, SessionInv, Settled
  <2>1. client = [host |-> client.host, token |-> client.token] /\ astray \in BOOLEAN
      BY DEF SessionInv, SessionShape, Clients
  <2>2. /\ sessionFile.token = Token(signedIn, sessionFile.host)
        /\ ~ astray => client.host = authHost /\ client.token = sessionFile.token
      BY DEF SessionInv, Settled
  <2>3. QED BY <2>1, <2>2 DEF AccessToken
<1>2. QED BY <1>1, SessionInvariant, PTL

\* Nobody logs out beneath work that runs, and nothing but the seeder and the
\* identity page takes the client from it.
THEOREM WorkIsOnesOwn == SessionSpec => []WorkIsOwn
<1>1. SessionInv => WorkIsOwn
    BY DEF SessionInv, TakeTurns, Settled, WorkIsOwn
<1>2. QED BY <1>1, SessionInvariant, PTL

\* What the session keeps has its type.
LEMMA SessionIsTyped == SessionSpec => []SessionTypeOK
<1>1. SessionInv => SessionTypeOK
    BY DEF SessionInv, SessionShape, TakeTurns, Settled, SessionTypeOK, Clients, Tokens, Somewhere
<1>2. QED BY <1>1, SessionInvariant, PTL

\* Unless the identity page is used meanwhile, a seeding has the client at this
\* machine's Kitsu and knows where it was.
SeedsInTurn ==
    /\ seeding.pc # "idle" => client.host = Localhost /\ seeding.back = authHost
    /\ place = "desk" /\ seeding.pc = "idle" => client.host = authHost
    /\ testers \subseteq {Localhost}

LEMMA SeedingTakesTurns ==
    ASSUME "syncsWhileSeeding" \notin SessionHabits, SessionInv, SessionInv', SeedsInTurn,
           [SessionNext]_sessionVars
    PROVE  SeedsInTurn'
<1>1. /\ client \in Clients
      /\ seeding \in [pc : {"idle", "admin", "accounts", "over"}, back : Somewhere]
      /\ seeding.pc # "idle" => place = "desk"
    BY DEF SessionInv, SessionShape, TakeTurns
<1>2. CASE place' # "desk" /\ testers' = testers
  <2>1. seeding'.pc = "idle"
      BY <1>2 DEF SessionInv, TakeTurns
  <2>2. QED BY <1>2, <2>1 DEF SeedsInTurn
<1>3. CASE OnLoginSuccess
    BY <1>3 DEF OnLoginSuccess, SessionInv, TakeTurns, Settling, SeedsInTurn
<1>4. CASE UNCHANGED << place, client, authHost, seeding, testers >>
    BY <1>4 DEF SeedsInTurn
<1>5. CASE BeginSeeding
    BY <1>1, <1>5 DEF BeginSeeding, SeedsInTurn, NotSeeding, Clients
<1>6. CASE SeedAdmin
  <2>1. /\ seeding.pc = "admin" /\ UNCHANGED << place, authHost, testers >>
        /\ seeding' = [seeding EXCEPT !.pc = "accounts"] \/ seeding' = [seeding EXCEPT !.pc = "over"]
        /\ client' = client \/ client' = [client EXCEPT !.token = Token(Admin, client.host)]
      BY <1>6 DEF SeedAdmin
  <2>2. client'.host = client.host
      BY <1>1, <2>1 DEF Clients
  <2>3. seeding'.pc # "idle" /\ seeding'.back = seeding.back
      BY <1>1, <2>1
  <2>4. QED BY <2>1, <2>2, <2>3 DEF SeedsInTurn
<1>7. CASE SeedAccounts
    BY <1>1, <1>7 DEF SeedAccounts, SeedsInTurn
<1>8. CASE EndSeeding
  <2>1. authHost # Nowhere
    <3>1. place = "desk"
        BY <1>1, <1>8 DEF EndSeeding
    <3>2. authHost \in Sites
        BY <3>1 DEF SessionInv, Settled
    <3>3. QED BY <3>2, SessionAssumption
  <2>2. seeding.back = authHost
      BY <1>8 DEF EndSeeding, SeedsInTurn
  <2>3. client' = [client EXCEPT !.host = authHost] /\ seeding' = NotSeeding
        /\ UNCHANGED << authHost, testers >>
      BY <1>8, <2>1, <2>2 DEF EndSeeding
  <2>4. QED BY <1>1, <2>3 DEF SeedsInTurn, Clients, NotSeeding
<1>9. ASSUME NEW s \in Sites, SyncIdentity(s) PROVE SeedsInTurn'
  <2>1. seeding.pc = "idle" /\ seeding' = seeding /\ testers' = testers
      BY <1>9 DEF SyncIdentity, NotSeeding
  <2>2. client'.host = s /\ authHost' = s
      BY <1>1, <1>9 DEF SyncIdentity, Clients
  <2>3. QED BY <2>1, <2>2 DEF SeedsInTurn
<1>10. CASE CloseEvent \/ HubDies \/ Logout
    BY <1>2, <1>10 DEF CloseEvent, HubDies, Logout
<1>11. CASE OpenHub \/ (\E a \in People, s \in Sites : Login(a, s)) \/ SetHost \/ Authenticate
            \/ FetchUser \/ SaveSession \/ LoginFailed
  <2>1. testers' = testers /\ (place' # "desk" \/ UNCHANGED << place, client, authHost, seeding >>)
    <3>1. attempt.pc # "idle" => place = "login"
        BY DEF SessionInv, TakeTurns, NoAttempt
    <3>2. QED BY <1>11, <3>1 DEF OpenHub, Login, SetHost, Authenticate, FetchUser, SaveSession,
                 LoginFailed, Attempting
  <2>2. QED BY <1>2, <1>4, <2>1
<1>12. CASE StartWork \/ WorkEnds \/ UNCHANGED sessionVars
    BY <1>4, <1>12 DEF StartWork, WorkEnds, sessionVars
<1>13. QED BY <1>3, <1>5, <1>6, <1>7, <1>8, <1>9, <1>10, <1>11, <1>12 DEF SessionNext

\* The test accounts come to no Kitsu but this machine's, and after a seeding
\* the client is back at the host that the services name, whatever of it
\* failed, if nobody uses the identity page meanwhile.
THEOREM SeedingGivesBack ==
    ASSUME "syncsWhileSeeding" \notin SessionHabits
    PROVE  SessionSpec => [](SeedsLocally /\ HostComesBack)
<1>1. SessionInit => SeedsInTurn
    BY DEF SessionInit, SeedsInTurn, NotSeeding
<1>2. SessionInv /\ SessionInv' /\ SeedsInTurn /\ [SessionNext]_sessionVars => SeedsInTurn'
    BY SeedingTakesTurns
<1>3. SeedsInTurn => SeedsLocally /\ HostComesBack
    BY DEF SeedsInTurn, SeedsLocally, HostComesBack, NotSeeding
<1>4. QED BY <1>1, <1>2, <1>3, SessionInvariant, PTL DEF SessionSpec

(***************************************************************************)
(* The shell: dashboards, their workers and the Blender sessions.          *)
(***************************************************************************)

Boards == {"td", "manager", "artist"}
Roles == Logins \cup {"none"}
Works == [key : Keys, board : Nat, as : Roles, pc : {"runs", "ended", "over"}]

ShellShape ==
    /\ screen \in {"login", "closed"} \cup Boards /\ account \in Roles /\ signing \in Roles
    /\ dashboards \in Nat /\ works \in Seq(Works)
    /\ slots \in [Keys -> Nat]
    /\ \A k \in Keys : slots[k] <= Len(works)
    /\ sessions \in [watched : Nat, ended : Nat, loose : Nat] /\ instances \in Nat

\* A prompt belongs to the dashboard that is shown.
Prompted == ask # << >> => screen \in Boards /\ ask[1].key \in Gated \cup {"spawn"}

\* Whatever is critical, and whatever an open export window waits for, is of
\* the dashboard that is shown and of the account that is signed in.
OnBoard(w) ==
    (w.pc = "runs" /\ Critical(w)) \/ (w.pc # "over" /\ w.key \in {"precheck", "export"}) =>
        w.board = dashboards /\ screen \in Boards /\ (Critical(w) => w.as = account)

AllOnBoard == \A i \in DOMAIN works : OnBoard(works[i])

\* The manager of the dashboard that is shown knows its workers.
Slotted ==
    \A i \in DOMAIN works :
        works[i].pc = "runs" /\ works[i].board = dashboards /\ works[i].key # "spawn"
        => slots[works[i].key] = i

NoLaterBoard == \A i \in DOMAIN works : works[i].board <= dashboards

\* Sessions that are open or whose end is on its way are counted.
Counted ==
    /\ sessions.watched + sessions.ended <= instances
    /\ sessions.watched > 0 => screen = "artist"

ShellInv ==
    /\ ShellShape /\ Prompted /\ AllOnBoard /\ Slotted /\ NoLaterBoard /\ OneWorkerPerKey /\ Counted

LEMMA KeysOfWork ==
    /\ Gated \subseteq Keys /\ Open \subseteq Keys /\ "spawn" \in Keys /\ "precheck" \in Keys
    /\ "export" \in Keys /\ "spawn" \notin Gated \cup Open /\ "precheck" \notin Gated \cup Open
    /\ "export" \notin Gated \cup Open
    /\ Aside \subseteq Keys /\ "precheck" \notin Aside /\ "export" \notin Aside
BY DEF Keys, Gated, Open, Aside

LEMMA ShellStarts == ShellInit => ShellInv
<1> SUFFICES ASSUME ShellInit PROVE ShellInv
    OBVIOUS
<1>1. works = << >> /\ DOMAIN << >> = {} /\ Len(<< >>) = 0 /\ << >> \in Seq(Works)
    BY DEF ShellInit
<1>2. ShellShape
    BY <1>1 DEF ShellInit, ShellShape, Roles
<1>3. Prompted /\ AllOnBoard /\ Slotted /\ NoLaterBoard /\ OneWorkerPerKey /\ Counted
    BY <1>1 DEF ShellInit, Prompted, AllOnBoard, Slotted, NoLaterBoard, OneWorkerPerKey, Runs, Counted
<1>4. QED BY <1>2, <1>3 DEF ShellInv

\* Nothing critical runs and no export window is open: then every worker may be
\* left behind.
Left == \A i \in DOMAIN works :
            ~ (works[i].pc = "runs" /\ Critical(works[i]))
            /\ ~ (works[i].pc # "over" /\ works[i].key \in {"precheck", "export"})

LEMMA NothingIsLeft ==
    ASSUME ShellInv, "escapes" \notin ShellHabits, Free, ~ CriticalRuns
    PROVE  Left
<1>1. ~ ExportWindow
    BY DEF Free
<1>2. ASSUME NEW i \in DOMAIN works, works[i].pc # "over", works[i].key \in {"precheck", "export"}
      PROVE  FALSE
  <2>1. works[i].board = dashboards
      BY <1>2 DEF ShellInv, AllOnBoard, OnBoard
  <2>2. QED BY <1>1, <1>2, <2>1 DEF ExportWindow
<1>3. QED BY <1>2 DEF Left, CriticalRuns, Runs

LEMMA NothingOnLogin ==
    ASSUME ShellInv, screen \notin Boards
    PROVE  Left
BY DEF ShellInv, AllOnBoard, OnBoard, Left

\* The dashboard changes, or is left.
LEMMA BoardsChange ==
    ASSUME ShellInv, Left, UNCHANGED << works, sessions, instances >>,
           screen' \in {"login", "closed"} \cup Boards, account' \in Roles, signing' \in Roles,
           (dashboards' = dashboards /\ slots' = slots)
             \/ (dashboards' = dashboards + 1 /\ slots' = [k \in Keys |-> 0]),
           ask' = << >>, sessions.watched = 0
    PROVE  ShellInv'
<1>1. ShellShape'
    BY DEF ShellInv, ShellShape
<1>2. Prompted' /\ Counted'
    BY DEF ShellInv, Prompted, Counted, ShellShape
<1>3. AllOnBoard'
    BY DEF AllOnBoard, OnBoard, Left, Critical
<1>4. \A i \in DOMAIN works : works[i] \in Works /\ works[i].board <= dashboards
    BY DEF ShellInv, ShellShape, NoLaterBoard
<1>5. CASE dashboards' = dashboards /\ slots' = slots
    BY <1>1, <1>2, <1>3, <1>5 DEF ShellInv, Slotted, NoLaterBoard, OneWorkerPerKey, Runs
<1>6. CASE dashboards' = dashboards + 1
  <2>1. \A i \in DOMAIN works : works[i].board # dashboards'
      BY <1>4, <1>6 DEF ShellInv, ShellShape, Works
  <2>2. Slotted' /\ OneWorkerPerKey'
      BY <2>1 DEF ShellInv, Slotted, OneWorkerPerKey, Runs
  <2>3. NoLaterBoard'
      BY <1>4, <1>6 DEF ShellInv, ShellShape, NoLaterBoard, Works
  <2>4. QED BY <1>1, <1>2, <1>3, <2>2, <2>3 DEF ShellInv
<1>7. QED BY <1>5, <1>6

LEMMA ProfilesAreBoards ==
    ASSUME NEW r
    PROVE  Profiles(r) \subseteq Boards /\ (Profiles(r) # {} => DefaultProfiles(r) \subseteq Boards)
BY DEF Profiles, DefaultProfiles, Boards

LEMMA AccountsKeepTheShell ==
    ASSUME ShellInv, "escapes" \notin ShellHabits,
           \/ \E role \in Logins : SignIn(role)
           \/ SignedIn \/ LogOut \/ CloseHub
           \/ \E p \in {"td", "manager", "artist"} : ChangeProfile(p)
    PROVE  ShellInv'
<1>1. /\ screen \in {"login", "closed"} \cup Boards /\ account \in Roles /\ signing \in Roles
      /\ screen \notin Boards => sessions.watched = 0 /\ ask = << >>
      /\ instances = 0 => sessions.watched = 0
      /\ sessions.watched \in Nat
    BY DEF ShellInv, ShellShape, Prompted, Counted, Boards
<1>2. ASSUME NEW role \in Logins, SignIn(role) PROVE ShellInv'
  <2>1. screen \notin Boards /\ signing' \in Roles
        /\ UNCHANGED <<screen, account, dashboards, works, slots, ask, sessions, instances>>
      BY <1>2 DEF SignIn, Boards, Roles
  <2>2. QED BY <1>1, <2>1, NothingOnLogin, BoardsChange
<1>3. CASE SignedIn
  <2>1. /\ screen = "login" /\ signing' = "none"
        /\ UNCHANGED <<works, ask, sessions, instances>>
      BY <1>3 DEF SignedIn
  <2>2. CASE UNCHANGED <<screen, account, dashboards, slots>>
      BY <1>1, <2>1, <2>2, NothingOnLogin, BoardsChange DEF Boards, Roles
  <2>3. CASE Profiles(signing) # {} /\ account' = signing
             /\ \E p \in DefaultProfiles(signing) : NewDashboard(p)
    <3>1. screen' \in Boards /\ dashboards' = dashboards + 1 /\ slots' = [k \in Keys |-> 0]
        BY <2>3, ProfilesAreBoards DEF NewDashboard
    <3>2. QED BY <1>1, <2>1, <2>3, <3>1, NothingOnLogin, BoardsChange DEF Boards, Roles
  <2>4. QED BY <1>3, <2>2, <2>3 DEF SignedIn
<1>4. ASSUME NEW p \in Boards, ChangeProfile(p) PROVE ShellInv'
  <2>1. /\ Free /\ ~ CriticalRuns /\ instances = 0 /\ ask = << >>
        /\ screen' \in Boards /\ dashboards' = dashboards + 1 /\ slots' = [k \in Keys |-> 0]
        /\ UNCHANGED <<account, signing, works, ask, sessions, instances>>
      BY <1>4 DEF ChangeProfile, NewDashboard, Dashboard, Shows
  <2>2. QED BY <1>1, <2>1, NothingIsLeft, BoardsChange
<1>5. CASE LogOut
  <2>1. /\ Free /\ ~ CriticalRuns /\ instances = 0 /\ ask = << >>
        /\ screen' = "login" /\ account' = "none"
        /\ UNCHANGED <<signing, dashboards, works, slots, ask, sessions, instances>>
      BY <1>5 DEF LogOut, Dashboard, Shows
  <2>2. QED BY <1>1, <2>1, NothingIsLeft, BoardsChange DEF Roles
<1>6. CASE CloseHub
  <2>1. /\ Free /\ ~ CriticalRuns /\ instances = 0 /\ ask = << >>
        /\ screen' = "closed" /\ account' = "none" /\ signing' = "none"
        /\ UNCHANGED <<dashboards, works, slots, ask, sessions, instances>>
      BY <1>6 DEF CloseHub
  <2>2. QED BY <1>1, <2>1, NothingIsLeft, BoardsChange DEF Roles
<1>7. QED BY <1>2, <1>3, <1>4, <1>5, <1>6 DEF Boards

LEMMA SessionsKeepTheShell ==
    ASSUME ShellInv,
           OpenSession \/ SessionEnds \/ SessionReported \/ LaunchProject \/ LooseSessionEnds
    PROVE  ShellInv'
<1>1. UNCHANGED <<screen, account, signing, dashboards, works, slots, ask>>
    BY DEF OpenSession, SessionEnds, SessionReported, LaunchProject, LooseSessionEnds
<1>2. /\ sessions \in [watched : Nat, ended : Nat, loose : Nat] /\ instances \in Nat
      /\ sessions.watched + sessions.ended <= instances
      /\ sessions.watched > 0 => screen = "artist"
    BY DEF ShellInv, ShellShape, Counted
<1>3. /\ sessions' \in [watched : Nat, ended : Nat, loose : Nat] /\ instances' \in Nat
      /\ sessions'.watched + sessions'.ended <= instances'
      /\ sessions'.watched > 0 => screen = "artist"
  <2>1. CASE OpenSession
      BY <1>2, <2>1 DEF OpenSession, Shows
  <2>2. CASE SessionEnds
    <3>1. /\ sessions' = [sessions EXCEPT !.watched = @ - 1, !.ended = @ + 1]
          /\ instances' = instances /\ sessions.watched > 0
        BY <2>2 DEF SessionEnds
    <3>2. /\ sessions'.watched = sessions.watched - 1 /\ sessions'.ended = sessions.ended + 1
          /\ sessions'.loose = sessions.loose
          /\ sessions'.watched \in Nat /\ sessions'.ended \in Nat
        BY <1>2, <3>1
    <3>3. sessions'.watched + sessions'.ended = sessions.watched + sessions.ended
        BY <1>2, <3>2
    <3>4. QED BY <1>2, <3>1, <3>2, <3>3
  <2>3. CASE SessionReported
      BY <1>2, <2>3 DEF SessionReported
  <2>4. CASE LaunchProject
      BY <1>2, <2>4 DEF LaunchProject
  <2>5. CASE LooseSessionEnds
      BY <1>2, <2>5 DEF LooseSessionEnds
  <2>6. QED BY <2>1, <2>2, <2>3, <2>4, <2>5
<1>4. ShellShape' /\ Counted'
    BY <1>1, <1>3 DEF ShellInv, ShellShape, Counted
<1>5. Prompted' /\ AllOnBoard' /\ Slotted' /\ NoLaterBoard' /\ OneWorkerPerKey'
    BY <1>1 DEF ShellInv, Prompted, AllOnBoard, OnBoard, Slotted, NoLaterBoard, OneWorkerPerKey, Runs
<1>6. QED BY <1>4, <1>5 DEF ShellInv

\* One more worker under the key k, of the dashboard that is shown: what held
\* of the workers so far holds of all of them.
LEMMA OneMore ==
    ASSUME NEW ws \in Seq(Works), NEW w \in Works
    PROVE  /\ Append(ws, w) \in Seq(Works) /\ Len(Append(ws, w)) = Len(ws) + 1
           /\ Len(ws) \in Nat /\ DOMAIN ws = 1 .. Len(ws)
           /\ DOMAIN Append(ws, w) = 1 .. Len(ws) + 1
           /\ \A i \in 1 .. Len(ws) : Append(ws, w)[i] = ws[i] /\ ws[i] \in Works
           /\ Append(ws, w)[Len(ws) + 1] = w
OBVIOUS

LEMMA BeginningKeeps ==
    ASSUME ShellInv, screen \in Boards, NEW k \in Keys, NEW w \in Works,
           w.key = k, w.board = dashboards, w.as = account, w.pc = "runs",
           k # "spawn" => ~ Busy(k),
           works' = Append(works, w), slots' = [slots EXCEPT ![k] = Len(works')],
           UNCHANGED <<screen, account, signing, dashboards, sessions, instances>>, Prompted'
    PROVE  ShellInv'
<1> DEFINE n == Len(works) + 1
<1>1. /\ works \in Seq(Works) /\ slots \in [Keys -> Nat] /\ dashboards \in Nat
      /\ \A l \in Keys : slots[l] <= Len(works)
    BY DEF ShellInv, ShellShape
<1>2. /\ works' \in Seq(Works) /\ Len(works') = n /\ Len(works) \in Nat
      /\ DOMAIN works = 1 .. Len(works) /\ DOMAIN works' = 1 .. n
      /\ \A i \in 1 .. Len(works) : works'[i] = works[i] /\ works[i] \in Works
      /\ works'[n] = w
    BY <1>1, OneMore
<1>3. \A i \in DOMAIN works' : i = n \/ i \in DOMAIN works
    BY <1>2
<1>4. slots' \in [Keys -> Nat] /\ slots'[k] = n /\ \A l \in Keys : l # k => slots'[l] = slots[l]
    BY <1>1, <1>2
<1>5. ShellShape'
    BY <1>1, <1>2, <1>4 DEF ShellInv, ShellShape
<1>6. AllOnBoard'
  <2> SUFFICES ASSUME NEW i \in DOMAIN works' PROVE OnBoard(works[i])'
      BY DEF AllOnBoard
  <2>1. CASE i = n
      BY <1>2, <2>1 DEF OnBoard
  <2>2. CASE i \in DOMAIN works
      BY <1>2, <2>2 DEF OnBoard, ShellInv, AllOnBoard, Critical
  <2>3. QED BY <1>3, <2>1, <2>2
<1>7. \A i \in DOMAIN works : works[i].pc = "runs" /\ works[i].board = dashboards
                              => works[i].key # k \/ k = "spawn"
  <2> SUFFICES ASSUME NEW i \in DOMAIN works, works[i].pc = "runs", works[i].board = dashboards,
                      works[i].key = k, k # "spawn"
               PROVE  FALSE
      OBVIOUS
  <2>1. slots[k] = i
      BY DEF ShellInv, Slotted
  <2>2. QED BY <1>2, <2>1 DEF Busy, Runs
<1>8. Slotted'
  <2> SUFFICES ASSUME NEW i \in DOMAIN works', works'[i].pc = "runs", works'[i].board = dashboards,
                      works'[i].key # "spawn"
               PROVE  slots'[works'[i].key] = i
      BY DEF Slotted
  <2>1. CASE i = n
      BY <1>2, <1>4, <2>1
  <2>2. CASE i \in DOMAIN works
    <3>1. works'[i] = works[i] /\ works[i].key \in Keys
        BY <1>2, <2>2 DEF Works
    <3>2. slots[works[i].key] = i /\ works[i].key # k
        BY <1>7, <2>2, <3>1 DEF ShellInv, Slotted
    <3>3. QED BY <1>4, <3>1, <3>2
  <2>3. QED BY <1>3, <2>1, <2>2
<1>9. NoLaterBoard'
  <2> SUFFICES ASSUME NEW i \in DOMAIN works' PROVE works'[i].board <= dashboards
      BY DEF NoLaterBoard
  <2>1. QED BY <1>1, <1>2, <1>3 DEF ShellInv, NoLaterBoard
<1>10. OneWorkerPerKey'
  <2> SUFFICES ASSUME NEW i \in DOMAIN works', NEW j \in DOMAIN works', works'[i].pc = "runs",
                      works'[j].pc = "runs", i # j, works'[i].board = works'[j].board,
                      works'[i].key # "spawn"
               PROVE  works'[i].key # works'[j].key
      BY DEF OneWorkerPerKey, Runs
  <2>1. CASE i = n
      BY <1>2, <1>3, <1>7, <2>1
  <2>2. CASE j = n
      BY <1>2, <1>3, <1>7, <2>2
  <2>3. CASE i \in DOMAIN works /\ j \in DOMAIN works
      BY <1>2, <2>3 DEF ShellInv, OneWorkerPerKey, Runs
  <2>4. QED BY <1>3, <2>1, <2>2, <2>3
<1>11. Counted'
    BY DEF ShellInv, Counted
<1>12. QED BY <1>5, <1>6, <1>8, <1>9, <1>10, <1>11 DEF ShellInv

LEMMA NothingBegins ==
    ASSUME ShellInv, UNCHANGED << works, slots, screen, account, signing, dashboards, sessions, instances >>,
           Prompted'
    PROVE  ShellInv'
BY DEF ShellInv, ShellShape, AllOnBoard, OnBoard, Slotted, NoLaterBoard, OneWorkerPerKey, Runs, Counted

LEMMA StartKeeps ==
    ASSUME ShellInv, screen \in Boards, NEW k \in Keys, Start(k),
           UNCHANGED <<screen, account, signing, dashboards, sessions, instances>>, Prompted'
    PROVE  ShellInv'
<1>1. CASE Busy(k) /\ k # "spawn"
    BY <1>1, NothingBegins DEF Start
<1>2. CASE ~ (Busy(k) /\ k # "spawn")
  <2> DEFINE w == [key |-> k, board |-> dashboards, as |-> account, pc |-> "runs"]
  <2>1. w \in Works /\ w.key = k /\ w.board = dashboards /\ w.as = account /\ w.pc = "runs"
      BY DEF ShellInv, ShellShape, Works
  <2>2. works' = Append(works, w) /\ slots' = [slots EXCEPT ![k] = Len(works')]
      BY <1>2 DEF Start
  <2> HIDE DEF w
  <2>3. QED BY <1>2, <2>1, <2>2, BeginningKeeps
<1>3. QED BY <1>1, <1>2

LEMMA CommandsKeepTheShell ==
    ASSUME ShellInv,
           \/ \E p \in DOMAIN HostOf :
                 \/ InstallProject(p) \/ ResetWorkingCopy(p) \/ BackfillSpawnedFiles(p)
                 \/ PublishChanges(p) \/ MigrateProject(p) \/ SpawnBatch(p)
           \/ ApplyVcsPolicy \/ BreakVcsLock \/ CleanupLocalRepository \/ PrecheckExport
           \/ PostComment \/ ToggleEntry \/ ChangeResponsibles \/ WriteTaskFile \/ CreatePerson
    PROVE  ShellInv'
<1>1. ASSUME NEW k \in Keys, NEW S \in SUBSET Boards, Command(k, S)
      PROVE  screen \in Boards /\ UNCHANGED <<screen, account, signing, dashboards, sessions, instances>>
    BY <1>1 DEF Command, Shows
<1>2. ASSUME NEW k \in Gated \cup {"spawn"}, NEW S \in SUBSET Boards, Command(k, S),
             NEW p \in DOMAIN HostOf, Gate(k, p)
      PROVE  ShellInv'
  <2>1. k \in Keys /\ screen \in Boards
        /\ UNCHANGED <<screen, account, signing, dashboards, sessions, instances>>
      BY <1>1, <1>2, KeysOfWork
  <2>2. CASE Start(k) /\ ask' = ask
    <3>1. Prompted'
        BY <2>1, <2>2 DEF ShellInv, Prompted
    <3>2. QED BY <2>1, <2>2, <3>1, StartKeeps
  <2>3. CASE ask' = <<[key |-> k, host |-> HostOf[p]]>> /\ UNCHANGED <<works, slots>>
    <3>1. Prompted'
        BY <2>1, <2>3 DEF Prompted
    <3>2. QED BY <2>1, <2>3, <3>1, NothingBegins
  <2>4. QED BY <1>2, <2>2, <2>3 DEF Gate
<1>3. ASSUME NEW k \in Keys, NEW S \in SUBSET Boards, Command(k, S), Start(k), ask' = ask
      PROVE  ShellInv'
  <2>1. screen \in Boards /\ UNCHANGED <<screen, account, signing, dashboards, sessions, instances>>
      BY <1>1, <1>3
  <2>2. Prompted'
      BY <1>3, <2>1 DEF ShellInv, Prompted
  <2>3. QED BY <1>3, <2>1, <2>2, StartKeeps
<1>4. ASSUME NEW p \in DOMAIN HostOf,
             \/ InstallProject(p) \/ ResetWorkingCopy(p) \/ BackfillSpawnedFiles(p)
             \/ PublishChanges(p) \/ MigrateProject(p) \/ SpawnBatch(p)
      PROVE  ShellInv'
    BY <1>2, <1>4 DEF InstallProject, ResetWorkingCopy, BackfillSpawnedFiles, PublishChanges,
                      MigrateProject, SpawnBatch, Gated, Boards
<1>5. CASE ApplyVcsPolicy \/ BreakVcsLock \/ CleanupLocalRepository \/ PrecheckExport
    BY <1>3, <1>5 DEF ApplyVcsPolicy, BreakVcsLock, CleanupLocalRepository, PrecheckExport,
                      Keys, Open, Boards
<1>6. CASE PostComment \/ ToggleEntry \/ ChangeResponsibles \/ WriteTaskFile \/ CreatePerson
    BY <1>3, <1>6 DEF PostComment, ToggleEntry, ChangeResponsibles, WriteTaskFile, CreatePerson,
                      Keys, Aside, Boards
<1>7. QED BY <1>4, <1>5, <1>6

LEMMA AnswerKeepsTheShell ==
    ASSUME ShellInv, AnswerPrompt
    PROVE  ShellInv'
<1>1. /\ screen \in Boards /\ ask[1].key \in Keys
      /\ UNCHANGED <<screen, account, signing, dashboards, sessions, instances>>
    BY KeysOfWork DEF AnswerPrompt, ShellInv, Prompted
<1>2. Prompted'
    BY DEF AnswerPrompt, Prompted
<1>3. Start(ask[1].key) \/ UNCHANGED << works, slots >>
    BY DEF AnswerPrompt
<1>4. QED BY <1>1, <1>2, <1>3, StartKeeps, NothingBegins

(***************************************************************************)
(* The ends of workers.                                                    *)
(***************************************************************************)

\* A worker leaves the running ones, and the slot it may have had.
LEMMA EndingKeeps ==
    ASSUME ShellInv, NEW i \in DOMAIN works, NEW q \in {"ended", "over"},
           works[i].pc = "runs" \/ q = "over",
           works' = [works EXCEPT ![i] = [works[i] EXCEPT !.pc = q]],
           \/ slots' = slots
           \/ slots' = [slots EXCEPT ![works[i].key] = 0] /\ slots[works[i].key] = i,
           UNCHANGED <<screen, account, signing, dashboards, sessions, instances, ask>>
    PROVE  ShellInv'
<1>1. /\ works \in Seq(Works) /\ slots \in [Keys -> Nat]
      /\ \A l \in Keys : slots[l] <= Len(works)
    BY DEF ShellInv, ShellShape
<1> DEFINE w == [works[i] EXCEPT !.pc = q]
<1>2. works[i] \in Works /\ w \in Works /\ w.key = works[i].key /\ w.board = works[i].board
      /\ w.as = works[i].as /\ w.pc = q
  <2>1. works[i] \in Works
      BY <1>1
  <2>2. QED BY <2>1 DEF Works
<1> HIDE DEF w
<1>3. /\ works' \in Seq(Works) /\ Len(works') = Len(works) /\ DOMAIN works' = DOMAIN works
      /\ works'[i] = w /\ \A j \in DOMAIN works : j # i => works'[j] = works[j]
    BY <1>1, <1>2 DEF w
<1>4. \A j \in DOMAIN works : works[j] \in Works
    BY <1>1
<1>5. /\ slots' \in [Keys -> Nat] /\ works[i].key \in Keys
      /\ \A l \in Keys : slots'[l] = slots[l] \/ (slots'[l] = 0 /\ slots[l] = i)
    BY <1>1, <1>2 DEF Works
<1>6. ShellShape'
    BY <1>1, <1>3, <1>5 DEF ShellInv, ShellShape
<1>7. Prompted' /\ Counted'
    BY DEF ShellInv, Prompted, Counted
<1>8. AllOnBoard'
  <2> SUFFICES ASSUME NEW j \in DOMAIN works PROVE OnBoard(works[j])'
      BY <1>3 DEF AllOnBoard
  <2>1. CASE j = i
      BY <1>2, <1>3, <2>1 DEF OnBoard, ShellInv, AllOnBoard, Critical
  <2>2. CASE j # i
      BY <1>3, <2>2 DEF OnBoard, ShellInv, AllOnBoard, Critical
  <2>3. QED BY <2>1, <2>2
<1>9. Slotted'
  <2> SUFFICES ASSUME NEW j \in DOMAIN works, works'[j].pc = "runs", works'[j].board = dashboards,
                      works'[j].key # "spawn"
               PROVE  slots'[works'[j].key] = j
      BY <1>3 DEF Slotted
  <2>1. j # i /\ works'[j] = works[j] /\ works[j].key \in Keys
      BY <1>2, <1>3, <1>4 DEF Works
  <2>2. slots[works[j].key] = j
      BY <2>1 DEF ShellInv, Slotted
  <2>3. QED BY <1>5, <2>1, <2>2
<1>10. NoLaterBoard'
    BY <1>2, <1>3 DEF ShellInv, NoLaterBoard
<1>11. OneWorkerPerKey'
  <2> SUFFICES ASSUME NEW j \in DOMAIN works, NEW l \in DOMAIN works, works'[j].pc = "runs",
                      works'[l].pc = "runs", j # l, works'[j].board = works'[l].board,
                      works'[j].key # "spawn"
               PROVE  works'[j].key # works'[l].key
      BY <1>3 DEF OneWorkerPerKey, Runs
  <2>1. j # i /\ l # i
      BY <1>2, <1>3
  <2>2. QED BY <1>3, <2>1 DEF ShellInv, OneWorkerPerKey, Runs
<1>12. QED BY <1>6, <1>7, <1>8, <1>9, <1>10, <1>11 DEF ShellInv

LEMMA ThreadEndKeeps ==
    ASSUME ShellInv, Threads
    PROVE  ShellInv'
<1>1. PICK i \in DOMAIN works : ThreadEnds(i)
    BY DEF Threads
<1>2. works' = [works EXCEPT ![i] = [works[i] EXCEPT !.pc = "ended"]]
    BY <1>1 DEF ThreadEnds
<1>3. works[i].pc = "runs" /\ slots' = slots
      /\ UNCHANGED <<screen, account, signing, dashboards, sessions, instances, ask>>
    BY <1>1 DEF ThreadEnds, Runs
<1>4. QED BY <1>2, <1>3, EndingKeeps

\* The check before an export ends, and the export begins.
LEMMA FollowingKeeps ==
    ASSUME ShellInv, NEW i \in DOMAIN works, works[i].pc = "ended", works[i].key = "precheck",
           ~ Busy("export"), NEW v, NEW w,
           v = [works[i] EXCEPT !.pc = "over"],
           w = [key |-> "export", board |-> works[i].board, as |-> account, pc |-> "runs"],
           works' = Append([works EXCEPT ![i] = v], w),
           slots' \in [Keys -> Nat], slots'["export"] = Len(works'),
           \A l \in Keys : l # "export" => slots'[l] = slots[l] \/ (slots'[l] = 0 /\ slots[l] = i),
           UNCHANGED <<screen, account, signing, dashboards, sessions, instances, ask>>
    PROVE  ShellInv'
<1> DEFINE n == Len(works) + 1
<1>1. /\ works \in Seq(Works) /\ slots \in [Keys -> Nat] /\ dashboards \in Nat /\ account \in Roles
      /\ \A l \in Keys : slots[l] <= Len(works)
    BY DEF ShellInv, ShellShape
<1>2. works[i] \in Works
    BY <1>1
<1>3. v \in Works /\ v.key = "precheck" /\ v.board = works[i].board /\ v.pc = "over"
    BY <1>2 DEF Works
<1>4. works[i].board = dashboards /\ screen \in Boards
    BY DEF ShellInv, AllOnBoard, OnBoard
<1>5. /\ w \in Works /\ w.key = "export" /\ w.board = dashboards /\ w.as = account /\ w.pc = "runs"
    BY <1>1, <1>4, KeysOfWork DEF Works
<1> DEFINE mid == [works EXCEPT ![i] = v]
<1>6. /\ mid \in Seq(Works) /\ Len(mid) = Len(works) /\ mid[i] = v
      /\ \A j \in DOMAIN works : j # i => mid[j] = works[j]
    BY <1>1, <1>3
<1>7. works' = Append(mid, w)
    OBVIOUS
<1> HIDE DEF mid
<1>8. /\ works' \in Seq(Works) /\ Len(works') = n /\ Len(works) \in Nat
      /\ DOMAIN works = 1 .. Len(works) /\ DOMAIN works' = 1 .. n
      /\ \A j \in 1 .. Len(works) : works'[j] = mid[j]
      /\ works'[n] = w
    BY <1>1, <1>5, <1>6, <1>7, OneMore
<1>9. /\ \A j \in DOMAIN works' : j = n \/ j \in DOMAIN works
      /\ \A j \in DOMAIN works : works[j] \in Works
      /\ \A j \in DOMAIN works : j # i => works'[j] = works[j]
      /\ works'[i] = v
  <2>1. \A j \in DOMAIN works' : j = n \/ j \in DOMAIN works
      BY <1>8
  <2>2. \A j \in DOMAIN works : works[j] \in Works
      BY <1>1
  <2>3. QED BY <1>6, <1>8, <2>1, <2>2
<1>10. ShellShape'
  <2>1. ASSUME NEW l \in Keys PROVE slots'[l] <= n
    <3>1. CASE l = "export"
        BY <1>8, <3>1
    <3>2. CASE l # "export"
      <4>1. slots'[l] = slots[l] \/ slots'[l] = 0
          BY <3>2
      <4>2. slots[l] \in Nat /\ slots[l] <= Len(works) /\ Len(works) \in Nat /\ n = Len(works) + 1
          BY <1>1, <1>8
      <4>3. QED BY <4>1, <4>2
    <3>3. QED BY <3>1, <3>2
  <2>2. QED BY <1>1, <1>8, <2>1 DEF ShellInv, ShellShape
<1>11. Prompted' /\ Counted'
    BY DEF ShellInv, Prompted, Counted
<1>12. AllOnBoard'
  <2> SUFFICES ASSUME NEW j \in DOMAIN works' PROVE OnBoard(works[j])'
      BY DEF AllOnBoard
  <2>1. CASE j = n
      BY <1>4, <1>5, <1>8, <2>1 DEF OnBoard
  <2>2. CASE j = i
      BY <1>3, <1>9, <2>2 DEF OnBoard
  <2>3. CASE j \in DOMAIN works /\ j # i
      BY <1>9, <2>3 DEF OnBoard, ShellInv, AllOnBoard, Critical
  <2>4. QED BY <1>9, <2>1, <2>2, <2>3
<1>13. \A j \in DOMAIN works : works[j].pc = "runs" /\ works[j].board = dashboards
                               => works[j].key # "export"
  <2> SUFFICES ASSUME NEW j \in DOMAIN works, works[j].pc = "runs", works[j].board = dashboards,
                      works[j].key = "export"
               PROVE  FALSE
      OBVIOUS
  <2>1. slots["export"] = j
      BY DEF ShellInv, Slotted
  <2>2. QED BY <1>8, <2>1 DEF Busy, Runs
<1>14. Slotted'
  <2> SUFFICES ASSUME NEW j \in DOMAIN works', works'[j].pc = "runs", works'[j].board = dashboards,
                      works'[j].key # "spawn"
               PROVE  slots'[works'[j].key] = j
      BY DEF Slotted
  <2>1. CASE j = n
      BY <1>5, <1>8, <2>1
  <2>2. CASE j \in DOMAIN works
    <3>1. j # i /\ works'[j] = works[j] /\ works[j].key \in Keys
        BY <1>3, <1>9, <2>2 DEF Works
    <3>2. slots[works[j].key] = j /\ works[j].key # "export"
        BY <1>13, <2>2, <3>1 DEF ShellInv, Slotted
    <3>3. QED BY <3>1, <3>2
  <2>3. QED BY <1>9, <2>1, <2>2
<1>15. NoLaterBoard'
  <2> SUFFICES ASSUME NEW j \in DOMAIN works' PROVE works'[j].board <= dashboards
      BY DEF NoLaterBoard
  <2>1. QED BY <1>1, <1>3, <1>4, <1>5, <1>8, <1>9 DEF ShellInv, NoLaterBoard
<1>16. OneWorkerPerKey'
  <2> SUFFICES ASSUME NEW j \in DOMAIN works', NEW l \in DOMAIN works', works'[j].pc = "runs",
                      works'[l].pc = "runs", j # l, works'[j].board = works'[l].board,
                      works'[j].key # "spawn"
               PROVE  works'[j].key # works'[l].key
      BY DEF OneWorkerPerKey, Runs
  <2>1. j # i /\ l # i
      BY <1>3, <1>9
  <2>2. CASE j = n
      BY <1>5, <1>8, <1>9, <1>13, <2>1, <2>2
  <2>3. CASE l = n
      BY <1>5, <1>8, <1>9, <1>13, <2>1, <2>3
  <2>4. CASE j \in DOMAIN works /\ l \in DOMAIN works
      BY <1>9, <2>1, <2>4 DEF ShellInv, OneWorkerPerKey, Runs
  <2>5. QED BY <1>9, <2>2, <2>3, <2>4
<1>17. QED BY <1>10, <1>11, <1>12, <1>14, <1>15, <1>16 DEF ShellInv

LEMMA WorkFinishedKeeps ==
    ASSUME ShellInv, NEW i \in DOMAIN works, WorkFinished(i)
    PROVE  ShellInv'
<1> DEFINE done == [works EXCEPT ![i].pc = "over"]
           v == [works[i] EXCEPT !.pc = "over"]
           w == [key |-> "export", board |-> works[i].board, as |-> account, pc |-> "runs"]
           follows == works[i].key = "precheck" /\ ~(works[i].board = dashboards /\ Busy("export"))
           here == works[i].board = dashboards /\ slots[works[i].key] = i
<1>1. /\ works[i].pc = "ended"
      /\ UNCHANGED <<screen, account, signing, dashboards, sessions, instances, ask>>
      /\ works' = IF follows THEN Append(done, w) ELSE done
      /\ slots' = IF here THEN [Followed(i) EXCEPT ![works[i].key] = 0] ELSE Followed(i)
    BY DEF WorkFinished, Follow
<1>2. /\ works \in Seq(Works) /\ works[i] \in Works /\ slots \in [Keys -> Nat]
    BY DEF ShellInv, ShellShape
<1>3. done = [works EXCEPT ![i] = v] /\ v \in Works /\ works[i].key \in Keys
    BY <1>2 DEF Works
<1>4. done \in Seq(Works) /\ Len(done) = Len(works) /\ Len(works) \in Nat
    BY <1>2, <1>3
<1>5. CASE ~ follows
  <2>1. works' = done /\ Len(works') = Len(works)
      BY <1>1, <1>4, <1>5
  <2>2. Followed(i) = slots
      BY <1>4, <2>1 DEF Followed
  <2>3. \/ slots' = slots
        \/ slots' = [slots EXCEPT ![works[i].key] = 0] /\ slots[works[i].key] = i
      BY <1>1, <2>2
  <2>4. works' = [works EXCEPT ![i] = [works[i] EXCEPT !.pc = "over"]]
      BY <1>3, <2>1
  <2>5. QED BY <1>1, <2>3, <2>4, EndingKeeps
<1>6. CASE follows
  <2>1. works[i].key = "precheck" /\ works[i].pc # "over"
      BY <1>1, <1>6
  <2>2. works[i].board = dashboards
      BY <2>1 DEF ShellInv, AllOnBoard, OnBoard
  <2>3. ~ Busy("export")
      BY <1>6, <2>2
  <2>4. works' = Append(done, w)
      BY <1>1, <1>6
  <2>5. w \in Works
      BY <1>2, KeysOfWork DEF ShellInv, ShellShape, Works
  <2>6. Len(works') = Len(works) + 1
      BY <1>4, <2>4, <2>5, OneMore
  <2>7. Followed(i) = [slots EXCEPT !["export"] = Len(works')]
      BY <1>4, <2>2, <2>6 DEF Followed
  <2>8. /\ slots' \in [Keys -> Nat] /\ slots'["export"] = Len(works')
        /\ \A l \in Keys : l # "export" => slots'[l] = slots[l] \/ (slots'[l] = 0 /\ slots[l] = i)
    <3>1. Len(works') \in Nat /\ "export" \in Keys /\ "precheck" \in Keys
        BY <1>4, <2>6, KeysOfWork
    <3>2. CASE here
      <4>1. slots' = [[slots EXCEPT !["export"] = Len(works')] EXCEPT !["precheck"] = 0]
            /\ slots["precheck"] = i
          BY <1>1, <2>1, <2>7, <3>2
      <4>2. QED BY <1>2, <3>1, <4>1
    <3>3. CASE ~ here
      <4>1. slots' = [slots EXCEPT !["export"] = Len(works')]
          BY <1>1, <2>7, <3>3
      <4>2. QED BY <1>2, <3>1, <4>1
    <3>4. QED BY <3>2, <3>3
  <2>9. works' = Append([works EXCEPT ![i] = v], w)
      BY <1>3, <2>4
  <2> HIDE DEF done
  <2>10. QED BY <1>1, <2>1, <2>3, <2>8, <2>9, FollowingKeeps
<1>7. QED BY <1>5, <1>6

(***************************************************************************)
(* The shell as a whole.                                                   *)
(***************************************************************************)

LEMMA ShellSteps ==
    ASSUME "escapes" \notin ShellHabits, ShellInv, [ShellNext]_shellVars
    PROVE  ShellInv'
<1>1. CASE UNCHANGED shellVars
  <2>1. Prompted'
      BY <1>1 DEF shellVars, ShellInv, Prompted
  <2>2. QED BY <1>1, <2>1, NothingBegins DEF shellVars
<1>2. CASE ShellNext
  <2>1. CASE \/ \E role \in Logins : SignIn(role)
             \/ SignedIn \/ LogOut \/ CloseHub
             \/ \E p \in {"td", "manager", "artist"} : ChangeProfile(p)
      BY <2>1, AccountsKeepTheShell
  <2>2. CASE OpenSession \/ SessionEnds \/ SessionReported \/ LaunchProject \/ LooseSessionEnds
      BY <2>2, SessionsKeepTheShell
  <2>3. CASE \/ \E p \in DOMAIN HostOf :
                  \/ InstallProject(p) \/ ResetWorkingCopy(p) \/ BackfillSpawnedFiles(p)
                  \/ PublishChanges(p) \/ MigrateProject(p) \/ SpawnBatch(p)
             \/ ApplyVcsPolicy \/ BreakVcsLock \/ CleanupLocalRepository \/ PrecheckExport
             \/ PostComment \/ ToggleEntry \/ ChangeResponsibles \/ WriteTaskFile \/ CreatePerson
      BY <2>3, CommandsKeepTheShell
  <2>4. CASE AnswerPrompt
      BY <2>4, AnswerKeepsTheShell
  <2>5. CASE Threads
      BY <2>5, ThreadEndKeeps
  <2>6. CASE \E i \in DOMAIN works : WorkFinished(i)
      BY <2>6, WorkFinishedKeeps
  <2>7. QED BY <1>2, <2>1, <2>2, <2>3, <2>4, <2>5, <2>6 DEF ShellNext, Signals
<1>3. QED BY <1>1, <1>2

LEMMA ShellInvariant ==
    ASSUME "escapes" \notin ShellHabits
    PROVE  ShellInit /\ [][ShellNext]_shellVars => []ShellInv
BY ShellStarts, ShellSteps, PTL

LEMMA ShellPromises == ShellInv => WorkStaysOnBoard /\ SessionsOutlived /\ OneWorkerPerKey
<1>1. ASSUME ShellInv PROVE WorkStaysOnBoard
  <2> SUFFICES ASSUME NEW i \in DOMAIN works, Runs(i), Critical(works[i])
               PROVE  /\ works[i].board = dashboards /\ works[i].as = account
                      /\ screen \notin {"login", "closed"}
      BY DEF WorkStaysOnBoard
  <2>1. OnBoard(works[i])
      BY <1>1 DEF ShellInv, AllOnBoard
  <2>2. QED BY <2>1 DEF OnBoard, Runs, Boards
<1>2. QED BY <1>1 DEF ShellInv, Counted, SessionsOutlived

\* Whatever is started as critical runs for the dashboard that is shown and for the account that
\* started it, through switches of profile, log-outs and closed windows, unless the
\* window of an export was left with Escape (can_switch_profile, handle_logout, closeEvent).
THEOREM WorkEndsWithItsDesk ==
    ASSUME "escapes" \notin ShellHabits
    PROVE  ShellSpec => [](WorkStaysOnBoard /\ SessionsOutlived)
BY ShellInvariant, ShellPromises, PTL DEF ShellSpec

\* start() refuses a second worker under a key, whatever dashboards, follow-ups and late
\* ends of workers are on the way (WorkerManager.start, _on_finished).
THEOREM NoSecondWorker ==
    ASSUME "escapes" \notin ShellHabits
    PROVE  ShellSpec => []OneWorkerPerKey
BY ShellInvariant, ShellPromises, PTL DEF ShellSpec

(***************************************************************************)
(* An import, its windows and the studio that goes on.                     *)
(***************************************************************************)

Stages == {"idle", "check", "verify", "create", "fill", "hub", "load", "map", "list",
           "remove", "move"}
Prods == [of : Archives, by : Nat, state : {"partial", "whole", "gone"}, excused : BOOLEAN]
Working == [pc : Stages, of : Archives \cup {NoArchive}, rename : BOOLEAN, dry : BOOLEAN, id : Nat,
            excused : BOOLEAN, raced : BOOLEAN]
Reports == [of : Archives, ok : BOOLEAN, id : Nat, dry : BOOLEAN, checkout : BOOLEAN]
Showing == [open : BOOLEAN, plan : BOOLEAN, conflict : BOOLEAN, begun : BOOLEAN,
            running : BOOLEAN, undo : BOOLEAN]
MakesFiles == {"fill", "hub", "load", "map", "list", "remove", "move"}

ImportShape ==
    /\ prod \in Seq(Prods) /\ repo \in [Archives -> Repositories]
    /\ plan \in Archives \cup {NoArchive} /\ reading \in Archives \cup {NoArchive}
    /\ run \in Working /\ windows \in [Windows -> Showing] /\ imports \in Nat
    /\ report # NoReport => report \in Reports
    /\ undoing \in Nat

\* A window shows a plan when there is one, and a worker has what it works on.
PlanIsThere == \A v \in Windows : windows[v].plan => plan \in Archives
RunIsThere ==
    /\ run.pc # "idle" => run.of \in Archives /\ imports > 0
    /\ run.pc \in MakesFiles => run.id # 0
    /\ run.pc \notin MakesFiles => run.id = 0

\* The production is one that an import has made, or one it was let into.
Ours(id) == id \in DOMAIN prod /\ (prod[id].by # 0 \/ prod[id].excused)

Makers ==
    /\ run.id # 0 => Ours(run.id) /\ (prod[run.id].by = imports \/ prod[run.id].excused)
    /\ report # NoReport /\ report.id # 0 => Ours(report.id)
    /\ undoing # 0 => Ours(undoing)

\* Between the question and the creation, the name is taken by somebody only if the
\* answer was lost or somebody was quicker.
Asked == run.pc \in {"verify", "create"} => Live(run.of) = {} \/ run.excused \/ run.raced

\* The dump of an embedded archive, and the files it was loaded into.
Loaded(a) == repo[a].dump = "whole" /\ "files" \in {repo[a].src, repo[a].tgt}

Loads ==
    /\ run.pc \in {"map", "list", "remove", "move"} /\ run.of \in Embedded => Loaded(run.of)
    /\ run.pc \in {"list", "remove", "move"} /\ run.of \in Embedded => repo[run.of].src = "files"
    /\ report # NoReport /\ report.ok /\ ~report.dry /\ ~report.checkout
       => report.of \in Embedded /\ Loaded(report.of)

Removals ==
    /\ run.pc = "remove" => repo[run.of].tgt = "empty" \/ run.raced
    /\ dropped = {}

ImportInv ==
    /\ ImportShape /\ PlanIsThere /\ RunIsThere /\ Makers /\ Asked /\ Loads /\ Removals

LEMMA ImportStarts == ImportInit => ImportInv
<1> SUFFICES ASSUME ImportInit PROVE ImportInv
    OBVIOUS
<1>1. /\ prod = << >> /\ DOMAIN << >> = {} /\ << >> \in Seq(Prods) /\ repo = RepoAtStart
      /\ run.pc = "idle" /\ run.id = 0 /\ undoing = 0 /\ report = NoReport /\ dropped = {}
    BY DEF ImportInit, NoRun
<1>2. run \in Working /\ windows \in [Windows -> Showing] /\ ~ (\E v \in Windows : windows[v].plan)
    BY DEF ImportInit, NoRun, Closed, Working, Stages, Showing
<1>3. ImportShape
    BY <1>1, <1>2, ImportAssumption DEF ImportInit, ImportShape
<1>4. QED BY <1>1, <1>2, <1>3 DEF ImportInv, PlanIsThere, RunIsThere, Makers, Asked, Loads, Removals,
                                  MakesFiles

\* Windows alone change.
LEMMA WindowsKeep ==
    ASSUME ImportInv, windows' \in [Windows -> Showing], PlanIsThere',
           reading' \in Archives \cup {NoArchive}, plan' \in Archives \cup {NoArchive},
           UNCHANGED << prod, repo, report, run, undoing, imports, dropped >>
    PROVE  ImportInv'
BY DEF ImportInv, ImportShape, RunIsThere, Makers, Ours, Asked, Live, Loads, Loaded, Removals

LEMMA TellingKeeps ==
    ASSUME windows \in [Windows -> Showing], NEW new \in [Windows -> Showing], Tell(new)
    PROVE  /\ windows' \in [Windows -> Showing]
           /\ \A v \in Windows : windows'[v] = windows[v] \/ windows'[v] = new[v]
BY DEF Tell

LEMMA WindowStepsKeep ==
    ASSUME ImportInv,
           \/ \E v \in Windows : OpenImportWindow(v) \/ CloseImportWindow(v)
           \/ \E v \in Windows, a \in Archives : LoadArchive(v, a)
           \/ ArchiveInspected
    PROVE  ImportInv'
<1>1. /\ windows \in [Windows -> Showing] /\ plan \in Archives \cup {NoArchive}
      /\ reading \in Archives \cup {NoArchive}
    BY DEF ImportInv, ImportShape
<1>2. ASSUME NEW v \in Windows, OpenImportWindow(v) \/ CloseImportWindow(v)
      PROVE  ImportInv'
  <2>1. /\ UNCHANGED << prod, repo, plan, report, reading, run, undoing, imports, dropped >>
        /\ windows' = [windows EXCEPT ![v] = [Closed EXCEPT !.open = TRUE]]
           \/ windows' = [windows EXCEPT ![v] = Closed]
      BY <1>2 DEF OpenImportWindow, CloseImportWindow
  <2>2. /\ Closed \in Showing /\ [Closed EXCEPT !.open = TRUE] \in Showing
        /\ ~ Closed.plan /\ ~ [Closed EXCEPT !.open = TRUE].plan
      BY DEF Closed, Showing
  <2>3. windows' \in [Windows -> Showing]
        /\ \A u \in Windows : windows'[u].plan => windows[u].plan
      BY <1>1, <2>1, <2>2
  <2>4. PlanIsThere'
      BY <2>1, <2>3 DEF ImportInv, PlanIsThere
  <2>5. QED BY <1>1, <2>1, <2>3, <2>4, WindowsKeep
<1>3. ASSUME NEW v \in Windows, NEW a \in Archives, LoadArchive(v, a)
      PROVE  ImportInv'
  <2>1. reading' = a /\ UNCHANGED << prod, repo, plan, report, run, undoing, windows, imports, dropped >>
      BY <1>3 DEF LoadArchive
  <2>2. PlanIsThere'
      BY <2>1 DEF ImportInv, PlanIsThere
  <2>3. QED BY <1>1, <2>1, <2>2, WindowsKeep
<1>4. CASE ArchiveInspected
  <2>1. reading # NoArchive /\ reading' = NoArchive /\ reading \in Archives
        /\ UNCHANGED <<prod, repo, report, run, undoing, imports, dropped>>
      BY <1>1, <1>4 DEF ArchiveInspected
  <2>2. CASE Tell([v \in Windows |-> [windows[v] EXCEPT !.conflict = TRUE]]) /\ UNCHANGED plan
    <3> DEFINE new == [v \in Windows |-> [windows[v] EXCEPT !.conflict = TRUE]]
    <3>1. new \in [Windows -> Showing] /\ \A v \in Windows : new[v].plan = windows[v].plan
        BY <1>1 DEF Showing
    <3>2. Tell(new)
        BY <2>2
    <3> HIDE DEF new
    <3>3. /\ windows' \in [Windows -> Showing]
          /\ \A v \in Windows : windows'[v] = windows[v] \/ windows'[v] = new[v]
        BY <1>1, <3>1, <3>2, TellingKeeps
    <3>4. PlanIsThere'
        BY <2>2, <3>1, <3>3 DEF ImportInv, PlanIsThere
    <3>5. QED BY <1>1, <2>1, <2>2, <3>3, <3>4, WindowsKeep
  <2>3. CASE Tell([v \in Windows |-> [windows[v] EXCEPT !.plan = TRUE]]) /\ plan' = reading
    <3> DEFINE new == [v \in Windows |-> [windows[v] EXCEPT !.plan = TRUE]]
    <3>1. new \in [Windows -> Showing]
        BY <1>1 DEF Showing
    <3>2. Tell(new)
        BY <2>3
    <3> HIDE DEF new
    <3>3. windows' \in [Windows -> Showing]
        BY <1>1, <3>1, <3>2, TellingKeeps
    <3>4. PlanIsThere'
        BY <2>1, <2>3 DEF PlanIsThere
    <3>5. QED BY <1>1, <2>1, <2>3, <3>3, <3>4, WindowsKeep
  <2>4. QED BY <1>4, <2>2, <2>3 DEF ArchiveInspected
<1>5. QED BY <1>2, <1>3, <1>4

\* A report replaces the last one; the worker is gone.
LEMMA ReportingKeeps ==
    ASSUME ImportInv, NEW ok \in BOOLEAN, NEW id \in Nat, NEW checkout \in BOOLEAN,
           Reported(ok, id, checkout), run.pc # "idle",
           prod' \in Seq(Prods), \A j \in Nat : Ours(j) => Ours(j)',
           repo' \in [Archives -> Repositories], id # 0 => Ours(id),
           ok /\ ~run.dry /\ ~checkout =>
               run.of \in Embedded /\ repo'[run.of].dump = "whole"
               /\ "files" \in {repo'[run.of].src, repo'[run.of].tgt},
           UNCHANGED << plan, reading, undoing, imports, dropped >>
    PROVE  ImportInv'
<1>1. /\ windows \in [Windows -> Showing] /\ run \in Working /\ run.of \in Archives
      /\ undoing \in Nat
    BY DEF ImportInv, ImportShape, RunIsThere
<1>2. run' = NoRun /\ NoRun \in Working /\ NoRun.pc = "idle" /\ NoRun.id = 0
    BY DEF Reported, NoRun, Working, Stages
<1>3. /\ report' = [of |-> run.of, ok |-> ok, id |-> id, dry |-> run.dry, checkout |-> checkout]
      /\ report' \in Reports /\ report'.of = run.of /\ report'.ok = ok /\ report'.id = id
      /\ report'.dry = run.dry /\ report'.checkout = checkout
    BY <1>1 DEF Reported, Reports, Working
<1> DEFINE new == [v \in Windows |-> [windows[v] EXCEPT !.running = FALSE,
                                                          !.undo = @ \/ (~ok /\ id # 0)]]
<1>4. new \in [Windows -> Showing] /\ \A v \in Windows : new[v].plan = windows[v].plan
    BY <1>1 DEF Showing
<1>5. Tell(new)
    BY DEF Reported
<1> HIDE DEF new
<1>6. /\ windows' \in [Windows -> Showing]
      /\ \A v \in Windows : windows'[v] = windows[v] \/ windows'[v] = new[v]
    BY <1>1, <1>4, <1>5, TellingKeeps
<1>7. PlanIsThere'
    BY <1>4, <1>6 DEF ImportInv, PlanIsThere
<1>8. ImportShape'
    BY <1>2, <1>3, <1>6 DEF ImportInv, ImportShape
<1>9. RunIsThere' /\ Asked' /\ Removals'
    BY <1>2 DEF RunIsThere, Asked, Removals, MakesFiles, ImportInv
<1>10. Makers'
    BY <1>1, <1>2, <1>3 DEF ImportInv, Makers
<1>11. Loads'
    BY <1>2, <1>3 DEF Loads, Loaded
<1>12. QED BY <1>7, <1>8, <1>9, <1>10, <1>11 DEF ImportInv

LEMMA NothingNewIsOurs ==
    ASSUME UNCHANGED prod
    PROVE  \A j : Ours(j) => Ours(j)'
BY DEF Ours

LEMMA AppendedIsTyped ==
    ASSUME prod \in Seq(Prods), NEW q \in Prods, prod' = Append(prod, q)
    PROVE  /\ prod' \in Seq(Prods) /\ Len(prod') = Len(prod) + 1 /\ Len(prod) \in Nat
           /\ prod'[Len(prod) + 1] = q /\ \A j \in DOMAIN prod : j \in DOMAIN prod' /\ prod'[j] = prod[j]
           /\ \A j \in DOMAIN prod' : j \in DOMAIN prod \/ j = Len(prod) + 1
           /\ Len(prod) + 1 \in DOMAIN prod'
           /\ \A j : Ours(j) => Ours(j)'
BY DEF Ours

LEMMA ChangedIsTyped ==
    ASSUME prod \in Seq(Prods), NEW k \in DOMAIN prod, NEW q \in Prods,
           prod' = [prod EXCEPT ![k] = q], q.of = prod[k].of, q.by = prod[k].by,
           prod[k].excused => q.excused
    PROVE  /\ prod' \in Seq(Prods) /\ DOMAIN prod' = DOMAIN prod /\ prod'[k] = q
           /\ \A j \in DOMAIN prod : j # k => prod'[j] = prod[j]
           /\ \A j : Ours(j) => Ours(j)'
BY DEF Ours

LEMMA OrdersKeep ==
    ASSUME ImportInv,
           \/ \E v \in Windows, rename, dry \in BOOLEAN : StartImport(v, rename, dry)
           \/ \E v \in Windows : RollbackImport(v)
           \/ RollbackFinished
    PROVE  ImportInv'
<1>1. /\ windows \in [Windows -> Showing] /\ prod \in Seq(Prods) /\ imports \in Nat /\ undoing \in Nat
      /\ plan \in Archives \cup {NoArchive}
    BY DEF ImportInv, ImportShape
<1>2. ASSUME NEW v \in Windows, NEW rename \in BOOLEAN, NEW dry \in BOOLEAN,
             StartImport(v, rename, dry)
      PROVE  ImportInv'
  <2>1. /\ windows' = [windows EXCEPT ![v].begun = TRUE, ![v].running = TRUE]
        /\ UNCHANGED <<prod, repo, plan, report, reading, undoing, dropped>>
      BY <1>2 DEF StartImport
  <2>2. /\ windows' \in [Windows -> Showing]
        /\ \A u \in Windows : windows'[u].plan = windows[u].plan
      BY <1>1, <2>1 DEF Showing
  <2>3. PlanIsThere'
      BY <2>1, <2>2 DEF ImportInv, PlanIsThere
  <2>4. plan \in Archives
      BY <1>2 DEF StartImport, ImportInv, PlanIsThere
  <2>5. CASE UNCHANGED << imports, run >>
    <3>1. reading' \in Archives \cup {NoArchive} /\ plan' \in Archives \cup {NoArchive}
        BY <2>1 DEF ImportInv, ImportShape
    <3>2. QED BY <2>1, <2>2, <2>3, <2>5, <3>1, WindowsKeep
  <2>6. CASE /\ run.pc = "idle" /\ imports' = imports + 1
             /\ run' = [NoRun EXCEPT !.pc = "check", !.of = plan, !.rename = rename, !.dry = dry]
    <3>1. run' \in Working /\ run'.pc = "check" /\ run'.of = plan /\ run'.id = 0
        BY <1>1, <2>4, <2>6 DEF NoRun, Working, Stages
    <3>2. ImportShape'
        BY <1>1, <2>1, <2>2, <2>6, <3>1 DEF ImportInv, ImportShape
    <3>3. RunIsThere' /\ Asked' /\ Removals'
        BY <1>1, <2>1, <2>4, <2>6, <3>1 DEF ImportInv, RunIsThere, Asked, Removals, MakesFiles
    <3>4. Makers' /\ Loads'
        BY <2>1, <3>1 DEF ImportInv, Makers, Ours, Loads, Loaded
    <3>5. QED BY <2>3, <3>2, <3>3, <3>4 DEF ImportInv
  <2>7. QED BY <1>2, <2>5, <2>6 DEF StartImport
<1>3. ASSUME NEW v \in Windows, RollbackImport(v) PROVE ImportInv'
  <2>1. /\ report # NoReport /\ report.id # 0 /\ undoing' = report.id
        /\ UNCHANGED <<prod, repo, plan, report, reading, run, windows, imports, dropped>>
      BY <1>3 DEF RollbackImport
  <2>2. ImportShape'
      BY <2>1 DEF ImportInv, ImportShape, Reports
  <2>3. Makers'
      BY <2>1 DEF ImportInv, Makers, Ours
  <2>4. QED BY <2>1, <2>2, <2>3 DEF ImportInv, PlanIsThere, RunIsThere, Asked, Live, Loads, Loaded, Removals
<1>4. CASE RollbackFinished
  <2>1. /\ undoing # 0 /\ undoing' = 0 /\ undoing \in DOMAIN prod
        /\ UNCHANGED <<repo, plan, report, reading, run, windows, imports, dropped>>
      BY <1>4 DEF RollbackFinished, ImportInv, Makers, Ours
  <2>2. CASE UNCHANGED prod
      BY <2>1, <2>2 DEF ImportInv, ImportShape, Makers, Ours, PlanIsThere, RunIsThere, Asked, Live,
                        Loads, Loaded, Removals
  <2>3. CASE prod' = [prod EXCEPT ![undoing].state = "gone"]
    <3> DEFINE q == [prod[undoing] EXCEPT !.state = "gone"]
    <3>1. prod[undoing] \in Prods
        BY <1>1, <2>1
    <3>2. q \in Prods /\ q.of = prod[undoing].of /\ q.by = prod[undoing].by
          /\ q.excused = prod[undoing].excused /\ q.state = "gone"
        BY <3>1 DEF Prods
    <3>3. prod' = [prod EXCEPT ![undoing] = q]
        BY <2>3
    <3> HIDE DEF q
    <3>4. /\ prod' \in Seq(Prods) /\ DOMAIN prod' = DOMAIN prod /\ prod'[undoing] = q
          /\ \A j \in DOMAIN prod : j # undoing => prod'[j] = prod[j]
          /\ \A j : Ours(j) => Ours(j)'
        BY <1>1, <2>1, <3>2, <3>3, ChangedIsTyped
    <3>5. ImportShape'
        BY <2>1, <3>4 DEF ImportInv, ImportShape
    <3>6. Makers'
        BY <2>1, <3>2, <3>4 DEF ImportInv, Makers, Ours
    <3>7. Live(run.of)' \subseteq Live(run.of)
        BY <2>1, <3>2, <3>4 DEF Live
    <3>8. Asked'
        BY <2>1, <3>7 DEF ImportInv, Asked
    <3>9. QED BY <2>1, <3>5, <3>6, <3>8 DEF ImportInv, PlanIsThere, RunIsThere, Loads, Loaded, Removals
  <2>4. QED BY <1>4, <2>2, <2>3 DEF RollbackFinished
<1>5. QED BY <1>2, <1>3, <1>4

\* The worker goes on without having done anything.
LEMMA GoingOnKeeps ==
    ASSUME ImportInv, NEW pc \in Stages, NEW e \in BOOLEAN,
           run' = [run EXCEPT !.pc = pc, !.excused = e], run.excused => e,
           run.pc # "idle", pc # "idle", pc \in MakesFiles <=> run.pc \in MakesFiles,
           pc \in {"verify", "create"} => Live(run.of) = {} \/ e \/ run.raced,
           pc \in {"map", "list", "remove", "move"} /\ run.of \in Embedded => Loaded(run.of),
           pc \in {"list", "remove", "move"} /\ run.of \in Embedded => repo[run.of].src = "files",
           pc = "remove" => repo[run.of].tgt = "empty" \/ run.raced,
           UNCHANGED << prod, repo, plan, report, reading, windows, undoing, imports, dropped >>
    PROVE  ImportInv'
<1>1. run \in Working
    BY DEF ImportInv, ImportShape
<1>2. /\ run' \in Working /\ run'.pc = pc /\ run'.excused = e /\ run'.of = run.of /\ run'.id = run.id
      /\ run'.raced = run.raced /\ run'.dry = run.dry
    BY <1>1 DEF Working
<1>3. ImportShape' /\ PlanIsThere'
    BY <1>2 DEF ImportInv, ImportShape, PlanIsThere
<1>4. RunIsThere' /\ Makers'
    BY <1>2 DEF ImportInv, RunIsThere, Makers, Ours
<1>5. Asked' /\ Loads' /\ Removals'
    BY <1>2 DEF ImportInv, Asked, Live, Loads, Loaded, Removals
<1>6. QED BY <1>3, <1>4, <1>5 DEF ImportInv

LEMMA ToKeeps ==
    ASSUME ImportInv, NEW pc \in Stages, To(pc),
           run.pc # "idle", pc # "idle", pc \in MakesFiles <=> run.pc \in MakesFiles,
           pc \in {"verify", "create"} => Live(run.of) = {} \/ run.excused \/ run.raced,
           pc \in {"map", "list", "remove", "move"} /\ run.of \in Embedded => Loaded(run.of),
           pc \in {"list", "remove", "move"} /\ run.of \in Embedded => repo[run.of].src = "files",
           pc = "remove" => repo[run.of].tgt = "empty" \/ run.raced,
           UNCHANGED << prod, repo, plan, reading, undoing, imports, dropped >>
    PROVE  ImportInv'
<1>1. run \in Working
    BY DEF ImportInv, ImportShape
<1>2. run.excused \in BOOLEAN /\ run' = [run EXCEPT !.pc = pc, !.excused = run.excused]
    BY <1>1 DEF To, Working
<1>3. UNCHANGED << report, windows >>
    BY DEF To
<1>4. QED BY <1>2, <1>3, GoingOnKeeps

LEMMA ChecksKeep ==
    ASSUME ImportInv, CheckConflict \/ ProbeRepository
    PROVE  ImportInv'
<1>1. /\ prod \in Seq(Prods) /\ repo \in [Archives -> Repositories] /\ run \in Working
      /\ run.pc \in {"check", "verify"} /\ run.id = 0
      /\ UNCHANGED <<prod, repo, plan, reading, undoing, imports, dropped>>
    BY DEF CheckConflict, ProbeRepository, At, ImportInv, ImportShape, RunIsThere, MakesFiles
<1>2. \A j : Ours(j) => Ours(j)'
    BY <1>1, NothingNewIsOurs
<1>3. CASE Reported(FALSE, 0, FALSE) \/ (Reported(TRUE, 0, FALSE) /\ run.dry)
  <2>1. /\ run.pc # "idle" /\ prod' \in Seq(Prods) /\ repo' \in [Archives -> Repositories]
        /\ UNCHANGED << plan, reading, undoing, imports, dropped >>
      BY <1>1
  <2>2. CASE Reported(FALSE, 0, FALSE)
      BY <1>2, <2>1, <2>2, ReportingKeeps
  <2>3. CASE Reported(TRUE, 0, FALSE) /\ run.dry
      BY <1>2, <2>1, <2>3, ReportingKeeps
  <2>4. QED BY <1>3, <2>2, <2>3
<1>4. CASE CheckConflict
  <2>1. CASE Live(run.of) = {} /\ To("verify")
      BY <1>1, <1>4, <2>1, ToKeeps DEF CheckConflict, At, Stages, MakesFiles
  <2>2. CASE run' = [run EXCEPT !.pc = "verify", !.excused = TRUE] /\ UNCHANGED <<report, windows>>
      BY <1>1, <1>4, <2>2, GoingOnKeeps DEF CheckConflict, At, Stages, MakesFiles
  <2>3. QED BY <1>3, <1>4, <2>1, <2>2 DEF CheckConflict
<1>5. CASE ProbeRepository
  <2>1. CASE Reported(FALSE, 0, FALSE) \/ (Reported(TRUE, 0, FALSE) /\ run.dry)
      BY <1>3, <2>1
  <2>2. CASE To("create")
    <3>1. Live(run.of) = {} \/ run.excused \/ run.raced
        BY <1>5 DEF ProbeRepository, At, ImportInv, Asked
    <3>2. QED BY <1>1, <1>5, <2>2, <3>1, ToKeeps DEF ProbeRepository, At, Stages, MakesFiles
  <2>3. QED BY <1>5, <2>1, <2>2 DEF ProbeRepository
<1>6. QED BY <1>4, <1>5

\* A production is made, or one that has the name is taken.
LEMMA CreationKeeps ==
    ASSUME ImportInv, CreateProduction
    PROVE  ImportInv'
<1> DEFINE n == Len(prod) + 1
           q == [of |-> run.of, by |-> imports, state |-> "partial", excused |-> FALSE]
<1>1. /\ prod \in Seq(Prods) /\ repo \in [Archives -> Repositories] /\ run \in Working
      /\ run.pc = "create" /\ run.of \in Archives /\ imports \in Nat /\ imports > 0
      /\ UNCHANGED <<repo, plan, reading, undoing, imports, dropped>>
    BY DEF CreateProduction, At, ImportInv, ImportShape, RunIsThere
<1>2. q \in Prods /\ q.by = imports /\ q = Production
    BY <1>1 DEF Prods, Production
<1> HIDE DEF q
<1>3. ASSUME NEW id \in DOMAIN prod', run' = [run EXCEPT !.pc = "fill", !.id = id],
             UNCHANGED << report, windows >>, prod' \in Seq(Prods),
             \A j : Ours(j) => Ours(j)',
             prod'[id].by = imports \/ prod'[id].excused
      PROVE  ImportInv'
  <2>1. id \in Nat /\ id # 0
      BY <1>3
  <2>2. run' \in Working /\ run'.pc = "fill" /\ run'.id = id /\ run'.of = run.of
      BY <1>1, <1>3, <2>1 DEF Working, Stages
  <2>3. ImportShape' /\ PlanIsThere'
      BY <1>1, <1>3, <2>2 DEF ImportInv, ImportShape, PlanIsThere
  <2>4. RunIsThere' /\ Asked' /\ Loads' /\ Removals'
      BY <1>1, <1>3, <2>1, <2>2 DEF ImportInv, RunIsThere, Asked, Loads, Loaded, Removals, MakesFiles
  <2>5. Makers'
      BY <1>1, <1>3, <2>1, <2>2 DEF ImportInv, Makers, Ours
  <2>6. QED BY <2>3, <2>4, <2>5 DEF ImportInv
<1>4. ASSUME prod' = Append(prod, Production),
             \/ run' = [run EXCEPT !.pc = "fill", !.id = Len(prod')] /\ UNCHANGED <<report, windows>>
             \/ Reported(FALSE, 0, FALSE)
      PROVE  ImportInv'
  <2>1. /\ prod' \in Seq(Prods) /\ Len(prod') = n /\ prod'[n] = q /\ n \in DOMAIN prod'
        /\ \A j : Ours(j) => Ours(j)'
      BY <1>1, <1>2, <1>4, AppendedIsTyped
  <2>2. CASE run' = [run EXCEPT !.pc = "fill", !.id = Len(prod')] /\ UNCHANGED <<report, windows>>
      BY <1>2, <1>3, <2>1, <2>2
  <2>3. CASE Reported(FALSE, 0, FALSE)
      BY <1>1, <2>1, <2>3, ReportingKeeps
  <2>4. QED BY <1>4, <2>2, <2>3
<1>5. ASSUME NEW id \in Live(run.of), UNCHANGED << report, windows >>,
             prod' = [prod EXCEPT ![id].excused = @ \/ run.excused \/ run.raced],
             run' = [run EXCEPT !.pc = "fill", !.id = id]
      PROVE  ImportInv'
  <2> DEFINE r == [prod[id] EXCEPT !.excused = @ \/ run.excused \/ run.raced]
  <2>1. id \in DOMAIN prod /\ prod[id] \in Prods
      BY <1>1 DEF Live
  <2>2. run.excused \/ run.raced
      BY <1>1 DEF ImportInv, Asked
  <2>3. r \in Prods /\ r.of = prod[id].of /\ r.by = prod[id].by /\ r.excused
      BY <1>1, <2>1, <2>2 DEF Prods, Working
  <2>4. prod' = [prod EXCEPT ![id] = r]
      BY <1>5
  <2> HIDE DEF r
  <2>5. /\ prod' \in Seq(Prods) /\ DOMAIN prod' = DOMAIN prod /\ prod'[id] = r
        /\ \A j : Ours(j) => Ours(j)'
      BY <1>1, <2>1, <2>3, <2>4, ChangedIsTyped
  <2>6. QED BY <1>3, <1>5, <2>1, <2>3, <2>5
<1>6. CASE Reported(FALSE, 0, FALSE) /\ UNCHANGED prod
  <2>1. \A j : Ours(j) => Ours(j)'
      BY <1>6, NothingNewIsOurs
  <2>2. QED BY <1>1, <1>6, <2>1, ReportingKeeps
<1>7. QED BY <1>4, <1>5, <1>6 DEF CreateProduction

LEMMA MakingKeeps ==
    ASSUME ImportInv,
           FillProduction \/ RecreateHubProject \/ ListTarget \/ ImportCrashes
    PROVE  ImportInv'
<1>1. /\ prod \in Seq(Prods) /\ repo \in [Archives -> Repositories] /\ run \in Working
      /\ run.pc \in MakesFiles /\ run.pc # "idle" /\ run.of \in Archives
    BY DEF FillProduction, RecreateHubProject, ListTarget, ImportCrashes, At, ImportInv, ImportShape,
           RunIsThere, MakesFiles
<1>2. /\ UNCHANGED <<prod, repo, plan, reading, undoing, imports, dropped>>
    BY DEF FillProduction, RecreateHubProject, ListTarget, ImportCrashes
<1>3. CASE FillProduction
    BY <1>1, <1>2, <1>3, ToKeeps DEF FillProduction, Stages, MakesFiles
<1>4. CASE RecreateHubProject
  <2>1. PICK pc \in {"load", "map"} : To(pc) /\ (pc = "map" => run.of \notin Embedded)
      BY <1>4 DEF RecreateHubProject
  <2>2. QED BY <1>1, <1>2, <2>1, ToKeeps DEF Stages, MakesFiles
<1>5. CASE ListTarget
  <2>1. PICK pc \in {"remove", "move"} : To(pc) /\ (pc = "remove" => repo[run.of].tgt = "empty")
      BY <1>5 DEF ListTarget
  <2>2. run.of \in Embedded => Loaded(run.of) /\ repo[run.of].src = "files"
      BY <1>5 DEF ListTarget, At, ImportInv, Loads
  <2>3. QED BY <1>1, <1>2, <2>1, <2>2, ToKeeps DEF Stages, MakesFiles
<1>6. CASE ImportCrashes
  <2>1. Reported(FALSE, run.id, FALSE) /\ run.id \in Nat
      BY <1>1, <1>6 DEF ImportCrashes, Working
  <2>2. Ours(run.id)
      BY <1>1 DEF ImportInv, RunIsThere, Makers
  <2>3. /\ run.pc # "idle" /\ prod' \in Seq(Prods) /\ repo' \in [Archives -> Repositories]
        /\ UNCHANGED << plan, reading, undoing, imports, dropped >>
      BY <1>1, <1>2
  <2>4. \A j \in Nat : Ours(j) => Ours(j)'
      BY <1>2, NothingNewIsOurs
  <2>5. QED BY <2>1, <2>2, <2>3, <2>4, ReportingKeeps
<1>7. QED BY <1>3, <1>4, <1>5, <1>6

\* The production is said to be whole.
LEMMA ImportedKeeps ==
    ASSUME ImportInv, NEW checkout \in BOOLEAN, Imported(checkout), run.pc \in MakesFiles,
           repo' \in [Archives -> Repositories],
           ~checkout => run.of \in Embedded /\ repo'[run.of].dump = "whole"
                        /\ "files" \in {repo'[run.of].src, repo'[run.of].tgt},
           UNCHANGED << plan, reading, undoing, imports, dropped >>
    PROVE  ImportInv'
<1>1. /\ prod \in Seq(Prods) /\ run \in Working /\ run.id # 0 /\ run.id \in Nat /\ run.pc # "idle"
      /\ Ours(run.id)
    BY DEF ImportInv, ImportShape, RunIsThere, Makers, Working, MakesFiles
<1>2. run.id \in DOMAIN prod /\ prod[run.id] \in Prods
    BY <1>1 DEF Ours
<1> DEFINE q == [prod[run.id] EXCEPT !.state = IF @ = "gone" THEN "gone" ELSE "whole"]
<1>3. q \in Prods /\ q.of = prod[run.id].of /\ q.by = prod[run.id].by
      /\ q.excused = prod[run.id].excused
    BY <1>2 DEF Prods
<1>4. prod' = [prod EXCEPT ![run.id] = q] /\ Reported(TRUE, run.id, checkout)
    BY DEF Imported
<1> HIDE DEF q
<1>5. /\ prod' \in Seq(Prods) /\ \A j \in Nat : Ours(j) => Ours(j)'
    BY <1>1, <1>2, <1>3, <1>4, ChangedIsTyped
<1>6. CASE checkout
  <2>1. Reported(TRUE, run.id, TRUE)
      BY <1>4, <1>6
  <2>2. QED BY <1>1, <1>5, <2>1, ReportingKeeps
<1>7. CASE ~ checkout
  <2>1. Reported(TRUE, run.id, FALSE)
      BY <1>4, <1>7
  <2>2. run.of \in Embedded /\ repo'[run.of].dump = "whole"
        /\ "files" \in {repo'[run.of].src, repo'[run.of].tgt}
      BY <1>7
  <2>3. QED BY <1>1, <1>5, <2>1, <2>2, ReportingKeeps
<1>8. QED BY <1>6, <1>7

\* Only the repository of this archive changes, while its import goes on.
LEMMA RepositoryKeeps ==
    ASSUME ImportInv, NEW pc \in {"map", "move"}, To(pc), NEW r \in Repositories,
           run.pc \in MakesFiles, repo' = [repo EXCEPT ![run.of] = r],
           run.of \in Embedded => r.dump = "whole" /\ "files" \in {r.src, r.tgt}
                                  /\ (pc = "move" => r.src = "files"),
           dropped' = {}, UNCHANGED << prod, plan, reading, undoing, imports >>
    PROVE  ImportInv'
<1>1. /\ run \in Working /\ run.of \in Archives /\ run.pc # "idle" /\ run.id # 0
      /\ repo \in [Archives -> Repositories]
    BY DEF ImportInv, ImportShape, RunIsThere, MakesFiles
<1>2. /\ run' = [run EXCEPT !.pc = pc] /\ run' \in Working /\ run'.pc = pc /\ run'.of = run.of
      /\ run'.id = run.id /\ run'.raced = run.raced /\ run'.excused = run.excused
      /\ UNCHANGED <<report, windows>>
    BY <1>1 DEF To, Working, Stages
<1>3. /\ repo' \in [Archives -> Repositories] /\ repo'[run.of] = r
      /\ \A b \in Archives : b # run.of => repo'[b] = repo[b]
    BY <1>1
<1>4. ImportShape' /\ PlanIsThere'
    BY <1>2, <1>3 DEF ImportInv, ImportShape, PlanIsThere
<1>5. RunIsThere' /\ Makers' /\ Asked' /\ Removals'
    BY <1>2, <1>3 DEF ImportInv, RunIsThere, Makers, Ours, Asked, Removals, MakesFiles
<1>6. Loads'
  <2>1. ASSUME report # NoReport, report.ok, ~report.dry, ~report.checkout
        PROVE  report.of \in Embedded /\ Loaded(report.of)'
    <3>1. report.of \in Embedded /\ Loaded(report.of) /\ report.of \in Archives
        BY <2>1, ImportAssumption DEF ImportInv, Loads
    <3>2. CASE report.of = run.of
        BY <1>2, <1>3, <3>1, <3>2 DEF Loaded
    <3>3. CASE report.of # run.of
        BY <1>2, <1>3, <3>1, <3>3 DEF Loaded
    <3>4. QED BY <3>1, <3>2, <3>3
  <2>2. QED BY <1>2, <1>3, <2>1 DEF Loads, Loaded
<1>7. QED BY <1>4, <1>5, <1>6 DEF ImportInv

LEMMA LoadingKeeps ==
    ASSUME ImportInv, LoadDump
    PROVE  ImportInv'
<1>1. /\ prod \in Seq(Prods) /\ repo \in [Archives -> Repositories] /\ run \in Working
      /\ run.pc \in MakesFiles /\ run.of \in Archives /\ dropped = {}
      /\ UNCHANGED <<plan, reading, undoing, imports, others, dropped>>
    BY DEF LoadDump, At, ImportInv, ImportShape, RunIsThere, MakesFiles, Removals
<1>2. repo[run.of] \in Repositories
    BY <1>1
<1>3. ASSUME NEW dump \in {"whole", "part"}
      PROVE  \E r \in Repositories : /\ WithDump(run.of, dump) = [repo EXCEPT ![run.of] = r]
                                      /\ r.dump = dump /\ "files" \in {r.src, r.tgt}
  <2>1. CASE run.of \in Foldered
    <3> DEFINE r == [repo[run.of] EXCEPT !.there = TRUE, !.src = "files", !.dump = dump]
    <3>1. r \in Repositories /\ r.dump = dump /\ r.src = "files"
        BY <1>2 DEF Repositories, Folders
    <3>2. WithDump(run.of, dump) = [repo EXCEPT ![run.of] = r]
        BY <1>1, <2>1 DEF WithDump
    <3>3. QED BY <3>1, <3>2
  <2>2. CASE run.of \notin Foldered
    <3> DEFINE r == [repo[run.of] EXCEPT !.there = TRUE, !.tgt = "files", !.dump = dump]
    <3>1. r \in Repositories /\ r.dump = dump /\ r.tgt = "files"
        BY <1>2 DEF Repositories, Folders
    <3>2. WithDump(run.of, dump) = [repo EXCEPT ![run.of] = r]
        BY <1>1, <2>2 DEF WithDump
    <3>3. QED BY <3>1, <3>2
  <2>3. QED BY <2>1, <2>2
<1>4. CASE repo' = WithDump(run.of, "whole") /\ To("map") /\ UNCHANGED prod
    BY <1>1, <1>3, <1>4, RepositoryKeeps
<1>5. CASE Imported(TRUE) /\ (repo' = WithDump(run.of, "part") \/ repo' = [repo EXCEPT ![run.of].there = TRUE])
  <2>1. PICK r : r = [repo[run.of] EXCEPT !.there = TRUE]
      OBVIOUS
  <2>2. r \in Repositories
      BY <1>2, <2>1 DEF Repositories
  <2>3. [repo EXCEPT ![run.of].there = TRUE] = [repo EXCEPT ![run.of] = r]
      BY <1>1, <2>1
  <2>4. repo' \in [Archives -> Repositories]
    <3>1. PICK q \in Repositories : repo' = [repo EXCEPT ![run.of] = q]
        BY <1>3, <1>5, <2>2, <2>3
    <3>2. QED BY <1>1, <3>1
  <2>5. QED BY <1>1, <1>5, <2>4, ImportedKeeps
<1>6. QED BY <1>4, <1>5 DEF LoadDump

LEMMA RenamingKeeps ==
    ASSUME ImportInv, MapTopography \/ RemoveTarget \/ MoveSource
    PROVE  ImportInv'
<1>1. /\ prod \in Seq(Prods) /\ repo \in [Archives -> Repositories] /\ run \in Working
      /\ run.pc \in {"map", "remove", "move"} /\ run.pc \in MakesFiles /\ run.of \in Archives
      /\ dropped = {} /\ repo[run.of] \in Repositories
      /\ UNCHANGED <<plan, reading, undoing, imports, others>>
    BY DEF MapTopography, RemoveTarget, MoveSource, At, ImportInv, ImportShape, RunIsThere, MakesFiles,
           Removals
<1>2. run.of \in Embedded => /\ Loaded(run.of)
                             /\ run.pc # "map" => repo[run.of].src = "files"
    BY <1>1 DEF ImportInv, Loads
<1>3. CASE MapTopography
  <2>1. UNCHANGED << repo, dropped >> /\ run.pc # "idle"
      BY <1>1, <1>3 DEF MapTopography
  <2>2. CASE To("list") /\ UNCHANGED prod /\ repo[run.of].tgt # "files"
    <3>1. run.of \in Embedded => repo[run.of].src = "files"
        BY <1>2, <2>2 DEF Loaded
    <3>2. UNCHANGED << prod, repo, plan, reading, undoing, imports, dropped >>
        BY <1>1, <2>1, <2>2
    <3>3. QED BY <1>1, <1>2, <2>1, <2>2, <3>1, <3>2, ToKeeps DEF Stages, MakesFiles
  <2>3. CASE Imported(run.of \notin Embedded)
    <3>1. repo' \in [Archives -> Repositories]
        BY <1>1, <2>1
    <3>2. CASE run.of \in Embedded
      <4>1. Imported(FALSE)
          BY <2>3, <3>2
      <4>2. repo'[run.of].dump = "whole" /\ "files" \in {repo'[run.of].src, repo'[run.of].tgt}
          BY <1>2, <2>1, <3>2 DEF Loaded
      <4>3. QED BY <1>1, <2>1, <3>1, <3>2, <4>1, <4>2, ImportedKeeps
    <3>3. CASE run.of \notin Embedded
      <4>1. Imported(TRUE)
          BY <2>3, <3>3
      <4>2. QED BY <1>1, <2>1, <3>1, <4>1, ImportedKeeps
    <3>4. QED BY <3>2, <3>3
  <2>4. QED BY <1>3, <2>2, <2>3 DEF MapTopography
<1>4. CASE RemoveTarget
  <2> DEFINE r == [repo[run.of] EXCEPT !.tgt = "none"]
  <2>1. r \in Repositories /\ r.dump = repo[run.of].dump /\ r.src = repo[run.of].src
      BY <1>1 DEF Repositories, Folders
  <2>2. repo' = [repo EXCEPT ![run.of] = r] /\ To("move") /\ UNCHANGED prod
      BY <1>4 DEF RemoveTarget
  <2>3. dropped' = {}
      BY <1>1, <1>4 DEF RemoveTarget, At, ImportInv, Removals, Folders, Repositories
  <2> HIDE DEF r
  <2>4. run.of \in Embedded => r.dump = "whole" /\ "files" \in {r.src, r.tgt} /\ r.src = "files"
      BY <1>2, <1>4, <2>1 DEF RemoveTarget, At, Loaded
  <2>5. QED BY <1>1, <2>1, <2>2, <2>3, <2>4, RepositoryKeeps
<1>5. CASE MoveSource
  <2>1. dropped' = dropped /\ Imported(run.of \notin Embedded)
      BY <1>5 DEF MoveSource
  <2>2. /\ repo' \in [Archives -> Repositories]
        /\ repo'[run.of].dump = repo[run.of].dump
        /\ repo[run.of].src = "files" => "files" \in {repo'[run.of].src, repo'[run.of].tgt}
    <3>1. CASE repo' = repo
        BY <1>1, <3>1
    <3>2. CASE repo' = [repo EXCEPT ![run.of].tgt = repo[run.of].src, ![run.of].src = "none"]
        BY <1>1, <3>2 DEF Repositories, Folders
    <3>3. QED BY <1>5, <3>1, <3>2 DEF MoveSource
  <2>3. CASE run.of \in Embedded
    <3>1. Imported(FALSE)
        BY <2>1, <2>3
    <3>2. repo'[run.of].dump = "whole" /\ "files" \in {repo'[run.of].src, repo'[run.of].tgt}
        BY <1>2, <1>5, <2>2, <2>3 DEF Loaded, MoveSource, At
    <3>3. QED BY <1>1, <2>1, <2>2, <2>3, <3>1, <3>2, ImportedKeeps
  <2>4. CASE run.of \notin Embedded
    <3>1. Imported(TRUE)
        BY <2>1, <2>4
    <3>2. QED BY <1>1, <2>1, <2>2, <3>1, ImportedKeeps
  <2>5. QED BY <2>3, <2>4
<1>6. QED BY <1>3, <1>4, <1>5

LEMMA StudioKeepsTheImport ==
    ASSUME ImportInv, NEW a \in Archives, StudioCreates(a) \/ ArtistCommits(a)
    PROVE  ImportInv'
<1>1. /\ prod \in Seq(Prods) /\ repo \in [Archives -> Repositories] /\ run \in Working
      /\ UNCHANGED <<plan, report, reading, undoing, windows, imports, dropped>>
    BY DEF ImportInv, ImportShape, StudioCreates, ArtistCommits
<1>2. /\ run' = run \/ run' = [run EXCEPT !.raced = TRUE]
      /\ run' \in Working /\ run'.pc = run.pc /\ run'.of = run.of /\ run'.id = run.id
      /\ run'.excused = run.excused /\ (run.raced => run'.raced)
    BY <1>1 DEF StudioCreates, ArtistCommits, Working
<1>3. RunIsThere' /\ PlanIsThere'
    BY <1>1, <1>2 DEF ImportInv, RunIsThere, PlanIsThere
<1>4. CASE StudioCreates(a)
  <2> DEFINE q == [of |-> a, by |-> 0, state |-> "whole", excused |-> FALSE]
  <2>1. q \in Prods /\ prod' = Append(prod, q) /\ q.of = a /\ repo' = repo
      BY <1>4 DEF Prods, StudioCreates
  <2> HIDE DEF q
  <2>2. /\ prod' \in Seq(Prods) /\ prod'[Len(prod) + 1] = q
        /\ \A j \in DOMAIN prod : j \in DOMAIN prod' /\ prod'[j] = prod[j]
        /\ \A j \in DOMAIN prod' : j \in DOMAIN prod \/ j = Len(prod) + 1
        /\ \A j : Ours(j) => Ours(j)'
      BY <1>1, <2>1, AppendedIsTyped
  <2>3. ImportShape'
      BY <1>1, <1>2, <2>1, <2>2 DEF ImportInv, ImportShape
  <2>4. Makers'
      BY <1>1, <1>2, <2>2 DEF ImportInv, Makers, Ours
  <2>5. Asked'
    <3>1. CASE run.of = a /\ run.pc \in {"verify", "create"}
        BY <1>1, <1>4, <3>1 DEF StudioCreates, Asked, Working
    <3>2. CASE run.of # a
      <4>1. Live(run.of)' \subseteq Live(run.of)
          BY <1>2, <2>1, <2>2, <3>2 DEF Live
      <4>2. QED BY <1>2, <4>1 DEF ImportInv, Asked
    <3>3. CASE run.pc \notin {"verify", "create"}
        BY <1>2, <3>3 DEF Asked
    <3>4. QED BY <3>1, <3>2, <3>3
  <2>6. Loads' /\ Removals'
      BY <1>1, <1>2, <2>1 DEF ImportInv, Loads, Loaded, Removals
  <2>7. QED BY <1>3, <2>3, <2>4, <2>5, <2>6 DEF ImportInv
<1>5. CASE ArtistCommits(a)
  <2>1. /\ prod' = prod /\ repo[a].tgt = "empty" /\ repo' = [repo EXCEPT ![a].tgt = "files"]
        /\ run.of = a /\ run.pc = "remove" => run'.raced
      BY <1>1, <1>5 DEF ArtistCommits, At, Working
  <2>2. /\ repo' \in [Archives -> Repositories]
        /\ \A b \in Archives : repo'[b].src = repo[b].src /\ repo'[b].dump = repo[b].dump
        /\ \A b \in Archives : repo'[b].tgt = repo[b].tgt \/ (b = a /\ repo'[b].tgt = "files")
    <3>1. \A b \in Archives : repo[b] \in Repositories
        BY <1>1
    <3>2. QED BY <1>1, <2>1, <3>1 DEF Repositories, Folders
  <2>3. \A b \in Archives : Loaded(b) => Loaded(b)'
      BY <2>2 DEF Loaded
  <2>4. ImportShape'
      BY <1>1, <1>2, <2>1, <2>2 DEF ImportInv, ImportShape
  <2>5. Makers' /\ Asked'
      BY <1>1, <1>2, <2>1 DEF ImportInv, Makers, Ours, Asked, Live
  <2>6. Loads'
      BY <1>1, <1>2, <2>2, <2>3, ImportAssumption DEF ImportInv, Loads, Loaded
  <2>7. Removals'
    <3>1. run.pc = "remove" => run.of \in Archives
        BY DEF ImportInv, RunIsThere
    <3>2. QED BY <1>1, <1>2, <2>1, <2>2, <3>1 DEF ImportInv, Removals
  <2>8. QED BY <1>3, <2>4, <2>5, <2>6, <2>7 DEF ImportInv
<1>6. QED BY <1>4, <1>5

LEMMA ImportSteps == ImportInv /\ [ImportNext]_importVars => ImportInv'
<1> SUFFICES ASSUME ImportInv, [ImportNext]_importVars PROVE ImportInv'
    OBVIOUS
<1>1. CASE UNCHANGED importVars
    BY <1>1 DEF importVars, ImportInv, ImportShape, PlanIsThere, RunIsThere, Makers, Ours, Asked, Live,
                Loads, Loaded, Removals
<1>2. CASE ImportNext
    BY <1>2, WindowStepsKeep, OrdersKeep, ChecksKeep, CreationKeeps, MakingKeeps, LoadingKeeps,
       RenamingKeeps, StudioKeepsTheImport DEF ImportNext
<1>3. QED BY <1>1, <1>2

LEMMA ImportInvariant == ImportSpec => []ImportInv
BY ImportStarts, ImportSteps, PTL DEF ImportSpec

\* An import works on, and a rollback deletes, a production that an import made, unless
\* Kitsu's answer was lost or somebody was quicker; "no checkout" is said only of a
\* repository that has the whole dump; and a renaming removes no committed file but what
\* is committed under its hands (import_project, rollback_import, _map_topography).
THEOREM ImportTouchesItsOwn ==
    ImportSpec => [](OthersProductionsKept /\ NoCheckoutMeansLoaded /\ CommittedFilesKept)
<1>1. ImportInv => OthersProductionsKept /\ NoCheckoutMeansLoaded /\ CommittedFilesKept
    BY DEF ImportInv, Makers, Ours, Loads, Loaded, Removals, OthersProductionsKept,
           NoCheckoutMeansLoaded, CommittedFilesKept
<1>2. QED BY <1>1, ImportInvariant, PTL

(***************************************************************************)
(* Lists. What is made of a list entry after entry is there, and is what   *)
(* it should be, because a set of numbers has a least one.                 *)
(***************************************************************************)
\* A set of numbers that is not empty has a least one.
LEMMA LeastNumber ==
    ASSUME NEW S, S \subseteq Nat, S # {}
    PROVE  \E n \in S : \A m \in S : n <= m
<1> DEFINE Less == OpToRel(<, Nat)
<1>1. IsWellFoundedOn(Less, Nat)
    BY NatLessThanWellFounded
<1>2. \A m, n \in Nat : m < n => << m, n >> \in Less
    BY DEF OpToRel
<1> HIDE DEF Less
<1>3. S \subseteq Nat /\ S # {}
    OBVIOUS
<1>4. PICK n \in S : \A m \in S : ~ (<< m, n >> \in Less)
    BY <1>1, <1>3, WFMin
<1>5. \A m \in S : ~ (m < n)
    BY <1>2, <1>3, <1>4
<1>6. n \in Nat /\ \A m \in S : m \in Nat
    BY <1>3
<1>7. \A m \in S : n <= m
    BY <1>5, <1>6
<1>8. QED BY <1>7

\* A set of numbers that has 0 and, with a number, the next has them all.
LEMMA UpTo ==
    ASSUME NEW n \in Nat, NEW S, 0 \in S, \A i \in 0 .. n : i < n /\ i \in S => i + 1 \in S
    PROVE  0 .. n \subseteq S
<1> DEFINE Out == {i \in 0 .. n : i \notin S}
<1>1. SUFFICES ASSUME Out # {} PROVE FALSE
    OBVIOUS
<1>2. Out \subseteq Nat
    OBVIOUS
<1>3. PICK m \in Out : \A j \in Out : m <= j
    BY <1>1, <1>2, LeastNumber
<1>4. m \in 0 .. n /\ m \notin S /\ m # 0
    BY <1>3
<1>5. m - 1 \in 0 .. n /\ m - 1 < n /\ m - 1 + 1 = m /\ ~(m <= m - 1)
    BY <1>4
<1>6. m - 1 \notin S
    BY <1>4, <1>5
<1>7. QED BY <1>3, <1>5, <1>6

\* A function on the numbers up to n, each value made from the one before.
Steps(f, n, X, x, next) ==
    f \in [0 .. n -> X] /\ f[0] = x /\ \A i \in 1 .. n : f[i] = next[i][f[i - 1]]

LEMMA MadeStepByStep ==
    ASSUME NEW n \in Nat, NEW X, NEW x \in X, NEW next \in [1 .. n -> [X -> X]]
    PROVE  \E f : Steps(f, n, X, x, next)
<1> DEFINE Made(m) == \E f \in [0 .. m -> X] : f[0] = x /\ \A i \in 1 .. m : f[i] = next[i][f[i - 1]]
           S == {m \in 0 .. n : Made(m)}
<1>1. Made(0)
  <2> DEFINE f == [i \in 0 .. 0 |-> x]
  <2>1. f \in [0 .. 0 -> X] /\ f[0] = x /\ 1 .. 0 = {}
      OBVIOUS
  <2> HIDE DEF f
  <2>2. QED BY <2>1
<1>2. ASSUME NEW m \in 0 .. n, m < n, m \in S PROVE m + 1 \in S
  <2>0. m \in Nat /\ m + 1 \in 0 .. n
      BY <1>2
  <2>1. PICK f \in [0 .. m -> X] : f[0] = x /\ \A i \in 1 .. m : f[i] = next[i][f[i - 1]]
      BY <1>2
  <2> DEFINE g == [i \in 0 .. m + 1 |-> IF i = m + 1 THEN next[m + 1][f[m]] ELSE f[i]]
  <2>2. f[m] \in X /\ m + 1 \in 1 .. n
      BY <1>2, <2>1
  <2>3. next[m + 1][f[m]] \in X
      BY <2>2
  <2>4. g \in [0 .. m + 1 -> X] /\ g[0] = x
      BY <2>0, <2>1, <2>3
  <2>5. ASSUME NEW i \in 1 .. m + 1 PROVE g[i] = next[i][g[i - 1]]
    <3>1. CASE i = m + 1
      <4>1. i - 1 = m /\ m \in 0 .. m + 1 /\ m # m + 1
          BY <2>0, <3>1
      <4>3. g[i - 1] = f[m] /\ g[i] = next[m + 1][f[m]]
          BY <3>1, <4>1
      <4>2. QED BY <3>1, <4>3
    <3>2. CASE i \in 1 .. m
      <4>1. i \in 0 .. m + 1 /\ i - 1 \in 0 .. m + 1 /\ i # m + 1 /\ i - 1 # m + 1
          BY <2>0, <3>2
      <4>2. g[i - 1] = f[i - 1] /\ g[i] = f[i]
          BY <4>1
      <4>3. QED BY <2>1, <3>2, <4>2
    <3>3. QED BY <2>0, <3>1, <3>2
  <2> HIDE DEF g
  <2>6. Made(m + 1)
      BY <2>4, <2>5
  <2>7. QED BY <2>0, <2>6
<1> HIDE DEF Made
<1>3. 0 \in S
    BY <1>1
<1> HIDE DEF S
<1>4. 0 .. n \subseteq S
    BY <1>2, <1>3, UpTo
<1>5. n \in S
    BY <1>4
<1>6. QED BY <1>5 DEF S, Made, Steps

\* The list so far, entry after entry.
KeptUpTo(list, S, f) ==
    /\ f[0] = << >>
    /\ \A i \in 1 .. Len(list) : f[i] = IF list[i] \in S THEN Append(f[i - 1], list[i]) ELSE f[i - 1]

LEMMA KeptRuns ==
    ASSUME NEW T, NEW list \in Seq(T), NEW S
    PROVE  \E f : KeptUpTo(list, S, f) /\ Kept(list, S) = f[Len(list)]
<1> DEFINE n == Len(list)
           Keeps(f) == f = [i \in 0 .. n |->
               IF i = 0 THEN << >>
               ELSE IF list[i] \in S THEN Append(f[i - 1], list[i]) ELSE f[i - 1]]
           next == [i \in 1 .. n |-> [s \in Seq(T) |->
               IF list[i] \in S THEN Append(s, list[i]) ELSE s]]
<1>1. n \in Nat /\ \A i \in 1 .. n : list[i] \in T
    OBVIOUS
<1>2. next \in [1 .. n -> [Seq(T) -> Seq(T)]] /\ << >> \in Seq(T)
    BY <1>1
<1>3. \A s \in Seq(T), i \in 1 .. n : next[i][s] = IF list[i] \in S THEN Append(s, list[i]) ELSE s
    OBVIOUS
<1> HIDE DEF next, n
<1>4. PICK f : Steps(f, n, Seq(T), << >>, next)
    BY <1>1, <1>2, MadeStepByStep
<1>r. f \in [0 .. n -> Seq(T)] /\ f[0] = << >> /\ \A i \in 1 .. n : f[i] = next[i][f[i - 1]]
    BY <1>4 DEF Steps
<1>5. Keeps(f)
  <2>1. ASSUME NEW i \in 0 .. n
        PROVE  f[i] = IF i = 0 THEN << >>
                      ELSE IF list[i] \in S THEN Append(f[i - 1], list[i]) ELSE f[i - 1]
    <3>1. CASE i = 0
        BY <1>r, <3>1
    <3>2. CASE i # 0
      <4>1. i \in 1 .. n /\ i - 1 \in 0 .. n
          BY <1>1, <3>2
      <4>2. f[i - 1] \in Seq(T)
          BY <1>r, <4>1
      <4>3. QED BY <1>3, <1>r, <3>2, <4>1, <4>2
    <3>3. QED BY <3>1, <3>2
  <2>2. QED BY <1>r, <2>1
<1> DEFINE kept == CHOOSE g : Keeps(g)
<1>6. Keeps(kept)
    BY <1>5
<1>7. Kept(list, S) = kept[n]
    BY DEF Kept, n
<1>8. KeptUpTo(list, S, kept)
  <2> HIDE DEF kept
  <2>1. \A i \in 0 .. n : kept[i] = IF i = 0 THEN << >>
                      ELSE IF list[i] \in S THEN Append(kept[i - 1], list[i]) ELSE kept[i - 1]
      BY <1>6
  <2>2. kept[0] = << >>
      BY <1>1, <2>1
  <2>3. \A i \in 1 .. n : kept[i] = IF list[i] \in S THEN Append(kept[i - 1], list[i]) ELSE kept[i - 1]
      BY <1>1, <2>1
  <2>4. QED BY <2>2, <2>3 DEF KeptUpTo, n
<1>9. QED BY <1>7, <1>8 DEF n

\* r keeps, in their order, the entries among the first i of the list that are in S.
KeepsOrder(r, i, list, S) ==
    /\ \A k \in 1 .. Len(r) : r[k] \in S /\ \E m \in 1 .. i :
           r[k] = list[m] /\ \A j \in 1 .. m - 1 : list[j] \in S => \E l \in 1 .. k - 1 : r[l] = list[j]
    /\ \A j \in 1 .. i : list[j] \in S => \E l \in 1 .. Len(r) : r[l] = list[j]
    /\ (\A a, b \in 1 .. i : list[a] = list[b] => a = b)
          => \A k, l \in 1 .. Len(r) : r[k] = r[l] => k = l

LEMMA OneMoreEntry ==
    ASSUME NEW T, NEW list \in Seq(T), NEW S, NEW i \in 0 .. Len(list), i < Len(list),
           NEW r \in Seq(T), KeepsOrder(r, i, list, S)
    PROVE  LET q == IF list[i + 1] \in S THEN Append(r, list[i + 1]) ELSE r
           IN  q \in Seq(T) /\ KeepsOrder(q, i + 1, list, S)
<1> DEFINE x == list[i + 1]
           q == IF x \in S THEN Append(r, x) ELSE r
           n == Len(r)
<1>1. i \in Nat /\ n \in Nat /\ x \in T /\ 1 .. i \subseteq 1 .. i + 1 /\ 1 .. i + 1 = 1 .. i \cup {i + 1}
    OBVIOUS
<1>2. /\ \A k \in 1 .. n : r[k] \in S /\ \E m \in 1 .. i :
             r[k] = list[m] /\ \A j \in 1 .. m - 1 : list[j] \in S => \E l \in 1 .. k - 1 : r[l] = list[j]
      /\ \A j \in 1 .. i : list[j] \in S => \E l \in 1 .. n : r[l] = list[j]
      /\ (\A a, b \in 1 .. i : list[a] = list[b] => a = b)
             => \A k, l \in 1 .. n : r[k] = r[l] => k = l
    BY DEF KeepsOrder
<1>3. CASE x \notin S
  <2>1. q = r
      BY <1>3
  <2> HIDE DEF q, n
  <2>2. \A k \in 1 .. n : r[k] \in S /\ \E m \in 1 .. i + 1 :
             r[k] = list[m] /\ \A j \in 1 .. m - 1 : list[j] \in S => \E l \in 1 .. k - 1 : r[l] = list[j]
      BY <1>1, <1>2
  <2>3. \A j \in 1 .. i + 1 : list[j] \in S => \E l \in 1 .. n : r[l] = list[j]
      BY <1>1, <1>2, <1>3
  <2>4. (\A a, b \in 1 .. i + 1 : list[a] = list[b] => a = b)
             => \A k, l \in 1 .. n : r[k] = r[l] => k = l
      BY <1>1, <1>2
  <2>5. KeepsOrder(r, i + 1, list, S)
      BY <2>2, <2>3, <2>4 DEF KeepsOrder, n
  <2>6. QED BY <2>1, <2>5 DEF q
<1>4. CASE x \in S
  <2>1. /\ q \in Seq(T) /\ Len(q) = n + 1 /\ q[n + 1] = x /\ \A k \in 1 .. n : q[k] = r[k]
        /\ 1 .. n + 1 = 1 .. n \cup {n + 1} /\ n + 1 - 1 = n /\ n + 1 \notin 1 .. n
        /\ \A k \in 1 .. n : 1 .. k - 1 \subseteq 1 .. n
      BY <1>1, <1>4
  <2> HIDE DEF q, n
  <2>2. ASSUME NEW k \in 1 .. n + 1
        PROVE  q[k] \in S /\ \E m \in 1 .. i + 1 :
             q[k] = list[m] /\ \A j \in 1 .. m - 1 : list[j] \in S => \E l \in 1 .. k - 1 : q[l] = list[j]
    <3>1. CASE k \in 1 .. n
      <4>1. PICK m \in 1 .. i :
                r[k] = list[m] /\ \A j \in 1 .. m - 1 : list[j] \in S => \E l \in 1 .. k - 1 : r[l] = list[j]
          BY <1>2, <3>1
      <4>2. \A j \in 1 .. m - 1 : list[j] \in S => \E l \in 1 .. k - 1 : q[l] = list[j]
          BY <2>1, <3>1, <4>1
      <4>3. q[k] = list[m] /\ m \in 1 .. i + 1 /\ q[k] \in S
          BY <1>1, <1>2, <2>1, <3>1, <4>1
      <4>4. QED BY <4>2, <4>3
    <3>2. CASE k = n + 1
      <4>1. \A j \in 1 .. i : list[j] \in S => \E l \in 1 .. n : q[l] = list[j]
          BY <1>2, <2>1
      <4>2. i + 1 - 1 = i /\ k - 1 = n /\ i + 1 \in 1 .. i + 1
          BY <1>1, <2>1, <3>2
      <4>3. q[k] = list[i + 1] /\ q[k] \in S
          BY <1>4, <2>1, <3>2
      <4>4. QED BY <4>1, <4>2, <4>3
    <3>3. QED BY <2>1, <3>1, <3>2
  <2>3. \A j \in 1 .. i + 1 : list[j] \in S => \E l \in 1 .. n + 1 : q[l] = list[j]
    <3>1. \A j \in 1 .. i : list[j] \in S => \E l \in 1 .. n + 1 : q[l] = list[j]
        BY <1>2, <2>1
    <3>2. n + 1 \in 1 .. n + 1 /\ q[n + 1] = list[i + 1]
        BY <2>1
    <3>3. QED BY <1>1, <3>1, <3>2
  <2>4. ASSUME \A a, b \in 1 .. i + 1 : list[a] = list[b] => a = b
        PROVE  \A k, l \in 1 .. n + 1 : q[k] = q[l] => k = l
    <3>1. \A k, l \in 1 .. n : q[k] = q[l] => k = l
        BY <1>1, <1>2, <2>1, <2>4
    <3>2. ASSUME NEW k \in 1 .. n PROVE q[k] # x
      <4>1. PICK m \in 1 .. i : r[k] = list[m]
          BY <1>2
      <4>2. m \in 1 .. i + 1 /\ i + 1 \in 1 .. i + 1 /\ m # i + 1
          BY <1>1
      <4>3. list[m] # list[i + 1]
          BY <2>4, <4>2
      <4>4. QED BY <2>1, <4>1, <4>3
    <3>3. QED BY <2>1, <3>1, <3>2
  <2>5. KeepsOrder(q, i + 1, list, S)
      BY <2>1, <2>2, <2>3, <2>4 DEF KeepsOrder
  <2>6. QED BY <2>1, <2>5 DEF q
<1>5. QED BY <1>3, <1>4

\* A list comprehension keeps the entries that it asks for, in their order.
LEMMA KeptKeepsOrder ==
    ASSUME NEW T, NEW list \in Seq(T), NEW S
    PROVE  Kept(list, S) \in Seq(T) /\ KeepsOrder(Kept(list, S), Len(list), list, S)
<1> DEFINE n == Len(list)
<1>1. PICK f : KeptUpTo(list, S, f) /\ Kept(list, S) = f[n]
    BY KeptRuns
<1> DEFINE Good == {i \in 0 .. n : f[i] \in Seq(T) /\ KeepsOrder(f[i], i, list, S)}
<1>2. 0 \in Good
  <2>1. f[0] = << >> /\ << >> \in Seq(T) /\ Len(<< >>) = 0 /\ 1 .. 0 = {} /\ 0 \in 0 .. n
      BY <1>1 DEF KeptUpTo
  <2>2. KeepsOrder(<< >>, 0, list, S)
      BY <2>1 DEF KeepsOrder
  <2>3. QED BY <2>1, <2>2
<1>3. ASSUME NEW i \in 0 .. n, i < n, i \in Good PROVE i + 1 \in Good
  <2>1. i + 1 \in 1 .. n /\ i + 1 \in 0 .. n /\ i + 1 - 1 = i
      BY <1>3
  <2>2. f[i + 1] = IF list[i + 1] \in S THEN Append(f[i], list[i + 1]) ELSE f[i]
      BY <1>1, <2>1 DEF KeptUpTo
  <2>3. f[i] \in Seq(T) /\ KeepsOrder(f[i], i, list, S)
      BY <1>3
  <2>4. f[i + 1] \in Seq(T) /\ KeepsOrder(f[i + 1], i + 1, list, S)
      BY <1>3, <2>2, <2>3, OneMoreEntry
  <2>5. QED BY <2>1, <2>4
<1>4. n \in Nat
    OBVIOUS
<1> HIDE DEF Good
<1>5. 0 .. n \subseteq Good
    BY <1>2, <1>3, <1>4, UpTo
<1>6. n \in Good
    BY <1>4, <1>5
<1>7. QED BY <1>1, <1>6 DEF Good

(***************************************************************************)
(* The records of an archive, step after step.                             *)
(***************************************************************************)

BeforeLinks == {"manager", "statuses", "links"}
BeforeShots == BeforeLinks \cup {"scenes", "shots"}
BeforeTasks == BeforeShots \cup {"tasks"}

\* The maps are made in the order of the steps.
InOrder ==
    /\ step \in BeforeTasks \cup {"comments", "records", "team", "done", "failed"}
    /\ context = [statuses |-> context.statuses, sequences |-> context.sequences,
                  shots |-> context.shots]
    /\ step \in BeforeShots => DOMAIN context.shots = {}
    /\ step \in BeforeTasks => DOMAIN tasks = {}

GrantedOrLost ==
    step # "manager" =>
        \/ rights = "manager" \/ <<"rights", "grant">> \in lost
        \/ step = "done" /\ <<"team", "whoami">> \in lost

LinkedOrLost ==
    step \notin BeforeLinks => \A s \in context.statuses : s \in links \/ <<"link", s>> \in lost

MappedOrLost ==
    step \notin BeforeLinks \cup {"scenes"} =>
        \A q \in SceneNames : q \in context.sequences \/ <<"scene", q>> \in lost

ShotsAtHome ==
    \A i \in DOMAIN context.shots :
        /\ i \in DOMAIN Shots
        /\ Shots[i].in \in context.sequences => context.shots[i] = <<Shots[i].in, Shots[i].name>>

TasksAsMade ==
    \A t \in DOMAIN tasks :
        /\ tasks[t].status \in context.statuses \cup {Default}
        /\ tasks[t].file \/ <<"update", t>> \in lost \/ <<"rights", "grant">> \in lost

DataInv ==
    /\ InOrder /\ GrantedOrLost /\ LinkedOrLost /\ MappedOrLost /\ ShotsAtHome /\ TasksAsMade

\* Calls that fail are added to those that have failed.
LEMMA LostIsLost ==
    ASSUME NEW kind, NEW items, Losing(kind, items)
    PROVE  lost \subseteq lost' /\ \A i \in items : <<kind, i>> \in lost'
BY DEF Losing

LEMMA DataStarts == DataInit => DataInv
<1> SUFFICES ASSUME DataInit PROVE DataInv
    OBVIOUS
<1>1. DOMAIN << >> = {}
    OBVIOUS
<1>2. /\ step = "manager" /\ tasks = << >> /\ context.shots = << >>
      /\ context = [statuses |-> context.statuses, sequences |-> context.sequences,
                    shots |-> context.shots]
    BY DEF DataInit, NoContext
<1>3. QED BY <1>1, <1>2 DEF DataInv, InOrder, GrantedOrLost, LinkedOrLost, MappedOrLost, ShotsAtHome,
                            TasksAsMade, BeforeLinks, BeforeShots, BeforeTasks

\* A step that makes none of the maps, and undoes nothing.
LEMMA AsideKeeps ==
    ASSUME DataInv, UNCHANGED << links, context, tasks >>, lost \subseteq lost',
           step \notin BeforeTasks, step' \in {"records", "team", "done", "failed"},
           step # "done",
           rights' = rights \/ rights' = "manager" \/ (step' = "done" /\ <<"team", "whoami">> \in lost')
    PROVE  DataInv'
BY DEF DataInv, InOrder, GrantedOrLost, LinkedOrLost, MappedOrLost, ShotsAtHome,
       TasksAsMade, BeforeTasks, BeforeShots, BeforeLinks

LEMMA StudioStepsKeep ==
    ASSUME DataInv, EnsureManager \/ CreateOrGetStatuses \/ LinkStatuses
    PROVE  DataInv'
<1>1. /\ step \in BeforeLinks /\ step' \in {"statuses", "links", "scenes"}
      /\ step' # "scenes" => ~ LinkStatuses
      /\ step \in BeforeShots /\ step \in BeforeTasks
    BY DEF EnsureManager, CreateOrGetStatuses, LinkStatuses, Then, BeforeLinks, BeforeShots, BeforeTasks
<1>2. DOMAIN context.shots = {} /\ DOMAIN tasks = {} /\ tasks' = tasks
    BY <1>1 DEF DataInv, InOrder, EnsureManager, CreateOrGetStatuses, LinkStatuses
<1>3. /\ context'.shots = context.shots /\ context'.sequences = context.sequences
      /\ context' = [statuses |-> context'.statuses, sequences |-> context'.sequences,
                     shots |-> context'.shots]
    BY DEF DataInv, InOrder, EnsureManager, CreateOrGetStatuses, LinkStatuses
<1>4. lost \subseteq lost'
    BY LostIsLost DEF EnsureManager, CreateOrGetStatuses, LinkStatuses
<1>5. InOrder'
    BY <1>1, <1>2, <1>3 DEF InOrder, BeforeLinks, BeforeShots, BeforeTasks
<1>6. GrantedOrLost'
  <2>1. CASE EnsureManager
    <3>1. PICK fails \in SUBSET {"grant"} :
              Losing("rights", fails) /\ rights' = IF fails = {} THEN "manager" ELSE rights
        BY <2>1 DEF EnsureManager
    <3>2. fails = {} \/ "grant" \in fails
        OBVIOUS
    <3>3. QED BY <3>1, <3>2, LostIsLost DEF GrantedOrLost
  <2>2. CASE CreateOrGetStatuses \/ LinkStatuses
      BY <1>4, <2>2 DEF DataInv, GrantedOrLost, CreateOrGetStatuses, LinkStatuses, Then
  <2>3. QED BY <2>1, <2>2
<1>7. LinkedOrLost'
  <2>1. CASE LinkStatuses
    <3>1. PICK fails : /\ Losing("link", fails)
                       /\ \A s \in context'.statuses : s \in links' \/ s \in fails
        BY <2>1 DEF LinkStatuses, DataInv, InOrder
    <3>2. QED BY <3>1, LostIsLost DEF LinkedOrLost
  <2>2. CASE EnsureManager \/ CreateOrGetStatuses
      BY <2>2 DEF EnsureManager, CreateOrGetStatuses, Then, LinkedOrLost, BeforeLinks
  <2>3. QED BY <2>1, <2>2
<1>8. MappedOrLost' /\ ShotsAtHome' /\ TasksAsMade'
    BY <1>1, <1>2, <1>3 DEF MappedOrLost, ShotsAtHome, TasksAsMade, BeforeLinks
<1>9. QED BY <1>5, <1>6, <1>7, <1>8 DEF DataInv

LEMMA SceneStepKeeps ==
    ASSUME DataInv, CreateScenes
    PROVE  DataInv'
<1>1. PICK fails \in SUBSET SceneNames :
          Losing("scene", fails) /\ context' = [context EXCEPT !.sequences = SceneNames \ fails]
    BY DEF CreateScenes
<1>2. /\ step = "scenes" /\ step' = "shots" /\ UNCHANGED << rights, links, tasks >>
    BY DEF CreateScenes, Then
<1>3. /\ context'.shots = context.shots /\ context'.statuses = context.statuses
      /\ context'.sequences = SceneNames \ fails
      /\ context' = [statuses |-> context'.statuses, sequences |-> context'.sequences,
                     shots |-> context'.shots]
    BY <1>1 DEF DataInv, InOrder
<1>4. lost \subseteq lost' /\ \A q \in fails : <<"scene", q>> \in lost'
    BY <1>1, LostIsLost
<1>5. InOrder'
    BY <1>2, <1>3 DEF DataInv, InOrder, BeforeLinks, BeforeShots, BeforeTasks
<1>6. GrantedOrLost' /\ LinkedOrLost' /\ TasksAsMade'
    BY <1>2, <1>3, <1>4 DEF DataInv, GrantedOrLost, LinkedOrLost, TasksAsMade, BeforeLinks
<1>7. MappedOrLost'
    BY <1>3, <1>4 DEF MappedOrLost
<1>8. ShotsAtHome'
    BY <1>2, <1>3 DEF DataInv, InOrder, ShotsAtHome, BeforeShots
<1>9. QED BY <1>5, <1>6, <1>7, <1>8 DEF DataInv

LEMMA ShotStepKeeps ==
    ASSUME DataInv, CreateShots
    PROVE  DataInv'
<1>1. PICK fails \in SUBSET DOMAIN Shots :
          /\ Losing("shot", fails)
          /\ \E mapped \in SUBSET DOMAIN Shots :
                context' = [context EXCEPT !.shots = [i \in mapped |-> TargetOf(i)]]
    BY DEF CreateShots
<1>2. PICK mapped \in SUBSET DOMAIN Shots :
          context' = [context EXCEPT !.shots = [i \in mapped |-> TargetOf(i)]]
    BY <1>1
<1>3. /\ step = "shots" /\ step' = "tasks" /\ UNCHANGED << rights, links, tasks >>
    BY DEF CreateShots, Then
<1>4. /\ context'.shots = [i \in mapped |-> TargetOf(i)] /\ context'.statuses = context.statuses
      /\ context'.sequences = context.sequences
      /\ context' = [statuses |-> context'.statuses, sequences |-> context'.sequences,
                     shots |-> context'.shots]
    BY <1>2 DEF DataInv, InOrder
<1>5. lost \subseteq lost'
    BY <1>1, LostIsLost
<1>6. InOrder'
    BY <1>3, <1>4 DEF DataInv, InOrder, BeforeLinks, BeforeShots, BeforeTasks
<1>7. GrantedOrLost' /\ LinkedOrLost' /\ MappedOrLost' /\ TasksAsMade'
    BY <1>3, <1>4, <1>5 DEF DataInv, GrantedOrLost, LinkedOrLost, MappedOrLost, TasksAsMade, BeforeLinks
<1>8. ShotsAtHome'
  <2> SUFFICES ASSUME NEW i \in mapped
               PROVE  /\ i \in DOMAIN Shots
                      /\ Shots[i].in \in context.sequences => TargetOf(i) = <<Shots[i].in, Shots[i].name>>
      BY <1>4 DEF ShotsAtHome
  <2>1. QED BY <1>4 DEF TargetOf, HomeOf
<1>9. QED BY <1>6, <1>7, <1>8 DEF DataInv

LEMMA TaskStepKeeps ==
    ASSUME DataInv, CreateTasks
    PROVE  DataInv'
<1>1. PICK missed \in SUBSET DOMAIN TaskList, fails \in SUBSET DOMAIN TaskList :
          /\ lost' = lost \cup {<<"task", t>> : t \in missed} \cup {<<"update", t>> : t \in fails}
          /\ \E new \in SUBSET DOMAIN TaskList : tasks' = [t \in new |-> Created(t, fails)]
    BY DEF CreateTasks
<1>2. PICK new \in SUBSET DOMAIN TaskList : tasks' = [t \in new |-> Created(t, fails)]
    BY <1>1
<1>3. step = "tasks" /\ step' = "comments" /\ UNCHANGED << rights, links, context >>
    BY DEF CreateTasks, Then
<1>4. lost \subseteq lost' /\ \A t \in fails : <<"update", t>> \in lost'
    BY <1>1
<1>5. InOrder'
    BY <1>3 DEF DataInv, InOrder, BeforeLinks, BeforeShots, BeforeTasks
<1>6. GrantedOrLost' /\ LinkedOrLost' /\ MappedOrLost' /\ ShotsAtHome'
    BY <1>3, <1>4 DEF DataInv, GrantedOrLost, LinkedOrLost, MappedOrLost, ShotsAtHome,
                      BeforeLinks
<1>7. TasksAsMade'
  <2> SUFFICES ASSUME NEW t \in new
               PROVE  /\ Created(t, fails).status \in context.statuses \cup {Default}
                      /\ \/ Created(t, fails).file \/ <<"update", t>> \in lost'
                         \/ <<"rights", "grant">> \in lost'
      BY <1>2, <1>3 DEF TasksAsMade
  <2>1. Created(t, fails).status \in context.statuses \cup {Default}
      BY DEF Created
  <2>2. CASE t \in fails
      BY <1>4, <2>1, <2>2
  <2>3. CASE t \notin fails /\ rights = "manager"
      BY <2>1, <2>3 DEF Created, CanWrite
  <2>4. CASE rights # "manager"
      BY <1>3, <1>4, <2>1, <2>4 DEF DataInv, GrantedOrLost
  <2>5. QED BY <2>2, <2>3, <2>4
<1>8. QED BY <1>5, <1>6, <1>7 DEF DataInv

LEMMA LastStepsKeep ==
    ASSUME DataInv, CreateComments \/ CreateRecords \/ AddTeam
    PROVE  DataInv'
<1>1. UNCHANGED << links, context, tasks >> /\ step \notin BeforeTasks
      /\ step' \in {"records", "team", "done", "failed"}
    BY DEF CreateComments, CreateRecords, AddTeam, Then, BeforeTasks, BeforeShots, BeforeLinks
<1>2. /\ step # "done"
      /\ rights' = rights \/ rights' = "manager" \/ (step' = "done" /\ <<"team", "whoami">> \in lost')
  <2>1. CASE AddTeam
    <3>1. PICK fails \in SUBSET {"whoami", "member"} :
             /\ Losing("team", fails)
             /\ rights' \in {rights} \cup
                    (IF "member" \in fails THEN {} ELSE {"manager"}) \cup
                    (IF fails = {"whoami"} THEN {"user"} ELSE {})
        BY <2>1 DEF AddTeam
    <3>2. step = "team" /\ step' = "done"
        BY <2>1 DEF AddTeam, Then
    <3>3. CASE fails = {"whoami"}
        BY <3>1, <3>2, <3>3, LostIsLost
    <3>4. CASE fails # {"whoami"}
        BY <3>1, <3>2, <3>4
    <3>5. QED BY <3>3, <3>4
  <2>2. QED BY <2>1 DEF CreateComments, CreateRecords, Then
<1>3. lost \subseteq lost'
  <2>1. CASE CreateComments
      BY <2>1, LostIsLost DEF CreateComments
  <2>2. CASE CreateRecords \/ AddTeam
      BY <2>2, LostIsLost DEF CreateRecords, AddTeam
  <2>3. QED BY <2>1, <2>2
<1>4. QED BY <1>1, <1>2, <1>3, AsideKeeps

LEMMA DataSteps == DataInv /\ [DataNext]_dataVars => DataInv'
<1> SUFFICES ASSUME DataInv, [DataNext]_dataVars PROVE DataInv'
    OBVIOUS
<1>1. CASE UNCHANGED dataVars
    BY <1>1 DEF dataVars, DataInv, InOrder, GrantedOrLost, LinkedOrLost, MappedOrLost, ShotsAtHome,
                TasksAsMade
<1>2. CASE DataNext
    BY <1>2, StudioStepsKeep, SceneStepKeeps, ShotStepKeeps, TaskStepKeeps, LastStepsKeep DEF DataNext
<1>3. QED BY <1>1, <1>2

LEMMA DataInvariant == DataSpec => []DataInv
BY DataStarts, DataSteps, PTL DEF DataSpec

\* What the import reports as made is the archive's, but for the calls it has seen fail:
\* the status of a task is one of the production's, the path of its file is kept, and who
\* imports is a manager, unless nobody could tell who that is when the team was added
\* (_link_task_statuses_to_project, _ensure_current_user_manager, _add_team).
THEOREM StatusesAndFilesAreKept == DataSpec => [](StatusesAreLinked /\ FilesAreKept)
<1>1. ASSUME DataInv PROVE StatusesAreLinked
    BY <1>1 DEF DataInv, InOrder, LinkedOrLost, TasksAsMade, StatusesAreLinked, BeforeTasks, BeforeShots,
                BeforeLinks
<1>2. ASSUME DataInv PROVE FilesAreKept
    BY <1>2 DEF DataInv, GrantedOrLost, TasksAsMade, FilesAreKept
<1>3. QED BY <1>1, <1>2, DataInvariant, PTL

\* In an archive whose shots hang in its sequences, two shots become one only when the
\* sequence of one could not be made (_create_entities).
THEOREM ShotsAreKeptApart ==
    ASSUME \A i \in DOMAIN Shots : Shots[i].in \in SceneNames
    PROVE  DataSpec => []ShotsStayApart
<1>1. ASSUME DataInv PROVE ShotsStayApart
  <2> SUFFICES ASSUME NEW i \in DOMAIN context.shots, NEW j \in DOMAIN context.shots,
                      context.shots[i] = context.shots[j],
                      <<"scene", Shots[i].in>> \notin lost, <<"scene", Shots[j].in>> \notin lost
               PROVE  Shots[i] = Shots[j]
      BY DEF ShotsStayApart
  <2>1. i \in DOMAIN Shots /\ j \in DOMAIN Shots /\ step \notin BeforeLinks \cup {"scenes"}
      BY <1>1 DEF DataInv, ShotsAtHome, InOrder, BeforeShots
  <2>2. Shots[i].in \in context.sequences /\ Shots[j].in \in context.sequences
      BY <1>1, <2>1 DEF DataInv, MappedOrLost
  <2>3. <<Shots[i].in, Shots[i].name>> = <<Shots[j].in, Shots[j].name>>
      BY <1>1, <2>2 DEF DataInv, ShotsAtHome
  <2>4. Shots[i].in = Shots[j].in /\ Shots[i].name = Shots[j].name
      BY <2>3
  <2>5. QED BY <2>1, <2>4, DataAssumption
<1>2. QED BY <1>1, DataInvariant, PTL

(***************************************************************************)
(* The comments of an archive: a comment is visited after what it answers, *)
(* however deep that is, because no comments answer each other in a circle *)
(* (those that do stop the import).                                        *)
(***************************************************************************)

\* How many comments are before one is its place.
LEMMA PlacesAreTaken ==
    ASSUME NEW L \in Nat, DOMAIN thread = 1 .. L, \A c \in 1 .. L : thread[c].at \in Nat
    PROVE  \A n \in 1 .. L : \E c \in 1 .. L : Cardinality(Before(c)) = n - 1
<1> DEFINE D == 1 .. L
           placeOf == [c \in D |-> Cardinality(Before(c))]
<1>1. IsFiniteSet(D) /\ Cardinality(D) = L
    BY FS_Interval
<1>2. IsFiniteSet(0 .. L - 1) /\ Cardinality(0 .. L - 1) = L
    BY FS_Interval
<1>3. \A c \in D : Before(c) \subseteq D \ {c}
    BY DEF Before
<1>4. ASSUME NEW c \in D
      PROVE  IsFiniteSet(Before(c)) /\ Cardinality(Before(c)) \in 0 .. L - 1
  <2>1. IsFiniteSet(D \ {c}) /\ Cardinality(D \ {c}) = L - 1
      BY <1>1, FS_RemoveElement
  <2>2. IsFiniteSet(Before(c)) /\ Cardinality(Before(c)) <= Cardinality(D \ {c})
      BY <1>3, <2>1, FS_Subset
  <2>3. Cardinality(Before(c)) \in Nat
      BY <2>2, FS_CardinalityType
  <2>4. QED BY <2>1, <2>2, <2>3
<1>5. ASSUME NEW c \in D, NEW d \in D, c \in Before(d)
      PROVE  Cardinality(Before(c)) # Cardinality(Before(d))
  <2>1. Before(c) \subseteq Before(d)
      BY <1>5 DEF Before
  <2>2. c \notin Before(c)
      BY <1>3
  <2>3. IsFiniteSet(Before(d))
      BY <1>4
  <2>4. QED BY <1>5, <2>1, <2>2, <2>3, FS_Subset
<1>6. \A c, d \in D : c # d => c \in Before(d) \/ d \in Before(c)
    BY DEF Before
<1> HIDE DEF D
<1>7. placeOf \in [D -> 0 .. L - 1] /\ \A c, d \in D : c # d => placeOf[c] # placeOf[d]
    BY <1>4, <1>5, <1>6
<1> HIDE DEF placeOf
<1>8. placeOf \in Injection(D, 0 .. L - 1)
    BY <1>7 DEF Injection, IsInjective
<1>9. placeOf \in Surjection(D, 0 .. L - 1)
    BY <1>1, <1>2, <1>8, FS_Injection
<1>10. \A m \in 0 .. L - 1 : \E c \in D : placeOf[c] = m
    BY <1>9 DEF Surjection
<1>11. ASSUME NEW n \in D PROVE \E c \in D : Cardinality(Before(c)) = n - 1
  <2>1. n - 1 \in 0 .. L - 1
      BY DEF D
  <2>2. PICK c \in D : placeOf[c] = n - 1
      BY <1>10, <2>1
  <2>3. QED BY <2>2 DEF placeOf
<1>12. QED BY <1>11 DEF D

\* Every comment answers others that are there, and none in a circle.
Threaded == thread \in Seq([on : Nat, parent : Nat, at : Nat]) /\ ~Circular

LEMMA DatesAreSorted ==
    ASSUME Threaded
    PROVE  /\ DOMAIN thread = 1 .. Len(thread) /\ Len(thread) \in Nat
           /\ \A n \in 1 .. Len(thread) : ByDate[n] \in DOMAIN thread
<1>1. /\ DOMAIN thread = 1 .. Len(thread) /\ Len(thread) \in Nat
      /\ \A c \in 1 .. Len(thread) : thread[c].at \in Nat
  <2>1. ASSUME NEW R, thread \in Seq(R)
        PROVE  /\ DOMAIN thread = 1 .. Len(thread) /\ Len(thread) \in Nat
               /\ \A c \in 1 .. Len(thread) : thread[c] \in R
      BY <2>1
  <2> DEFINE R == [on : Nat, parent : Nat, at : Nat]
  <2>2. thread \in Seq(R)
      BY DEF Threaded
  <2>3. \A r \in R : r.at \in Nat
      OBVIOUS
  <2> HIDE DEF R
  <2>4. QED BY <2>1, <2>2, <2>3
<1>2. ASSUME NEW n \in DOMAIN thread PROVE ByDate[n] \in DOMAIN thread
  <2>1. \E c \in DOMAIN thread : Cardinality(Before(c)) = n - 1
      BY <1>1, PlacesAreTaken
  <2>2. ByDate[n] = CHOOSE c \in DOMAIN thread : Cardinality(Before(c)) = n - 1
      BY DEF ByDate
  <2>3. QED BY <2>1, <2>2
<1>3. QED BY <1>1, <1>2

\* What holds of a comment when it holds of the one that it answers holds of all of them.
LEMMA DownTheThread ==
    ASSUME Threaded, NEW S,
           \A c \in DOMAIN thread : (IsReply(c) => Parent(c) \in S) => c \in S
    PROVE  DOMAIN thread \subseteq S
<1> DEFINE T == DOMAIN thread \ S
<1>1. SUFFICES ASSUME T # {} PROVE FALSE
    OBVIOUS
<1>2. T \subseteq DOMAIN thread
    OBVIOUS
<1>3. PICK c \in T : ~(IsReply(c) /\ Parent(c) \in T)
    BY <1>1, <1>2 DEF Threaded, Circular
<1>4. IsReply(c) => Parent(c) \in S
    BY <1>3 DEF IsReply
<1>5. QED BY <1>3, <1>4

\* A table of what is there after each comment of a part of the thread.
Entered(ordered, S, f) ==
    /\ S \subseteq DOMAIN thread
    /\ \A c \in S :
          /\ IsReply(c) => Parent(c) \in S
          /\ f[c] = IF c \in Range(ordered) THEN ordered
                    ELSE Append(IF IsReply(c) THEN f[Parent(c)] ELSE ordered, c)

LEMMA EntriesAgree ==
    ASSUME Threaded, NEW o, NEW S, NEW f, NEW T, NEW g, Entered(o, S, f), Entered(o, T, g)
    PROVE  \A c \in S \cap T : f[c] = g[c]
<1> DEFINE U == {c \in DOMAIN thread : c \in S \cap T => f[c] = g[c]}
<1>1. ASSUME NEW c \in DOMAIN thread, IsReply(c) => Parent(c) \in U PROVE c \in U
  <2> SUFFICES ASSUME c \in S \cap T PROVE f[c] = g[c]
      OBVIOUS
  <2>1. IsReply(c) => Parent(c) \in S \cap T /\ f[Parent(c)] = g[Parent(c)]
      BY <1>1 DEF Entered
  <2>2. QED BY <2>1 DEF Entered
<1> HIDE DEF U
<1>2. DOMAIN thread \subseteq U
    BY <1>1, DownTheThread
<1>3. QED BY <1>2 DEF U, Entered

\* There is such a table of every comment.
LEMMA EveryCommentIsEntered ==
    ASSUME Threaded, NEW o
    PROVE  \A c \in DOMAIN thread : \E S, f : c \in S /\ Entered(o, S, f)
<1> DEFINE U == {c \in DOMAIN thread : \E S, f : c \in S /\ Entered(o, S, f)}
<1>1. ASSUME NEW c \in DOMAIN thread, IsReply(c) => Parent(c) \in U PROVE c \in U
  <2>1. CASE IsReply(c)
    <3>1. PICK S, f : Parent(c) \in S /\ Entered(o, S, f)
        BY <1>1, <2>1
    <3>2. CASE c \in S
        BY <3>1, <3>2
    <3>3. CASE c \notin S
      <4> DEFINE g == [d \in S \cup {c} |->
                         IF d = c THEN IF c \in Range(o) THEN o ELSE Append(f[Parent(c)], c) ELSE f[d]]
      <4>1. \A d \in S : g[d] = f[d] /\ d # c
          BY <3>3
      <4>2. g[c] = IF c \in Range(o) THEN o ELSE Append(f[Parent(c)], c)
          OBVIOUS
      <4> HIDE DEF g
      <4>3. S \cup {c} \subseteq DOMAIN thread
          BY <3>1 DEF Entered
      <4>4. g[c] = IF c \in Range(o) THEN o ELSE Append(g[Parent(c)], c)
          BY <3>1, <4>1, <4>2
      <4>5. ASSUME NEW d \in S
            PROVE  /\ IsReply(d) => Parent(d) \in S \cup {c}
                   /\ g[d] = IF d \in Range(o) THEN o ELSE Append(IF IsReply(d) THEN g[Parent(d)] ELSE o, d)
        <5>1. IsReply(d) => Parent(d) \in S /\ g[Parent(d)] = f[Parent(d)]
            BY <3>1, <4>1 DEF Entered
        <5>2. f[d] = IF d \in Range(o) THEN o ELSE Append(IF IsReply(d) THEN f[Parent(d)] ELSE o, d)
            BY <3>1 DEF Entered
        <5>3. QED BY <4>1, <5>1, <5>2
      <4>6. Entered(o, S \cup {c}, g)
          BY <2>1, <3>1, <4>3, <4>4, <4>5 DEF Entered
      <4>7. QED BY <4>6
    <3>4. QED BY <3>2, <3>3
  <2>2. CASE ~IsReply(c)
    <3> DEFINE g == [d \in {c} |-> IF c \in Range(o) THEN o ELSE Append(o, c)]
    <3>1. g[c] = IF c \in Range(o) THEN o ELSE Append(o, c)
        OBVIOUS
    <3> HIDE DEF g
    <3>2. Entered(o, {c}, g)
        BY <2>2, <3>1 DEF Entered
    <3>3. QED BY <3>2
  <2>3. QED BY <2>1, <2>2
<1> HIDE DEF U
<1>2. DOMAIN thread \subseteq U
    BY <1>1, DownTheThread
<1>3. QED BY <1>2 DEF U

\* So visiting a comment is defined.
LEMMA VisitIsEntered ==
    ASSUME Threaded, NEW o
    PROVE  Entered(o, DOMAIN thread, Visit(o))
<1> DEFINE Says(g) == g = [c \in DOMAIN thread |->
               IF c \in Range(o) THEN o ELSE Append(IF IsReply(c) THEN g[Parent(c)] ELSE o, c)]
           Value(c) == CHOOSE v : \E S, f : c \in S /\ Entered(o, S, f) /\ v = f[c]
           h == [c \in DOMAIN thread |-> Value(c)]
<1>1. ASSUME NEW c \in DOMAIN thread, NEW S, NEW f, c \in S, Entered(o, S, f)
      PROVE  h[c] = f[c]
  <2>1. \E v : \E T, g : c \in T /\ Entered(o, T, g) /\ v = g[c]
      BY <1>1
  <2>2. PICK T, g : c \in T /\ Entered(o, T, g) /\ Value(c) = g[c]
      BY <2>1
  <2>3. g[c] = f[c]
      BY <1>1, <2>2, EntriesAgree
  <2>4. QED BY <2>2, <2>3
<1> HIDE DEF h
<1>2. ASSUME NEW c \in DOMAIN thread
      PROVE  h[c] = IF c \in Range(o) THEN o ELSE Append(IF IsReply(c) THEN h[Parent(c)] ELSE o, c)
  <2>1. PICK S, f : c \in S /\ Entered(o, S, f)
      BY EveryCommentIsEntered
  <2>2. h[c] = f[c]
      BY <1>1, <2>1
  <2>3. IsReply(c) => Parent(c) \in S /\ Parent(c) \in DOMAIN thread
      BY <2>1 DEF Entered
  <2>4. IsReply(c) => h[Parent(c)] = f[Parent(c)]
      BY <1>1, <2>1, <2>3
  <2>5. f[c] = IF c \in Range(o) THEN o ELSE Append(IF IsReply(c) THEN f[Parent(c)] ELSE o, c)
      BY <2>1 DEF Entered
  <2>6. QED BY <2>2, <2>4, <2>5
<1>3. Says(h)
  <2>1. h = [c \in DOMAIN thread |-> h[c]]
      BY DEF h
  <2>2. QED BY <1>2, <2>1
<1>4. Says(CHOOSE g : Says(g))
    BY <1>3
<1>5. Visit(o) = CHOOSE g : Says(g)
    BY DEF Visit
<1>6. Says(Visit(o))
    BY <1>4, <1>5
<1>7. \A c \in DOMAIN thread : IsReply(c) => Parent(c) \in DOMAIN thread
    BY DEF IsReply
<1>8. \A c \in DOMAIN thread : Visit(o)[c] =
          IF c \in Range(o) THEN o ELSE Append(IF IsReply(c) THEN Visit(o)[Parent(c)] ELSE o, c)
    BY <1>6
<1>9. QED BY <1>7, <1>8 DEF Entered

\* A list of comments in which each reply is after what it answers.
InThread(s) ==
    /\ s \in Seq(DOMAIN thread)
    /\ \A k \in 1 .. Len(s) : IsReply(s[k]) => \E l \in 1 .. k - 1 : s[l] = Parent(s[k])

LEMMA ReplyIsAdded ==
    ASSUME NEW s, InThread(s), NEW c \in DOMAIN thread,
           IsReply(c) => \E l \in 1 .. Len(s) : s[l] = Parent(c)
    PROVE  InThread(Append(s, c)) /\ \E l \in 1 .. Len(Append(s, c)) : Append(s, c)[l] = c
<1> DEFINE D == DOMAIN thread
           r == Append(s, c)
           n == Len(s)
<1>1. s \in Seq(D) /\ c \in D
    BY DEF InThread
<1> HIDE DEF D
<1>2. /\ r \in Seq(D) /\ n \in Nat /\ Len(r) = n + 1 /\ r[n + 1] = c
      /\ \A k \in 1 .. n : r[k] = s[k]
    BY <1>1
<1> HIDE DEF r
<1>3. ASSUME NEW k \in 1 .. n + 1, IsReply(r[k])
      PROVE  \E l \in 1 .. k - 1 : r[l] = Parent(r[k])
  <2>1. CASE k = n + 1
    <3>1. PICK l \in 1 .. n : s[l] = Parent(c)
        BY <1>2, <1>3, <2>1
    <3>2. l \in 1 .. k - 1 /\ r[l] = Parent(r[k])
        BY <1>2, <2>1, <3>1
    <3>3. QED BY <3>2
  <2>2. CASE k # n + 1
    <3>1. k \in 1 .. n /\ r[k] = s[k]
        BY <1>2, <2>2
    <3>2. PICK l \in 1 .. k - 1 : s[l] = Parent(s[k])
        BY <1>3, <3>1 DEF InThread
    <3>3. l \in 1 .. n
        BY <1>2, <3>1
    <3>4. QED BY <1>2, <3>1, <3>2, <3>3
  <2>3. QED BY <2>1, <2>2
<1>4. r \in Seq(DOMAIN thread)
    BY <1>2 DEF D
<1> HIDE DEF n
<1>5. InThread(r)
    BY <1>2, <1>3, <1>4 DEF InThread
<1>6. \E l \in 1 .. Len(r) : r[l] = c
  <2>1. n + 1 \in 1 .. n + 1
      BY <1>2
  <2>2. QED BY <1>2, <2>1
<1>7. QED BY <1>5, <1>6 DEF r

\* Visiting a comment leaves all replies after what they answer, and the comment there.
LEMMA VisitKeepsThreads ==
    ASSUME Threaded, NEW o, InThread(o), NEW c \in DOMAIN thread
    PROVE  InThread(Visit(o)[c])
<1> DEFINE There(s, d) == \E l \in 1 .. Len(s) : s[l] = d
           S == {d \in DOMAIN thread : InThread(Visit(o)[d]) /\ There(Visit(o)[d], d)}
<1>1. ASSUME NEW d \in DOMAIN thread, IsReply(d) => Parent(d) \in S PROVE d \in S
  <2>1. Visit(o)[d] = IF d \in Range(o) THEN o
                      ELSE Append(IF IsReply(d) THEN Visit(o)[Parent(d)] ELSE o, d)
      BY VisitIsEntered DEF Entered
  <2>2. CASE d \in Range(o)
    <3>1. There(o, d)
        BY <2>2 DEF Range, InThread
    <3>2. QED BY <2>1, <2>2, <3>1
  <2>3. CASE d \notin Range(o)
    <3> DEFINE s == IF IsReply(d) THEN Visit(o)[Parent(d)] ELSE o
    <3>1. InThread(s)
        BY <1>1
    <3>2. IsReply(d) => There(s, Parent(d))
        BY <1>1
    <3> HIDE DEF s
    <3>3. InThread(Append(s, d)) /\ There(Append(s, d), d)
        BY <3>1, <3>2, ReplyIsAdded
    <3>4. Visit(o)[d] = Append(s, d)
        BY <2>1, <2>3 DEF s
    <3>5. QED BY <3>3, <3>4
  <2>4. QED BY <2>2, <2>3
<1> HIDE DEF S
<1>2. DOMAIN thread \subseteq S
    BY <1>1, DownTheThread
<1>3. QED BY <1>2 DEF S

\* "Parents before replies".
LEMMA ParentsBeforeReplies ==
    ASSUME Threaded
    PROVE  InThread(SortComments)
<1> DEFINE n == Len(thread)
           X == {s \in Seq(DOMAIN thread) : InThread(s)}
           Sorts(f) == f = [i \in 0 .. n |-> IF i = 0 THEN << >> ELSE Visit(f[i - 1])[ByDate[i]]]
           next == [i \in 1 .. n |-> [s \in X |-> Visit(s)[ByDate[i]]]]
<1>1. n \in Nat /\ \A i \in 1 .. n : ByDate[i] \in DOMAIN thread
    BY DatesAreSorted
<1>2. << >> \in X
    BY DEF InThread
<1>3. ASSUME NEW i \in 1 .. n, NEW s \in X PROVE Visit(s)[ByDate[i]] \in X
  <2>1. InThread(s) /\ ByDate[i] \in DOMAIN thread
      BY <1>1
  <2>2. InThread(Visit(s)[ByDate[i]])
      BY <2>1, VisitKeepsThreads
  <2>3. QED BY <2>2 DEF InThread
<1> HIDE DEF X, n
<1>4. next \in [1 .. n -> [X -> X]]
    BY <1>3
<1>5. \A i \in 1 .. n : \A s \in X : next[i][s] = Visit(s)[ByDate[i]]
    OBVIOUS
<1> HIDE DEF next
<1>6. PICK f : Steps(f, n, X, << >>, next)
    BY <1>1, <1>2, <1>4, MadeStepByStep
<1>7. f \in [0 .. n -> X] /\ f[0] = << >> /\ \A i \in 1 .. n : f[i] = next[i][f[i - 1]]
    BY <1>6 DEF Steps
<1>8. Sorts(f)
  <2>1. ASSUME NEW i \in 0 .. n
        PROVE  f[i] = IF i = 0 THEN << >> ELSE Visit(f[i - 1])[ByDate[i]]
    <3>1. CASE i = 0
        BY <1>7, <3>1
    <3>2. CASE i # 0
      <4>1. i \in 1 .. n /\ i - 1 \in 0 .. n
          BY <1>1, <3>2
      <4>2. f[i - 1] \in X
          BY <1>7, <4>1
      <4>3. QED BY <1>5, <1>7, <3>2, <4>1, <4>2
    <3>3. QED BY <3>1, <3>2
  <2>2. QED BY <1>7, <2>1
<1> DEFINE sorted == CHOOSE g : Sorts(g)
<1>9. Sorts(sorted)
    BY <1>8
<1>10. SortComments = sorted[n]
    BY DEF SortComments, n
<1> HIDE DEF sorted
<1>11. /\ sorted[0] = << >>
       /\ \A i \in 0 .. n : i # 0 => sorted[i] = Visit(sorted[i - 1])[ByDate[i]]
    BY <1>1, <1>9
<1> DEFINE Good == {i \in 0 .. n : sorted[i] \in X}
<1>12. 0 \in Good
    BY <1>1, <1>2, <1>11
<1>13. ASSUME NEW i \in 0 .. n, i < n, i \in Good PROVE i + 1 \in Good
  <2>1. i + 1 \in 1 .. n /\ i + 1 \in 0 .. n /\ i + 1 # 0 /\ i + 1 - 1 = i
      BY <1>1, <1>13
  <2>2. sorted[i + 1] = Visit(sorted[i])[ByDate[i + 1]]
      BY <1>11, <2>1
  <2>3. sorted[i + 1] \in X
      BY <1>3, <1>13, <2>1, <2>2
  <2>4. QED BY <2>1, <2>3
<1> HIDE DEF Good
<1>14. 0 .. n \subseteq Good
    BY <1>1, <1>12, <1>13, UpTo
<1>15. n \in Good
    BY <1>1, <1>14
<1>16. QED BY <1>10, <1>15 DEF Good, X

\* Of the comments that are made, a reply comes after what it answers.
LEMMA KeptStaysInThread ==
    ASSUME Threaded, NEW S,
           NEW k \in 1 .. Len(Kept(SortComments, S)), NEW l \in 1 .. Len(Kept(SortComments, S)),
           IsReply(Kept(SortComments, S)[k]),
           Kept(SortComments, S)[l] = Parent(Kept(SortComments, S)[k])
    PROVE  \E m \in 1 .. k - 1 : Kept(SortComments, S)[m] = Parent(Kept(SortComments, S)[k])
<1> DEFINE list == SortComments
           r == Kept(list, S)
           D == DOMAIN thread
<1>1. InThread(list) /\ list \in Seq(D)
    BY ParentsBeforeReplies DEF InThread
<1> HIDE DEF list, D
<1>2. r \in Seq(D) /\ KeepsOrder(r, Len(list), list, S)
    BY <1>1, KeptKeepsOrder
<1>3. k \in 1 .. Len(r) /\ l \in 1 .. Len(r) /\ IsReply(r[k]) /\ r[l] = Parent(r[k])
    BY DEF list
<1> HIDE DEF r
<1>4. PICK m \in 1 .. Len(list) :
        r[k] = list[m] /\ \A j \in 1 .. m - 1 : list[j] \in S => \E h \in 1 .. k - 1 : r[h] = list[j]
    BY <1>2, <1>3 DEF KeepsOrder
<1>5. PICK j \in 1 .. m - 1 : list[j] = Parent(list[m])
    BY <1>1, <1>3, <1>4 DEF InThread
<1>6. list[j] \in S
    BY <1>2, <1>3, <1>4, <1>5 DEF KeepsOrder
<1>7. \E h \in 1 .. k - 1 : r[h] = Parent(r[k])
    BY <1>4, <1>5, <1>6
<1>8. QED BY <1>7 DEF r, list

\* The comments of the archive, and those that are made of them.
ThreadInv ==
    /\ thread \in Discussions
    /\ step \in {"manager", "statuses", "links", "scenes", "shots", "tasks", "comments"} => comments = << >>
    /\ ThreadsAreKept

LEMMA ThreadInvKept ==
    ASSUME DataAssumption, ThreadInv, [DataNext]_dataVars
    PROVE  ThreadInv'
<1> USE DEF Then
<1>1. CASE CreateComments
  <2>1. thread \in Seq([on : Nat, parent : Nat, at : Nat])
      BY DEF DataAssumption, ThreadInv
  <2>2. CASE Circular
      BY <1>1, <2>2 DEF CreateComments, ThreadInv, ThreadsAreKept, IsReply, Parent
  <2>3. CASE ~Circular
    <3>0. Threaded
        BY <2>1, <2>3 DEF Threaded
    <3>1. PICK fails \in SUBSET DOMAIN thread :
            LET posted == Kept(SortComments, {c \in DOMAIN thread \ fails : thread[c].on \in DOMAIN tasks})
                Under(k) == IF Parent(posted[k]) \in Range(SubSeq(posted, 1, k - 1)) THEN Parent(posted[k]) ELSE 0
            IN  comments' = [k \in DOMAIN posted |-> [id |-> posted[k], under |-> Under(k)]]
        BY <1>1, <2>3 DEF CreateComments
    <3> DEFINE S == {c \in DOMAIN thread \ fails : thread[c].on \in DOMAIN tasks}
               posted == Kept(SortComments, S)
               Under(k) == IF Parent(posted[k]) \in Range(SubSeq(posted, 1, k - 1)) THEN Parent(posted[k]) ELSE 0
    <3>2. comments' = [k \in DOMAIN posted |-> [id |-> posted[k], under |-> Under(k)]]
        BY <3>1
    <3>3. thread' = thread /\ step' = "records"
        BY <1>1, <2>3 DEF CreateComments
    <3>4. \A c : IsReply(c)' = IsReply(c) /\ Parent(c)' = Parent(c)
        BY <3>3 DEF IsReply, Parent
    <3> HIDE DEF S
    <3>5. posted \in Seq(DOMAIN thread)
        BY <3>0, ParentsBeforeReplies, KeptKeepsOrder DEF InThread
    <3>6. ASSUME NEW k \in 1 .. Len(posted), NEW l \in 1 .. Len(posted),
                 IsReply(posted[k]), posted[l] = Parent(posted[k])
          PROVE  Under(k) = Parent(posted[k])
      <4>1. PICK m \in 1 .. k - 1 : posted[m] = Parent(posted[k])
          BY <3>0, <3>6, KeptStaysInThread
      <4> DEFINE D == DOMAIN thread
      <4>2. posted \in Seq(D)
          BY <3>5
      <4> HIDE DEF posted, D
      <4>3. m \in DOMAIN SubSeq(posted, 1, k - 1) /\ SubSeq(posted, 1, k - 1)[m] = posted[m]
          BY <4>2
      <4>4. posted[m] \in Range(SubSeq(posted, 1, k - 1))
          BY <4>3 DEF Range
      <4>5. QED BY <4>1, <4>4
    <3>7. DOMAIN posted = 1 .. Len(posted)
      <4> DEFINE D == DOMAIN thread
      <4>1. posted \in Seq(D)
          BY <3>5
      <4> HIDE DEF posted, D
      <4>2. QED BY <4>1
    <3> HIDE DEF posted
    <3>8. ThreadsAreKept'
      <4> HIDE DEF Under
      <4>1. DOMAIN comments' = DOMAIN posted
          BY <3>2
      <4>2. \A k \in DOMAIN posted : comments'[k].id = posted[k] /\ comments'[k].under = Under(k)
          BY <3>2
      <4>3. ASSUME NEW k \in DOMAIN posted, NEW l \in DOMAIN posted, IsReply(posted[k]), posted[l] = Parent(posted[k])
            PROVE  Under(k) = Parent(posted[k])
          BY <3>6, <3>7, <4>3
      <4> HIDE DEF posted
      <4>4. ASSUME NEW k \in DOMAIN posted
            PROVE  IsReply(posted[k]) /\ Parent(posted[k]) \in {comments'[l].id : l \in DOMAIN comments'}
                      => comments'[k].under = Parent(posted[k])
          BY <4>1, <4>2, <4>3
      <4>5. \A k \in DOMAIN comments' :
               /\ comments'[k].id = posted[k]
               /\ Parent(comments[k].id)' = Parent(posted[k]) /\ IsReply(comments[k].id)' = IsReply(posted[k])
          BY <3>3, <4>1, <4>2 DEF IsReply, Parent
      <4>6. \A k \in DOMAIN comments' :
               LET parent == Parent(comments[k].id)'
               IN  IsReply(comments[k].id)' /\ parent \in {comments'[l].id : l \in DOMAIN comments'}
                      => comments'[k].under = parent
          BY <4>1, <4>4, <4>5
      <4>7. QED BY <4>6 DEF ThreadsAreKept
    <3>9. QED BY <3>3, <3>8 DEF ThreadInv
  <2>4. QED BY <2>2, <2>3
<1>2. CASE EnsureManager \/ CreateOrGetStatuses \/ LinkStatuses \/ CreateScenes \/ CreateShots \/ CreateTasks
    BY <1>2 DEF EnsureManager, CreateOrGetStatuses, LinkStatuses, CreateScenes, CreateShots, CreateTasks,
                ThreadInv, ThreadsAreKept, IsReply, Parent
<1>3. CASE CreateRecords \/ AddTeam
  <2>1. UNCHANGED <<thread, comments>> /\ step' \in {"team", "done"}
      BY <1>3 DEF CreateRecords, AddTeam
  <2>2. QED BY <2>1 DEF ThreadInv, ThreadsAreKept, IsReply, Parent
<1>4. CASE UNCHANGED dataVars
    BY <1>4 DEF dataVars, ThreadInv, ThreadsAreKept, IsReply, Parent
<1>5. QED BY <1>1, <1>2, <1>3, <1>4 DEF DataNext

LEMMA ThreadInvariant == DataSpec => []ThreadInv
<1>1. DataInit => ThreadInv
    BY DEF DataInit, ThreadInv, ThreadsAreKept
<1>2. QED BY <1>1, ThreadInvKept, DataAssumption, PTL DEF DataSpec

\* A comment is a reply to what it answers whenever both were made, in whatever order the
\* archive has them and whichever calls fail (_sort_comments, _create_comments).
THEOREM ThreadsStayTogether == DataSpec => []ThreadsAreKept
<1>1. ThreadInv => ThreadsAreKept
    BY DEF ThreadInv
<1>2. QED BY <1>1, ThreadInvariant, PTL

(***************************************************************************)
(* A workspace and its installations.                                      *)
(***************************************************************************)

InstallStages == {"idle", "vcs", "blender", "unpack", "extract", "resolve", "addons", "move", "mark",
                  "config", "done", "failed"}
Wants == UNION {[S -> Packages] : S \in SUBSET Addons}
Jobs == [pc : InstallStages, bp : Blueprints \cup {Missing}, want : Wants,
         addon : Addons \cup {Missing}, skipped : SUBSET Addons]
Extensions == [pkg : Packages \cup {0}, mark : Packages \cup {0}, whole : BOOLEAN]

InstallShape ==
    /\ blueprint \in Blueprints \cup {Missing} /\ saving \in Blueprints \cup {Missing}
    /\ manifest \in [Addons -> Packages] /\ archives \in [Addons -> SUBSET Packages]
    /\ built \in [Blenders -> {"none", "part", "full"}] /\ ext \in [Addons -> Extensions]
    /\ conf \in {Missing, Torn} \cup Configurations
    /\ inst \in [Installers -> Jobs]
    /\ checkedOut \in BOOLEAN /\ met \in BOOLEAN /\ clean \subseteq Installers

\* Who works has a blueprint, and the add-on in hand is one that is wanted.
AtWork ==
    \A i \in Installers :
        /\ inst[i].pc \notin AtRest => inst[i].bp # Missing
        /\ inst[i].pc \in {"move", "mark"} => inst[i].addon \in DOMAIN inst[i].want

\* What is half done is so by a fault, or somebody is doing it.
Harmed ==
    /\ \A b \in Blenders : built[b] = "part" =>
          "halfExtract" \in damage \/ \E i \in Installers : Extracting(i, b)
    /\ \A a \in Addons : ~ext[a].whole => "halfRemove" \in damage
    /\ conf = Torn => "tornConfig" \in damage

\* Unless two installations have met, one works at a time and no marker is on
\* another build than its own.
OneAtATime ==
    ~met => /\ \A i, j \in Installers : inst[i].pc \notin AtRest /\ inst[j].pc \notin AtRest => i = j
            /\ \A a \in Addons : ext[a].mark \in {0, ext[a].pkg}

\* Nobody starts or changes anything under an installation that is clean.
CleanIsAlone ==
    \A i \in clean : \A j \in Installers : j # i => inst[j].pc \in AtRest /\ j \notin clean

\* The directory of an add-on between its removal and its marker.
HalfWay(i) ==
    ~met \/ i \in clean =>
        /\ inst[i].pc = "move" => ext[inst[i].addon].pkg = 0
        /\ inst[i].pc = "mark" => ext[inst[i].addon].pkg = inst[i].want[inst[i].addon]

\* An add-on is as the vault offers it.
InPlace(a) ==
    /\ ext[a].pkg # 0 /\ VersionOf[ext[a].pkg] = VersionOf[Available(a)]
    /\ ext[a].mark = Available(a) /\ Available(a) # 0
    /\ ~met => ext[a].pkg = Available(a)

\* What an installation has reached that nothing has interfered with.
Reached(i) ==
    LET job == inst[i] IN
    /\ job.pc \notin {"idle", "failed"} => job.bp = blueprint /\ blueprint # Missing
    /\ job.pc \notin {"idle", "failed", "vcs"} => checkedOut
    /\ job.pc \notin {"idle", "failed", "vcs", "blender", "unpack"} => built[job.bp.blender] # "none"
    /\ job.pc \in {"addons", "move", "mark", "config", "done"} =>
         /\ \A a \in job.bp.addons \ job.skipped : a \in DOMAIN job.want \/ InPlace(a)
         /\ \A a \in DOMAIN job.want : job.want[a] = Available(a)
    /\ job.pc \in {"config", "done"} =>
         DOMAIN job.want = {} /\ scripts \cap job.bp.addons = job.bp.enabled
    /\ job.pc = "done" =>
         conf = [blender |-> job.bp.blender, addons |-> job.bp.addons, flag |-> FALSE]

InstallInv ==
    /\ InstallShape /\ AtWork /\ Harmed /\ OneAtATime /\ CleanIsAlone
    /\ \A i \in Installers : HalfWay(i)
    /\ \A i \in clean : Reached(i)

LEMMA InstallStarts == InstallInit => InstallInv
<1> SUFFICES ASSUME InstallInit PROVE InstallInv
    OBVIOUS
<1>1. [a \in {} |-> 0] \in Wants
  <2>1. [a \in {} |-> 0] \in [{} -> Packages] /\ {} \in SUBSET Addons
      OBVIOUS
  <2>2. QED BY <2>1 DEF Wants
<1>2. NothingToDo \in Jobs /\ NothingToDo.pc = "idle"
    BY <1>1 DEF NothingToDo, Jobs, InstallStages
<1>3. NoAddon \in Extensions /\ NoAddon.whole /\ NoAddon.mark = 0 /\ NoAddon.pkg = 0
    BY DEF NoAddon, Extensions
<1>4. InstallShape
  <2>1. {1} \in SUBSET Packages /\ {p \in Packages : VersionOf[p] = VersionOf[1]} \in SUBSET Packages
      BY InstallAssumption
  <2>2. archives \in [Addons -> SUBSET Packages]
      BY <2>1 DEF InstallInit
  <2>3. manifest \in [Addons -> Packages]
      BY InstallAssumption DEF InstallInit
  <2>4. QED BY <1>2, <1>3, <2>2, <2>3 DEF InstallInit, InstallShape
<1>5. Harmed
    BY <1>3, InstallAssumption DEF InstallInit, Harmed
<1>6. QED BY <1>2, <1>3, <1>4, <1>5 DEF InstallInit, InstallInv, AtWork, OneAtATime, CleanIsAlone, HalfWay,
                                        AtRest

\* One installer takes a step; everybody else is at rest if it is clean, or if no two
\* have ever met.
LEMMA InstallerKeeps ==
    ASSUME InstallInv, NEW i \in Installers, NEW job \in Jobs, inst[i].pc \notin AtRest,
           inst' = [inst EXCEPT ![i] = job],
           job.pc \notin AtRest => job.bp # Missing,
           job.pc \in {"move", "mark"} => job.addon \in DOMAIN job.want,
           built' \in [Blenders -> {"none", "part", "full"}], ext' \in [Addons -> Extensions],
           conf' \in {Missing, Torn} \cup Configurations, checkedOut' \in BOOLEAN,
           Harmed', ~met => \A a \in Addons : ext'[a].mark \in {0, ext'[a].pkg},
           HalfWay(i)', i \in clean => Reached(i)',
           UNCHANGED << blueprint, manifest, archives, saving, clean, met >>
    PROVE  InstallInv'
<1>1. /\ inst \in [Installers -> Jobs] /\ inst' \in [Installers -> Jobs] /\ inst'[i] = job
      /\ \A j \in Installers : j # i => inst'[j] = inst[j]
    BY DEF InstallInv, InstallShape
<1>2. InstallShape'
    BY <1>1 DEF InstallInv, InstallShape
<1>3. AtWork'
    BY <1>1 DEF InstallInv, AtWork
<1>4. OneAtATime'
    BY <1>1 DEF InstallInv, OneAtATime
<1>5. CleanIsAlone'
    BY <1>1 DEF InstallInv, CleanIsAlone
<1>6. ASSUME NEW j \in Installers, j # i PROVE HalfWay(j)'
  <2>1. ~met \/ j \in clean => inst[j].pc \in AtRest
      BY <1>6 DEF InstallInv, OneAtATime, CleanIsAlone
  <2>2. QED BY <1>1, <1>6, <2>1 DEF HalfWay, AtRest
<1>7. \A j \in clean : j = i
    BY DEF InstallInv, CleanIsAlone
<1>8. QED BY <1>2, <1>3, <1>4, <1>5, <1>6, <1>7 DEF InstallInv

\* An extraction goes on when its installer, or another one, takes another step.
LEMMA HarmIsKnown ==
    ASSUME InstallInv, NEW i \in Installers, NEW job \in Jobs, inst[i].pc # "extract",
           inst' = [inst EXCEPT ![i] = job], UNCHANGED built, damage \subseteq damage',
           \A a \in Addons : ~ext'[a].whole => ~ext[a].whole \/ "halfRemove" \in damage',
           conf' = Torn => conf = Torn \/ "tornConfig" \in damage'
    PROVE  Harmed'
<1>1. \A j \in Installers : j # i => inst'[j] = inst[j]
    BY DEF InstallInv, InstallShape
<1>2. ASSUME NEW b \in Blenders, NEW j \in Installers, Extracting(j, b) PROVE Extracting(j, b)'
    BY <1>1, <1>2 DEF Extracting, Stage
<1>3. QED BY <1>2 DEF InstallInv, Harmed

\* What the vault offers has the version that its manifest declares.
LEMMA OffersFit ==
    ASSUME InstallInv, NEW a \in Addons
    PROVE  /\ Available(a) \in Packages \cup {0}
           /\ Available(a) # 0 => VersionOf[Available(a)] = VersionOf[manifest[a]]
<1>1. manifest[a] \in Packages /\ archives[a] \subseteq Packages
    BY DEF InstallInv, InstallShape
<1>2. ASSUME manifest[a] \notin archives[a], Fitting(a) # {} PROVE Available(a) \in Fitting(a)
    BY <1>2 DEF Available
<1>3. QED BY <1>1, <1>2 DEF Available, Fitting

LEMMA WantsAreTyped ==
    ASSUME NEW want \in Wants
    PROVE  DOMAIN want \subseteq Addons /\ \A a \in DOMAIN want : want[a] \in Packages
<1>1. PICK S \in SUBSET Addons : want \in [S -> Packages]
    BY DEF Wants
<1>2. QED BY <1>1

LEMMA WantsShrink ==
    ASSUME NEW i \in Installers, inst[i] \in Jobs, NEW a
    PROVE  /\ Without(i, a) \in Wants /\ DOMAIN Without(i, a) = DOMAIN inst[i].want \ {a}
           /\ \A x \in DOMAIN Without(i, a) : Without(i, a)[x] = inst[i].want[x]
<1> DEFINE want == inst[i].want
           less == [x \in DOMAIN want \ {a} |-> want[x]]
<1>1. want \in Wants
    BY DEF Jobs
<1>2. DOMAIN want \subseteq Addons /\ \A x \in DOMAIN want : want[x] \in Packages
    BY <1>1, WantsAreTyped
<1> HIDE DEF want
<1>3. less \in [DOMAIN want \ {a} -> Packages] /\ DOMAIN want \ {a} \in SUBSET Addons
    BY <1>2
<1>4. less \in Wants
    BY <1>3 DEF Wants
<1>5. Without(i, a) = less
    BY DEF Without, want
<1>6. QED BY <1>4, <1>5 DEF want

\* A blueprint names add-ons of the studio and a Blender version.
LEMMA BlueprintsAreTyped ==
    ASSUME NEW b \in Blueprints
    PROVE  /\ b.blender \in Blenders /\ b.addons \subseteq Addons /\ b.enabled \subseteq b.addons
           /\ [blender |-> b.blender, addons |-> b.addons, flag |-> FALSE] \in Configurations
           /\ [blender |-> b.blender, addons |-> b.addons, flag |-> TRUE] \in Configurations
BY InstallAssumption DEF Blenders, Configurations

LEMMA JobsAreTyped ==
    ASSUME InstallInv, NEW i \in Installers
    PROVE  /\ inst[i] \in Jobs /\ inst[i].want \in Wants /\ inst[i].skipped \in SUBSET Addons
           /\ inst[i].pc \notin AtRest => inst[i].bp \in Blueprints
           /\ \A pc \in InstallStages :
                /\ [inst[i] EXCEPT !.pc = pc] \in Jobs
                /\ [inst[i] EXCEPT !.pc = pc].pc = pc
                /\ [inst[i] EXCEPT !.pc = pc].bp = inst[i].bp
                /\ [inst[i] EXCEPT !.pc = pc].want = inst[i].want
                /\ [inst[i] EXCEPT !.pc = pc].addon = inst[i].addon
                /\ [inst[i] EXCEPT !.pc = pc].skipped = inst[i].skipped
                /\ GoOn(i, pc) => inst' = [inst EXCEPT ![i] = [inst[i] EXCEPT !.pc = pc]]
<1>1. inst[i] \in Jobs
    BY DEF InstallInv, InstallShape
<1>2. QED BY <1>1 DEF InstallInv, AtWork, Jobs, GoOn

LEMMA SynchroniseKeeps ==
    ASSUME InstallInv, NEW i \in Installers, Synchronise(i)
    PROVE  InstallInv'
<1> DEFINE job == [inst[i] EXCEPT !.pc = "blender"]
<1>1. /\ job \in Jobs /\ job.pc = "blender" /\ job.bp = inst[i].bp /\ job.want = inst[i].want
      /\ job.addon = inst[i].addon /\ job.skipped = inst[i].skipped
      /\ inst' = [inst EXCEPT ![i] = job] /\ inst[i].pc = "vcs" /\ inst[i].pc \notin AtRest
      /\ inst[i].bp \in Blueprints
    BY JobsAreTyped DEF Synchronise, Stage, InstallStages, AtRest
<1> HIDE DEF job
<1>2. /\ checkedOut' = TRUE
      /\ UNCHANGED <<blueprint, manifest, archives, built, ext, scripts, conf, saving, clean, met, damage>>
    BY DEF Synchronise
<1>3. /\ inst \in [Installers -> Jobs] /\ inst'[i] = job
      /\ built' \in [Blenders -> {"none", "part", "full"}] /\ ext' \in [Addons -> Extensions]
      /\ conf' \in {Missing, Torn} \cup Configurations
    BY <1>1, <1>2 DEF InstallInv, InstallShape
<1>4. Harmed' /\ HalfWay(i)' /\ (~met => \A a \in Addons : ext'[a].mark \in {0, ext'[a].pkg})
    BY <1>1, <1>2, <1>3, HarmIsKnown DEF InstallInv, HalfWay, OneAtATime
<1>5. i \in clean => Reached(i)'
    BY <1>1, <1>2, <1>3 DEF InstallInv, Reached
<1>6. job.bp # Missing
    BY <1>1, InstallAssumption
<1>7. QED BY <1>1, <1>2, <1>3, <1>4, <1>5, <1>6, InstallerKeeps

LEMMA InstallBlenderKeeps ==
    ASSUME InstallInv, NEW i \in Installers, InstallBlender(i)
    PROVE  InstallInv'
<1> DEFINE v == inst[i].bp.blender
           next == IF built[v] = "none" THEN "unpack" ELSE "resolve"
           job == [inst[i] EXCEPT !.pc = next]
<1>1. /\ inst[i].pc = "blender" /\ inst[i].pc \notin AtRest /\ GoOn(i, next)
      /\ UNCHANGED <<blueprint, manifest, archives, built, ext, scripts, checkedOut, conf, saving,
                     clean, met, damage>>
    BY DEF InstallBlender, Stage, AtRest
<1>2. next \in InstallStages /\ (next = "resolve" \/ next = "unpack") /\ (next = "resolve" => built[v] # "none")
    BY DEF InstallStages
<1> HIDE DEF next
<1>3. /\ job \in Jobs /\ job.pc = next /\ job.bp = inst[i].bp /\ job.want = inst[i].want
      /\ job.addon = inst[i].addon /\ job.skipped = inst[i].skipped
      /\ inst' = [inst EXCEPT ![i] = job] /\ inst[i].bp \in Blueprints
    BY <1>1, <1>2, JobsAreTyped
<1> HIDE DEF job
<1>4. /\ inst \in [Installers -> Jobs] /\ inst'[i] = job
      /\ built' \in [Blenders -> {"none", "part", "full"}] /\ ext' \in [Addons -> Extensions]
      /\ conf' \in {Missing, Torn} \cup Configurations /\ checkedOut' \in BOOLEAN
    BY <1>1, <1>3 DEF InstallInv, InstallShape
<1>5. Harmed' /\ HalfWay(i)' /\ (~met => \A a \in Addons : ext'[a].mark \in {0, ext'[a].pkg})
    BY <1>1, <1>2, <1>3, <1>4, HarmIsKnown DEF InstallInv, HalfWay, OneAtATime
<1>6. i \in clean => Reached(i)'
    BY <1>1, <1>2, <1>3, <1>4 DEF InstallInv, Reached, v
<1>7. job.bp # Missing
    BY <1>3, InstallAssumption
<1>8. QED BY <1>1, <1>2, <1>3, <1>4, <1>5, <1>6, <1>7, InstallerKeeps

\* One installer begins or ends the extraction of its Blender.
LEMMA ExtractingKeeps ==
    ASSUME InstallInv, NEW i \in Installers, StartExtracting(i) \/ FinishExtracting(i)
    PROVE  InstallInv'
<1>1. PICK b : b = inst[i].bp.blender
    OBVIOUS
<1>2. UNCHANGED <<blueprint, manifest, archives, ext, scripts, checkedOut, conf, saving,
                  clean, met, damage>>
    BY DEF StartExtracting, FinishExtracting
<1>3. \E pc \in {"extract", "resolve"}, left \in {"part", "full"} :
         /\ inst[i].pc \in {"unpack", "extract"} /\ GoOn(i, pc) /\ built' = [built EXCEPT ![b] = left]
         /\ left = "part" => \/ pc = "extract" \/ "halfExtract" \in damage
                             \/ \E j \in Installers \ {i} : Extracting(j, b)
  <2>1. CASE StartExtracting(i)
      BY <1>1, <2>1 DEF StartExtracting, Stage
  <2>2. CASE FinishExtracting(i)
    <3>1. PICK left \in {"part", "full"} :
             /\ left = "part" => \/ ~\A j \in Installers \ {i} : ~Extracting(j, b)
                                 \/ "halfExtract" \in damage
             /\ built' = [built EXCEPT ![b] = left]
        BY <1>1, <2>2 DEF FinishExtracting
    <3>2. inst[i].pc = "extract" /\ GoOn(i, "resolve")
        BY <2>2 DEF FinishExtracting, Stage
    <3>3. QED BY <3>1, <3>2
  <2>3. QED BY <2>1, <2>2
<1>4. PICK pc \in {"extract", "resolve"}, left \in {"part", "full"} :
         /\ inst[i].pc \in {"unpack", "extract"} /\ GoOn(i, pc) /\ built' = [built EXCEPT ![b] = left]
         /\ left = "part" => \/ pc = "extract" \/ "halfExtract" \in damage
                             \/ \E j \in Installers \ {i} : Extracting(j, b)
    BY <1>3
<1> DEFINE job == [inst[i] EXCEPT !.pc = pc]
<1>5. pc \in InstallStages /\ inst[i].pc \notin AtRest
    BY <1>4 DEF InstallStages, AtRest
<1>6. /\ job \in Jobs /\ job.pc = pc /\ job.bp = inst[i].bp /\ job.want = inst[i].want
      /\ job.addon = inst[i].addon /\ job.skipped = inst[i].skipped
      /\ inst' = [inst EXCEPT ![i] = job] /\ inst[i].bp \in Blueprints
    BY <1>4, <1>5, JobsAreTyped
<1> HIDE DEF job
<1>7. b \in Blenders
    BY <1>1, <1>6, BlueprintsAreTyped
<1>8. /\ inst \in [Installers -> Jobs] /\ inst'[i] = job
      /\ \A j \in Installers : j # i => inst'[j] = inst[j]
      /\ ext' \in [Addons -> Extensions] /\ built \in [Blenders -> {"none", "part", "full"}]
      /\ conf' \in {Missing, Torn} \cup Configurations /\ checkedOut' \in BOOLEAN
    BY <1>2, <1>6 DEF InstallInv, InstallShape
<1>9. /\ built' \in [Blenders -> {"none", "part", "full"}] /\ built'[b] = left
      /\ \A x \in Blenders : x # b => built'[x] = built[x]
    BY <1>4, <1>7, <1>8
<1>10. Harmed'
  <2>1. \A j \in Installers \ {i} : \A x : Extracting(j, x) => Extracting(j, x)'
      BY <1>8 DEF Extracting, Stage
  <2>2. ASSUME pc = "extract" PROVE Extracting(i, b)'
      BY <1>1, <1>6, <1>8, <2>2 DEF Extracting, Stage
  <2>3. \A x : Extracting(i, x) => x = b
      BY <1>1 DEF Extracting
  <2>4. ASSUME NEW x \in Blenders, built'[x] = "part"
        PROVE  "halfExtract" \in damage' \/ \E j \in Installers : Extracting(j, x)'
    <3>1. CASE x = b
        BY <1>2, <1>4, <1>9, <2>1, <2>2, <2>4, <3>1
    <3>2. CASE x # b
        BY <1>2, <1>9, <2>1, <2>3, <2>4, <3>2 DEF InstallInv, Harmed
    <3>3. QED BY <3>1, <3>2
  <2>5. QED BY <1>2, <2>4 DEF InstallInv, Harmed
<1>11. HalfWay(i)' /\ (~met => \A a \in Addons : ext'[a].mark \in {0, ext'[a].pkg})
    BY <1>2, <1>4, <1>6, <1>8 DEF InstallInv, HalfWay, OneAtATime
<1>12. i \in clean => Reached(i)'
    BY <1>1, <1>2, <1>4, <1>6, <1>8, <1>9 DEF InstallInv, Reached
<1>13. job.bp # Missing
    BY <1>6, InstallAssumption
<1>14. QED BY <1>2, <1>4, <1>5, <1>6, <1>8, <1>9, <1>10, <1>11, <1>12, <1>13, InstallerKeeps

LEMMA ResolveKeeps ==
    ASSUME InstallInv, NEW i \in Installers, ResolveDesiredAddons(i)
    PROVE  InstallInv'
<1> DEFINE found == {a \in inst[i].bp.addons : Available(a) # 0}
           want == [a \in found |-> Available(a)]
           job == [inst[i] EXCEPT !.pc = "addons", !.want = want, !.skipped = inst[i].bp.addons \ found]
<1>1. /\ inst[i] \in Jobs /\ inst[i].pc = "resolve" /\ inst[i].pc \notin AtRest
      /\ inst[i].bp \in Blueprints /\ inst[i].bp.addons \subseteq Addons
    BY JobsAreTyped, BlueprintsAreTyped DEF ResolveDesiredAddons, Stage, AtRest
<1>2. /\ manifest \in [Addons -> Packages] /\ inst \in [Installers -> Jobs]
    BY DEF InstallInv, InstallShape
<1>3. \A a \in found : Available(a) # 0 /\ Available(a) \in Packages
    BY <1>1, OffersFit
<1>4. want \in Wants
  <2>1. want \in [found -> Packages] /\ found \in SUBSET Addons
      BY <1>1, <1>3
  <2>2. QED BY <2>1 DEF Wants
<1>5. DOMAIN want = found /\ \A a \in found : want[a] = Available(a)
    BY <1>3
<1> HIDE DEF want
<1>6. /\ job \in Jobs /\ job.pc = "addons" /\ job.bp = inst[i].bp /\ job.want = want
      /\ job.skipped = inst[i].bp.addons \ found
    BY <1>1, <1>4 DEF Jobs, InstallStages
<1>7. /\ inst' = [inst EXCEPT ![i] = job]
      /\ UNCHANGED <<blueprint, manifest, archives, built, ext, scripts, checkedOut, conf, saving,
                     clean, met, damage>>
    BY DEF ResolveDesiredAddons, want
<1> HIDE DEF job, found
<1>8. /\ inst'[i] = job
      /\ built' \in [Blenders -> {"none", "part", "full"}] /\ ext' \in [Addons -> Extensions]
      /\ conf' \in {Missing, Torn} \cup Configurations /\ checkedOut' \in BOOLEAN
    BY <1>2, <1>7 DEF InstallInv, InstallShape
<1>9. Harmed' /\ HalfWay(i)' /\ (~met => \A a \in Addons : ext'[a].mark \in {0, ext'[a].pkg})
    BY <1>1, <1>6, <1>7, <1>8, HarmIsKnown DEF InstallInv, HalfWay, OneAtATime
<1>10. i \in clean => Reached(i)'
  <2>1. \A a : Available(a)' = Available(a)
      BY <1>7 DEF Available, Fitting
  <2>2. QED BY <1>1, <1>5, <1>6, <1>7, <1>8, <2>1 DEF InstallInv, Reached
<1>11. job.bp # Missing
    BY <1>1, <1>6, InstallAssumption
<1>12. QED BY <1>1, <1>6, <1>7, <1>8, <1>9, <1>10, <1>11, InstallerKeeps

\* Nothing of an installation but its job and the add-ons' directories changes.
LEMMA AddonStepKeeps ==
    ASSUME InstallInv, NEW i \in Installers, NEW job \in Jobs,
           inst[i].pc \in {"addons", "move", "mark"}, job.pc \in {"addons", "move", "mark"},
           inst' = [inst EXCEPT ![i] = job], job.bp = inst[i].bp,
           job.pc \in {"move", "mark"} => job.addon \in DOMAIN job.want,
           ext' \in [Addons -> Extensions],
           \A a \in Addons : ~ext'[a].whole => ~ext[a].whole \/ "halfRemove" \in damage',
           damage \subseteq damage',
           ~met => \A a \in Addons : ext'[a].mark \in {0, ext'[a].pkg},
           ~met \/ i \in clean =>
               /\ job.pc = "move" => ext'[job.addon].pkg = 0
               /\ job.pc = "mark" => ext'[job.addon].pkg = job.want[job.addon],
           i \in clean =>
               /\ \A a \in job.bp.addons \ job.skipped : a \in DOMAIN job.want \/ InPlace(a)'
               /\ \A a \in DOMAIN job.want : job.want[a] = Available(a),
           UNCHANGED << blueprint, manifest, archives, built, scripts, checkedOut, conf, saving,
                        clean, met >>
    PROVE  InstallInv'
<1>1. inst \in [Installers -> Jobs] /\ inst'[i] = job
    BY DEF InstallInv, InstallShape
<1>2. /\ built' \in [Blenders -> {"none", "part", "full"}] /\ checkedOut' \in BOOLEAN
      /\ conf' \in {Missing, Torn} \cup Configurations
    BY DEF InstallInv, InstallShape
<1>3. Harmed'
    BY HarmIsKnown
<1>4. HalfWay(i)'
    BY <1>1 DEF HalfWay
<1>5. i \in clean => Reached(i)'
  <2>1. \A a : Available(a)' = Available(a)
      BY DEF Available, Fitting
  <2>2. QED BY <1>1, <2>1 DEF InstallInv, Reached
<1>6. job.bp # Missing /\ inst[i].pc \notin AtRest
    BY JobsAreTyped, InstallAssumption DEF AtRest
<1>7. QED BY <1>1, <1>2, <1>3, <1>4, <1>5, <1>6, InstallerKeeps

\* What is known of an add-on that an installer works on.
LEMMA WantedIsDeclared ==
    ASSUME InstallInv, NEW i \in Installers, inst[i].pc \in {"addons", "move", "mark"}
    PROVE  /\ inst[i] \in Jobs /\ inst[i].bp \in Blueprints
           /\ DOMAIN inst[i].want \subseteq Addons
           /\ \A a \in DOMAIN inst[i].want : inst[i].want[a] \in Packages /\ inst[i].want[a] # 0
           /\ i \in clean =>
                /\ \A a \in inst[i].bp.addons \ inst[i].skipped : a \in DOMAIN inst[i].want \/ InPlace(a)
                /\ \A a \in DOMAIN inst[i].want : inst[i].want[a] = Available(a)
           /\ inst[i].pc \in {"move", "mark"} => inst[i].addon \in DOMAIN inst[i].want
<1>1. inst[i] \in Jobs /\ inst[i].bp \in Blueprints /\ inst[i].want \in Wants
    BY JobsAreTyped DEF AtRest
<1>2. QED BY <1>1, WantsAreTyped, InstallAssumption DEF InstallInv, Reached, AtWork

LEMMA SkipKeeps ==
    ASSUME InstallInv, NEW i \in Installers, NEW a \in Addons, SkipCurrentAddon(i, a)
    PROVE  InstallInv'
<1> DEFINE job == [inst[i] EXCEPT !.want = Without(i, a)]
<1>1. /\ inst[i].pc = "addons" /\ a \in DOMAIN inst[i].want /\ inst[i].want[a] \in archives[a]
      /\ UpToDate(a, inst[i].want[a])
      /\ inst' = [inst EXCEPT ![i] = job]
      /\ UNCHANGED <<blueprint, manifest, archives, built, ext, scripts, checkedOut, conf, saving,
                     clean, met, damage>>
    BY DEF SkipCurrentAddon, TurnsTo, Stage
<1>2. inst[i] \in Jobs /\ inst[i].want[a] # 0
    BY <1>1, WantedIsDeclared
<1>3. /\ Without(i, a) \in Wants /\ DOMAIN Without(i, a) = DOMAIN inst[i].want \ {a}
      /\ \A x \in DOMAIN Without(i, a) : Without(i, a)[x] = inst[i].want[x]
    BY <1>2, WantsShrink
<1>4. /\ job \in Jobs /\ job.pc = "addons" /\ job.bp = inst[i].bp /\ job.want = Without(i, a)
      /\ job.skipped = inst[i].skipped
    BY <1>1, <1>2, <1>3 DEF Jobs
<1> HIDE DEF job
<1>5. ext' \in [Addons -> Extensions] /\ (~met => \A x \in Addons : ext'[x].mark \in {0, ext'[x].pkg})
    BY <1>1 DEF InstallInv, InstallShape, OneAtATime
<1>6. i \in clean => InPlace(a)
    BY <1>1, <1>2, <1>5, WantedIsDeclared DEF UpToDate, InPlace
<1>7. \A x : InPlace(x) => InPlace(x)'
    BY <1>1 DEF InPlace, Available, Fitting
<1>8. i \in clean => /\ \A x \in job.bp.addons \ job.skipped : x \in DOMAIN job.want \/ InPlace(x)'
                     /\ \A x \in DOMAIN job.want : job.want[x] = Available(x)
    BY <1>1, <1>3, <1>4, <1>6, <1>7, WantedIsDeclared
<1>9. QED BY <1>1, <1>4, <1>5, <1>8, AddonStepKeeps

LEMMA RemoveKeeps ==
    ASSUME InstallInv, NEW i \in Installers, NEW a \in Addons, RemoveAddon(i, a)
    PROVE  InstallInv'
<1> DEFINE job == [inst[i] EXCEPT !.pc = "move", !.addon = a]
<1>1. /\ inst[i].pc = "addons" /\ a \in DOMAIN inst[i].want
      /\ inst' = [inst EXCEPT ![i] = job] /\ ext' = [ext EXCEPT ![a] = NoAddon]
      /\ UNCHANGED <<blueprint, manifest, archives, built, scripts, checkedOut, conf, saving,
                     clean, met, damage>>
    BY DEF RemoveAddon, TurnsTo, Stage
<1>2. inst[i] \in Jobs
    BY <1>1, WantedIsDeclared
<1>3. /\ job \in Jobs /\ job.pc = "move" /\ job.bp = inst[i].bp /\ job.want = inst[i].want
      /\ job.skipped = inst[i].skipped /\ job.addon = a
    BY <1>2 DEF Jobs, InstallStages
<1> HIDE DEF job
<1>4. /\ ext \in [Addons -> Extensions] /\ NoAddon \in Extensions /\ NoAddon.pkg = 0 /\ NoAddon.mark = 0
      /\ NoAddon.whole
    BY DEF InstallInv, InstallShape, NoAddon, Extensions
<1>5. /\ ext' \in [Addons -> Extensions] /\ ext'[a] = NoAddon
      /\ \A x \in Addons : x # a => ext'[x] = ext[x]
    BY <1>1, <1>4
<1>6. /\ \A x \in Addons : ~ext'[x].whole => ~ext[x].whole
      /\ ~met => \A x \in Addons : ext'[x].mark \in {0, ext'[x].pkg}
    BY <1>4, <1>5 DEF InstallInv, OneAtATime
<1>7. \A x \in Addons : x # a /\ InPlace(x) => InPlace(x)'
    BY <1>1, <1>5 DEF InPlace, Available, Fitting
<1>8. i \in clean => /\ \A x \in job.bp.addons \ job.skipped : x \in DOMAIN job.want \/ InPlace(x)'
                     /\ \A x \in DOMAIN job.want : job.want[x] = Available(x)
    BY <1>1, <1>3, <1>7, WantedIsDeclared, BlueprintsAreTyped
<1>9. QED BY <1>1, <1>3, <1>4, <1>5, <1>6, <1>8, AddonStepKeeps

LEMMA MoveKeeps ==
    ASSUME InstallInv, NEW i \in Installers, MoveAddon(i)
    PROVE  InstallInv'
<1> DEFINE job == [inst[i] EXCEPT !.pc = "mark"]
           a == inst[i].addon
<1>1. /\ inst[i].pc = "move" /\ inst' = [inst EXCEPT ![i] = job]
      /\ ext' = [ext EXCEPT ![a].pkg = IF @ = 0 THEN inst[i].want[a] ELSE @]
      /\ UNCHANGED <<blueprint, manifest, archives, built, scripts, checkedOut, conf, saving,
                     clean, met, damage>>
    BY DEF MoveAddon, Stage, GoOn
<1>2. inst[i] \in Jobs /\ a \in DOMAIN inst[i].want /\ a \in Addons /\ inst[i].want[a] \in Packages
    BY <1>1, WantedIsDeclared
<1>3. /\ job \in Jobs /\ job.pc = "mark" /\ job.bp = inst[i].bp /\ job.want = inst[i].want
      /\ job.skipped = inst[i].skipped /\ job.addon = a
    BY <1>2 DEF Jobs, InstallStages
<1>4. ext \in [Addons -> Extensions] /\ ext[a] \in Extensions
    BY <1>2 DEF InstallInv, InstallShape
<1>5. ~met \/ i \in clean => ext[a].pkg = 0
    BY <1>1 DEF InstallInv, HalfWay
<1>6. ~met => \A x \in Addons : ext[x].mark \in {0, ext[x].pkg}
    BY DEF InstallInv, OneAtATime
<1> HIDE DEF job, a
<1>7. /\ ext' \in [Addons -> Extensions]
      /\ ext'[a].pkg = (IF ext[a].pkg = 0 THEN inst[i].want[a] ELSE ext[a].pkg)
      /\ ext'[a].mark = ext[a].mark /\ ext'[a].whole = ext[a].whole
      /\ \A x \in Addons : x # a => ext'[x] = ext[x]
    BY <1>1, <1>2, <1>4 DEF Extensions
<1>8. /\ \A x \in Addons : ~ext'[x].whole => ~ext[x].whole
      /\ ~met => \A x \in Addons : ext'[x].mark \in {0, ext'[x].pkg}
    BY <1>5, <1>6, <1>7
<1>9. \A x \in Addons : x # a /\ InPlace(x) => InPlace(x)'
    BY <1>1, <1>7 DEF InPlace, Available, Fitting
<1>10. i \in clean => /\ \A x \in job.bp.addons \ job.skipped : x \in DOMAIN job.want \/ InPlace(x)'
                      /\ \A x \in DOMAIN job.want : job.want[x] = Available(x)
    BY <1>1, <1>2, <1>3, <1>9, WantedIsDeclared, BlueprintsAreTyped
<1>11. ~met \/ i \in clean => ext'[a].pkg = job.want[a]
    BY <1>3, <1>5, <1>7
<1>12. QED BY <1>1, <1>2, <1>3, <1>7, <1>8, <1>10, <1>11, AddonStepKeeps

LEMMA MarkKeeps ==
    ASSUME InstallInv, NEW i \in Installers, NEW a, a = inst[i].addon, MarkAddon(i)
    PROVE  InstallInv'
<1> DEFINE job == [inst[i] EXCEPT !.pc = "addons", !.want = Without(i, a)]
<1>1. /\ inst[i].pc = "mark" /\ inst' = [inst EXCEPT ![i] = job] /\ inst[i].want[a] \in archives[a]
      /\ ext' = [ext EXCEPT ![a].mark = inst[i].want[a]]
      /\ UNCHANGED <<blueprint, manifest, archives, built, scripts, checkedOut, conf, saving,
                     clean, met, damage>>
    BY DEF MarkAddon, Stage
<1>2. /\ inst[i] \in Jobs /\ a \in DOMAIN inst[i].want /\ a \in Addons /\ inst[i].want[a] \in Packages
      /\ inst[i].want[a] # 0
    BY <1>1, WantedIsDeclared
<1>3. /\ Without(i, a) \in Wants /\ DOMAIN Without(i, a) = DOMAIN inst[i].want \ {a}
      /\ \A x \in DOMAIN Without(i, a) : Without(i, a)[x] = inst[i].want[x]
    BY <1>2, WantsShrink
<1>4. /\ job \in Jobs /\ job.pc = "addons" /\ job.bp = inst[i].bp /\ job.want = Without(i, a)
      /\ job.skipped = inst[i].skipped
    BY <1>2, <1>3 DEF Jobs, InstallStages
<1>5. ext \in [Addons -> Extensions] /\ ext[a] \in Extensions
    BY <1>2 DEF InstallInv, InstallShape
<1>6. ~met \/ i \in clean => ext[a].pkg = inst[i].want[a]
    BY <1>1 DEF InstallInv, HalfWay
<1>7. ~met => \A x \in Addons : ext[x].mark \in {0, ext[x].pkg}
    BY DEF InstallInv, OneAtATime
<1> HIDE DEF job
<1>8. /\ ext' \in [Addons -> Extensions]
      /\ ext'[a].pkg = ext[a].pkg /\ ext'[a].mark = inst[i].want[a] /\ ext'[a].whole = ext[a].whole
      /\ \A x \in Addons : x # a => ext'[x] = ext[x]
    BY <1>1, <1>2, <1>5 DEF Extensions
<1>9. /\ \A x \in Addons : ~ext'[x].whole => ~ext[x].whole
      /\ ~met => \A x \in Addons : ext'[x].mark \in {0, ext'[x].pkg}
    BY <1>6, <1>7, <1>8
<1>10. \A x \in Addons : x # a /\ InPlace(x) => InPlace(x)'
    BY <1>1, <1>8 DEF InPlace, Available, Fitting
<1>11. i \in clean => InPlace(a)'
  <2> SUFFICES ASSUME i \in clean PROVE InPlace(a)'
      OBVIOUS
  <2>1. inst[i].want[a] = Available(a)
      BY <1>1, <1>2, WantedIsDeclared
  <2>2. Available(a)' = Available(a)
      BY <1>1 DEF Available, Fitting
  <2>3. QED BY <1>1, <1>2, <1>6, <1>8, <2>1, <2>2 DEF InPlace
<1>12. i \in clean => /\ \A x \in job.bp.addons \ job.skipped : x \in DOMAIN job.want \/ InPlace(x)'
                      /\ \A x \in DOMAIN job.want : job.want[x] = Available(x)
  <2> SUFFICES ASSUME i \in clean
               PROVE  /\ \A x \in job.bp.addons \ job.skipped : x \in DOMAIN job.want \/ InPlace(x)'
                      /\ \A x \in DOMAIN job.want : job.want[x] = Available(x)
      OBVIOUS
  <2>1. /\ \A x \in inst[i].bp.addons \ inst[i].skipped : x \in DOMAIN inst[i].want \/ InPlace(x)
        /\ \A x \in DOMAIN inst[i].want : inst[i].want[x] = Available(x)
        /\ inst[i].bp.addons \subseteq Addons
      BY <1>1, WantedIsDeclared, BlueprintsAreTyped
  <2>2. QED BY <1>3, <1>4, <1>10, <1>11, <2>1
<1>13. QED BY <1>1, <1>4, <1>8, <1>9, <1>12, AddonStepKeeps

LEMMA GiveUpKeeps ==
    ASSUME InstallInv, NEW i \in Installers, NEW a \in Addons, GiveUpAddon(i, a)
    PROVE  InstallInv'
<1> DEFINE job == [inst[i] EXCEPT !.pc = "addons", !.want = Without(i, a), !.skipped = @ \cup {a}]
<1>1. /\ inst[i].pc \in {"addons", "move", "mark"} /\ inst' = [inst EXCEPT ![i] = job]
      /\ UNCHANGED <<blueprint, manifest, archives, built, scripts, checkedOut, conf, saving, clean, met>>
    BY DEF GiveUpAddon, TurnsTo, Stage
<1>2. \/ ext' = ext /\ damage' = damage
      \/ ext' = [ext EXCEPT ![a].whole = FALSE] /\ damage \subseteq damage' /\ damage' = {"halfRemove"}
    BY DEF GiveUpAddon, Fault
<1>3. inst[i] \in Jobs
    BY <1>1, WantedIsDeclared
<1>4. /\ Without(i, a) \in Wants /\ DOMAIN Without(i, a) = DOMAIN inst[i].want \ {a}
      /\ \A x \in DOMAIN Without(i, a) : Without(i, a)[x] = inst[i].want[x]
    BY <1>3, WantsShrink
<1>5. /\ job \in Jobs /\ job.pc = "addons" /\ job.bp = inst[i].bp /\ job.want = Without(i, a)
      /\ job.skipped = inst[i].skipped \cup {a}
    BY <1>3, <1>4 DEF Jobs, InstallStages
<1> HIDE DEF job
<1>6. /\ ext \in [Addons -> Extensions] /\ ext[a] \in Extensions
      /\ ~met => \A x \in Addons : ext[x].mark \in {0, ext[x].pkg}
    BY DEF InstallInv, InstallShape, OneAtATime
<1>7. /\ ext' \in [Addons -> Extensions] /\ damage \subseteq damage'
      /\ \A x \in Addons : ext'[x].pkg = ext[x].pkg /\ ext'[x].mark = ext[x].mark
      /\ \A x \in Addons : ~ext'[x].whole => ~ext[x].whole \/ "halfRemove" \in damage'
  <2>1. CASE ext' = ext /\ damage' = damage
      BY <1>6, <2>1
  <2>2. CASE ext' = [ext EXCEPT ![a].whole = FALSE] /\ damage \subseteq damage' /\ damage' = {"halfRemove"}
    <3>1. /\ [ext[a] EXCEPT !.whole = FALSE] \in Extensions
          /\ [ext[a] EXCEPT !.whole = FALSE].pkg = ext[a].pkg
          /\ [ext[a] EXCEPT !.whole = FALSE].mark = ext[a].mark
        BY <1>6 DEF Extensions
    <3>2. /\ ext' \in [Addons -> Extensions] /\ ext'[a] = [ext[a] EXCEPT !.whole = FALSE]
          /\ \A x \in Addons : x # a => ext'[x] = ext[x]
        BY <1>6, <2>2, <3>1
    <3>3. \A x \in Addons : ext'[x].pkg = ext[x].pkg /\ ext'[x].mark = ext[x].mark
        BY <3>1, <3>2
    <3>4. QED BY <2>2, <3>2, <3>3
  <2>3. QED BY <1>2, <2>1, <2>2
<1>8. \A x \in Addons : InPlace(x) => InPlace(x)'
    BY <1>1, <1>7 DEF InPlace, Available, Fitting
<1>9. i \in clean => /\ \A x \in job.bp.addons \ job.skipped : x \in DOMAIN job.want \/ InPlace(x)'
                     /\ \A x \in DOMAIN job.want : job.want[x] = Available(x)
    BY <1>1, <1>4, <1>5, <1>8, WantedIsDeclared, BlueprintsAreTyped
<1>10. ~met => \A x \in Addons : ext'[x].mark \in {0, ext'[x].pkg}
    BY <1>6, <1>7
<1>11. QED BY <1>1, <1>5, <1>7, <1>9, <1>10, AddonStepKeeps

LEMMA GenerateKeeps ==
    ASSUME InstallInv, NEW i \in Installers, GenerateScripts(i)
    PROVE  InstallInv'
<1> DEFINE job == [inst[i] EXCEPT !.pc = "config"]
<1>1. /\ job \in Jobs /\ job.pc = "config" /\ job.bp = inst[i].bp /\ job.want = inst[i].want
      /\ job.addon = inst[i].addon /\ job.skipped = inst[i].skipped
      /\ inst' = [inst EXCEPT ![i] = job] /\ inst[i].pc = "addons" /\ inst[i].pc \notin AtRest
      /\ inst[i].bp \in Blueprints
    BY JobsAreTyped DEF GenerateScripts, Stage, InstallStages, AtRest
<1> HIDE DEF job
<1>2. /\ scripts' = Generated(inst[i].bp) /\ DOMAIN inst[i].want = {}
      /\ UNCHANGED <<blueprint, manifest, archives, built, ext, checkedOut, conf, saving,
                     clean, met, damage>>
    BY DEF GenerateScripts
<1>3. scripts' \cap inst[i].bp.addons = inst[i].bp.enabled
    BY <1>1, <1>2, BlueprintsAreTyped DEF Generated
<1>4. /\ inst \in [Installers -> Jobs] /\ inst'[i] = job
      /\ built' \in [Blenders -> {"none", "part", "full"}] /\ ext' \in [Addons -> Extensions]
      /\ conf' \in {Missing, Torn} \cup Configurations /\ checkedOut' \in BOOLEAN
    BY <1>1, <1>2 DEF InstallInv, InstallShape
<1>5. Harmed' /\ HalfWay(i)' /\ (~met => \A a \in Addons : ext'[a].mark \in {0, ext'[a].pkg})
    BY <1>1, <1>2, <1>4, HarmIsKnown DEF InstallInv, HalfWay, OneAtATime
<1>6. \A x : Available(x)' = Available(x) /\ (InPlace(x) => InPlace(x)')
    BY <1>2 DEF InPlace, Available, Fitting
<1>7. i \in clean => Reached(i)'
    BY <1>1, <1>2, <1>3, <1>4, <1>6 DEF InstallInv, Reached
<1>8. job.bp # Missing
    BY <1>1, InstallAssumption
<1>9. QED BY <1>1, <1>2, <1>4, <1>5, <1>7, <1>8, InstallerKeeps

LEMMA WriteConfigKeeps ==
    ASSUME InstallInv, NEW i \in Installers, WriteLocalConfig(i)
    PROVE  InstallInv'
<1> DEFINE job == [inst[i] EXCEPT !.pc = "done"]
           c == [blender |-> inst[i].bp.blender, addons |-> inst[i].bp.addons, flag |-> FALSE]
<1>1. /\ job \in Jobs /\ job.pc = "done" /\ job.bp = inst[i].bp /\ job.want = inst[i].want
      /\ job.addon = inst[i].addon /\ job.skipped = inst[i].skipped
      /\ inst' = [inst EXCEPT ![i] = job] /\ inst[i].pc = "config" /\ inst[i].pc \notin AtRest
      /\ inst[i].bp \in Blueprints
    BY JobsAreTyped DEF WriteLocalConfig, Stage, InstallStages, AtRest
<1> HIDE DEF job
<1>2. c \in Configurations /\ c # Torn
    BY <1>1, BlueprintsAreTyped, InstallAssumption
<1>3. /\ conf' = c
      /\ UNCHANGED <<blueprint, manifest, archives, built, ext, scripts, checkedOut, saving,
                     clean, met, damage>>
    BY DEF WriteLocalConfig
<1>4. i \in clean /\ job.bp = inst[i].bp => conf' = [blender |-> job.bp.blender, addons |-> job.bp.addons, flag |-> FALSE]
    BY <1>3
<1> HIDE DEF c
<1>5. /\ inst \in [Installers -> Jobs] /\ inst'[i] = job
      /\ built' \in [Blenders -> {"none", "part", "full"}] /\ ext' \in [Addons -> Extensions]
      /\ conf' \in {Missing, Torn} \cup Configurations /\ checkedOut' \in BOOLEAN
    BY <1>1, <1>2, <1>3 DEF InstallInv, InstallShape
<1>6. Harmed' /\ HalfWay(i)' /\ (~met => \A a \in Addons : ext'[a].mark \in {0, ext'[a].pkg})
    BY <1>1, <1>2, <1>3, <1>5, HarmIsKnown DEF InstallInv, HalfWay, OneAtATime
<1>7. \A x : Available(x)' = Available(x) /\ (InPlace(x) => InPlace(x)')
    BY <1>3 DEF InPlace, Available, Fitting
<1>8. i \in clean => Reached(i)'
    BY <1>1, <1>3, <1>4, <1>5, <1>7 DEF InstallInv, Reached
<1>9. QED BY <1>1, <1>3, <1>5, <1>6, <1>8, InstallerKeeps DEF AtRest

LEMMA FailureKeeps ==
    ASSUME InstallInv, NEW i \in Installers, InstallFails(i)
    PROVE  InstallInv'
<1> DEFINE job == [inst[i] EXCEPT !.pc = "failed"]
<1>1. /\ job \in Jobs /\ job.pc = "failed"
      /\ inst' = [inst EXCEPT ![i] = job] /\ inst[i].pc \notin AtRest
      /\ inst[i].bp \in Blueprints
    BY JobsAreTyped DEF InstallFails, InstallStages, AtRest
<1> HIDE DEF job
<1>2. UNCHANGED <<blueprint, manifest, archives, built, ext, scripts, checkedOut, saving, clean, met>>
    BY DEF InstallFails
<1>3. \/ inst[i].pc # "extract" /\ conf' = conf /\ damage' = damage
      \/ damage' = {"halfExtract"} /\ damage \subseteq damage' /\ conf' = conf
      \/ inst[i].pc # "extract" /\ damage \subseteq damage' /\ damage' = {"tornConfig"} /\ conf' = Torn
    BY DEF InstallFails, Fault, Stage
<1>4. /\ inst \in [Installers -> Jobs] /\ inst'[i] = job /\ checkedOut' \in BOOLEAN
      /\ ext' \in [Addons -> Extensions] /\ conf' \in {Missing, Torn} \cup Configurations
      /\ built' \in [Blenders -> {"none", "part", "full"}]
    BY <1>1, <1>2, <1>3 DEF InstallInv, InstallShape
<1>5. Harmed'
  <2>1. CASE inst[i].pc # "extract"
      BY <1>1, <1>2, <1>3, <2>1, HarmIsKnown
  <2>2. CASE damage' = {"halfExtract"} /\ damage \subseteq damage' /\ conf' = conf
      BY <1>2, <2>2 DEF InstallInv, Harmed
  <2>3. QED BY <1>3, <2>1, <2>2
<1>6. HalfWay(i)' /\ (~met => \A a \in Addons : ext'[a].mark \in {0, ext'[a].pkg})
    BY <1>1, <1>2, <1>4 DEF InstallInv, HalfWay, OneAtATime
<1>7. i \in clean => Reached(i)'
    BY <1>1, <1>4 DEF Reached
<1>8. QED BY <1>1, <1>2, <1>4, <1>5, <1>6, <1>7, InstallerKeeps DEF AtRest

LEMMA StartKeepsTheWorkspace ==
    ASSUME InstallInv, NEW i \in Installers, NEW reset \in BOOLEAN, StartInstall(i, reset)
    PROVE  InstallInv'
<1> DEFINE job == [NothingToDo EXCEPT !.pc = IF blueprint = Missing THEN "failed" ELSE "vcs",
                                      !.bp = blueprint]
<1>1. [a \in {} |-> 0] \in Wants
  <2>1. [a \in {} |-> 0] \in [{} -> Packages] /\ {} \in SUBSET Addons
      OBVIOUS
  <2>2. QED BY <2>1 DEF Wants
<1>2. /\ job \in Jobs /\ job.bp = blueprint
      /\ blueprint = Missing => job.pc = "failed"
      /\ blueprint # Missing => job.pc = "vcs"
    BY <1>1 DEF NothingToDo, Jobs, InstallStages, InstallInv, InstallShape
<1> HIDE DEF job
<1>3. /\ inst[i].pc \in AtRest /\ checkedOut' = (checkedOut /\ ~reset)
      /\ inst' = [inst EXCEPT ![i] = job]
      /\ clean' = IF NoOtherInstaller(i) THEN {i} ELSE {}
      /\ met' = (met \/ ~NoOtherInstaller(i))
      /\ UNCHANGED <<blueprint, manifest, archives, built, ext, scripts, conf, saving, damage>>
    BY DEF StartInstall, job
<1>4. /\ inst \in [Installers -> Jobs] /\ inst' \in [Installers -> Jobs] /\ inst'[i] = job
      /\ \A j \in Installers : j # i => inst'[j] = inst[j]
    BY <1>2, <1>3 DEF InstallInv, InstallShape
<1>5. InstallShape'
  <2>1. checkedOut' \in BOOLEAN /\ met' \in BOOLEAN /\ clean' \subseteq Installers
      BY <1>3 DEF InstallInv, InstallShape
  <2>2. QED BY <1>3, <1>4, <2>1 DEF InstallInv, InstallShape
<1>6. AtWork' /\ Harmed'
  <2>1. AtWork'
      BY <1>2, <1>3, <1>4 DEF InstallInv, AtWork, AtRest
  <2>2. Harmed'
      BY <1>2, <1>3, HarmIsKnown DEF AtRest
  <2>3. QED BY <2>1, <2>2
<1>7. ~met' => ~met /\ \A j \in Installers \ {i} : inst[j].pc \in AtRest
    BY <1>3 DEF NoOtherInstaller, InstallInv, InstallShape
<1>8. OneAtATime'
    BY <1>3, <1>4, <1>7 DEF InstallInv, OneAtATime
<1>9. \A j \in clean' : j = i /\ \A l \in Installers \ {i} : inst[l].pc \in AtRest
    BY <1>3 DEF NoOtherInstaller
<1>10. CleanIsAlone'
    BY <1>4, <1>9 DEF CleanIsAlone
<1>11. ASSUME NEW j \in Installers PROVE HalfWay(j)'
  <2>1. CASE j = i
      BY <1>2, <1>4, <2>1 DEF HalfWay
  <2>2. CASE j # i
      BY <1>4, <1>7, <1>9, <2>2 DEF HalfWay, AtRest
  <2>3. QED BY <2>1, <2>2
<1>12. ASSUME NEW j \in clean' PROVE Reached(j)'
    BY <1>2, <1>3, <1>4, <1>9, <1>12 DEF Reached
<1>13. QED BY <1>5, <1>6, <1>8, <1>10, <1>11, <1>12 DEF InstallInv

\* Somebody else changes blueprint, configuration or vault: nothing is clean any more.
LEMMA ChangingKeeps ==
    ASSUME InstallInv, clean' = {}, UNCHANGED << built, ext, checkedOut, inst, met, damage >>,
           blueprint' \in Blueprints \cup {Missing}, saving' \in Blueprints \cup {Missing},
           manifest' \in [Addons -> Packages], archives' \in [Addons -> SUBSET Packages],
           conf' = conf \/ conf' \in Configurations
    PROVE  InstallInv'
<1>1. InstallShape'
    BY DEF InstallInv, InstallShape
<1>2. AtWork' /\ Harmed'
  <2>1. \A i, b : Extracting(i, b)' = Extracting(i, b)
      BY DEF Extracting, Stage
  <2>2. QED BY <2>1, InstallAssumption DEF InstallInv, AtWork, Harmed
<1>3. OneAtATime' /\ CleanIsAlone'
    BY DEF InstallInv, OneAtATime, CleanIsAlone
<1>4. \A i \in Installers : HalfWay(i)'
    BY DEF InstallInv, HalfWay
<1>5. QED BY <1>1, <1>2, <1>3, <1>4 DEF InstallInv

LEMMA WorldKeeps ==
    ASSUME InstallInv,
           \/ \E b \in Blueprints : SaveBlueprint(b)
           \/ MirrorConfig
           \/ \E b \in Blueprints \cup {Missing} : ReplaceBlueprint(b)
           \/ \E b \in Blueprints : FixBlueprint(b)
           \/ \E a \in Addons, p \in Packages : PublishPackage(a, p) \/ RemoveArchive(a, p)
    PROVE  InstallInv'
<1>1. /\ blueprint \in Blueprints \cup {Missing} /\ saving \in Blueprints \cup {Missing}
      /\ manifest \in [Addons -> Packages] /\ archives \in [Addons -> SUBSET Packages]
    BY DEF InstallInv, InstallShape
<1>2. UNCHANGED << built, ext, checkedOut, inst, met, damage >> /\ clean' = {}
    BY DEF SaveBlueprint, MirrorConfig, ReplaceBlueprint, FixBlueprint, PublishPackage, RemoveArchive,
           Changing
<1>3. CASE MirrorConfig
  <2>1. saving \in Blueprints /\ saving' = Missing /\ UNCHANGED << blueprint, manifest, archives >>
      BY <1>1, <1>3 DEF MirrorConfig
  <2>2. conf' = conf \/ conf' \in Configurations
      BY <1>3, <2>1, BlueprintsAreTyped DEF MirrorConfig
  <2>3. QED BY <1>1, <1>2, <2>1, <2>2, ChangingKeeps
<1>4. CASE \/ \E b \in Blueprints : SaveBlueprint(b) \/ FixBlueprint(b)
           \/ \E b \in Blueprints \cup {Missing} : ReplaceBlueprint(b)
  <2>1. blueprint' \in Blueprints \cup {Missing} /\ saving' \in Blueprints \cup {Missing}
        /\ UNCHANGED << manifest, archives, conf >>
      BY <1>1, <1>4 DEF SaveBlueprint, ReplaceBlueprint, FixBlueprint
  <2>2. QED BY <1>1, <1>2, <2>1, ChangingKeeps
<1>5. ASSUME NEW a \in Addons, NEW p \in Packages, PublishPackage(a, p) \/ RemoveArchive(a, p)
      PROVE  InstallInv'
  <2>1. /\ manifest' \in [Addons -> Packages] /\ archives' \in [Addons -> SUBSET Packages]
        /\ UNCHANGED << blueprint, saving, conf >>
      BY <1>1, <1>5 DEF PublishPackage, RemoveArchive
  <2>2. QED BY <1>1, <1>2, <2>1, ChangingKeeps
<1>6. QED BY <1>3, <1>4, <1>5

\* A launch writes the scripts of the blueprint once more.
LEMMA LaunchKeeps ==
    ASSUME InstallInv, Launch
    PROVE  InstallInv'
<1>1. /\ UNCHANGED <<blueprint, manifest, archives, built, ext, checkedOut, conf, inst, saving,
                     clean, met, damage>>
      /\ scripts' = IF blueprint = Missing THEN scripts ELSE Generated(blueprint)
    BY DEF Launch
<1>2. InstallShape' /\ AtWork' /\ Harmed' /\ OneAtATime' /\ CleanIsAlone'
    BY <1>1 DEF InstallInv, InstallShape, AtWork, Harmed, Extracting, Stage, OneAtATime, CleanIsAlone
<1>3. \A i \in Installers : HalfWay(i)'
    BY <1>1 DEF InstallInv, HalfWay
<1>4. ASSUME NEW i \in clean PROVE Reached(i)'
  <2>1. Reached(i) /\ blueprint \in Blueprints \cup {Missing}
      BY DEF InstallInv, InstallShape
  <2>2. inst[i].pc \in {"config", "done"} => scripts' \cap inst[i].bp.addons = inst[i].bp.enabled
      BY <1>1, <2>1, BlueprintsAreTyped DEF Reached, Generated
  <2>3. \A x : Available(x)' = Available(x) /\ (InPlace(x) => InPlace(x)')
      BY <1>1 DEF InPlace, Available, Fitting
  <2>4. QED BY <1>1, <2>1, <2>2, <2>3 DEF Reached
<1>5. QED BY <1>1, <1>2, <1>3, <1>4 DEF InstallInv

LEMMA InstallSteps == InstallInv /\ [InstallNext]_installVars => InstallInv'
<1> SUFFICES ASSUME InstallInv, [InstallNext]_installVars PROVE InstallInv'
    OBVIOUS
<1>1. CASE UNCHANGED installVars
  <2>1. InstallShape' /\ AtWork' /\ Harmed' /\ OneAtATime' /\ CleanIsAlone'
      BY <1>1 DEF installVars, InstallInv, InstallShape, AtWork, Harmed, Extracting, Stage, OneAtATime,
                  CleanIsAlone
  <2>2. \A i \in Installers : HalfWay(i)'
      BY <1>1 DEF installVars, InstallInv, HalfWay
  <2>3. \A i \in clean : Reached(i)'
      BY <1>1 DEF installVars, InstallInv, Reached, InPlace, Available, Fitting
  <2>4. QED BY <1>1, <2>1, <2>2, <2>3 DEF InstallInv, installVars
<1>2. CASE InstallNext
  <2>1. CASE \E i \in Installers :
                \/ \E reset \in BOOLEAN : StartInstall(i, reset)
                \/ Synchronise(i) \/ InstallBlender(i) \/ StartExtracting(i) \/ FinishExtracting(i)
                \/ ResolveDesiredAddons(i) \/ MoveAddon(i) \/ GenerateScripts(i) \/ WriteLocalConfig(i)
                \/ InstallFails(i)
      BY <2>1, StartKeepsTheWorkspace, SynchroniseKeeps, InstallBlenderKeeps, ExtractingKeeps, ResolveKeeps,
         MoveKeeps, GenerateKeeps, WriteConfigKeeps, FailureKeeps
  <2>2. CASE \E i \in Installers, a \in Addons :
                SkipCurrentAddon(i, a) \/ RemoveAddon(i, a) \/ GiveUpAddon(i, a)
      BY <2>2, SkipKeeps, RemoveKeeps, GiveUpKeeps
  <2>3. CASE Launch
      BY <2>3, LaunchKeeps
  <2>4. CASE \/ \E b \in Blueprints : SaveBlueprint(b)
             \/ MirrorConfig
             \/ \E b \in Blueprints \cup {Missing} : ReplaceBlueprint(b)
             \/ \E b \in Blueprints : FixBlueprint(b)
             \/ \E a \in Addons, p \in Packages : PublishPackage(a, p) \/ RemoveArchive(a, p)
      BY <2>4, WorldKeeps
  <2>5. ASSUME NEW i \in Installers, MarkAddon(i) PROVE InstallInv'
    <3>1. PICK a : a = inst[i].addon
        OBVIOUS
    <3>2. QED BY <2>5, <3>1, MarkKeeps
  <2>6. QED BY <1>2, <2>1, <2>2, <2>3, <2>4, <2>5 DEF InstallNext
<1>3. QED BY <1>1, <1>2

LEMMA InstallInvariant == InstallSpec => []InstallInv
BY InstallStarts, InstallSteps, PTL DEF InstallSpec

LEMMA CleanSuccessIsCurrent == InstallInv => SuccessIsCurrent
<1> DEFINE Written(b) == conf = [blender |-> b.blender, addons |-> b.addons, flag |-> FALSE]
           Whole(a) == "halfRemove" \notin damage => ext[a].whole
           Newest(a) == ~met => ext[a].pkg = Available(a)
<1> SUFFICES ASSUME InstallInv, NEW i \in clean, inst[i].pc = "done", NEW b, b = inst[i].bp
             PROVE  /\ Written(b) /\ checkedOut
                    /\ "halfExtract" \notin damage => built[b.blender] = "full"
                    /\ \A a \in b.addons \ inst[i].skipped : Whole(a) /\ Newest(a)
                    /\ scripts \cap b.addons = b.enabled
                    /\ inst[i].skipped = {} => VerifyInstallation
    BY DEF SuccessIsCurrent, Stage
<1>1. i \in Installers /\ blueprint \in Blueprints
    BY DEF InstallInv, InstallShape, Reached
<1>2. b = blueprint /\ b \in Blueprints
    BY <1>1 DEF InstallInv, Reached
<1>3. /\ checkedOut /\ built[b.blender] # "none" /\ scripts \cap b.addons = b.enabled
      /\ conf = [blender |-> b.blender, addons |-> b.addons, flag |-> FALSE]
      /\ \A a \in b.addons \ inst[i].skipped : InPlace(a)
    BY <1>2 DEF InstallInv, Reached
<1>4. b.blender \in Blenders /\ b.addons \subseteq Addons
    BY <1>2, BlueprintsAreTyped
<1>5. "halfExtract" \notin damage => built[b.blender] = "full"
  <2>1. \A j \in Installers : ~Extracting(j, b.blender)
      BY <1>1 DEF InstallInv, CleanIsAlone, Extracting, Stage, AtRest
  <2>2. QED BY <1>3, <1>4, <2>1 DEF InstallInv, InstallShape, Harmed
<1>6. \A a \in b.addons \ inst[i].skipped : Whole(a) /\ Newest(a)
    BY <1>3, <1>4 DEF InstallInv, Harmed, InPlace
<1>7. ASSUME inst[i].skipped = {} PROVE VerifyInstallation
  <2>1. conf \in Configurations /\ conf.blender = b.blender /\ conf.addons = b.addons /\ conf.flag = FALSE
      BY <1>2, <1>3, BlueprintsAreTyped
  <2>2. conf \notin {Missing, Torn}
      BY <2>1, InstallAssumption
  <2>3. ASSUME NEW a \in conf.addons PROVE Available(a) # 0 /\ UpToDate(a, Available(a))
    <3>1. InPlace(a) /\ a \in Addons
        BY <1>3, <1>4, <1>7, <2>1, <2>3
    <3>2. QED BY <3>1 DEF InPlace, UpToDate
  <2>4. ~AddonsNeedUpdate
      BY <2>3 DEF AddonsNeedUpdate
  <2>5. ~WorkspaceNeedsUpdate
      BY <1>2, <2>1, <2>4 DEF WorkspaceNeedsUpdate
  <2>6. QED BY <1>3, <2>1, <2>2, <2>5 DEF VerifyInstallation
<1>8. Written(b) /\ checkedOut /\ scripts \cap b.addons = b.enabled
    BY <1>3
<1> HIDE DEF Written, Whole, Newest
<1>9. QED BY <1>5, <1>6, <1>7, <1>8

LEMMA VerifiedHasItsFiles == InstallInv => VerifiedIsWhole
<1> SUFFICES ASSUME InstallInv, damage = {}, VerifyInstallation
             PROVE  /\ conf # Torn
                    /\ built[conf.blender] = "full" \/ \E i \in Installers : Extracting(i, conf.blender)
                    /\ blueprint # Missing => \A a \in conf.addons :
                          /\ ext[a].pkg # 0 /\ ext[a].whole
                          /\ VersionOf[ext[a].pkg] = VersionOf[manifest[a]]
    BY DEF VerifiedIsWhole
<1>1. conf # Torn /\ conf # Missing
    BY DEF InstallInv, Harmed, VerifyInstallation
<1>2. conf \in Configurations
    BY <1>1 DEF InstallInv, InstallShape
<1>3. conf.blender \in Blenders /\ conf.addons \subseteq Addons
    BY <1>2 DEF Configurations
<1>4. built[conf.blender] # "none"
    BY <1>1 DEF VerifyInstallation
<1>5. built[conf.blender] = "full" \/ \E i \in Installers : Extracting(i, conf.blender)
    BY <1>3, <1>4 DEF InstallInv, InstallShape, Harmed
<1>6. ASSUME blueprint # Missing, NEW a \in conf.addons
      PROVE  /\ ext[a].pkg # 0 /\ ext[a].whole
             /\ VersionOf[ext[a].pkg] = VersionOf[manifest[a]]
  <2>1. ~AddonsNeedUpdate
      BY <1>1, <1>6 DEF VerifyInstallation, WorkspaceNeedsUpdate
  <2>2. Available(a) # 0 /\ UpToDate(a, Available(a))
      BY <2>1 DEF AddonsNeedUpdate
  <2>3. VersionOf[Available(a)] = VersionOf[manifest[a]]
      BY <1>3, <1>6, <2>2, OffersFit
  <2>4. ext[a].whole
      BY <1>3 DEF InstallInv, Harmed
  <2>5. QED BY <2>2, <2>3, <2>4 DEF UpToDate
<1>7. QED BY <1>1, <1>5, <1>6

\* An installation that says it succeeded, undisturbed since it read the blueprint,
\* leaves what the blueprint says and offers no update for it; and what passes for
\* installed has every file of its add-ons, and of its Blender unless somebody is just
\* extracting it, whatever installations have run at once, died or given up here
\* (instalar_entorno, verify_installation).
THEOREM InstalledIsWhole == InstallSpec => [](SuccessIsCurrent /\ VerifiedIsWhole)
BY InstallInvariant, CleanSuccessIsCurrent, VerifiedHasItsFiles, PTL

(***************************************************************************)
(* The settings of a machine and its register of servers.                  *)
(***************************************************************************)

\* The default of a register is one of its servers, if it has any.
DefaultIsThere(c) == IF c.list = << >> THEN c.default = "" ELSE Registered(c.list, c.default)

\* Settings that a machine can be given, and settings that it has made its own.
Orderly(c) == c \in Configs /\ OneNameEach(c.list) /\ DefaultIsThere(c) /\ "other" \notin {c.root, c.cli}
Proper(c) == Orderly(c) /\ \A i \in DOMAIN c.list : c.list[i].key # "other"

LEMMA RegistersAreLists ==
    /\ \A c \in Configs : c.list \in Seq(Servers)
    /\ \A list \in Seq(Servers) : DOMAIN list = 1 .. Len(list) /\ Len(list) \in Nat
                                  /\ \A i \in DOMAIN list : list[i] \in Servers
<1>1. \A c \in Configs : c.list \in Seq(Servers)
    BY DEF Configs
<1>2. QED BY <1>1

\* A part of a register has the servers that are asked for, under as many names.
LEMMA PartOfRegister ==
    ASSUME NEW list \in Seq(Servers), OneNameEach(list), NEW S
    PROVE  /\ Kept(list, S) \in Seq(Servers) /\ OneNameEach(Kept(list, S))
           /\ \A i \in DOMAIN Kept(list, S) :
                  Kept(list, S)[i] \in S /\ \E j \in DOMAIN list : Kept(list, S)[i] = list[j]
           /\ \A j \in DOMAIN list : list[j] \in S => \E i \in DOMAIN Kept(list, S) : Kept(list, S)[i] = list[j]
<1>1. PICK r : r = Kept(list, S)
    OBVIOUS
<1>2. r \in Seq(Servers) /\ KeepsOrder(r, Len(list), list, S)
    BY <1>1, KeptKeepsOrder
<1>3. DOMAIN r = 1 .. Len(r) /\ DOMAIN list = 1 .. Len(list)
    BY <1>2
<1>4. /\ \A i \in DOMAIN r : r[i] \in S /\ \E j \in DOMAIN list : r[i] = list[j]
      /\ \A j \in DOMAIN list : list[j] \in S => \E i \in DOMAIN r : r[i] = list[j]
    BY <1>2, <1>3 DEF KeepsOrder
<1>5. \A i, j \in DOMAIN r : r[i] = r[j] => i = j
    BY <1>2, <1>3 DEF KeepsOrder, OneNameEach
<1>6. OneNameEach(r)
  <2>1. SUFFICES ASSUME NEW i \in DOMAIN r, NEW j \in DOMAIN r, r[i].id = r[j].id PROVE i = j
      BY DEF OneNameEach
  <2>2. PICK a, b \in DOMAIN list : r[i] = list[a] /\ r[j] = list[b]
      BY <1>4
  <2>3. a = b
      BY <2>1, <2>2 DEF OneNameEach
  <2>4. QED BY <1>5, <2>2, <2>3
<1>7. QED BY <1>1, <1>2, <1>4, <1>6

LEMMA OtherServers ==
    ASSUME NEW list \in Seq(Servers), OneNameEach(list), NEW id
    PROVE  /\ Others(list, id) \in Seq(Servers) /\ OneNameEach(Others(list, id))
           /\ \A i \in DOMAIN Others(list, id) :
                  Others(list, id)[i].id # id /\ \E j \in DOMAIN list : Others(list, id)[i] = list[j]
           /\ \A j \in DOMAIN list :
                  list[j].id # id => \E i \in DOMAIN Others(list, id) : Others(list, id)[i] = list[j]
<1> DEFINE S == {t \in Entries(list) : t.id # id}
<1>1. Others(list, id) = Kept(list, S)
    BY DEF Others
<1>2. \A j \in DOMAIN list : list[j] \in S <=> list[j].id # id
    BY DEF Entries
<1>3. \A t \in S : t.id # id
    OBVIOUS
<1> HIDE DEF S
<1>4. QED BY <1>1, <1>2, <1>3, PartOfRegister

LEMMA ServerAdded ==
    ASSUME NEW c, Proper(c), NEW s \in Servers, s.key # "other"
    PROVE  Proper(WithServer(c, s))
<1> DEFINE rest == Others(c.list, s.id)
           list == Append(rest, s)
           n == Len(rest)
<1>1. c \in Configs /\ c.list \in Seq(Servers) /\ OneNameEach(c.list)
    BY RegistersAreLists DEF Proper, Orderly
<1>2. /\ rest \in Seq(Servers) /\ OneNameEach(rest)
      /\ \A i \in DOMAIN rest : rest[i].id # s.id /\ \E j \in DOMAIN c.list : rest[i] = c.list[j]
      /\ \A j \in DOMAIN c.list : c.list[j].id # s.id => \E i \in DOMAIN rest : rest[i] = c.list[j]
    BY <1>1, OtherServers
<1> HIDE DEF rest
<1>3. /\ list \in Seq(Servers) /\ DOMAIN rest = 1 .. n /\ DOMAIN list = 1 .. n \cup {n + 1} /\ n + 1 \notin 1 .. n
      /\ list[n + 1] = s /\ \A i \in 1 .. n : list[i] = rest[i]
    BY <1>2
<1>4. list # << >>
    BY <1>3
<1> HIDE DEF list, n
<1>5. OneNameEach(list)
    BY <1>2, <1>3 DEF OneNameEach
<1>6. \A i \in DOMAIN list : list[i].key # "other"
    BY <1>2, <1>3 DEF Proper
<1>7. PICK d : d = IF c.default = "" THEN s.id ELSE c.default
    OBVIOUS
<1>8. d \in ServerIds \cup {""}
    BY <1>1, <1>7 DEF Configs, Servers
<1>9. Registered(list, d)
  <2>1. CASE c.default = "" \/ c.default = s.id
      BY <1>3, <1>7, <2>1 DEF Registered
  <2>2. CASE c.default # "" /\ c.default # s.id
    <3>1. c.list # << >>
        BY <2>2 DEF Proper, Orderly, DefaultIsThere
    <3>2. PICK j \in DOMAIN c.list : c.list[j].id = c.default
        BY <3>1 DEF Proper, Orderly, DefaultIsThere, Registered
    <3>3. PICK i \in DOMAIN rest : rest[i] = c.list[j]
        BY <1>2, <2>2, <3>2
    <3>4. i \in DOMAIN list /\ list[i].id = d
        BY <1>3, <1>7, <2>2, <3>2, <3>3
    <3>5. QED BY <3>4 DEF Registered
  <2>3. QED BY <2>1, <2>2
<1>10. WithServer(c, s) = [c EXCEPT !.list = list, !.default = d]
    BY <1>1, <1>7 DEF WithServer, list, rest, Configs
<1>11. PICK e : e = [c EXCEPT !.list = list, !.default = d]
    OBVIOUS
<1>12. e \in Configs /\ e.list = list /\ e.default = d /\ e.root = c.root /\ e.cli = c.cli
    BY <1>1, <1>3, <1>8, <1>11 DEF Configs, Servers
<1>13. Proper(e)
    BY <1>4, <1>5, <1>6, <1>9, <1>12 DEF Proper, Orderly, DefaultIsThere
<1>14. QED BY <1>10, <1>11, <1>13

LEMMA ServerRemoved ==
    ASSUME NEW c, Proper(c), NEW k \in DOMAIN c.list
    PROVE  Proper(WithoutServer(c, c.list[k].id))
<1> DEFINE id == c.list[k].id
           left == Others(c.list, id)
<1>1. c \in Configs /\ c.list \in Seq(Servers) /\ OneNameEach(c.list) /\ id \in ServerIds
    BY RegistersAreLists DEF Proper, Orderly, Servers
<1>2. /\ left \in Seq(Servers) /\ OneNameEach(left)
      /\ \A i \in DOMAIN left : left[i].id # id /\ \E j \in DOMAIN c.list : left[i] = c.list[j]
      /\ \A j \in DOMAIN c.list : c.list[j].id # id => \E i \in DOMAIN left : left[i] = c.list[j]
    BY <1>1, OtherServers
<1>3. PICK d : d = IF c.default # id THEN c.default ELSE IF left = <<>> THEN "" ELSE left[1].id
    OBVIOUS
<1>4. WithoutServer(c, id) = [c EXCEPT !.list = left, !.default = d]
    BY <1>1, <1>3 DEF WithoutServer, Configs
<1> HIDE DEF left
<1>5. left # << >> => 1 \in DOMAIN left /\ left[1].id \in ServerIds
  <2>1. left # << >> => 1 \in 1 .. Len(left)
      BY <1>2
  <2>2. DOMAIN left = 1 .. Len(left) /\ \A i \in DOMAIN left : left[i] \in Servers
      BY <1>2, RegistersAreLists
  <2>3. QED BY <2>1, <2>2 DEF Servers
<1>6. d \in ServerIds \cup {""}
    BY <1>1, <1>3, <1>5 DEF Configs
<1>7. \A i \in DOMAIN left : left[i].key # "other"
    BY <1>2 DEF Proper
<1>8. IF left = << >> THEN d = "" ELSE Registered(left, d)
  <2>1. CASE c.default = id
      BY <1>3, <1>5, <2>1 DEF Registered
  <2>2. CASE c.default # id
    <3>1. PICK j \in DOMAIN c.list : c.list[j].id = c.default
      <4>1. c.list # << >>
          BY <1>1
      <4>2. QED BY <4>1 DEF Proper, Orderly, DefaultIsThere, Registered
    <3>2. PICK i \in DOMAIN left : left[i] = c.list[j]
        BY <1>2, <2>2, <3>1
    <3>3. left # << >> /\ left[i].id = d
        BY <1>3, <2>2, <3>1, <3>2
    <3>4. QED BY <3>2, <3>3 DEF Registered
  <2>3. QED BY <2>1, <2>2
<1>11. PICK e : e = [c EXCEPT !.list = left, !.default = d]
    OBVIOUS
<1>12. e \in Configs /\ e.list = left /\ e.default = d /\ e.root = c.root /\ e.cli = c.cli
    BY <1>1, <1>2, <1>6, <1>11 DEF Configs, Servers
<1>13. Proper(e)
    BY <1>2, <1>7, <1>8, <1>12 DEF Proper, Orderly, DefaultIsThere
<1>14. QED BY <1>4, <1>11, <1>13

\* A server that is looked up by its name is one of the register.
LEMMA ServerLookedUp ==
    ASSUME NEW list \in Seq(Servers), NEW id, Registered(list, id)
    PROVE  ServerOf(list, id) \in Servers /\ ServerOf(list, id).id = id /\ id \in ServerIds
<1> DEFINE i == CHOOSE k \in DOMAIN list : list[k].id = id
<1>1. i \in DOMAIN list /\ list[i].id = id
    BY DEF Registered
<1>2. ServerOf(list, id) = list[i]
    BY DEF ServerOf
<1> HIDE DEF i
<1>3. list[i] \in Servers
    BY <1>1, RegistersAreLists
<1>4. QED BY <1>1, <1>2, <1>3 DEF Servers

\* The default of settings is one of their servers, or none if they have none.
LEMMA DefaultOf ==
    ASSUME NEW c \in Configs
    PROVE  LET d == DefaultServer(c).id
           IN  d \in ServerIds \cup {""} /\ (IF c.list = << >> THEN d = "" ELSE Registered(c.list, d))
<1>1. c.list \in Seq(Servers) /\ DOMAIN c.list = 1 .. Len(c.list)
    BY RegistersAreLists
<1>2. CASE Registered(c.list, c.default)
  <2>1. DefaultServer(c).id = c.default /\ c.default \in ServerIds
      BY <1>1, <1>2, ServerLookedUp DEF DefaultServer
  <2>2. c.list # << >>
      BY <1>2 DEF Registered
  <2>3. QED BY <1>2, <2>1, <2>2
<1>3. CASE ~Registered(c.list, c.default) /\ c.list # << >>
  <2>1. 1 \in DOMAIN c.list /\ DefaultServer(c) = c.list[1]
    <3>1. 1 \in DOMAIN c.list
        BY <1>1, <1>3
    <3>2. QED BY <1>3, <3>1 DEF DefaultServer
  <2>2. c.list[1] \in Servers
      BY <1>1, <2>1, RegistersAreLists
  <2>3. QED BY <1>3, <2>1, <2>2 DEF Registered, Servers
<1>4. CASE ~Registered(c.list, c.default) /\ c.list = << >>
    BY <1>4 DEF DefaultServer, Nobody
<1>5. QED BY <1>2, <1>3, <1>4

LEMMA RegisterRepaired ==
    ASSUME NEW c \in Configs, OneNameEach(c.list), "other" \notin {c.root, c.cli}
    PROVE  Orderly(Repaired(c)) /\ Repaired(c).list = c.list
<1>1. PICK d : d = DefaultServer(c).id
    OBVIOUS
<1>2. d \in ServerIds \cup {""} /\ (IF c.list = << >> THEN d = "" ELSE Registered(c.list, d))
    BY <1>1, DefaultOf
<1>3. PICK e : e = [c EXCEPT !.default = d]
    OBVIOUS
<1>4. e \in Configs /\ e.list = c.list /\ e.default = d /\ e.root = c.root /\ e.cli = c.cli
    BY <1>2, <1>3 DEF Configs
<1>5. Orderly(e)
    BY <1>2, <1>4 DEF Orderly, DefaultIsThere
<1>6. QED BY <1>1, <1>3, <1>4, <1>5 DEF Repaired

\* The keys of this machine take the place of foreign ones, in as many servers.
LEMMA KeysMadeLocal ==
    ASSUME NEW c, Orderly(c)
    PROVE  Proper(LocalKeys(c))
<1> DEFINE own == {t \in Entries(c.list) : t.key = "mine"}
           A == Kept(c.list, own)
           changed == Kept(c.list, Entries(c.list) \ own)
           B == [i \in DOMAIN changed |-> [changed[i] EXCEPT !.key = "mine"]]
           list == A \o B
<1>1. c \in Configs /\ c.list \in Seq(Servers) /\ OneNameEach(c.list)
    BY RegistersAreLists DEF Orderly
<1>2. /\ \A j \in DOMAIN c.list : c.list[j] \in own \/ c.list[j] \in Entries(c.list) \ own
      /\ \A t \in own : t.key = "mine"
    BY DEF Entries
<1> HIDE DEF own
<1>3. /\ A \in Seq(Servers) /\ OneNameEach(A)
      /\ \A i \in DOMAIN A : A[i] \in own /\ \E j \in DOMAIN c.list : A[i] = c.list[j]
      /\ \A j \in DOMAIN c.list : c.list[j] \in own => \E i \in DOMAIN A : A[i] = c.list[j]
    BY <1>1, PartOfRegister
<1>4. /\ changed \in Seq(Servers) /\ OneNameEach(changed)
      /\ \A i \in DOMAIN changed : changed[i] \notin own /\ \E j \in DOMAIN c.list : changed[i] = c.list[j]
      /\ \A j \in DOMAIN c.list : c.list[j] \notin own => \E i \in DOMAIN changed : changed[i] = c.list[j]
  <2>1. PICK S : S = Entries(c.list) \ own
      OBVIOUS
  <2>2. changed = Kept(c.list, S)
      BY <2>1
  <2>3. \A j \in DOMAIN c.list : c.list[j] \in S <=> c.list[j] \notin own
      BY <1>2, <2>1
  <2> HIDE DEF changed
  <2>4. /\ changed \in Seq(Servers) /\ OneNameEach(changed)
        /\ \A i \in DOMAIN changed : changed[i] \in S /\ \E j \in DOMAIN c.list : changed[i] = c.list[j]
        /\ \A j \in DOMAIN c.list : c.list[j] \in S => \E i \in DOMAIN changed : changed[i] = c.list[j]
      BY <1>1, <2>2, PartOfRegister
  <2>5. QED BY <2>1, <2>3, <2>4
<1> HIDE DEF A, changed
<1>5. /\ DOMAIN A = 1 .. Len(A) /\ Len(A) \in Nat /\ \A i \in DOMAIN A : A[i] \in Servers
      /\ DOMAIN changed = 1 .. Len(changed) /\ Len(changed) \in Nat
      /\ \A i \in DOMAIN changed : changed[i] \in Servers
    BY <1>3, <1>4, RegistersAreLists
<1>6. \A i \in DOMAIN changed : B[i] \in Servers /\ B[i].id = changed[i].id /\ B[i].key = "mine"
    BY <1>5 DEF Servers
<1>7. B \in Seq(Servers) /\ Len(B) = Len(changed) /\ DOMAIN B = DOMAIN changed
  <2>1. B = [i \in 1 .. Len(changed) |-> B[i]]
      BY <1>5
  <2>2. \A i \in 1 .. Len(changed) : B[i] \in Servers
      BY <1>5, <1>6
  <2> HIDE DEF B
  <2>3. B \in [1 .. Len(changed) -> Servers]
      BY <2>1, <2>2
  <2>4. QED BY <1>5, <2>3
<1> HIDE DEF B
<1>8. /\ list \in Seq(Servers) /\ Len(list) = Len(A) + Len(B) /\ DOMAIN list = 1 .. Len(A) + Len(B)
      /\ \A k \in 1 .. Len(A) + Len(B) : list[k] = IF k <= Len(A) THEN A[k] ELSE B[k - Len(A)]
    BY <1>3, <1>7
<1>9. \A k \in DOMAIN list : \/ k \in DOMAIN A /\ list[k] = A[k]
                             \/ k - Len(A) \in DOMAIN B /\ list[k] = B[k - Len(A)]
  <2>1. DOMAIN B = 1 .. Len(B) /\ Len(B) \in Nat
      BY <1>5, <1>7
  <2>2. QED BY <1>5, <1>8, <2>1
<1>10. /\ \A i \in DOMAIN A : i \in DOMAIN list /\ list[i] = A[i]
       /\ \A i \in DOMAIN B : i + Len(A) \in DOMAIN list /\ list[i + Len(A)] = B[i]
  <2>1. DOMAIN B = 1 .. Len(B) /\ Len(B) \in Nat
      BY <1>5, <1>7
  <2>2. \A i \in DOMAIN A : i \in DOMAIN list /\ list[i] = A[i]
      BY <1>5, <1>8, <2>1
  <2>3. ASSUME NEW i \in DOMAIN B PROVE i + Len(A) \in DOMAIN list /\ list[i + Len(A)] = B[i]
    <3>1. i + Len(A) \in 1 .. Len(A) + Len(B) /\ ~(i + Len(A) <= Len(A)) /\ i + Len(A) - Len(A) = i
        BY <1>5, <2>1
    <3>2. QED BY <1>8, <3>1
  <2>4. QED BY <2>2, <2>3
<1> HIDE DEF list
<1>11. \A i \in DOMAIN A, j \in DOMAIN B : A[i].id # B[j].id
  <2>1. SUFFICES ASSUME NEW i \in DOMAIN A, NEW j \in DOMAIN B, A[i].id = B[j].id PROVE FALSE
      OBVIOUS
  <2>2. PICK a, b \in DOMAIN c.list : A[i] = c.list[a] /\ changed[j] = c.list[b]
      BY <1>3, <1>4, <1>7
  <2>3. a = b
      BY <1>1, <1>6, <1>7, <2>1, <2>2 DEF OneNameEach
  <2>4. QED BY <1>3, <1>4, <1>7, <2>2, <2>3
<1>12. OneNameEach(list)
  <2>1. SUFFICES ASSUME NEW k \in DOMAIN list, NEW l \in DOMAIN list, list[k].id = list[l].id PROVE k = l
      BY DEF OneNameEach
  <2>2. k \in Nat /\ l \in Nat /\ Len(A) \in Nat
      BY <1>5, <1>7, <1>8
  <2>3. CASE k \in DOMAIN A /\ list[k] = A[k] /\ l \in DOMAIN A /\ list[l] = A[l]
      BY <1>3, <2>1, <2>3 DEF OneNameEach
  <2>4. CASE /\ k - Len(A) \in DOMAIN B /\ list[k] = B[k - Len(A)]
             /\ l - Len(A) \in DOMAIN B /\ list[l] = B[l - Len(A)]
    <3>1. k - Len(A) = l - Len(A)
        BY <1>4, <1>6, <1>7, <2>1, <2>4 DEF OneNameEach
    <3>2. QED BY <2>2, <3>1
  <2>5. QED BY <1>9, <1>11, <2>1, <2>3, <2>4
<1>13. \A k \in DOMAIN list : list[k].key # "other"
    BY <1>2, <1>3, <1>6, <1>7, <1>9
<1>14. \A j \in DOMAIN c.list : \E k \in DOMAIN list : list[k].id = c.list[j].id
  <2> SUFFICES ASSUME NEW j \in DOMAIN c.list PROVE \E k \in DOMAIN list : list[k].id = c.list[j].id
      OBVIOUS
  <2>1. CASE c.list[j] \in own
      BY <1>3, <1>10, <2>1
  <2>2. CASE c.list[j] \notin own
    <3>1. PICK i \in DOMAIN changed : changed[i] = c.list[j]
        BY <1>4, <2>2
    <3>2. i \in DOMAIN B /\ B[i].id = c.list[j].id
        BY <1>6, <1>7, <3>1
    <3>3. QED BY <1>10, <3>2
  <2>3. QED BY <2>1, <2>2
<1>15. IF list = << >> THEN c.default = "" ELSE Registered(list, c.default)
  <2>1. CASE c.list = << >>
    <3>0. DOMAIN c.list = {}
        BY <2>1
    <3>1. DOMAIN A = {} /\ DOMAIN B = {}
        BY <1>3, <1>4, <1>7, <3>0
    <3>2. list = << >>
        BY <1>5, <1>7, <1>8, <3>1
    <3>3. QED BY <2>1, <3>2 DEF Orderly, DefaultIsThere
  <2>2. CASE c.list # << >>
    <3>1. PICK j \in DOMAIN c.list : c.list[j].id = c.default
        BY <2>2 DEF Orderly, DefaultIsThere, Registered
    <3>2. PICK k \in DOMAIN list : list[k].id = c.default
        BY <1>14, <3>1
    <3>3. list # << >>
        BY <3>2
    <3>4. QED BY <3>2, <3>3 DEF Registered
  <2>3. QED BY <2>1, <2>2
<1>16. LocalKeys(c) = [c EXCEPT !.list = list]
    BY <1>1 DEF LocalKeys, list, A, B, changed, own, Configs
<1>17. PICK e : e = [c EXCEPT !.list = list]
    OBVIOUS
<1>18. e \in Configs /\ e.list = list /\ e.default = c.default /\ e.root = c.root /\ e.cli = c.cli
    BY <1>1, <1>8, <1>17 DEF Configs
<1>19. Proper(e)
    BY <1>12, <1>13, <1>15, <1>18 DEF Proper, Orderly, DefaultIsThere
<1>20. QED BY <1>16, <1>17, <1>19

\* A function on the numbers up to n is a list of its values.
LEMMA ListOfValues ==
    ASSUME NEW T, NEW n \in Nat, NEW f, f = [i \in 1 .. n |-> f[i]], \A i \in 1 .. n : f[i] \in T
    PROVE  f \in Seq(T)
<1>1. f \in [1 .. n -> T]
    OBVIOUS
<1>2. QED BY <1>1

\* A seed without foreign paths names each server once.
LEMMA SeedSanitized ==
    ASSUME NEW s \in Seeds, NEW cli \in {"", "mine"}
    PROVE  Proper(LocalKeys(Repaired([Sanitize(s) EXCEPT !.root = "mine", !.cli = cli])))
<1> DEFINE list == [i \in DOMAIN s.list |-> [s.list[i] EXCEPT !.key = ""]]
<1>1. s \in Configs /\ s.list \in Seq(Servers) /\ OneNameEach(s.list)
    BY SettingsAssumption, RegistersAreLists
<1>2. DOMAIN s.list = 1 .. Len(s.list) /\ Len(s.list) \in Nat /\ \A i \in DOMAIN s.list : s.list[i] \in Servers
    BY <1>1, RegistersAreLists
<1>3. \A i \in DOMAIN s.list : list[i] \in Servers /\ list[i].id = s.list[i].id
    BY <1>2 DEF Servers
<1>4. list \in Seq(Servers) /\ DOMAIN list = DOMAIN s.list
  <2>1. PICK n \in Nat : DOMAIN s.list = 1 .. n
      BY <1>2
  <2>2. list = [i \in 1 .. n |-> list[i]] /\ \A i \in 1 .. n : list[i] \in Servers
      BY <1>3, <2>1
  <2>3. DOMAIN list = DOMAIN s.list
      OBVIOUS
  <2> HIDE DEF list
  <2>4. QED BY <2>1, <2>2, <2>3, ListOfValues
<1>5. Sanitize(s) = [s EXCEPT !.cli = "", !.list = list]
    BY <1>1 DEF Sanitize, Configs
<1> HIDE DEF list
<1>6. OneNameEach(list)
    BY <1>1, <1>3, <1>4 DEF OneNameEach
<1>7. PICK e : e = [Sanitize(s) EXCEPT !.root = "mine", !.cli = cli]
    OBVIOUS
<1>8. e \in Configs /\ e.list = list /\ e.root = "mine" /\ e.cli = cli
    BY <1>1, <1>4, <1>5, <1>7 DEF Configs
<1>9. Orderly(Repaired(e))
    BY <1>6, <1>8, RegisterRepaired
<1>10. QED BY <1>7, <1>9, KeysMadeLocal

\* What is in memory and in the file is this machine's, with one name for each server.
Stored ==
    /\ Proper(memory) /\ (file \in {Absent, TornFile} \/ Proper(file))
    /\ running \in BOOLEAN /\ writes \in 0 .. MaxSettings

\* A wizard that resumes has no other seed than the one that was applied.
Wizards ==
    /\ wizard \in [open : BOOLEAN, resume : BOOLEAN, seed : Seeds \cup {NoSeed}]
    /\ wizard.resume => wizard.open /\ memory.seeded /\ memory.root # "" /\ wizard.seed = NoSeed

\* While the dialog is open the register that it chooses from stays.
Dialogs ==
    /\ binding.id \in ServerIds \cup {""} /\ binding.url \in Urls \cup {""} /\ home \in Urls
    /\ dialog \in [open : BOOLEAN, bound : ServerIds \cup {""}, chosen : ServerIds \cup {""},
                   ok : BOOLEAN, probed : ServerIds \cup {""}]
    /\ dialog.open => ~wizard.open /\ running
    /\ dialog.open /\ dialog.chosen # "" => Registered(memory.list, dialog.chosen)
    /\ healthy \subseteq ServerIds

SettingsShape == Stored /\ Wizards /\ Dialogs

LEMMA EmptyIsProper == Proper(Empty)
<1>1. Empty.list = << >> /\ << >> \in Seq(Servers) /\ DOMAIN << >> = {}
    BY DEF Empty
<1>2. Empty \in Configs
    BY <1>1 DEF Empty, Configs
<1>3. QED BY <1>1, <1>2 DEF Empty, Proper, Orderly, OneNameEach, DefaultIsThere

\* Whatever becomes of a write, what is left is proper or no settings at all.
LEMMA WritesStayProper ==
    ASSUME Stored, NEW c, Proper(c), Persist(c)
    PROVE  Stored' /\ memory' = c /\ UNCHANGED running
<1>1. /\ writes' \in 0 .. MaxSettings /\ memory' = c /\ UNCHANGED running
      /\ file' = c \/ file' = file \/ file' = TornFile
    BY SettingsAssumption DEF Stored, Persist
<1>2. Proper(memory')
    BY <1>1
<1>3. file' \in {Absent, TornFile} \/ Proper(file')
    BY <1>1 DEF Stored
<1>4. QED BY <1>1, <1>2, <1>3 DEF Stored

LEMMA SettingsStart == SettingsInit => SettingsShape
<1> SUFFICES ASSUME SettingsInit PROVE SettingsShape
    OBVIOUS
<1>1. Stored
  <2>1. memory = Empty /\ file = Absent /\ running = FALSE /\ writes = 0
      BY DEF SettingsInit
  <2>2. Proper(memory)
      BY <2>1, EmptyIsProper
  <2>3. writes \in 0 .. MaxSettings
      BY <2>1, SettingsAssumption
  <2>4. running \in BOOLEAN
      BY <2>1
  <2>5. QED BY <2>1, <2>2, <2>3, <2>4 DEF Stored
<1>2. Wizards
  <2>1. wizard = [open |-> FALSE, resume |-> FALSE, seed |-> NoSeed]
      BY DEF SettingsInit, NoWizard
  <2>2. QED BY <2>1 DEF Wizards
<1>3. Dialogs
  <2>1. binding.id \in ServerIds \cup {""} /\ binding.url \in Urls \cup {""} /\ home \in Urls
    <3>0. home \in Urls /\ binding \in {[id |-> i, url |-> home] : i \in ServerIds} \cup {[id |-> "", url |-> ""]}
        BY Zenon DEF SettingsInit
    <3> DEFINE named == {[id |-> i, url |-> home] : i \in ServerIds}
    <3>1. CASE binding = [id |-> "", url |-> ""]
        BY <3>0, <3>1
    <3>2. CASE binding \in named
      <4>1. \A b \in named : b.id \in ServerIds /\ b.url = home
          OBVIOUS
      <4>2. QED BY <3>0, <3>2, <4>1
    <3>3. binding \in named \/ binding = [id |-> "", url |-> ""]
      <4> HIDE DEF named
      <4>1. binding \in named \cup {[id |-> "", url |-> ""]}
          BY <3>0 DEF named
      <4>2. QED BY <4>1
    <3>4. QED BY <3>1, <3>2, <3>3
  <2>2. dialog = [open |-> FALSE, bound |-> "", chosen |-> "", ok |-> FALSE, probed |-> ""] /\ healthy = {}
      BY DEF SettingsInit, NoDialog
  <2>3. QED BY <2>1, <2>2 DEF Dialogs
<1>4. QED BY <1>1, <1>2, <1>3 DEF SettingsShape

\* The Hub starts and ends, and the login purges the settings.
LEMMA HubKeepsSettings ==
    ASSUME SettingsShape, StartHub \/ StopHub \/ Purge
    PROVE  SettingsShape'
<1>0. Stored /\ Wizards /\ Dialogs
    BY DEF SettingsShape
<1>1. CASE StartHub
  <2> DEFINE read == IF file \in {Absent, TornFile} THEN Empty ELSE file
  <2>1. Proper(read)
      BY <1>0, EmptyIsProper DEF Stored
  <2>2. /\ memory' = LocalKeys(read) /\ file' = IF memory' # read THEN memory' ELSE file
        /\ running' = TRUE /\ ~running /\ UNCHANGED <<binding, home, dialog, healthy, writes>>
        /\ wizard' = IF NeedsSetup(memory') THEN SetupWizard(memory') ELSE NoWizard
      BY <1>1 DEF StartHub
  <2> HIDE DEF read
  <2>3. Proper(memory')
      BY <2>1, <2>2, KeysMadeLocal DEF Proper
  <2>4. Stored'
      BY <1>0, <2>2, <2>3 DEF Stored
  <2>5. memory'.seeded \in BOOLEAN
      BY <2>3 DEF Proper, Orderly, Configs
  <2>6. Wizards'
      BY <2>2, <2>5 DEF Wizards, SetupWizard, NoWizard
  <2>7. Dialogs'
      BY <1>0, <2>2 DEF Dialogs
  <2>8. QED BY <2>4, <2>6, <2>7 DEF SettingsShape
<1>2. CASE StopHub
  <2>1. Stored'
      BY <1>0, <1>2, EmptyIsProper DEF StopHub, Stored
  <2>2. Wizards' /\ Dialogs'
      BY <1>0, <1>2 DEF StopHub, Wizards, Dialogs, NoWizard, NoDialog
  <2>3. QED BY <2>1, <2>2 DEF SettingsShape
<1>3. CASE Purge
  <2>1. /\ memory' = Empty /\ file' = Absent /\ UNCHANGED <<running, writes, wizard>>
        /\ UNCHANGED <<binding, home, dialog, healthy>> /\ ~wizard.open /\ ~dialog.open
      BY <1>3 DEF Purge, Idle, ProjectKept
  <2>2. Proper(memory')
      BY <2>1, EmptyIsProper
  <2>3. Stored'
      BY <1>0, <2>1, <2>2 DEF Stored
  <2>4. Wizards' /\ Dialogs'
      BY <1>0, <2>1 DEF Wizards, Dialogs
  <2>5. QED BY <2>3, <2>4 DEF SettingsShape
<1>4. QED BY <1>1, <1>2, <1>3

LEMMA WizardKeepsSettings ==
    ASSUME SettingsShape, OpenWizard \/ CloseWizard \/ ValidateSeed \/ FinishWizard
    PROVE  SettingsShape'
<1>0. Stored /\ Wizards /\ Dialogs
    BY DEF SettingsShape
<1>t. wizard \in [open : BOOLEAN, resume : BOOLEAN, seed : Seeds \cup {NoSeed}] /\ memory.seeded \in BOOLEAN
    BY <1>0 DEF Wizards, Stored, Proper, Orderly, Configs
<1>1. CASE OpenWizard \/ CloseWizard \/ ValidateSeed
  <2>1. UNCHANGED <<memory, file, running, writes>> /\ UNCHANGED <<binding, home, dialog, healthy>>
      BY <1>1 DEF OpenWizard, CloseWizard, ValidateSeed, ProjectKept
  <2>2. Stored'
      BY <1>0, <2>1 DEF Stored
  <2>3. dialog.open => ~wizard'.open
      BY <1>0, <1>1, <1>t DEF OpenWizard, CloseWizard, ValidateSeed, Idle, NoWizard, Dialogs
  <2>4. Dialogs'
      BY <1>0, <2>1, <2>3 DEF Dialogs
  <2>5. Wizards'
    <3>1. CASE OpenWizard
        BY <1>t, <2>1, <3>1 DEF OpenWizard, Wizards, SetupWizard
    <3>2. CASE CloseWizard
        BY <3>2 DEF CloseWizard, Wizards, NoWizard
    <3>3. CASE ValidateSeed
      <4>1. CASE \E s \in Seeds : wizard' = [wizard EXCEPT !.seed = s, !.resume = FALSE]
        <5>1. PICK s \in Seeds : wizard' = [wizard EXCEPT !.seed = s, !.resume = FALSE]
            BY <4>1
        <5>2. wizard' \in [open : BOOLEAN, resume : BOOLEAN, seed : Seeds \cup {NoSeed}] /\ wizard'.resume = FALSE
            BY <1>t, <5>1
        <5>3. QED BY <5>2 DEF Wizards
      <4>2. CASE wizard' = [wizard EXCEPT !.seed = NoSeed]
        <5>1. /\ wizard' \in [open : BOOLEAN, resume : BOOLEAN, seed : Seeds \cup {NoSeed}]
              /\ wizard'.resume = wizard.resume /\ wizard'.open = wizard.open /\ wizard'.seed = NoSeed
            BY <1>t, <4>2
        <5>2. QED BY <1>0, <2>1, <5>1 DEF Wizards
      <4>3. QED BY <3>3, <4>1, <4>2 DEF ValidateSeed
    <3>4. QED BY <1>1, <3>1, <3>2, <3>3
  <2>6. QED BY <2>2, <2>4, <2>5 DEF SettingsShape
<1>2. CASE FinishWizard
  <2>1. PICK found \in BOOLEAN :
            /\ CanFinish(found)
            /\ IF wizard.resume THEN ApplyLocalPaths(found) ELSE ApplyInitialSetup(found)
      BY <1>2 DEF FinishWizard
  <2>2. wizard.open /\ (wizard.resume \/ wizard.seed \in Seeds)
      BY <1>t, <2>1 DEF CanFinish
  <2>3. \E c : Proper(c) /\ Persist(c) /\ (wizard.resume => c.seeded /\ c.root # "")
    <3>1. CASE wizard.resume
      <4>1. PICK cli : cli = IF found THEN "mine" ELSE memory.cli
          OBVIOUS
      <4>2. memory \in Configs /\ Proper(memory)
          BY <1>0 DEF Stored, Proper, Orderly
      <4>3. cli \in {"", "mine"}
          BY <4>1, <4>2 DEF Proper, Orderly, Configs
      <4>4. PICK c : c = [memory EXCEPT !.root = "mine", !.cli = cli]
          OBVIOUS
      <4>5. /\ c \in Configs /\ c.list = memory.list /\ c.default = memory.default
            /\ c.root = "mine" /\ c.cli = cli /\ c.seeded = memory.seeded
          BY <4>2, <4>3, <4>4 DEF Configs
      <4>6. Proper(c)
          BY <4>2, <4>3, <4>5 DEF Proper, Orderly, DefaultIsThere
      <4>7. [memory EXCEPT !.root = "mine", !.cli = IF found THEN "mine" ELSE @] = c
          BY <4>1, <4>2, <4>4 DEF Configs
      <4>8. Persist(c)
          BY <2>1, <3>1, <4>7 DEF ApplyLocalPaths
      <4>9. QED BY <1>0, <3>1, <4>5, <4>6, <4>8 DEF Wizards
    <3>2. CASE ~wizard.resume
      <4>1. wizard.seed \in Seeds
          BY <2>2, <3>2
      <4>2. memory.cli \in {"", "mine"}
          BY <1>0 DEF Stored, Proper, Orderly, Configs
      <4>3. PICK cli \in {"", "mine"} :
                Persist(LocalKeys(Repaired([Sanitize(wizard.seed) EXCEPT !.root = "mine", !.cli = cli])))
        <5>1. wizard.seed \in Configs
            BY <4>1, SettingsAssumption
        <5>2. Sanitize(wizard.seed).cli = ""
            BY <5>1 DEF Sanitize, Configs
        <5>3. PICK cli : cli = IF found THEN "mine" ELSE IF Sanitize(wizard.seed).cli # "" THEN Sanitize(wizard.seed).cli
                               ELSE memory.cli
            OBVIOUS
        <5>4. Persist(LocalKeys(Repaired([Sanitize(wizard.seed) EXCEPT !.root = "mine", !.cli = cli])))
            BY <2>1, <3>2, <5>3 DEF ApplyInitialSetup
        <5>5. cli \in {"", "mine"}
            BY <4>2, <5>2, <5>3
        <5>6. QED BY <5>4, <5>5
      <4>4. QED BY <3>2, <4>1, <4>3, SeedSanitized
    <3>3. QED BY <3>1, <3>2
  <2>4. PICK c : Proper(c) /\ Persist(c) /\ (wizard.resume => c.seeded /\ c.root # "")
      BY <2>3
  <2>5. Stored' /\ memory' = c /\ UNCHANGED running
      BY <1>0, <2>4, WritesStayProper
  <2>6. wizard' \in {NoWizard, wizard} /\ UNCHANGED <<binding, home, dialog, healthy>>
      BY <1>2 DEF FinishWizard, ProjectKept
  <2>7. Wizards'
    <3>1. CASE wizard' = NoWizard
        BY <3>1 DEF Wizards, NoWizard
    <3>2. CASE wizard' = wizard
      <4>1. wizard.resume => memory'.seeded /\ memory'.root # ""
          BY <2>4, <2>5
      <4>2. wizard.resume => wizard.seed = NoSeed
          BY <1>0 DEF Wizards
      <4>3. wizard' \in [open : BOOLEAN, resume : BOOLEAN, seed : Seeds \cup {NoSeed}]
          BY <1>t, <3>2
      <4>4. wizard'.resume => wizard'.open /\ memory'.seeded /\ memory'.root # "" /\ wizard'.seed = NoSeed
          BY <2>2, <3>2, <4>1, <4>2
      <4>5. QED BY <4>3, <4>4 DEF Wizards
    <3>3. QED BY <2>6, <3>1, <3>2
  <2>8. ~dialog.open /\ Dialogs'
      BY <1>0, <2>2, <2>6 DEF Dialogs
  <2>9. QED BY <2>5, <2>7, <2>8 DEF SettingsShape
<1>3. QED BY <1>1, <1>2

\* The pages of the settings edit what is in memory while nothing else is open.
LEMMA PagesKeepSettings ==
    ASSUME SettingsShape, SaveSettings \/ SaveServer \/ RemoveServer \/ SetDefault
    PROVE  SettingsShape'
<1>0. Stored /\ Wizards /\ Dialogs
    BY DEF SettingsShape
<1>m. memory \in Configs /\ Proper(memory) /\ memory.list \in Seq(Servers)
    BY <1>0, RegistersAreLists DEF Stored, Proper, Orderly
<1>1. Idle /\ UNCHANGED wizard /\ UNCHANGED <<binding, home, dialog, healthy>>
    BY DEF SaveSettings, SaveServer, RemoveServer, SetDefault, ProjectKept
<1>2. \E c : Proper(c) /\ Persist(c)
  <2>1. CASE SaveSettings
    <3>1. PICK root \in {"", "mine"} : Persist(Repaired([memory EXCEPT !.root = root]))
        BY <2>1 DEF SaveSettings
    <3>2. PICK e : e = [memory EXCEPT !.root = root]
        OBVIOUS
    <3>3. e \in Configs /\ e.list = memory.list /\ e.root = root /\ e.cli = memory.cli
        BY <1>m, <3>2 DEF Configs
    <3>4. Orderly(Repaired(e)) /\ Repaired(e).list = memory.list
        BY <1>m, <3>3, RegisterRepaired DEF Proper, Orderly
    <3>5. Proper(Repaired(e))
        BY <1>m, <3>4 DEF Proper
    <3>6. QED BY <3>1, <3>2, <3>5
  <2>2. CASE SaveServer
    <3>1. PICK id \in ServerIds, u \in Urls : Persist(WithServer(memory, [id |-> id, url |-> u, key |-> "mine"]))
        BY <2>2 DEF SaveServer
    <3>2. PICK s : s = [id |-> id, url |-> u, key |-> "mine"]
        OBVIOUS
    <3>3. s \in Servers /\ s.key # "other"
        BY <3>2 DEF Servers
    <3>4. QED BY <1>m, <3>1, <3>2, <3>3, ServerAdded
  <2>3. CASE RemoveServer
    <3>1. PICK i \in DOMAIN memory.list : Persist(WithoutServer(memory, memory.list[i].id))
        BY <2>3 DEF RemoveServer
    <3>2. QED BY <1>m, <3>1, ServerRemoved
  <2>4. CASE SetDefault
    <3>1. PICK i \in DOMAIN memory.list : Persist([memory EXCEPT !.default = memory.list[i].id])
        BY <2>4 DEF SetDefault
    <3>2. /\ memory.list[i].id \in ServerIds /\ memory.list # << >>
          /\ Registered(memory.list, memory.list[i].id)
      <4>1. memory.list[i] \in Servers
          BY <1>m, <3>1, RegistersAreLists
      <4>2. memory.list[i].id \in ServerIds
          BY <4>1 DEF Servers
      <4>3. Registered(memory.list, memory.list[i].id)
          BY DEF Registered
      <4>4. memory.list # << >>
          BY <1>m, <3>1
      <4>5. QED BY <4>2, <4>3, <4>4
    <3>3. PICK e : e = [memory EXCEPT !.default = memory.list[i].id]
        OBVIOUS
    <3>4. /\ e \in Configs /\ e.list = memory.list /\ e.default = memory.list[i].id
          /\ e.root = memory.root /\ e.cli = memory.cli
        BY <1>m, <3>2, <3>3 DEF Configs
    <3>5. Proper(e)
        BY <1>m, <3>2, <3>4 DEF Proper, Orderly, DefaultIsThere
    <3>6. QED BY <3>1, <3>3, <3>5
  <2>5. QED BY <2>1, <2>2, <2>3, <2>4
<1>3. Stored' /\ UNCHANGED running
    BY <1>0, <1>2, WritesStayProper
<1>4. Wizards' /\ Dialogs'
    BY <1>0, <1>1 DEF Idle, Wizards, Dialogs
<1>5. QED BY <1>3, <1>4 DEF SettingsShape

LEMMA ProbeIsTyped ==
    ASSUME Dialogs, dialog.open, NEW reached \in BOOLEAN
    PROVE  LET d == Probe(dialog, reached) IN
           /\ d \in [open : BOOLEAN, bound : ServerIds \cup {""}, chosen : ServerIds \cup {""},
                     ok : BOOLEAN, probed : ServerIds \cup {""}]
           /\ d.open /\ d.chosen = dialog.chosen /\ Found(d) \subseteq ServerIds
<1>1. dialog \in [open : BOOLEAN, bound : ServerIds \cup {""}, chosen : ServerIds \cup {""},
                  ok : BOOLEAN, probed : ServerIds \cup {""}]
    BY DEF Dialogs
<1>2. PICK ok \in BOOLEAN, probed \in ServerIds \cup {""} :
          Probe(dialog, reached) = [dialog EXCEPT !.ok = ok, !.probed = probed]
  <2>1. CASE dialog.chosen = ""
      BY <2>1 DEF Probe
  <2>2. CASE dialog.chosen # ""
    <3>1. PICK ok \in BOOLEAN : ok = (reached /\ ServerOf(memory.list, dialog.chosen).url = home)
        OBVIOUS
    <3>2. Probe(dialog, reached) = [dialog EXCEPT !.ok = ok, !.probed = IF ok THEN dialog.chosen ELSE ""]
        BY <2>2, <3>1 DEF Probe
    <3>3. QED BY <1>1, <3>2
  <2>3. QED BY <2>1, <2>2
<1>3. QED BY <1>1, <1>2 DEF Found

\* The dialog that binds the project, and the other Hubs that move it.
LEMMA DialogKeepsSettings ==
    ASSUME SettingsShape,
           OpenConfig \/ ChooseServer \/ CheckVcs \/ SaveConfig \/ CancelConfig \/ OtherHubMoves
    PROVE  SettingsShape'
<1>0. Stored /\ Wizards /\ Dialogs
    BY DEF SettingsShape
<1>m. memory \in Configs /\ memory.list \in Seq(Servers)
    BY <1>0, RegistersAreLists DEF Stored, Proper, Orderly
<1>d. dialog \in [open : BOOLEAN, bound : ServerIds \cup {""}, chosen : ServerIds \cup {""},
                  ok : BOOLEAN, probed : ServerIds \cup {""}]
    BY <1>0 DEF Dialogs
<1>1. UNCHANGED <<memory, file, running, wizard>>
    BY DEF OpenConfig, ChooseServer, CheckVcs, SaveConfig, CancelConfig, OtherHubMoves, SettingsKept
<1>2. Wizards'
    BY <1>0, <1>1 DEF Wizards
<1>3. Stored'
  <2>1. UNCHANGED writes \/ (writes < MaxSettings /\ writes' = writes + 1)
      BY DEF OpenConfig, ChooseServer, CheckVcs, SaveConfig, CancelConfig, OtherHubMoves
  <2>2. writes' \in 0 .. MaxSettings
      BY <1>0, <2>1, SettingsAssumption DEF Stored
  <2>3. QED BY <1>0, <1>1, <2>2 DEF Stored
<1>4. Dialogs'
  <2>1. CASE OpenConfig
    <3>1. PICK s : s = Resolve(memory, binding).id
        OBVIOUS
    <3>2. s \in ServerIds \cup {""} /\ (s # "" => Registered(memory.list, s))
      <4>1. CASE Registered(memory.list, binding.id)
          BY <1>m, <3>1, <4>1, ServerLookedUp DEF Resolve
      <4>2. CASE ~Registered(memory.list, binding.id)
        <5> DEFINE at == {i \in DOMAIN memory.list : binding.url # "" /\ memory.list[i].url = binding.url}
        <5>1. CASE at = {}
            BY <1>m, <3>1, <4>2, <5>1, DefaultOf DEF Resolve
        <5>2. CASE at # {}
          <6>1. PICK k \in at : \A j \in at : k <= j
            <7>1. at \subseteq Nat
              <8>1. \A i \in DOMAIN memory.list : i \in Nat
                  BY <1>m, RegistersAreLists
              <8>2. \A i \in at : i \in DOMAIN memory.list
                  OBVIOUS
              <8> HIDE DEF at
              <8>3. QED BY <8>1, <8>2
            <7> HIDE DEF at
            <7>2. QED BY <5>2, <7>1, LeastNumber
          <6>2. s = memory.list[CHOOSE i \in at : \A j \in at : i <= j].id
              BY <3>1, <4>2, <5>2 DEF Resolve
          <6>3. \E i \in DOMAIN memory.list : s = memory.list[i].id
              BY <6>1, <6>2
          <6>4. PICK i \in DOMAIN memory.list : s = memory.list[i].id
              BY <6>3
          <6>5. memory.list[i] \in Servers
              BY <1>m, RegistersAreLists
          <6>6. QED BY <6>4, <6>5 DEF Registered, Servers
        <5>3. QED BY <5>1, <5>2
      <4>3. QED BY <4>1, <4>2
    <3>3. /\ dialog' = [open |-> TRUE, bound |-> s, chosen |-> s, ok |-> FALSE, probed |-> ""]
          /\ healthy' = {} /\ UNCHANGED <<binding, home>> /\ running /\ ~wizard.open
        BY <2>1, <3>1 DEF OpenConfig, NoDialog, Idle
    <3>4. QED BY <1>0, <1>1, <3>2, <3>3 DEF Dialogs
  <2>2. CASE ChooseServer
    <3>1. PICK id \in {memory.list[i].id : i \in DOMAIN memory.list} \cup {""} :
              dialog' = [dialog EXCEPT !.chosen = id]
        BY <2>2 DEF ChooseServer
    <3>2. id \in ServerIds \cup {""} /\ (id # "" => Registered(memory.list, id))
      <4>1. CASE id = ""
          BY <4>1
      <4>2. CASE id # ""
        <5>1. PICK i \in DOMAIN memory.list : id = memory.list[i].id
            BY <3>1, <4>2
        <5>2. memory.list[i] \in Servers
            BY <1>m, RegistersAreLists
        <5>3. QED BY <5>1, <5>2 DEF Registered, Servers
      <4>3. QED BY <4>1, <4>2
    <3>3. QED BY <1>0, <1>1, <1>d, <2>2, <3>1, <3>2 DEF ChooseServer, Dialogs
  <2>3. CASE CheckVcs
    <3>1. PICK reached \in BOOLEAN : dialog' = Probe(dialog, reached)
        BY <2>3 DEF CheckVcs
    <3>2. dialog.open /\ healthy' = healthy \cup Found(dialog') /\ UNCHANGED <<binding, home>>
        BY <2>3 DEF CheckVcs
    <3>3. /\ dialog' \in [open : BOOLEAN, bound : ServerIds \cup {""}, chosen : ServerIds \cup {""},
                          ok : BOOLEAN, probed : ServerIds \cup {""}]
          /\ dialog'.open /\ dialog'.chosen = dialog.chosen /\ Found(dialog') \subseteq ServerIds
        BY <1>0, <3>1, <3>2, ProbeIsTyped
    <3>4. QED BY <1>0, <1>1, <3>2, <3>3 DEF Dialogs
  <2>4. CASE SaveConfig
    <3>1. PICK d :
              /\ d = dialog \/ \E reached \in BOOLEAN : d = Probe(dialog, reached)
              /\ \/ dialog' = d /\ UNCHANGED binding
                 \/ dialog' = NoDialog /\ binding' = Bound(d.chosen)
              /\ healthy' = healthy \cup (IF d # dialog THEN Found(d) ELSE {})
        BY <2>4 DEF SaveConfig
    <3>2. dialog.open /\ UNCHANGED home
        BY <2>4 DEF SaveConfig
    <3>3. /\ d \in [open : BOOLEAN, bound : ServerIds \cup {""}, chosen : ServerIds \cup {""},
                    ok : BOOLEAN, probed : ServerIds \cup {""}]
          /\ d.open /\ d.chosen = dialog.chosen /\ (d # dialog => Found(d) \subseteq ServerIds)
        BY <1>0, <1>d, <3>1, <3>2, ProbeIsTyped
    <3>4. healthy' \subseteq ServerIds
        BY <1>0, <3>1, <3>3 DEF Dialogs
    <3>5. Bound(d.chosen).id \in ServerIds \cup {""} /\ Bound(d.chosen).url \in Urls \cup {""}
      <4>1. CASE d.chosen = ""
          BY <4>1 DEF Bound
      <4>2. CASE d.chosen # ""
        <5>1. Registered(memory.list, d.chosen)
            BY <1>0, <3>2, <3>3, <4>2 DEF Dialogs
        <5>2. ServerOf(memory.list, d.chosen) \in Servers /\ d.chosen \in ServerIds
            BY <1>m, <5>1, ServerLookedUp
        <5>3. QED BY <4>2, <5>2 DEF Bound, Servers
      <4>3. QED BY <4>1, <4>2
    <3>6. CASE dialog' = d /\ UNCHANGED binding
        BY <1>0, <1>1, <3>2, <3>3, <3>4, <3>6 DEF Dialogs
    <3>7. CASE dialog' = NoDialog /\ binding' = Bound(d.chosen)
        BY <1>0, <1>1, <3>2, <3>4, <3>5, <3>7 DEF Dialogs, NoDialog
    <3>8. QED BY <3>1, <3>6, <3>7
  <2>5. CASE CancelConfig
      BY <1>0, <1>1, <2>5 DEF CancelConfig, Dialogs, NoDialog
  <2>6. CASE OtherHubMoves
    <3>1. PICK id \in ServerIds : home' \in Urls /\ binding' = [id |-> id, url |-> home'] /\ UNCHANGED <<dialog, healthy>>
        BY <2>6 DEF OtherHubMoves
    <3>2. QED BY <1>0, <1>1, <3>1 DEF Dialogs
  <2>7. QED BY <2>1, <2>2, <2>3, <2>4, <2>5, <2>6
<1>5. QED BY <1>2, <1>3, <1>4 DEF SettingsShape

LEMMA SettingsInvariant == SettingsSpec => []SettingsShape
<1>1. SettingsShape /\ [SettingsNext]_settingsVars => SettingsShape'
  <2> SUFFICES ASSUME SettingsShape, [SettingsNext]_settingsVars PROVE SettingsShape'
      OBVIOUS
  <2>1. CASE UNCHANGED settingsVars
      BY <2>1 DEF settingsVars, SettingsShape, Stored, Wizards, Dialogs
  <2>2. QED BY <2>1, HubKeepsSettings, WizardKeepsSettings, PagesKeepSettings, DialogKeepsSettings
            DEF SettingsNext
<1>2. QED BY <1>1, SettingsStart, PTL DEF SettingsSpec

\* The variables of the settings, the wizard and the dialog keep their types.
THEOREM SettingsAreTyped == SettingsSpec => []SettingsTypeOK
<1>1. SettingsShape => SettingsTypeOK
  <2> SUFFICES ASSUME SettingsShape PROVE SettingsTypeOK
      OBVIOUS
  <2>1. memory \in Configs /\ file \in Configs \cup {Absent, TornFile} /\ running \in BOOLEAN /\ writes \in 0 .. MaxSettings
      BY DEF SettingsShape, Stored, Proper, Orderly
  <2>2. /\ wizard.open \in BOOLEAN /\ wizard.resume \in BOOLEAN /\ wizard.seed \in Seeds \cup {NoSeed}
        /\ wizard.resume => memory.seeded /\ memory.root # "" /\ wizard.seed = NoSeed
      BY DEF SettingsShape, Wizards
  <2>3. dialog \in [open : BOOLEAN, ok : BOOLEAN, bound : ServerIds \cup {""},
                    chosen : ServerIds \cup {""}, probed : ServerIds \cup {""}]
      BY DEF SettingsShape, Dialogs
  <2>4. QED BY <2>1, <2>2, <2>3 DEF SettingsShape, Dialogs, SettingsTypeOK
<1>2. QED BY <1>1, SettingsInvariant, PTL

\* Whatever is imported, edited, removed or interrupted: the register never has two
\* servers of one name, its default is one of them, and no path of another machine is in
\* the settings (VCSServerRegistry, ConfigFactory).
THEOREM SettingsStaySound == SettingsSpec => []SettingsSound
<1>1. SettingsShape => SettingsSound
  <2>1. ASSUME NEW c, Proper(c)
        PROVE  /\ OneNameEach(c.list)
               /\ IF c.list = <<>> THEN c.default = "" ELSE Registered(c.list, c.default)
               /\ "other" \notin {c.root, c.cli} \cup {c.list[i].key : i \in DOMAIN c.list}
      BY <2>1 DEF Proper, Orderly, DefaultIsThere
  <2>2. QED BY <2>1 DEF SettingsShape, Stored, SettingsSound
<1>2. QED BY <1>1, SettingsInvariant, PTL

(***************************************************************************)
(* The dialog that binds a project to a server.                            *)
(***************************************************************************)

DialogShape ==
    dialog = [open |-> dialog.open, bound |-> dialog.bound, chosen |-> dialog.chosen,
              ok |-> dialog.ok, probed |-> dialog.probed]

\* What the dialog remembers of a good probe was seen while it was open.
Remembered == dialog.ok => dialog.probed \in healthy \cup {""}

SettingsInv == DialogShape /\ Remembered

LEMMA ProbesAreRemembered ==
    ASSUME SettingsInv, NEW reached \in BOOLEAN, NEW d, d = Probe(dialog, reached)
    PROVE  /\ d = [open |-> d.open, bound |-> d.bound, chosen |-> d.chosen, ok |-> d.ok, probed |-> d.probed]
           /\ d.chosen = dialog.chosen
           /\ d.ok => d.probed \in Found(d) \cup {""}
<1>1. CASE dialog.chosen = ""
    BY <1>1 DEF SettingsInv, DialogShape, Probe, Found
<1>2. CASE dialog.chosen # ""
    BY <1>2 DEF SettingsInv, DialogShape, Probe, Found
<1>3. QED BY <1>1, <1>2

LEMMA SettingsSteps == SettingsInv /\ [SettingsNext]_settingsVars => SettingsInv'
<1> SUFFICES ASSUME SettingsInv, [SettingsNext]_settingsVars PROVE SettingsInv'
    OBVIOUS
<1>1. CASE UNCHANGED <<dialog, healthy>>
    BY <1>1 DEF SettingsInv, DialogShape, Remembered
<1>2. CASE dialog' = NoDialog
    BY <1>2 DEF SettingsInv, DialogShape, Remembered, NoDialog
<1>3. CASE OpenConfig
    BY <1>3 DEF SettingsInv, DialogShape, Remembered, OpenConfig, NoDialog
<1>4. CASE ChooseServer
    BY <1>4 DEF SettingsInv, DialogShape, Remembered, ChooseServer
<1>5. CASE CheckVcs
  <2>1. PICK reached \in BOOLEAN : dialog' = Probe(dialog, reached)
      BY <1>5 DEF CheckVcs
  <2>2. healthy' = healthy \cup Found(dialog')
      BY <1>5 DEF CheckVcs
  <2>3. PICK d : d = Probe(dialog, reached)
      OBVIOUS
  <2>4. QED BY <2>1, <2>2, <2>3, ProbesAreRemembered DEF SettingsInv, DialogShape, Remembered
<1>6. CASE SaveConfig
  <2>1. PICK d :
            /\ d = dialog \/ \E reached \in BOOLEAN : d = Probe(dialog, reached)
            /\ dialog' = d \/ dialog' = NoDialog
            /\ healthy' = healthy \cup (IF d # dialog THEN Found(d) ELSE {})
      BY <1>6 DEF SaveConfig
  <2>2. CASE dialog' = d /\ d # dialog
      BY <2>1, <2>2, ProbesAreRemembered DEF SettingsInv, DialogShape, Remembered
  <2>3. CASE dialog' = d /\ d = dialog
      BY <2>1, <2>3 DEF SettingsInv, DialogShape, Remembered
  <2>4. QED BY <2>1, <2>2, <2>3, <1>2
<1>7. QED BY <1>1, <1>2, <1>3, <1>4, <1>5, <1>6
          DEF SettingsNext, settingsVars, StartHub, StopHub, OpenWizard, CloseWizard, ValidateSeed,
              FinishWizard, Purge, SaveSettings, SaveServer, RemoveServer, SetDefault, CancelConfig,
              OtherHubMoves, ProjectKept

LEMMA BindingIsVouchedFor ==
    ASSUME SettingsInv, SettingsNext, dialog.open, ~dialog'.open, binding' # binding
    PROVE  dialog.chosen \in healthy' \cup {"", dialog.bound}
<1>1. SaveConfig
    BY DEF SettingsNext, StartHub, StopHub, OpenWizard, CloseWizard, ValidateSeed, FinishWizard, Purge,
           SaveSettings, SaveServer, RemoveServer, SetDefault, OpenConfig, ChooseServer, CheckVcs,
           CancelConfig, OtherHubMoves, ProjectKept
<1>2. SUFFICES ASSUME dialog.chosen # dialog.bound, dialog.chosen # ""
               PROVE  dialog.chosen \in healthy'
    OBVIOUS
<1>3. PICK d :
          /\ d = dialog \/ \E reached \in BOOLEAN : d = Probe(dialog, reached)
          /\ Vouched(d)
          /\ healthy' = healthy \cup (IF d # dialog THEN Found(d) ELSE {})
    BY <1>1, <1>2 DEF SaveConfig
<1>4. CASE d = dialog
    BY <1>2, <1>3, <1>4 DEF SettingsInv, Remembered, Vouched
<1>5. CASE d # dialog
    BY <1>2, <1>3, <1>5, ProbesAreRemembered DEF Vouched
<1>6. QED BY <1>4, <1>5

\* The dialog binds a project to another server than the one it showed only if the
\* project's repository was found on that very server while the dialog was open
\* (HubProjectConfigDialog: _on_check_vcs, _execute_save).
THEOREM BindingsAreProbed == SettingsSpec => BindingFollowsProbe
<1>1. SettingsInit => SettingsInv
  <2>1. SettingsInit => dialog = NoDialog
      BY DEF SettingsInit
  <2>2. ASSUME dialog = NoDialog PROVE SettingsInv
      BY <2>2 DEF SettingsInv, DialogShape, Remembered, NoDialog
  <2>3. QED BY <2>1, <2>2
<1>2. ASSUME SettingsInv, [SettingsNext]_settingsVars
      PROVE  [(dialog.open /\ ~dialog'.open /\ binding' # binding)
                => dialog.chosen \in healthy' \cup {"", dialog.bound}]_settingsVars
    BY <1>2, BindingIsVouchedFor
<1>3. QED BY <1>1, <1>2, SettingsSteps, PTL DEF SettingsSpec, BindingFollowsProbe

(***************************************************************************)
(* The types of an installation, an import, the shell and the records.     *)
(***************************************************************************)

InstallRest ==
    /\ scripts \subseteq Addons /\ changes \in 0 .. MaxChanges /\ damage \subseteq InstallFaults

LEMMA ScriptsAreOfAddons ==
    ASSUME scripts \subseteq Addons, NEW b \in Blueprints
    PROVE  Generated(b) \subseteq Addons
<1>1. b.enabled \subseteq Addons
    BY InstallAssumption
<1>2. QED BY <1>1 DEF Generated

LEMMA InstallRestKept ==
    ASSUME InstallInv, InstallRest, [InstallNext]_installVars
    PROVE  InstallRest'
<1> USE DEF InstallRest
<1>1. CASE UNCHANGED <<scripts, changes, damage>>
    BY <1>1
<1>2. ASSUME NEW i \in Installers, GenerateScripts(i) PROVE InstallRest'
  <2>1. inst[i] \in Jobs /\ inst[i].bp # Missing
      BY <1>2 DEF InstallInv, InstallShape, AtWork, GenerateScripts, Stage, AtRest
  <2>2. inst[i].bp \in Blueprints
      BY <2>1 DEF Jobs
  <2>3. scripts' \subseteq Addons
      BY <1>2, <2>2, ScriptsAreOfAddons DEF GenerateScripts
  <2>4. QED BY <1>2, <2>3 DEF GenerateScripts
<1>3. ASSUME NEW kind, Fault(kind), UNCHANGED <<scripts, changes>> PROVE InstallRest'
    BY <1>3 DEF Fault
<1>4. ASSUME NEW i \in Installers, NEW a, GiveUpAddon(i, a) PROVE InstallRest'
  <2>1. UNCHANGED <<scripts, changes>>
      BY <1>4 DEF GiveUpAddon
  <2>2. UNCHANGED damage \/ Fault("halfRemove")
      BY <1>4 DEF GiveUpAddon
  <2>3. QED BY <1>1, <1>3, <2>1, <2>2
<1>5. ASSUME NEW i \in Installers, InstallFails(i) PROVE InstallRest'
  <2>1. UNCHANGED <<scripts, changes>>
      BY <1>5 DEF InstallFails
  <2>2. UNCHANGED damage \/ Fault("halfExtract") \/ Fault("tornConfig")
      BY <1>5 DEF InstallFails
  <2>3. QED BY <1>1, <1>3, <2>1, <2>2
<1>6. ASSUME Changing, scripts' \subseteq Addons PROVE InstallRest'
  <2>1. changes' \in 0 .. MaxChanges
      BY <1>6, InstallAssumption DEF Changing
  <2>2. QED BY <1>6, <2>1 DEF Changing
<1>7. ASSUME NEW b \in Blueprints, FixBlueprint(b) PROVE InstallRest'
    BY <1>6, <1>7, ScriptsAreOfAddons DEF FixBlueprint
<1>8. CASE \/ \E b \in Blueprints : SaveBlueprint(b)
           \/ \E b \in Blueprints \cup {Missing} : ReplaceBlueprint(b)
           \/ \E a \in Addons, p \in Packages : PublishPackage(a, p) \/ RemoveArchive(a, p)
  <2>1. Changing /\ UNCHANGED scripts
      BY <1>8 DEF SaveBlueprint, ReplaceBlueprint, PublishPackage, RemoveArchive
  <2>2. QED BY <1>6, <2>1
<1>9. CASE MirrorConfig
  <2>1. saving \in Blueprints
      BY <1>9 DEF MirrorConfig, InstallInv, InstallShape
  <2>2. QED BY <1>9, <2>1, ScriptsAreOfAddons DEF MirrorConfig
<1>10. CASE Launch
  <2>1. blueprint # Missing => blueprint \in Blueprints
      BY DEF InstallInv, InstallShape
  <2>2. scripts' \subseteq Addons
      BY <1>10, <2>1, ScriptsAreOfAddons DEF Launch
  <2>3. QED BY <1>10, <2>2 DEF Launch
<1>11. CASE \E i \in Installers :
              \/ \E reset \in BOOLEAN : StartInstall(i, reset)
              \/ Synchronise(i) \/ InstallBlender(i) \/ StartExtracting(i) \/ FinishExtracting(i)
              \/ ResolveDesiredAddons(i)
              \/ \E a \in Addons : SkipCurrentAddon(i, a) \/ RemoveAddon(i, a)
              \/ MoveAddon(i) \/ MarkAddon(i) \/ WriteLocalConfig(i)
    BY <1>1, <1>11 DEF StartInstall, Synchronise, InstallBlender, StartExtracting, FinishExtracting,
                 ResolveDesiredAddons, SkipCurrentAddon, RemoveAddon, MoveAddon, MarkAddon, WriteLocalConfig
<1>12. CASE UNCHANGED installVars
    BY <1>1, <1>12 DEF installVars
<1>13. QED BY <1>2, <1>4, <1>5, <1>7, <1>8, <1>9, <1>10, <1>11, <1>12 DEF InstallNext

LEMMA InstallIsTyped == InstallSpec => []InstallTypeOK
<1>1. InstallInit => InstallRest
  <2>1. 0 \in 0 .. MaxChanges
      BY InstallAssumption
  <2>2. QED BY <2>1 DEF InstallInit, InstallRest
<1>2. InstallInv /\ InstallRest /\ [InstallNext]_installVars => InstallRest'
    BY InstallRestKept
<1>3. InstallInv /\ InstallRest => InstallTypeOK
  <2> SUFFICES ASSUME InstallInv, InstallRest PROVE InstallTypeOK
      OBVIOUS
  <2>1. ASSUME NEW i \in Installers
        PROVE  /\ inst[i].bp \in Blueprints \cup {Missing}
               /\ inst[i].bp = Missing => inst[i].pc \in AtRest
               /\ inst[i].skipped \subseteq Addons
               /\ DOMAIN inst[i].want \subseteq Addons
    <3>1. inst[i] \in Jobs
        BY DEF InstallInv, InstallShape
    <3>2. inst[i].want \in Wants /\ inst[i].bp \in Blueprints \cup {Missing} /\ inst[i].skipped \subseteq Addons
        BY <3>1 DEF Jobs
    <3>3. inst[i].bp = Missing => inst[i].pc \in AtRest
        BY DEF InstallInv, AtWork
    <3>4. QED BY <3>2, <3>3, WantsAreTyped
  <2>2. QED BY <2>1 DEF InstallInv, InstallShape, InstallRest, InstallTypeOK, Extensions
<1>4. QED BY <1>1, <1>2, <1>3, InstallInvariant, PTL DEF InstallSpec

\* Imports are counted, and none comes before its number.
ImportRest ==
    /\ imports \in 0 .. MaxImports /\ others \in 0 .. MaxOthers
    /\ \A id \in DOMAIN prod : prod[id].by <= imports

LEMMA ProductionsAreChanged ==
    ASSUME ImportInv, ImportRest,
           \/ prod' = prod
           \/ \E p \in Prods : p.by <= imports /\ prod' = Append(prod, p)
           \/ \E id \in DOMAIN prod, p \in Prods : p.by = prod[id].by /\ prod' = [prod EXCEPT ![id] = p],
           imports' \in imports .. MaxImports, others' \in 0 .. MaxOthers
    PROVE  ImportRest'
<1>1. prod \in Seq(Prods) /\ imports \in Nat /\ imports' \in Nat /\ imports <= imports'
    BY ImportAssumption DEF ImportInv, ImportShape
<1>2. ASSUME NEW s, s \in Seq(Prods), \A id \in DOMAIN s : s[id].by <= imports
      PROVE  \A id \in DOMAIN s : s[id].by <= imports'
  <2> SUFFICES ASSUME NEW id \in DOMAIN s PROVE s[id].by <= imports'
      OBVIOUS
  <2>1. s[id] \in Prods
      BY <1>2
  <2>2. s[id].by \in Nat /\ s[id].by <= imports
      BY <1>2, <2>1 DEF Prods
  <2> DEFINE n == s[id].by
  <2>3. n \in Nat /\ n <= imports
      BY <2>2
  <2> HIDE DEF n
  <2>4. n <= imports'
      BY <1>1, <2>3
  <2>5. QED BY <2>4 DEF n
<1>3. prod' \in Seq(Prods) /\ \A id \in DOMAIN prod' : prod'[id].by <= imports
  <2>1. ASSUME NEW p \in Prods, p.by <= imports, prod' = Append(prod, p)
        PROVE  prod' \in Seq(Prods) /\ \A id \in DOMAIN prod' : prod'[id].by <= imports
    <3>1. /\ prod' \in Seq(Prods) /\ prod'[Len(prod) + 1] = p
          /\ \A j \in DOMAIN prod : prod'[j] = prod[j]
          /\ \A j \in DOMAIN prod' : j \in DOMAIN prod \/ j = Len(prod) + 1
        BY <1>1, <2>1, AppendedIsTyped
    <3>2. QED BY <2>1, <3>1 DEF ImportRest
  <2>2. ASSUME NEW k \in DOMAIN prod, NEW p \in Prods, p.by = prod[k].by, prod' = [prod EXCEPT ![k] = p]
        PROVE  prod' \in Seq(Prods) /\ \A id \in DOMAIN prod' : prod'[id].by <= imports
    <3>1. prod' \in Seq(Prods) /\ DOMAIN prod' = DOMAIN prod
        BY <1>1, <2>2
    <3>2. \A id \in DOMAIN prod : prod'[id] = IF id = k THEN p ELSE prod[id]
        BY <2>2
    <3>3. QED BY <2>2, <3>1, <3>2 DEF ImportRest
  <2>3. CASE prod' = prod
      BY <1>1, <2>3 DEF ImportRest
  <2>4. QED BY <2>1, <2>2, <2>3
<1>4. \A id \in DOMAIN prod' : prod'[id].by <= imports'
    BY <1>2, <1>3
<1>5. imports' \in 0 .. MaxImports
    BY <1>1, ImportAssumption
<1>6. QED BY <1>4, <1>5 DEF ImportRest

LEMMA ImportRestKept ==
    ASSUME ImportInv, ImportRest, [ImportNext]_importVars
    PROVE  ImportRest'
<1>1. /\ prod \in Seq(Prods) /\ imports \in 0 .. MaxImports /\ others \in 0 .. MaxOthers
      /\ \A id \in DOMAIN prod : prod[id] \in Prods
    BY DEF ImportInv, ImportShape, ImportRest
<1>2. imports \in imports .. MaxImports
    BY <1>1, ImportAssumption
<1>3. Unanswered => others' \in 0 .. MaxOthers
    BY <1>1, ImportAssumption DEF Unanswered
<1>4. CASE UNCHANGED <<prod, imports>> /\ (UNCHANGED others \/ Unanswered)
    BY <1>1, <1>2, <1>3, <1>4, ProductionsAreChanged
<1>5. CASE \E v \in Windows, rename, dry \in BOOLEAN : StartImport(v, rename, dry)
  <2>1. UNCHANGED <<prod, others>>
      BY <1>5 DEF StartImport
  <2>2. imports' = imports \/ (imports < MaxImports /\ imports' = imports + 1)
      BY <1>5 DEF StartImport
  <2>3. imports' \in imports .. MaxImports
      BY <1>1, <2>2, ImportAssumption
  <2>4. QED BY <1>1, <2>1, <2>3, ProductionsAreChanged
<1>6. ASSUME NEW id \in DOMAIN prod, NEW s \in {"partial", "whole", "gone"},
             prod' = [prod EXCEPT ![id].state = s], UNCHANGED <<imports, others>>
      PROVE  ImportRest'
  <2> DEFINE p == [prod[id] EXCEPT !.state = s]
  <2>1. p \in Prods /\ p.by = prod[id].by
      BY <1>1 DEF Prods
  <2>2. prod' = [prod EXCEPT ![id] = p]
      BY <1>6
  <2> HIDE DEF p
  <2>3. QED BY <1>1, <1>2, <1>6, <2>1, <2>2, ProductionsAreChanged
<1>7. CASE RollbackFinished
  <2>1. undoing \in DOMAIN prod
      BY <1>7 DEF RollbackFinished, ImportInv, Makers, Ours
  <2>2. UNCHANGED <<imports, others>>
      BY <1>7 DEF RollbackFinished
  <2>3. UNCHANGED prod \/ prod' = [prod EXCEPT ![undoing].state = "gone"]
      BY <1>7 DEF RollbackFinished
  <2>4. QED BY <1>4, <1>6, <2>1, <2>2, <2>3
<1>8. ASSUME NEW checkout, Imported(checkout), run.pc \in MakesFiles, UNCHANGED <<imports, others>>
      PROVE  ImportRest'
  <2>1. run.id \in DOMAIN prod
      BY <1>8 DEF ImportInv, RunIsThere, Makers, Ours
  <2>2. PICK s \in {"whole", "gone"} : prod' = [prod EXCEPT ![run.id].state = s]
      BY <1>8 DEF Imported
  <2>3. QED BY <1>6, <1>8, <2>1, <2>2
<1>9. CASE LoadDump \/ MapTopography \/ MoveSource
  <2>1. run.pc \in MakesFiles /\ UNCHANGED <<imports, others>>
      BY <1>9 DEF LoadDump, MapTopography, MoveSource, At, MakesFiles
  <2>2. UNCHANGED prod \/ \E checkout : Imported(checkout)
      BY <1>9 DEF LoadDump, MapTopography, MoveSource
  <2>3. QED BY <1>4, <1>8, <2>1, <2>2
<1>10. CASE CreateProduction
  <2>1. run.of \in Archives
      BY <1>10 DEF CreateProduction, At, ImportInv, RunIsThere
  <2>2. Production \in Prods /\ Production.by <= imports
      BY <1>1, <2>1 DEF Production, Prods
  <2>3. imports' = imports /\ (UNCHANGED others \/ Unanswered)
      BY <1>10 DEF CreateProduction
  <2>4. others' \in 0 .. MaxOthers
      BY <1>1, <1>3, <2>3
  <2>5. CASE UNCHANGED prod \/ prod' = Append(prod, Production)
      BY <1>1, <1>2, <2>2, <2>3, <2>4, <2>5, ProductionsAreChanged
  <2>6. CASE \E id \in Live(run.of) : prod' = [prod EXCEPT ![id].excused = @ \/ run.excused \/ run.raced]
    <3>1. PICK id \in Live(run.of) : prod' = [prod EXCEPT ![id].excused = @ \/ run.excused \/ run.raced]
        BY <2>6
    <3>2. id \in DOMAIN prod
        BY DEF Live
    <3> DEFINE e == prod[id].excused \/ run.excused \/ run.raced
               p == [prod[id] EXCEPT !.excused = e]
    <3>3. e \in BOOLEAN
        OBVIOUS
    <3>4. prod' = [prod EXCEPT ![id] = p]
        BY <3>1
    <3> HIDE DEF e
    <3>5. p \in Prods /\ p.by = prod[id].by
        BY <1>1, <3>2, <3>3 DEF Prods
    <3> HIDE DEF p
    <3>6. QED BY <1>1, <1>2, <2>3, <2>4, <3>2, <3>4, <3>5, ProductionsAreChanged
  <2>7. QED BY <1>10, <2>5, <2>6 DEF CreateProduction
<1>11. ASSUME NEW a \in Archives, StudioCreates(a) PROVE ImportRest'
  <2> DEFINE p == [of |-> a, by |-> 0, state |-> "whole", excused |-> FALSE]
  <2>1. p \in Prods /\ p.by <= imports /\ prod' = Append(prod, p)
      BY <1>1, <1>11 DEF StudioCreates, Prods
  <2> HIDE DEF p
  <2>2. imports' = imports /\ Unanswered
      BY <1>11 DEF StudioCreates
  <2>3. QED BY <1>1, <1>2, <1>3, <2>1, <2>2, ProductionsAreChanged
<1>12. CASE \/ \E v \in Windows : OpenImportWindow(v) \/ CloseImportWindow(v) \/ RollbackImport(v)
            \/ \E v \in Windows, a \in Archives : LoadArchive(v, a)
            \/ ArchiveInspected \/ CheckConflict \/ ProbeRepository
            \/ FillProduction \/ RecreateHubProject \/ ListTarget \/ RemoveTarget \/ ImportCrashes
            \/ \E a \in Archives : ArtistCommits(a)
            \/ UNCHANGED importVars
  <2>1. UNCHANGED <<prod, imports>> /\ (UNCHANGED others \/ Unanswered)
      BY <1>12 DEF OpenImportWindow, CloseImportWindow, RollbackImport, LoadArchive, ArchiveInspected,
                   CheckConflict, ProbeRepository, FillProduction, RecreateHubProject, ListTarget,
                   RemoveTarget, ImportCrashes, ArtistCommits, importVars
  <2>2. QED BY <1>4, <2>1
<1>13. QED BY <1>5, <1>7, <1>9, <1>10, <1>11, <1>12 DEF ImportNext

LEMMA ImportIsTyped == ImportSpec => []ImportTypeOK
<1>1. ImportInit => ImportRest
  <2>1. 0 \in 0 .. MaxImports /\ 0 \in 0 .. MaxOthers
      BY ImportAssumption
  <2>2. QED BY <2>1 DEF ImportInit, ImportRest
<1>2. ImportInv /\ ImportRest /\ [ImportNext]_importVars => ImportRest'
    BY ImportRestKept
<1>3. ImportInv /\ ImportRest => ImportTypeOK
  <2> SUFFICES ASSUME ImportInv, ImportRest PROVE ImportTypeOK
      OBVIOUS
  <2>1. ASSUME NEW id \in DOMAIN prod
        PROVE  prod[id] \in [of : Archives, by : 0 .. MaxImports,
                             state : {"partial", "whole", "gone"}, excused : BOOLEAN]
    <3>1. prod[id] \in Prods /\ prod[id].by <= imports
        BY DEF ImportInv, ImportShape, ImportRest
    <3>2. imports \in Nat /\ imports <= MaxImports
        BY ImportAssumption DEF ImportRest
    <3>3. prod[id].by \in Nat
        BY <3>1 DEF Prods
    <3>4. \A n \in Nat : n <= imports => n \in 0 .. MaxImports
        BY <3>2, ImportAssumption
    <3>5. prod[id].by \in 0 .. MaxImports
        BY <3>1, <3>3, <3>4
    <3>6. QED BY <3>1, <3>5 DEF Prods
  <2>2. run.pc \in MakesFiles => run.id \in DOMAIN prod
      BY DEF ImportInv, RunIsThere, Makers, Ours
  <2>3. undoing \in DOMAIN prod \cup {0}
      BY DEF ImportInv, Makers, Ours
  <2>4. run.pc \in Stages /\ run.of \in Archives \cup {NoArchive}
      BY DEF ImportInv, ImportShape, Working
  <2>5. dropped \subseteq Archives
      BY DEF ImportInv, Removals
  <2>6. QED BY <2>1, <2>2, <2>3, <2>4, <2>5 DEF ImportInv, ImportShape, ImportRest, ImportTypeOK, Stages,
                                              MakesFiles, Showing
<1>4. QED BY <1>1, <1>2, <1>3, ImportInvariant, PTL DEF ImportSpec

\* The shell in any studio: the dashboard is one of the account's, a slot holds work of
\* its own key, and what waits for credentials waits for a server that has none.
ShellTyped ==
    /\ screen \in {"login", "closed"} \cup Boards /\ account \in Roles /\ signing \in Roles
    /\ screen \in Boards => screen \in Profiles(account)
    /\ dashboards \in Nat /\ works \in Seq(Works) /\ slots \in [Keys -> Nat]
    /\ \A k \in Keys : slots[k] # 0 => slots[k] \in DOMAIN works /\ works[slots[k]].key = k
    /\ vaulted \subseteq Hosts
    /\ ask = << >> \/ \E k \in Keys, h \in Hosts \ vaulted : ask = <<[key |-> k, host |-> h]>>

\* The slots and the workers, when workers end and one may be added for its slot.
LEMMA SlotsKeepKeys ==
    ASSUME ShellTyped, works' \in Seq(Works), slots' \in [Keys -> Nat],
           \A j \in DOMAIN works : j \in DOMAIN works' /\ works'[j].key = works[j].key,
           \A k \in Keys : \/ slots'[k] \in {0, slots[k]}
                           \/ slots'[k] \in DOMAIN works' /\ works'[slots'[k]].key = k,
           UNCHANGED <<screen, account, signing, dashboards>>,
           vaulted' \subseteq Hosts,
           ask' = << >> \/ \E k \in Keys, h \in Hosts \ vaulted' : ask' = <<[key |-> k, host |-> h]>>
    PROVE  ShellTyped'
BY DEF ShellTyped

LEMMA StartIsTyped ==
    ASSUME ShellTyped, NEW k \in Keys, Start(k),
           UNCHANGED <<screen, account, signing, dashboards>>,
           vaulted' \subseteq Hosts, ask' = << >>
    PROVE  ShellTyped'
<1>1. /\ works \in Seq(Works) /\ slots \in [Keys -> Nat] /\ dashboards \in Nat /\ account \in Roles
    BY DEF ShellTyped
<1>2. CASE UNCHANGED <<works, slots>>
    BY <1>1, <1>2, SlotsKeepKeys
<1>3. CASE ~ UNCHANGED <<works, slots>>
  <2> DEFINE w == [key |-> k, board |-> dashboards, as |-> account, pc |-> "runs"]
  <2>1. w \in Works /\ w.key = k
      BY <1>1 DEF Works
  <2>2. works' = Append(works, w) /\ slots' = [slots EXCEPT ![k] = Len(works')]
      BY <1>3 DEF Start
  <2> HIDE DEF w
  <2>3. /\ works' \in Seq(Works) /\ Len(works') = Len(works) + 1 /\ Len(works) \in Nat
        /\ DOMAIN works = 1 .. Len(works) /\ DOMAIN works' = 1 .. Len(works) + 1
        /\ \A j \in 1 .. Len(works) : works'[j] = works[j]
        /\ works'[Len(works) + 1] = w
      BY <1>1, <2>1, <2>2, OneMore
  <2>4. slots' \in [Keys -> Nat] /\ slots'[k] = Len(works) + 1 /\ Len(works) + 1 \in DOMAIN works'
      BY <1>1, <2>2, <2>3
  <2>5. \A l \in Keys : l # k => slots'[l] = slots[l]
      BY <1>1, <2>2
  <2>6. \A j \in DOMAIN works : j \in DOMAIN works' /\ works'[j].key = works[j].key
      BY <2>3
  <2>7. QED BY <2>1, <2>3, <2>4, <2>5, <2>6, SlotsKeepKeys
<1>4. QED BY <1>2, <1>3

LEMMA CommandsAreTyped ==
    ASSUME ShellTyped, NEW k \in Keys, NEW profiles, Command(k, profiles),
           (Start(k) /\ UNCHANGED ask) \/ \E p \in DOMAIN HostOf : Gate(k, p)
    PROVE  ShellTyped'
<1>1. /\ ask = << >> /\ UNCHANGED <<screen, account, signing, dashboards, vaulted>> /\ vaulted \subseteq Hosts
      /\ works \in Seq(Works) /\ slots \in [Keys -> Nat]
    BY DEF Command, Shows, ShellTyped
<1>2. CASE Start(k) /\ UNCHANGED ask
    BY <1>1, <1>2, StartIsTyped
<1>3. ASSUME NEW p \in DOMAIN HostOf, Gate(k, p), HostOf[p] \notin vaulted PROVE ShellTyped'
  <2>1. HostOf[p] \in Hosts \ vaulted
      BY <1>3, ShellAssumption
  <2>2. ask' = <<[key |-> k, host |-> HostOf[p]]>> /\ UNCHANGED <<works, slots>>
      BY <1>3 DEF Gate
  <2>3. QED BY <1>1, <2>1, <2>2, SlotsKeepKeys
<1>4. QED BY <1>1, <1>2, <1>3 DEF Gate

LEMMA FollowingIsTyped ==
    ASSUME ShellTyped, NEW i \in DOMAIN works, WorkFinished(i)
    PROVE  ShellTyped'
<1>1. /\ works \in Seq(Works) /\ slots \in [Keys -> Nat] /\ works[i] \in Works /\ account \in Roles
      /\ UNCHANGED <<screen, account, signing, dashboards, vaulted, ask>>
    BY DEF ShellTyped, WorkFinished
<1> DEFINE v == [works[i] EXCEPT !.pc = "over"]
           done == [works EXCEPT ![i] = v]
           w == [key |-> "export", board |-> works[i].board, as |-> account, pc |-> "runs"]
<1>2. v \in Works /\ v.key = works[i].key
    BY <1>1 DEF Works
<1>3. w \in Works /\ w.key = "export" /\ "export" \in Keys /\ works[i].key \in Keys
    BY <1>1 DEF Works, Keys
<1>4. works' = done \/ works' = Append(done, w)
    BY DEF WorkFinished, Follow
<1> HIDE DEF v, w
<1>5. /\ done \in Seq(Works) /\ Len(done) = Len(works) /\ DOMAIN done = DOMAIN works
      /\ \A j \in DOMAIN works : done[j].key = works[j].key
    BY <1>1, <1>2
<1> HIDE DEF done
<1>6. /\ works' \in Seq(Works) /\ Len(works') \in Nat /\ Len(works) \in Nat
      /\ Len(works') > Len(works) => Len(works') \in DOMAIN works' /\ works'[Len(works')].key = "export"
      /\ \A j \in DOMAIN works : j \in DOMAIN works' /\ works'[j].key = works[j].key
  <2>1. CASE works' = done
      BY <1>5, <2>1
  <2>2. CASE works' = Append(done, w)
    <3>1. /\ works' \in Seq(Works) /\ Len(works') = Len(done) + 1 /\ Len(done) \in Nat
          /\ DOMAIN done = 1 .. Len(done) /\ DOMAIN works' = 1 .. Len(done) + 1
          /\ \A j \in 1 .. Len(done) : works'[j] = done[j]
          /\ works'[Len(done) + 1] = w
        BY <1>3, <1>5, <2>2, OneMore
    <3>2. Len(done) + 1 \in 1 .. Len(done) + 1 /\ \A j \in 1 .. Len(done) : j \in 1 .. Len(done) + 1
        BY <3>1
    <3>3. QED BY <1>3, <1>5, <3>1, <3>2
  <2>3. QED BY <1>4, <2>1, <2>2
<1>7. /\ Followed(i) \in [Keys -> Nat]
      /\ \A k \in Keys : \/ Followed(i)[k] = slots[k]
                         \/ k = "export" /\ Followed(i)[k] = Len(works') /\ Len(works') > Len(works)
  <2>1. CASE Followed(i) = slots
      BY <1>1, <2>1
  <2>2. CASE Followed(i) # slots
    <3>1. Followed(i) = [slots EXCEPT !["export"] = Len(works')] /\ Len(works') > Len(works)
        BY <2>2 DEF Followed
    <3>2. QED BY <1>1, <1>3, <1>6, <3>1
  <2>3. QED BY <2>1, <2>2
<1>8. /\ slots' \in [Keys -> Nat]
      /\ \A k \in Keys : slots'[k] \in {0, Followed(i)[k]}
  <2>1. slots' = Followed(i) \/ slots' = [Followed(i) EXCEPT ![works[i].key] = 0]
      BY DEF WorkFinished
  <2> DEFINE f == Followed(i)
  <2>2. f \in [Keys -> Nat] /\ (slots' = f \/ slots' = [f EXCEPT ![works[i].key] = 0])
      BY <1>7, <2>1
  <2> HIDE DEF f
  <2>3. slots' \in [Keys -> Nat] /\ \A k \in Keys : slots'[k] \in {0, f[k]}
      BY <1>3, <2>2
  <2>4. QED BY <2>3 DEF f
<1>9. vaulted' \subseteq Hosts
      /\ (ask' = << >> \/ \E k \in Keys, h \in Hosts \ vaulted' : ask' = <<[key |-> k, host |-> h]>>)
    BY <1>1 DEF ShellTyped
<1>10. \A k \in Keys : \/ slots'[k] \in {0, slots[k]}
                       \/ slots'[k] \in DOMAIN works' /\ works'[slots'[k]].key = k
    BY <1>6, <1>7, <1>8
<1>11. QED BY <1>1, <1>6, <1>8, <1>9, <1>10, SlotsKeepKeys

LEMMA ShellTypedKept ==
    ASSUME ShellTyped, [ShellNext]_shellVars
    PROVE  ShellTyped'
<1>1. CASE UNCHANGED <<screen, account, signing, dashboards, works, slots, vaulted, ask>>
    BY <1>1 DEF ShellTyped
<1>2. CASE UNCHANGED shellVars \/ OpenSession \/ SessionEnds \/ SessionReported \/ LaunchProject \/ LooseSessionEnds
    BY <1>1, <1>2 DEF shellVars, OpenSession, SessionEnds, SessionReported, LaunchProject, LooseSessionEnds
<1>3. ASSUME NEW role \in Logins, SignIn(role) PROVE ShellTyped'
    BY <1>3 DEF SignIn, ShellTyped, Roles
<1>4. ASSUME NEW p \in Boards, NEW a \in Roles, NEW s \in Roles, p \in Profiles(a), NewDashboard(p),
             account' = a, signing' = s, UNCHANGED <<works, vaulted, ask>>
      PROVE  ShellTyped'
    BY <1>4 DEF ShellTyped, NewDashboard
<1>5. CASE SignedIn
  <2>1. CASE UNCHANGED <<screen, account, dashboards, slots>>
      BY <1>5, <2>1 DEF SignedIn, ShellTyped, Roles, Boards
  <2>2. CASE ~ UNCHANGED <<screen, account, dashboards, slots>>
    <3>1. PICK p \in DefaultProfiles(signing) : NewDashboard(p)
        BY <1>5, <2>2 DEF SignedIn
    <3>2. /\ Profiles(signing) # {} /\ account' = signing /\ signing' = "none" /\ signing \in Roles
          /\ UNCHANGED <<works, vaulted, ask>>
        BY <1>5, <2>2 DEF SignedIn, ShellTyped
    <3>3. p \in Profiles(signing) /\ p \in Boards
        BY <3>1, <3>2 DEF Profiles, DefaultProfiles, Boards
    <3>4. "none" \in Roles
        BY DEF Roles
    <3>5. QED BY <1>4, <3>1, <3>2, <3>3, <3>4
  <2>3. QED BY <2>1, <2>2
<1>6. ASSUME NEW p \in {"td", "manager", "artist"}, ChangeProfile(p) PROVE ShellTyped'
    BY <1>4, <1>6 DEF ChangeProfile, ShellTyped, Boards
<1>7. CASE LogOut \/ CloseHub
    BY <1>7 DEF LogOut, CloseHub, Dashboard, Shows, ShellTyped, Roles, Boards
<1>8. ASSUME NEW p \in DOMAIN HostOf,
             \/ InstallProject(p) \/ ResetWorkingCopy(p) \/ BackfillSpawnedFiles(p)
             \/ PublishChanges(p) \/ MigrateProject(p) \/ SpawnBatch(p)
      PROVE  ShellTyped'
  <2>1. \E k \in Keys, profiles \in SUBSET Boards : Command(k, profiles) /\ Gate(k, p)
      BY <1>8 DEF InstallProject, ResetWorkingCopy, BackfillSpawnedFiles, PublishChanges, MigrateProject,
                  SpawnBatch, Keys, Gated, Boards
  <2>2. QED BY <2>1, CommandsAreTyped
<1>9. CASE \/ ApplyVcsPolicy \/ BreakVcsLock \/ CleanupLocalRepository \/ PrecheckExport
           \/ PostComment \/ ToggleEntry \/ ChangeResponsibles \/ WriteTaskFile \/ CreatePerson
  <2>1. \E k \in Keys, profiles \in SUBSET Boards : Command(k, profiles) /\ Start(k) /\ UNCHANGED ask
      BY <1>9 DEF ApplyVcsPolicy, BreakVcsLock, CleanupLocalRepository, PrecheckExport, PostComment,
                  ToggleEntry, ChangeResponsibles, WriteTaskFile, CreatePerson, Keys, Open, Aside, Boards
  <2>2. QED BY <2>1, CommandsAreTyped
<1>10. CASE AnswerPrompt
  <2>1. PICK k \in Keys, h \in Hosts : ask = <<[key |-> k, host |-> h]>>
      BY <1>10 DEF AnswerPrompt, ShellTyped
  <2>2. ask[1].key = k /\ ask[1].host = h
      BY <2>1
  <2>3. ask' = << >> /\ vaulted' \subseteq Hosts /\ UNCHANGED <<screen, account, signing, dashboards>>
      BY <1>10, <2>2 DEF AnswerPrompt, ShellTyped
  <2>4. CASE Start(k)
      BY <2>3, <2>4, StartIsTyped
  <2>5. CASE UNCHANGED <<works, slots>>
      BY <2>3, <2>5 DEF ShellTyped
  <2>6. QED BY <1>10, <2>2, <2>4, <2>5 DEF AnswerPrompt
<1>11. ASSUME NEW i \in DOMAIN works, ThreadEnds(i) PROVE ShellTyped'
  <2> DEFINE v == [works[i] EXCEPT !.pc = "ended"]
  <2>1. works \in Seq(Works) /\ works[i] \in Works
      BY DEF ShellTyped
  <2>2. v \in Works /\ v.key = works[i].key
      BY <2>1 DEF Works
  <2>3. works' = [works EXCEPT ![i] = v]
      BY <1>11 DEF ThreadEnds
  <2> HIDE DEF v
  <2>4. works' \in Seq(Works) /\ \A j \in DOMAIN works : j \in DOMAIN works' /\ works'[j].key = works[j].key
      BY <2>1, <2>2, <2>3
  <2>5. UNCHANGED <<screen, account, signing, dashboards, slots, vaulted, ask>>
      BY <1>11 DEF ThreadEnds
  <2>6. QED BY <2>4, <2>5, SlotsKeepKeys DEF ShellTyped
<1>12. QED BY <1>2, <1>3, <1>5, <1>6, <1>7, <1>8, <1>9, <1>10, <1>11, FollowingIsTyped
           DEF ShellNext, Threads, Signals

LEMMA ShellIsTyped == ShellSpec => []ShellTypeOK
<1>1. ShellInit => ShellTyped
    BY DEF ShellInit, ShellTyped, Roles, Boards
<1>2. ShellTyped => ShellTypeOK
  <2> SUFFICES ASSUME ShellTyped PROVE ShellTypeOK
      OBVIOUS
  <2>1. ASSUME NEW k \in Keys PROVE slots[k] \in 0 .. Len(works)
    <3>1. works \in Seq(Works) /\ slots[k] \in Nat /\ (slots[k] = 0 \/ slots[k] \in DOMAIN works)
        BY DEF ShellTyped
    <3>2. QED BY <3>1
  <2>2. Len(ask) <= 1 /\ (ask # << >> => ask[1].host \notin vaulted)
    <3>1. CASE ask = << >>
        BY <3>1
    <3>2. CASE ask # << >>
      <4>1. PICK k \in Keys, h \in Hosts \ vaulted : ask = <<[key |-> k, host |-> h]>>
          BY <3>2 DEF ShellTyped
      <4>2. ask[1].host = h /\ Len(ask) = 1
          BY <4>1
      <4>3. QED BY <4>1, <4>2
    <3>3. QED BY <3>1, <3>2
  <2>3. QED BY <2>1, <2>2 DEF ShellTyped, ShellTypeOK, Roles, Boards
<1>3. QED BY <1>1, <1>2, ShellTypedKept, PTL DEF ShellSpec

\* The maps lead to what the production has; nothing is recorded of a task before it is made.
DataTyped ==
    /\ DataTypeOK
    /\ made = [sequences |-> made.sequences, shots |-> made.shots]
    /\ step \in BeforeTasks \cup {"comments"} => records = {}

LEMMA DataTypedKept ==
    ASSUME DataInv, DataTyped, [DataNext]_dataVars
    PROVE  DataTyped'
<1>1. /\ links \subseteq statuses /\ context.statuses \subseteq statuses
      /\ context.sequences \subseteq made.sequences
      /\ DOMAIN context.shots \subseteq DOMAIN Shots /\ Range(context.shots) \subseteq made.shots
      /\ \A t \in DOMAIN tasks : tasks[t].on \in made.shots
      /\ records \subseteq DOMAIN tasks /\ Cardinality(lost) <= MaxLost
      /\ made = [sequences |-> made.sequences, shots |-> made.shots]
      /\ context = [statuses |-> context.statuses, sequences |-> context.sequences, shots |-> context.shots]
    BY DEF DataTyped, DataTypeOK, DataInv, InOrder
<1>2. ASSUME NEW kind, NEW items, Losing(kind, items) PROVE Cardinality(lost') <= MaxLost
    BY <1>2 DEF Losing
<1>3. CASE UNCHANGED dataVars
    BY <1>3 DEF dataVars, DataTyped, DataTypeOK
<1>4. CASE EnsureManager
  <2>1. /\ UNCHANGED <<statuses, links, made, context, tasks, records>> /\ Cardinality(lost') <= MaxLost
        /\ step = "manager"
      BY <1>2, <1>4 DEF EnsureManager, Then
  <2>2. QED BY <1>1, <2>1 DEF DataTyped, DataTypeOK, BeforeTasks, BeforeShots, BeforeLinks
<1>5. CASE CreateOrGetStatuses
  <2>1. PICK fails \in SUBSET (Listed \ statuses) :
          /\ Losing("status", fails)
          /\ context' = [context EXCEPT !.statuses = Listed \ fails]
          /\ statuses' = statuses \cup (Listed \ fails)
      BY <1>5 DEF CreateOrGetStatuses
  <2>2. UNCHANGED <<links, made, tasks, records>> /\ step = "statuses"
      BY <1>5 DEF CreateOrGetStatuses, Then
  <2>3. context'.statuses = Listed \ fails /\ context'.sequences = context.sequences /\ context'.shots = context.shots
      BY <1>1, <2>1
  <2>4. QED BY <1>1, <1>2, <2>1, <2>2, <2>3 DEF DataTyped, DataTypeOK, BeforeTasks, BeforeShots, BeforeLinks
<1>6. CASE LinkStatuses
  <2> DEFINE resolved == context.statuses \cup (IF sameServer THEN Statuses \cap statuses ELSE {})
  <2>1. PICK fails \in SUBSET resolved :
          /\ Losing("link", fails)
          /\ context' = [context EXCEPT !.statuses = resolved]
          /\ links' = links \cup (resolved \ fails)
      BY <1>6 DEF LinkStatuses
  <2>2. UNCHANGED <<statuses, made, tasks, records>> /\ step = "links"
      BY <1>6 DEF LinkStatuses, Then
  <2>3. resolved \subseteq statuses
      BY <1>1
  <2> HIDE DEF resolved
  <2>4. context'.statuses = resolved /\ context'.sequences = context.sequences /\ context'.shots = context.shots
      BY <1>1, <2>1
  <2>5. QED BY <1>1, <1>2, <2>1, <2>2, <2>3, <2>4 DEF DataTyped, DataTypeOK, BeforeTasks, BeforeShots, BeforeLinks
<1>7. CASE CreateScenes
  <2>1. PICK mapped :
          /\ context' = [context EXCEPT !.sequences = mapped]
          /\ made' = [made EXCEPT !.sequences = @ \cup mapped]
      BY <1>7 DEF CreateScenes
  <2>2. UNCHANGED <<statuses, links, tasks, records>> /\ step = "scenes" /\ Cardinality(lost') <= MaxLost
      BY <1>2, <1>7 DEF CreateScenes, Then
  <2>3. context'.statuses = context.statuses /\ context'.sequences = mapped /\ context'.shots = context.shots
      BY <1>1, <2>1
  <2>4. /\ made' = [sequences |-> made'.sequences, shots |-> made'.shots]
        /\ made'.sequences = made.sequences \cup mapped /\ made'.shots = made.shots
      BY <1>1, <2>1
  <2>5. QED BY <1>1, <2>2, <2>3, <2>4 DEF DataTyped, DataTypeOK, BeforeTasks, BeforeShots, BeforeLinks
<1>8. CASE CreateShots
  <2>1. PICK mapped \in SUBSET DOMAIN Shots :
          /\ context' = [context EXCEPT !.shots = [i \in mapped |-> TargetOf(i)]]
          /\ made' = [made EXCEPT !.shots = @ \cup {TargetOf(i) : i \in mapped}]
      BY <1>8 DEF CreateShots
  <2>2. UNCHANGED <<statuses, links, tasks, records>> /\ step = "shots" /\ Cardinality(lost') <= MaxLost
      BY <1>2, <1>8 DEF CreateShots, Then
  <2>3. /\ context'.statuses = context.statuses /\ context'.sequences = context.sequences
        /\ context'.shots = [i \in mapped |-> TargetOf(i)]
      BY <1>1, <2>1
  <2>4. /\ made' = [sequences |-> made'.sequences, shots |-> made'.shots]
        /\ made'.sequences = made.sequences /\ made'.shots = made.shots \cup {TargetOf(i) : i \in mapped}
      BY <1>1, <2>1
  <2>5. DOMAIN context'.shots \subseteq DOMAIN Shots /\ Range(context'.shots) \subseteq made'.shots
      BY <2>3, <2>4 DEF Range
  <2>6. QED BY <1>1, <2>2, <2>3, <2>4, <2>5 DEF DataTyped, DataTypeOK, BeforeTasks, BeforeShots, BeforeLinks
<1>9. CASE CreateTasks
  <2>1. PICK new, fails :
          /\ \A t \in new : TaskList[t].on \in DOMAIN context.shots
          /\ tasks' = [t \in new |-> Created(t, fails)]
      BY <1>9 DEF CreateTasks
  <2>2. UNCHANGED <<statuses, links, made, context, records>> /\ step = "tasks" /\ Cardinality(lost') <= MaxLost
      BY <1>9 DEF CreateTasks, Then
  <2>3. ASSUME NEW t \in new PROVE tasks'[t].on \in made.shots
    <3>1. tasks'[t].on = context.shots[TaskList[t].on]
        BY <2>1 DEF Created
    <3>2. QED BY <1>1, <2>1, <3>1 DEF Range
  <2>4. records = {}
      BY <2>2 DEF DataTyped, BeforeTasks
  <2>5. DOMAIN tasks' = new
      BY <2>1
  <2>6. QED BY <1>1, <2>2, <2>3, <2>4, <2>5 DEF DataTyped, DataTypeOK
<1>10. CASE CreateComments
  <2>1. UNCHANGED <<statuses, links, made, context, tasks, records>> /\ step = "comments"
        /\ step' \notin BeforeTasks \cup {"comments"}
      BY <1>10 DEF CreateComments, BeforeTasks, BeforeShots, BeforeLinks
  <2>2. UNCHANGED lost \/ \E fails : Losing("comment", fails)
      BY <1>10 DEF CreateComments
  <2>3. Cardinality(lost') <= MaxLost
      BY <1>1, <1>2, <2>2
  <2>4. QED BY <1>1, <2>1, <2>3 DEF DataTyped, DataTypeOK
<1>11. CASE CreateRecords
  <2>1. PICK fails \in SUBSET DOMAIN tasks : Losing("record", fails) /\ records' = DOMAIN tasks \ fails
      BY <1>11 DEF CreateRecords
  <2>2. UNCHANGED <<statuses, links, made, context, tasks>> /\ step' \notin BeforeTasks \cup {"comments"}
      BY <1>11 DEF CreateRecords, Then, BeforeTasks, BeforeShots, BeforeLinks
  <2>3. QED BY <1>1, <1>2, <2>1, <2>2 DEF DataTyped, DataTypeOK
<1>12. CASE AddTeam
  <2>1. /\ UNCHANGED <<statuses, links, made, context, tasks, records>> /\ Cardinality(lost') <= MaxLost
        /\ step' \notin BeforeTasks \cup {"comments"}
      BY <1>2, <1>12 DEF AddTeam, Then, BeforeTasks, BeforeShots, BeforeLinks
  <2>2. QED BY <1>1, <2>1 DEF DataTyped, DataTypeOK
<1>13. QED BY <1>3, <1>4, <1>5, <1>6, <1>7, <1>8, <1>9, <1>10, <1>11, <1>12 DEF DataNext

LEMMA DataIsTyped == DataSpec => []DataTypeOK
<1>1. DataInit => DataTyped
  <2> SUFFICES ASSUME DataInit PROVE DataTyped
      OBVIOUS
  <2>1. Cardinality(lost) <= MaxLost
    <3>1. Cardinality({}) = 0
        BY FS_EmptySet
    <3>2. QED BY <3>1, DataAssumption DEF DataInit
  <2>2. /\ context = NoContext /\ tasks = << >> /\ records = {} /\ links = {}
        /\ made = [sequences |-> made.sequences, shots |-> made.shots]
      BY DEF DataInit
  <2>3. DOMAIN << >> = {} /\ Range(<< >>) = {}
      BY DEF Range
  <2>4. context.statuses = {} /\ context.sequences = {} /\ context.shots = << >>
      BY <2>2 DEF NoContext
  <2>5. QED BY <2>1, <2>2, <2>3, <2>4 DEF DataTyped, DataTypeOK
<1>2. DataInv /\ DataTyped /\ [DataNext]_dataVars => DataTyped'
    BY DataTypedKept
<1>3. DataTyped => DataTypeOK
    BY DEF DataTyped
<1>4. QED BY <1>1, <1>2, <1>3, DataInvariant, PTL DEF DataSpec

(***************************************************************************)
(* Side by side.                                                           *)
(***************************************************************************)

\* A behaviour of the composition is one of each part.
LEMMA PartsRun == Spec => ShellSpec /\ SessionSpec /\ InstallSpec /\ ImportSpec /\ DataSpec
                         /\ SettingsSpec
<1>1. Init => ShellInit /\ SessionInit /\ InstallInit /\ ImportInit /\ DataInit /\ SettingsInit
    BY DEF Init
<1>2. ASSUME [Next]_vars
      PROVE  /\ [ShellNext]_shellVars /\ [SessionNext]_sessionVars /\ [InstallNext]_installVars
             /\ [ImportNext]_importVars /\ [DataNext]_dataVars /\ [SettingsNext]_settingsVars
    BY <1>2 DEF Next, vars
<1>3. QED BY <1>1, <1>2, PTL DEF Spec, ShellSpec, SessionSpec, InstallSpec, ImportSpec, DataSpec,
                               SettingsSpec

\* What is critical ends before its dashboard, its login and its Hub do, and runs under
\* the account it was begun with; a key has one worker at a time; the desk is one
\* account's wherever that is written down, and the seeding of test accounts gives the
\* host back.
THEOREM NothingOutlives ==
    ASSUME "escapes" \notin ShellHabits, "syncsWhileSeeding" \notin SessionHabits
    PROVE  Spec => []NothingOutlivesItsDesk
<1>1. WorkStaysOnBoard /\ SessionsOutlived /\ OneWorkerPerKey /\ WorkIsOwn /\ DeskIsOwn
      /\ SeedsLocally /\ HostComesBack => NothingOutlivesItsDesk
    BY DEF NothingOutlivesItsDesk
<1>2. QED BY <1>1, PartsRun, WorkEndsWithItsDesk, NoSecondWorker, WorkIsOnesOwn, DeskIsOnesOwn,
             SeedingGivesBack, PTL

\* An installation that was reported done is the blueprint's, and a workspace that is
\* taken for installed has every file of it.
THEOREM WorkspacesStayWhole == Spec => []WorkspacesAreWhole
BY PartsRun, InstalledIsWhole, PTL DEF WorkspacesAreWhole

\* An import touches no production but its own, says "no checkout" only of a repository
\* that it has loaded and leaves committed files alone; its tasks, statuses and working
\* files are the archive's; and a shot and a comment hang on what they hung on there.
THEOREM ImportsAreSound ==
    ASSUME \A i \in DOMAIN Shots : Shots[i].in \in SceneNames
    PROVE  Spec => []ImportIsSound
<1>1. OthersProductionsKept /\ NoCheckoutMeansLoaded /\ CommittedFilesKept /\ ShotsStayApart
      /\ StatusesAreLinked /\ FilesAreKept /\ ThreadsAreKept => ImportIsSound
    BY DEF ImportIsSound, ImportIsFaithful
<1>2. QED BY <1>1, PartsRun, ImportTouchesItsOwn, StatusesAndFilesAreKept, ShotsAreKeptApart,
             ThreadsStayTogether, PTL

\* Beside all other parts, too, a binding follows a probe.
THEOREM BindingsFollowProbes == Spec => BindingFollowsProbe
BY PartsRun, BindingsAreProbed, PTL

\* And so does the register stay sound, whatever writes of it fail or are cut short.
THEOREM RegisterStaysSound == Spec => RegisterStaysRight
BY PartsRun, SettingsStaySound, BindingsAreProbed, PTL DEF RegisterStaysRight

\* Installation, import, shell, session, records and settings keep their types side by
\* side, in any studio: who is at a dashboard has the profile for it, a worker of the
\* import has the production it works on, and what the archive is mapped to is there.
THEOREM PartsAreTyped == Spec => []PartsTypeOK
<1>1. Spec => [](part \in {"installation", "import", "shell", "session", "data", "settings"})
  <2> DEFINE P == part \in {"installation", "import", "shell", "session", "data", "settings"}
  <2>1. Init => P
      BY DEF Init
  <2>2. P /\ [Next]_vars => P'
      BY DEF Next, vars
  <2> HIDE DEF P
  <2>3. Spec => []P
      BY <2>1, <2>2, PTL DEF Spec
  <2>4. QED BY <2>3 DEF P
<1>2. part \in {"installation", "import", "shell", "session", "data", "settings"}
      /\ InstallTypeOK /\ ImportTypeOK /\ ShellTypeOK /\ SessionTypeOK /\ DataTypeOK /\ SettingsTypeOK
         => PartsTypeOK
    BY DEF PartsTypeOK
<1>3. QED BY <1>1, <1>2, PartsRun, InstallIsTyped, ImportIsTyped, ShellIsTyped, SessionIsTyped,
             DataIsTyped, SettingsAreTyped, PTL
=============================================================================
