------------------------------ MODULE KitsuSession -----------------------------
(* Who the Hub is at Kitsu.  One client serves the whole process: its host and *)
(* its tokens are set by the log-in, by the seeder of test accounts and by the *)
(* identity page, and every worker's call goes out under them.  Beside it are  *)
(* the user the services know, the session file and the environment that       *)
(* Blender inherits.                                                           *)
EXTENDS Naturals

CONSTANTS
    People,         \* accounts
    NoAccess,       \* those among them whose role may not use the Hub
    Sites,          \* Kitsu servers
    Localhost,      \* the one of this machine's container
    OpenToAdmin,    \* servers that accept the administrator of the test set-up
    Admin,
    MaxTries,       \* bound on log-ins, seedings, syncs and pieces of work
    MaxUpsets,      \* bound on calls and writes that fail, and on crashes
    SessionHabits,  \* subset of {"syncsWhileSeeding"}: uses the identity page meanwhile
    NoPerson, Nowhere

ASSUME SessionAssumption ==
    /\ NoAccess \subseteq People /\ Localhost \in Sites
    /\ Localhost \in OpenToAdmin /\ OpenToAdmin \subseteq Sites
    /\ Admin \notin People /\ NoPerson \notin People \cup {Admin} /\ Nowhere \notin Sites
    /\ SessionHabits \subseteq {"syncsWhileSeeding"}

VARIABLES
    place,     \* "off", "login" or "desk"
    inMemory,  \* whether this client library keeps its tokens where the Hub looks for them
    client,    \* the process's Kitsu client: host and token
    signedIn,      \* the account the services know
    authHost,      \* the host they know
    sessionFile,      \* session.json: "none", "torn", or "kept" with host and token
    environ,   \* the account in the environment that Blender inherits
    attempt,   \* the log-in that runs
    seeding,   \* the seeder
    work,      \* the token and host that a critical worker was started under
    testers,   \* servers that have got the test accounts
    astray,    \* a seeding or a sync has taken the client since the log-in
    tries, upsets

sessionVars == <<place, inMemory, client, signedIn, authHost, sessionFile, environ,
                 attempt, seeding, work, testers, astray, tries, upsets>>

Token(a, s) == [who |-> a, at |-> s]
NoToken == Token(NoPerson, Nowhere)
NoSessionFile == [is |-> "none", host |-> Nowhere, token |-> NoToken]
TornSession == [NoSessionFile EXCEPT !.is = "torn"]
NoAttempt == [who |-> NoPerson, to |-> Nowhere, pc |-> "idle"]
NotSeeding == [pc |-> "idle", back |-> Nowhere]
NoWork == [host |-> Nowhere, token |-> NoToken]

KeptSession == [is |-> "kept", host |-> authHost, token |-> client.token]

Try == tries < MaxTries /\ tries' = tries + 1
Upset == upsets < MaxUpsets /\ upsets' = upsets + 1

\* What the page of Kitsu, and the question whether anybody is logged in, go by.
AccessToken == IF inMemory THEN client.token ELSE sessionFile.token

CriticalWork == seeding.pc # "idle" \/ work # NoWork

\* What this process has in memory before anybody has logged in.
Fresh ==
    /\ client' = [host |-> Nowhere, token |-> NoToken]
    /\ signedIn' = NoPerson /\ authHost' = Nowhere /\ environ' = NoPerson
    /\ attempt' = NoAttempt /\ seeding' = NotSeeding /\ work' = NoWork
    /\ astray' = FALSE

SessionInit ==
    /\ place = "off" /\ sessionFile = NoSessionFile /\ inMemory \in BOOLEAN
    /\ client = [host |-> Nowhere, token |-> NoToken]
    /\ signedIn = NoPerson /\ authHost = Nowhere /\ environ = NoPerson
    /\ attempt = NoAttempt /\ seeding = NotSeeding /\ work = NoWork
    /\ testers = {} /\ astray = FALSE /\ tries = 0 /\ upsets = 0

\* The session file is not read when the Hub starts: nobody calls restore_session.
OpenHub ==
    /\ place = "off" /\ place' = "login"
    /\ UNCHANGED <<client, signedIn, authHost, sessionFile, environ, attempt, seeding,
                   work, testers, astray, tries, upsets>>

-----------------------------------------------------------------------------
(* Log-in                                                                    *)

\* The button waits until the attempt has been answered.
Login(a, s) ==
    /\ place = "login" /\ attempt = NoAttempt /\ Try
    /\ attempt' = [who |-> a, to |-> s, pc |-> "host"]
    /\ UNCHANGED <<place, client, signedIn, authHost, sessionFile, environ, seeding, work,
                   testers, astray, upsets>>

Attempting(pc, next) ==
    /\ attempt.pc = pc /\ attempt' = [attempt EXCEPT !.pc = next]
    /\ UNCHANGED <<place, environ, seeding, work, testers, tries>>

SetHost ==
    /\ Attempting("host", "password")
    /\ authHost' = attempt.to /\ client' = [client EXCEPT !.host = attempt.to]
    /\ UNCHANGED <<signedIn, sessionFile, astray, upsets>>

\* A refusal leaves the tokens that the client has.
Authenticate ==
    \/ /\ Attempting("password", "person")
       /\ client' = [client EXCEPT !.token = Token(attempt.who, client.host)]
       /\ UNCHANGED <<signedIn, authHost, sessionFile, astray, upsets>>
    \/ /\ Attempting("password", "failed") /\ Upset
       /\ UNCHANGED <<client, signedIn, authHost, sessionFile, astray>>

\* Who it is, and what may be used: an account without access is logged out again,
\* and whether Kitsu has heard of that is not looked at.
FetchUser ==
    \/ /\ Attempting("person", "save")
       /\ attempt.who \notin NoAccess /\ signedIn' = attempt.who
       /\ UNCHANGED <<client, authHost, sessionFile, astray, upsets>>
    \/ /\ Attempting("person", "failed")
       /\ attempt.who \in NoAccess /\ signedIn' = NoPerson
       /\ \/ client' = [client EXCEPT !.token = NoToken] /\ UNCHANGED upsets
          \/ Upset /\ UNCHANGED client
       /\ UNCHANGED <<authHost, sessionFile, astray>>
    \/ /\ Attempting("person", "failed") /\ Upset
       /\ UNCHANGED <<client, signedIn, authHost, sessionFile, astray>>

\* The file is opened and written in place.
SaveSession ==
    \/ /\ Attempting("save", "done")
       /\ sessionFile' = KeptSession
       /\ astray' = FALSE
       /\ UNCHANGED <<client, signedIn, authHost, upsets>>
    \/ /\ Attempting("save", "failed") /\ Upset
       /\ sessionFile' \in {sessionFile, TornSession}
       /\ UNCHANGED <<client, signedIn, authHost, astray>>

\* The slot: credentials into the environment, then the dashboard.
OnLoginSuccess ==
    /\ attempt.pc = "done" /\ place = "login"
    /\ attempt' = NoAttempt /\ place' = "desk" /\ environ' = attempt.who
    /\ UNCHANGED <<client, signedIn, authHost, sessionFile, seeding, work, testers, astray,
                   tries, upsets>>

LoginFailed ==
    /\ attempt.pc = "failed" /\ attempt' = NoAttempt
    /\ UNCHANGED <<place, client, signedIn, authHost, sessionFile, environ, seeding, work,
                   testers, astray, tries, upsets>>

-----------------------------------------------------------------------------
(* Log-out and the end of the program                                        *)

\* The server may not answer; the local side is torn down all the same.
Forget ==
    /\ signedIn' = NoPerson /\ sessionFile' = NoSessionFile
    /\ \/ client' = [client EXCEPT !.token = NoToken] /\ UNCHANGED upsets
       \/ Upset /\ UNCHANGED client

Logout ==
    /\ place = "desk" /\ ~CriticalWork
    /\ place' = "login" /\ environ' = NoPerson
    /\ Forget
    /\ UNCHANGED <<authHost, attempt, seeding, work, testers, astray, tries>>

\* Logged out if there is a token; a file that cannot be read is removed by looking
\* for one.  A log-in that still runs is waited for a moment, and may write its file
\* after the log-out.
CloseEvent ==
    /\ place # "off" /\ ~CriticalWork
    /\ place' = "off" /\ Fresh
    /\ \/ sessionFile' = IF AccessToken # NoToken \/ (~inMemory /\ sessionFile.is = "torn")
                          THEN NoSessionFile ELSE sessionFile
       \/ attempt.pc = "save" /\ sessionFile' = KeptSession
    /\ UNCHANGED <<testers, tries, upsets>>

HubDies ==
    /\ place # "off" /\ Upset
    /\ place' = "off" /\ Fresh
    /\ sessionFile' \in {sessionFile}
                          \cup (IF attempt.pc = "save" THEN {TornSession} ELSE {})
    /\ UNCHANGED <<testers, tries>>

-----------------------------------------------------------------------------
(* What else sets the client                                                 *)

\* The host of the moment is kept, and localhost's put in its place.
BeginSeeding ==
    /\ place = "desk" /\ seeding = NotSeeding /\ Try
    /\ seeding' = [pc |-> "admin", back |-> client.host]
    /\ client' = [client EXCEPT !.host = Localhost]
    /\ astray' = TRUE
    /\ UNCHANGED <<place, signedIn, authHost, sessionFile, environ, attempt, work, testers,
                   upsets>>

\* The administrator of the test set-up, at whatever host the client has by now.
SeedAdmin ==
    /\ seeding.pc = "admin"
    /\ \/ /\ client.host \in OpenToAdmin
          /\ client' = [client EXCEPT !.token = Token(Admin, client.host)]
          /\ seeding' = [seeding EXCEPT !.pc = "accounts"] /\ UNCHANGED upsets
       \/ /\ client.host \notin OpenToAdmin \/ upsets < MaxUpsets
          /\ upsets' = IF client.host \in OpenToAdmin THEN upsets + 1 ELSE upsets
          /\ seeding' = [seeding EXCEPT !.pc = "over"] /\ UNCHANGED client
    /\ UNCHANGED <<place, signedIn, authHost, sessionFile, environ, attempt, work, testers,
                   astray, tries>>

\* The test accounts, made by an administrator of the host they are made at.
SeedAccounts ==
    /\ seeding.pc = "accounts"
    /\ seeding' = [seeding EXCEPT !.pc = "over"]
    /\ \/ /\ testers' = IF client.token = Token(Admin, client.host)
                          THEN testers \cup {client.host} ELSE testers
          /\ UNCHANGED upsets
       \/ Upset /\ UNCHANGED testers
    /\ UNCHANGED <<place, client, signedIn, authHost, sessionFile, environ, attempt, work,
                   astray, tries>>

\* The host of before, whatever became of the seeding; the tokens are not put back.
EndSeeding ==
    /\ seeding.pc = "over"
    /\ seeding' = NotSeeding
    /\ client' = IF seeding.back = Nowhere THEN client
                 ELSE [client EXCEPT !.host = seeding.back]
    /\ UNCHANGED <<place, signedIn, authHost, sessionFile, environ, attempt, work, testers,
                   astray, tries, upsets>>

\* The address in the field of the identity page, saved or not.
SyncIdentity(s) ==
    /\ place = "desk" /\ Try
    /\ seeding # NotSeeding => "syncsWhileSeeding" \in SessionHabits
    /\ authHost' = s /\ client' = [client EXCEPT !.host = s]
    /\ astray' = TRUE
    /\ UNCHANGED <<place, signedIn, sessionFile, environ, attempt, seeding, work, testers,
                   upsets>>

-----------------------------------------------------------------------------
(* Critical work, of any dashboard                                          *)

StartWork ==
    /\ place = "desk" /\ work = NoWork /\ Try
    /\ work' = client
    /\ UNCHANGED <<place, client, signedIn, authHost, sessionFile, environ, attempt,
                   seeding, testers, astray, upsets>>

\* The last call; every one of them goes out under the client of the moment.
WorkEnds ==
    /\ work # NoWork /\ work' = NoWork
    /\ UNCHANGED <<place, client, signedIn, authHost, sessionFile, environ, attempt,
                   seeding, testers, astray, tries, upsets>>

SessionNext ==
    /\ UNCHANGED inMemory
    /\ \/ OpenHub
       \/ \E a \in People, s \in Sites : Login(a, s)
       \/ SetHost
       \/ Authenticate
       \/ FetchUser
       \/ SaveSession
       \/ OnLoginSuccess
       \/ LoginFailed
       \/ Logout
       \/ CloseEvent
       \/ HubDies
       \/ BeginSeeding
       \/ SeedAdmin
       \/ SeedAccounts
       \/ EndSeeding
       \/ \E s \in Sites : SyncIdentity(s)
       \/ StartWork
       \/ WorkEnds

SessionSpec == SessionInit /\ [][SessionNext]_sessionVars

-----------------------------------------------------------------------------
(* Properties                                                                *)

SessionTypeOK ==
    /\ place \in {"off", "login", "desk"}
    /\ client.host \in Sites \cup {Nowhere} /\ authHost \in Sites \cup {Nowhere}
    /\ client.token.who \in People \cup {Admin, NoPerson}
    /\ signedIn \in People \cup {NoPerson} /\ environ \in People \cup {NoPerson}
    /\ sessionFile.is \in {"none", "torn", "kept"}
    /\ attempt.pc \in {"idle", "host", "password", "person", "save", "done", "failed"}
    /\ seeding.pc \in {"idle", "admin", "accounts", "over"}
    /\ work # NoWork => work.host \in Sites
    /\ testers \subseteq Sites

\* Whoever is at the dashboard is one account everywhere: to the services, in the
\* session file, to the page of Kitsu, in the environment of Blender, and, as long as
\* nothing has taken the client, to Kitsu itself; however many log-ins, refusals,
\* half-failed log-outs and crashes came before.
DeskIsOwn ==
    place = "desk" =>
        /\ signedIn \in People \ NoAccess /\ environ = signedIn
        /\ sessionFile.is = "kept" /\ sessionFile.token = Token(signedIn, sessionFile.host)
        /\ (inMemory /\ astray) \/ AccessToken = Token(signedIn, sessionFile.host)
        /\ ~astray => /\ client = [host |-> authHost, token |-> sessionFile.token]
                      /\ sessionFile.host = authHost

\* "Seed against the local Kitsu without clobbering the session's real host: restore
\* it once the seeding finishes": the client is at the host that the services name.
HostComesBack == place = "desk" /\ seeding = NotSeeding => client.host = authHost

\* ... and test accounts, whose passwords everybody knows, come to no other Kitsu.
SeedsLocally == testers \subseteq {Localhost}

\* Critical work that has begun goes on under the account and at the host it was begun with,
\* as long as nothing has taken the client: nobody logs out beneath it.
WorkIsOwn == work # NoWork /\ ~astray => client = work
=============================================================================
