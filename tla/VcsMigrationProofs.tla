-------------------------- MODULE VcsMigrationProofs --------------------------
(***************************************************************************)
(* What holds of a project's migrations for every set of servers, working  *)
(* copies and bound on the commits: as long as nobody moves the project    *)
(* back to a server it has left, and the working copy and the blueprint    *)
(* are written or not written together, nothing that was committed before  *)
(* a migration started is lost.                                            *)
(***************************************************************************)
EXTENDS VcsMigration, SequenceTheorems, TLAPS

\* Every server runs on a host of its own, no migration goes back, and the new
\* URL and the new binding are both written, or the migration reports that the
\* first was not.
OneWay ==
    /\ \A s, t \in Servers : Host[s] = Host[t] => s = t
    /\ "goBack" \notin Habits
    /\ Faults \cap {"relocateLost", "blueprintFails"} = {}

(***************************************************************************)
(* The inductive invariant.                                                *)
(***************************************************************************)

Prefix(l, k) == Len(l) <= Len(k) /\ \A i \in 1..Len(l) : l[i] = k[i]

\* The servers that a migration may still go to.
Ahead == Servers \ (left \cup {bound})

LogsFit ==
    /\ \A s \in Servers : Len(repo[s].log) <= commits
    /\ Len(m.dump) <= commits

\* Where everything points.  The copies of the artists stay where they are.
Pointers ==
    /\ \A u \in Artists : wc[u] = Home
    /\ Home \in left \cup {bound}
    /\ bound \notin left
    /\ wc[TD] = IF m.phase = "record" THEN m.target ELSE bound
    /\ m.phase \in Running \cup {"failed"} => m.source = bound /\ m.target \in Ahead
    /\ m.phase = "succeeded" => m.source \in left /\ m.target = bound

\* The project's repository is where the project is bound, and where the
\* working copy has just been relocated to.
Served ==
    /\ repo[bound].uuid = "project"
    /\ m.phase = "record" => repo[m.target].uuid = "project"

\* What failed attempts have left on the servers ahead is a beginning of the
\* project's history, as it was when this migration looked at it.
Leftovers ==
    /\ \A t \in Ahead : (m.phase = "record" => t # m.target) => Prefix(repo[t].log, repo[bound].log)
    /\ m.phase \in Running \ {"starting", "inspect"} =>
           \A t \in Ahead \ {m.target} : Len(repo[t].log) <= m.seen
    /\ m.phase = "record" => \A t \in Ahead \ {m.target} : Prefix(repo[t].log, repo[m.target].log)
    /\ m.phase = "relocate" => Len(repo[m.target].log) = m.seen
    /\ m.phase = "load" => Prefix(m.dump, repo[bound].log) /\ Prefix(repo[m.target].log, m.dump)

\* What the source had when the migration started, on its way to the target.
HeldOnTheWay ==
    /\ m.phase \in Running \cup {"failed"} => m.held \subseteq Holds(bound)
    /\ m.phase \in Running \ {"starting", "inspect"} =>
           \A c \in m.held : \E i \in 1..m.seen : i <= Len(repo[bound].log) /\ repo[bound].log[i] = c
    /\ m.phase = "load" => \A c \in m.held : \E i \in 1..Len(m.dump) : m.dump[i] = c
    /\ m.phase \in {"verify", "relocate", "record", "succeeded"} => m.held \subseteq Holds(m.target)

\* What the source has got since is late.
SinceIsLate == m.phase # "idle" => Holds(m.source) \subseteq m.held \cup late

CancelSeen ==
    m.inTime => cancel /\ m.phase \in {"inspect", "target", "create", "transfer", "load", "failed"}

MigrationInv ==
    /\ MigrationTypeOK /\ LogsFit /\ Pointers /\ Served /\ Leftovers /\ HeldOnTheWay
    /\ SinceIsLate /\ CancelSeen /\ CommitsSurvive

(***************************************************************************)
(* Logs.                                                                   *)
(***************************************************************************)

LEMMA LogIsSeq ==
    ASSUME NEW l \in Logs
    PROVE  /\ l \in Seq(Revs) /\ Len(l) \in 0..MaxCommits /\ DOMAIN l = 1..Len(l)
           /\ \A i \in 1..Len(l) : l[i] \in Revs
<1>1. PICK n \in 0..MaxCommits : l \in [1..n -> Revs]
    BY DEF Logs
<1>2. n \in Nat
    BY MigrationAssumption
<1>3. l \in Seq(Revs) /\ Len(l) = n
    BY <1>1, <1>2
<1>4. QED BY <1>1, <1>3

LEMMA SeqIsLog ==
    ASSUME NEW l \in Seq(Revs), Len(l) <= MaxCommits
    PROVE  l \in Logs
<1>1. Len(l) \in 0..MaxCommits /\ l \in [1..Len(l) -> Revs]
    BY MigrationAssumption
<1>2. QED BY <1>1 DEF Logs

LEMMA AppendLog ==
    ASSUME NEW l \in Logs, Len(l) < MaxCommits, NEW c \in Revs
    PROVE  /\ Append(l, c) \in Logs /\ Len(Append(l, c)) = Len(l) + 1
           /\ \A i \in 1..Len(l) : Append(l, c)[i] = l[i]
           /\ Append(l, c)[Len(l) + 1] = c
<1> DEFINE k == Append(l, c)
<1>1. l \in Seq(Revs) /\ Len(l) \in Nat /\ MaxCommits \in Nat
    BY LogIsSeq, MigrationAssumption
<1>2. /\ k \in Seq(Revs) /\ Len(k) = Len(l) + 1
      /\ \A i \in 1..Len(l) : k[i] = l[i]
      /\ k[Len(l) + 1] = c
    BY <1>1
<1> HIDE DEF k
<1>3. k \in Logs
    BY <1>1, <1>2, SeqIsLog
<1>4. QED BY <1>2, <1>3 DEF k

LEMMA EmptyLog == <<>> \in Logs /\ Len(<<>>) = 0
<1> DEFINE l == <<>>
<1>1. l \in Seq(Revs) /\ Len(l) = 0
    BY EmptySeq
<1> HIDE DEF l
<1>2. Len(l) <= MaxCommits
    BY <1>1, MigrationAssumption
<1>3. l \in Logs
    BY <1>1, <1>2, SeqIsLog
<1>4. QED BY <1>1, <1>3 DEF l

LEMMA PrefixTransitive ==
    ASSUME NEW l \in Logs, NEW k \in Logs, NEW j \in Logs, Prefix(l, k), Prefix(k, j)
    PROVE  Prefix(l, j)
BY LogIsSeq DEF Prefix

\* Of two beginnings of one log the shorter is a beginning of the longer.
LEMMA PrefixesNest ==
    ASSUME NEW l \in Logs, NEW k \in Logs, NEW j \in Logs, Prefix(l, j), Prefix(k, j),
           Len(l) <= Len(k)
    PROVE  Prefix(l, k)
BY LogIsSeq DEF Prefix

LEMMA PrefixGrows ==
    ASSUME NEW l \in Logs, NEW k \in Logs, Len(k) < MaxCommits, NEW c \in Revs, Prefix(l, k)
    PROVE  Prefix(l, Append(k, c))
<1>1. Prefix(k, Append(k, c))
    BY AppendLog, LogIsSeq DEF Prefix
<1>2. QED BY <1>1, AppendLog, PrefixTransitive

LEMMA PrefixItself == ASSUME NEW l \in Logs PROVE Prefix(l, l) /\ Prefix(<<>>, l)
BY EmptyLog, LogIsSeq DEF Prefix

LEMMA RepoTypes ==
    ASSUME MigrationTypeOK, NEW s \in Servers
    PROVE  /\ repo[s].log \in Logs /\ repo[s].uuid \in {"none", "new", "project"}
           /\ m.source \in Servers /\ m.target \in Servers /\ bound \in Servers
           /\ Holds(s) = {repo[s].log[i] : i \in 1..Len(repo[s].log)}
           /\ Len(repo[s].log) \in 0..MaxCommits /\ m.seen \in 0..MaxCommits /\ m.dump \in Logs
BY LogIsSeq DEF MigrationTypeOK, Holds

LEMMA HoldsRevs ==
    ASSUME MigrationTypeOK, NEW s \in Servers
    PROVE  Holds(s) \subseteq Revs
<1>1. repo[s].log \in Logs
    BY RepoTypes
<1>2. QED BY <1>1, LogIsSeq DEF Holds

(***************************************************************************)
(* Steps of the migration that write neither a repository nor a pointer.   *)
(***************************************************************************)

LEMMA BeginInspects ==
    ASSUME OneWay, MigrationInv, Begin
    PROVE  /\ m.phase = "starting" /\ m' = [m EXCEPT !.phase = "inspect"] /\ cancel' = FALSE
           /\ UNCHANGED <<repo, wc, bound, commits, left, late>>
<1>1. wc[TD] = bound /\ m.target # bound /\ m.target \in Servers /\ bound \in Servers
    BY DEF Begin, MigrationInv, MigrationTypeOK, Pointers, Running, Ahead
<1>2. Host[wc[TD]] # Host[m.target]
    BY <1>1 DEF OneWay
<1>3. QED BY <1>2 DEF Begin, To

QuietStep ==
    \/ \E t \in Servers : StartMigration(t)
    \/ Cancel \/ Begin \/ InspectSource \/ InspectTarget \/ StartTransfer \/ EndTransfer
    \/ Verify \/ Crash

LEMMA QuietUnchanged ==
    ASSUME QuietStep
    PROVE  UNCHANGED <<repo, wc, bound, commits, left, late>>
BY DEF QuietStep, StartMigration, Cancel, Begin, InspectSource, InspectTarget, StartTransfer,
       EndTransfer, Verify, Crash

Migrations == [phase : Running \cup {"idle", "succeeded", "failed"},
               source : Servers, target : Servers, seen : 0..MaxCommits,
               dump : Logs, held : SUBSET Revs, inTime : BOOLEAN]

LEMMA NoMigrationTypes ==
    /\ NoMigration \in Migrations /\ \A n \in Nat : Len(NoMigration.dump) <= n
    /\ NoMigration.phase = "idle" /\ NoMigration.inTime = FALSE
BY EmptyLog, MigrationAssumption DEF NoMigration, Migrations

LEMMA CommitsPositive == MigrationTypeOK => commits \in Nat /\ commits > 0 /\ commits <= MaxCommits
BY MigrationAssumption DEF MigrationTypeOK, Revs

LEMMA QuietTypes ==
    ASSUME MigrationTypeOK, LogsFit, QuietStep
    PROVE  MigrationTypeOK' /\ LogsFit'
<1>1. MigrationTypeOK /\ LogsFit /\ m \in Migrations /\ commits \in Nat
    BY CommitsPositive DEF MigrationTypeOK, Migrations
<1>2. UNCHANGED <<repo, wc, bound, commits, left, late>>
    BY QuietUnchanged
<1>3. m' \in Migrations /\ (m'.dump = m.dump \/ Len(m'.dump) <= commits) /\ cancel' \in BOOLEAN
  <2>1. ASSUME NEW t \in Servers, StartMigration(t)
        PROVE  m' \in Migrations /\ Len(m'.dump) <= commits /\ cancel' = cancel
    <3>1. Holds(bound) \subseteq Revs /\ bound \in Servers
        BY <1>1, HoldsRevs DEF MigrationTypeOK
    <3>2. m' = [NoMigration EXCEPT !.phase = "starting", !.source = bound,
                                   !.target = t, !.held = Holds(bound)]
        BY <2>1 DEF StartMigration
    <3>3. m' \in Migrations /\ m'.dump = NoMigration.dump
        BY <3>1, <3>2, NoMigrationTypes DEF Migrations, Running
    <3>4. QED BY <1>1, <2>1, <3>3, NoMigrationTypes DEF StartMigration
  <2>2. CASE Cancel
    <3> DEFINE b == m.phase \in {"inspect", "target", "create", "transfer", "load"}
    <3>1. b \in BOOLEAN /\ m' = [m EXCEPT !.inTime = b]
        BY <2>2 DEF Cancel
    <3> HIDE DEF b
    <3>2. m' \in Migrations /\ m'.dump = m.dump
        BY <1>1, <3>1 DEF Migrations
    <3>3. QED BY <2>2, <3>2 DEF Cancel
  <2>3. CASE Begin
      BY <1>1, <2>3 DEF Begin, To, Migrations, Running
  <2>4. CASE InspectSource
      BY <1>1, <2>4, RepoTypes DEF InspectSource, To, MigrationTypeOK, Migrations, Running
  <2>5. CASE InspectTarget \/ EndTransfer \/ Verify
      BY <1>1, <2>5
         DEF InspectTarget, EndTransfer, Verify, To, MigrationTypeOK, Migrations, Running
  <2>6. CASE StartTransfer
      BY <1>1, <2>6, RepoTypes DEF StartTransfer, MigrationTypeOK, LogsFit, Migrations, Running
  <2>7. CASE Crash
    <3>1. m' = NoMigration /\ cancel' = FALSE
        BY <2>7 DEF Crash
    <3>2. m' \in Migrations /\ Len(m'.dump) <= commits
        BY <1>1, <3>1, NoMigrationTypes
    <3>3. QED BY <3>1, <3>2
  <2>8. QED BY <1>1, <2>1, <2>2, <2>3, <2>4, <2>5, <2>6, <2>7 DEF QuietStep, MigrationTypeOK
<1>4. QED BY <1>1, <1>2, <1>3 DEF MigrationTypeOK, LogsFit, Migrations

(***************************************************************************)
(* Types, whatever the constants are.                                      *)
(***************************************************************************)

\* Server s gets revision c, on top of what it has.
Grows(s, c) ==
    /\ repo'[s].log = Append(repo[s].log, c)
    /\ \A t \in Servers \ {s} : repo'[t] = repo[t]

LEMMA GrowingLogs ==
    ASSUME MigrationTypeOK, NEW s \in Servers, NEW c \in Revs, Len(repo[s].log) < MaxCommits,
           Grows(s, c)
    PROVE  /\ repo'[s].log \in Logs /\ Len(repo'[s].log) = Len(repo[s].log) + 1
           /\ c \in Holds(s)'
           /\ \A t \in Servers : /\ repo'[t].log \in Logs
                                 /\ Holds(t) \subseteq Holds(t)'
                                 /\ Holds(t)' \subseteq Holds(t) \cup {c}
                                 /\ Prefix(repo[t].log, repo'[t].log)
<1>1. repo[s].log \in Logs /\ Len(repo[s].log) \in Nat
    BY RepoTypes
<1>2. /\ repo'[s].log \in Logs /\ Len(repo'[s].log) = Len(repo[s].log) + 1
      /\ \A i \in 1..Len(repo[s].log) : repo'[s].log[i] = repo[s].log[i]
      /\ repo'[s].log[Len(repo[s].log) + 1] = c
    BY <1>1, AppendLog DEF Grows
<1>3. DOMAIN repo[s].log = 1..Len(repo[s].log) /\ DOMAIN repo'[s].log = 1..Len(repo'[s].log)
    BY <1>1, <1>2, LogIsSeq
<1>4. /\ c \in Holds(s)' /\ Holds(s) \subseteq Holds(s)' /\ Holds(s)' \subseteq Holds(s) \cup {c}
      /\ Prefix(repo[s].log, repo'[s].log)
  <2>1. /\ Holds(s) = {repo[s].log[i] : i \in 1..Len(repo[s].log)}
        /\ Holds(s)' = {repo'[s].log[i] : i \in 1..(Len(repo[s].log) + 1)}
      BY <1>2, <1>3 DEF Holds
  <2>2. Prefix(repo[s].log, repo'[s].log)
      BY <1>1, <1>2 DEF Prefix
  <2>3. c \in Holds(s)'
      BY <1>1, <1>2, <2>1
  <2>4. Holds(s) \subseteq Holds(s)'
      BY <1>1, <1>2, <2>1
  <2>5. Holds(s)' \subseteq Holds(s) \cup {c}
      BY <1>1, <1>2, <2>1
  <2>6. QED BY <2>2, <2>3, <2>4, <2>5
<1>5. ASSUME NEW t \in Servers \ {s}
      PROVE  /\ repo'[t].log \in Logs /\ Holds(t)' = Holds(t)
             /\ Prefix(repo[t].log, repo'[t].log)
    BY <1>5, RepoTypes, PrefixItself DEF Grows, Holds
<1>6. QED BY <1>2, <1>4, <1>5

LEMMA PhaseChanges ==
    ASSUME MigrationTypeOK, NEW phase, To(phase)
    PROVE  /\ m'.phase = phase /\ m'.source = m.source /\ m'.target = m.target /\ m'.seen = m.seen
           /\ m'.dump = m.dump /\ m'.held = m.held /\ m'.inTime = m.inTime
           /\ phase \in Running \cup {"idle", "succeeded", "failed"} => m' \in Migrations
BY DEF MigrationTypeOK, To, Migrations

LEMMA CommitGrows ==
    ASSUME MigrationTypeOK, NEW u \in Committers, StudioCommits(u), NEW s \in Servers, s = wc[u],
           NEW c, c = commits + 1
    PROVE  /\ repo' = [repo EXCEPT ![s] = [uuid |-> repo[s].uuid, log |-> Append(repo[s].log, c)]]
           /\ Grows(s, c)
<1>1. repo' = [repo EXCEPT ![s].log = Append(@, c)]
    BY DEF StudioCommits
<1>2. [repo[s] EXCEPT !.log = Append(repo[s].log, c)]
          = [uuid |-> repo[s].uuid, log |-> Append(repo[s].log, c)]
  <2>1. PICK r \in [uuid : {"none", "new", "project"}, log : Logs] : r = repo[s]
      BY DEF MigrationTypeOK
  <2>2. \A l : [r EXCEPT !.log = l] = [uuid |-> r.uuid, log |-> l]
      OBVIOUS
  <2>3. QED BY <2>1, <2>2
<1>3. repo' = [repo EXCEPT ![s] = [uuid |-> repo[s].uuid, log |-> Append(repo[s].log, c)]]
    BY <1>1, <1>2
<1>4. QED BY <1>3 DEF MigrationTypeOK, Grows

LEMMA CommitTypes ==
    ASSUME MigrationTypeOK, LogsFit, NEW u \in Committers, StudioCommits(u)
    PROVE  MigrationTypeOK' /\ LogsFit'
<1>1. PICK s \in Servers, c \in Nat : s = wc[u] /\ c = commits + 1
    BY CommitsPositive DEF MigrationTypeOK
<1>2. /\ c \in Revs /\ commits \in Nat /\ commits < MaxCommits
      /\ Len(repo[s].log) \in Nat /\ Len(repo[s].log) < MaxCommits
  <2>1. commits \in Nat /\ commits < MaxCommits /\ MaxCommits \in Nat
      BY CommitsPositive, MigrationAssumption DEF StudioCommits
  <2>2. c \in Revs
      BY <1>1, <2>1 DEF Revs
  <2>3. Len(repo[s].log) \in Nat /\ Len(repo[s].log) <= commits /\ Len(repo[s].log) < MaxCommits
      BY <2>1, RepoTypes DEF LogsFit
  <2>4. QED BY <2>1, <2>2, <2>3
<1>3. /\ repo' = [repo EXCEPT ![s] = [uuid |-> repo[s].uuid, log |-> Append(repo[s].log, c)]]
      /\ Grows(s, c)
    BY <1>1, CommitGrows
<1>4. /\ UNCHANGED <<wc, bound, m, cancel, left>> /\ commits' = c
      /\ late' = IF m.phase = "idle" THEN late ELSE late \cup {c}
    BY <1>1 DEF StudioCommits
<1>5. /\ repo'[s].log \in Logs /\ Len(repo'[s].log) = Len(repo[s].log) + 1
      /\ \A t \in Servers : repo'[t].log \in Logs
    BY <1>2, <1>3, GrowingLogs
<1>6. repo' \in [Servers -> [uuid : {"none", "new", "project"}, log : Logs]]
    BY <1>3, <1>5 DEF MigrationTypeOK
<1>7. \A t \in Servers : Len(repo'[t].log) <= c
    BY <1>1, <1>2, <1>3, <1>5, RepoTypes DEF Grows, LogsFit
<1>8. Len(m.dump) <= c
    BY <1>1, <1>2, RepoTypes, LogIsSeq DEF LogsFit
<1>9. QED BY <1>1, <1>2, <1>4, <1>6, <1>7, <1>8 DEF MigrationTypeOK, LogsFit

LEMMA CreateTypes ==
    ASSUME MigrationTypeOK, LogsFit, CreateTarget
    PROVE  MigrationTypeOK' /\ LogsFit'
<1>1. UNCHANGED <<wc, bound, cancel, commits, left, late>> /\ m.target \in Servers
    BY DEF CreateTarget, MigrationTypeOK
<1>2. m' \in Migrations /\ m'.dump = m.dump
  <2>1. To("failed") \/ To("transfer")
      BY DEF CreateTarget
  <2>2. QED BY <2>1, PhaseChanges DEF Running
<1>3. /\ \A s \in Servers \ {m.target} : repo'[s] = repo[s]
      /\ \/ repo'[m.target] = repo[m.target]
         \/ repo'[m.target] = [uuid |-> "new", log |-> <<>>]
      /\ repo' \in [Servers -> [uuid : {"none", "new", "project"}, log : Logs]]
    BY <1>1, EmptyLog DEF CreateTarget, MigrationTypeOK
<1>4. commits \in Nat /\ Len(repo'[m.target].log) <= commits
    BY <1>1, <1>3, EmptyLog, CommitsPositive DEF LogsFit
<1>5. \A s \in Servers : Len(repo'[s].log) <= commits
    BY <1>3, <1>4 DEF LogsFit
<1>6. MigrationTypeOK'
    BY <1>1, <1>2, <1>3 DEF MigrationTypeOK, Migrations
<1>7. QED BY <1>1, <1>2, <1>5, <1>6 DEF LogsFit

LEMMA LoadTypes ==
    ASSUME MigrationTypeOK, LogsFit, LoadRevision
    PROVE  MigrationTypeOK' /\ LogsFit'
<1>1. UNCHANGED <<wc, bound, m, cancel, commits, left, late>>
    BY DEF LoadRevision
<1>2. PICK t \in Servers : t = m.target
    BY DEF MigrationTypeOK
<1>3. PICK n \in Nat : /\ n = Len(repo[t].log) /\ n < Len(m.dump) /\ n < MaxCommits
                       /\ m.dump[n + 1] \in Revs /\ Len(m.dump) <= commits
  <2>1. /\ Len(repo[t].log) \in Nat /\ Len(repo[t].log) < Len(m.dump)
        /\ Len(m.dump) \in 0..MaxCommits /\ \A i \in 1..Len(m.dump) : m.dump[i] \in Revs
      BY <1>2, RepoTypes, LogIsSeq DEF LoadRevision
  <2>2. Len(m.dump) <= commits /\ MaxCommits \in Nat
      BY MigrationAssumption DEF LogsFit
  <2>3. Len(repo[t].log) < MaxCommits /\ Len(repo[t].log) + 1 \in 1..Len(m.dump)
      BY <2>1, <2>2
  <2>4. QED BY <2>1, <2>2, <2>3
<1>4. PICK c \in Revs : c = m.dump[n + 1]
    BY <1>3
<1>5. repo' = [repo EXCEPT ![t] = [uuid |-> "project", log |-> Append(repo[t].log, c)]]
    BY <1>2, <1>3, <1>4 DEF LoadRevision
<1>6. Grows(t, c)
    BY <1>5 DEF MigrationTypeOK, Grows
<1>7. repo'[t].log \in Logs /\ Len(repo'[t].log) = n + 1
    BY <1>3, <1>6, GrowingLogs
<1>8. repo' \in [Servers -> [uuid : {"none", "new", "project"}, log : Logs]]
  <2>1. repo' = [repo EXCEPT ![t] = repo'[t]]
      BY <1>5 DEF MigrationTypeOK
  <2>2. repo'[t] \in [uuid : {"none", "new", "project"}, log : Logs]
    <3> DEFINE l == Append(repo[t].log, c)
    <3>1. repo'[t] = [uuid |-> "project", log |-> l]
        BY <1>5 DEF MigrationTypeOK
    <3> HIDE DEF l
    <3>2. l \in Logs
        BY <1>7, <3>1
    <3>3. QED BY <3>1, <3>2
  <2>3. QED BY <2>1, <2>2 DEF MigrationTypeOK
<1>9. Len(repo'[t].log) <= commits
    BY <1>3, <1>7, CommitsPositive, RepoTypes, LogIsSeq
<1>10. \A s \in Servers : Len(repo'[s].log) <= commits
    BY <1>6, <1>9 DEF LogsFit, Grows
<1>11. QED BY <1>1, <1>8, <1>10 DEF MigrationTypeOK, LogsFit

LEMMA OtherTypes ==
    ASSUME MigrationTypeOK, LogsFit, Relocate \/ Record \/ AnswerOld \/ AnswerTarget
    PROVE  MigrationTypeOK' /\ LogsFit'
<1>1. m.source \in Servers /\ m.target \in Servers /\ bound \in Servers
    BY DEF MigrationTypeOK
<1>2. CASE Relocate
  <2>1. m' \in Migrations /\ m'.dump = m.dump
    <3>1. To("record") \/ To("failed")
        BY <1>2 DEF Relocate
    <3>2. QED BY <3>1, PhaseChanges DEF Running
  <2>2. wc' \in [Committers -> Servers] /\ UNCHANGED <<repo, bound, cancel, commits, left, late>>
      BY <1>1, <1>2 DEF Relocate, MigrationTypeOK
  <2>3. QED BY <2>1, <2>2 DEF MigrationTypeOK, Migrations, LogsFit
<1>3. CASE Record
  <2>1. m' \in Migrations /\ m'.dump = m.dump
      BY <1>3, PhaseChanges DEF Record
  <2>2. /\ bound' \in Servers /\ left' \in SUBSET Servers
        /\ UNCHANGED <<repo, wc, cancel, commits, late>>
      BY <1>1, <1>3 DEF Record, MigrationTypeOK
  <2>3. QED BY <2>1, <2>2 DEF MigrationTypeOK, Migrations, LogsFit
<1>4. CASE AnswerOld \/ AnswerTarget
  <2>1. m' \in Migrations /\ Len(m'.dump) <= commits
      BY <1>4, NoMigrationTypes, CommitsPositive DEF AnswerOld, AnswerTarget
  <2>2. /\ repo' = repo \/ \E s \in Servers : repo' = [repo EXCEPT ![s] = NoRepo]
        /\ UNCHANGED <<wc, bound, cancel, commits, left, late>>
      BY <1>1, <1>4 DEF AnswerOld, AnswerTarget, Destroyed
  <2>3. repo' \in [Servers -> [uuid : {"none", "new", "project"}, log : Logs]]
      BY <2>2, EmptyLog DEF MigrationTypeOK, NoRepo
  <2>4. \A t \in Servers : repo'[t].log = repo[t].log \/ repo'[t].log = <<>>
      BY <2>2 DEF MigrationTypeOK, NoRepo
  <2>5. \A t \in Servers : Len(repo'[t].log) <= commits
      BY <2>4, EmptyLog, CommitsPositive DEF LogsFit
  <2>6. QED BY <2>1, <2>2, <2>3, <2>5 DEF MigrationTypeOK, Migrations, LogsFit
<1>5. QED BY <1>2, <1>3, <1>4

LEMMA TypesKept ==
    ASSUME MigrationTypeOK, LogsFit, MigrationNext
    PROVE  MigrationTypeOK' /\ LogsFit'
<1>1. ASSUME NEW u \in Committers, StudioCommits(u)
      PROVE  MigrationTypeOK' /\ LogsFit'
    BY <1>1, CommitTypes
<1>2. QED
    BY <1>1, QuietTypes, CreateTypes, LoadTypes, OtherTypes DEF MigrationNext, Work, QuietStep

\* What such a step does to the migration.
QuietMoves ==
    \/ m'.phase = "idle" /\ ~m'.inTime
    \/ /\ m'.phase = "starting" /\ m'.source = bound /\ m'.target \in Ahead
       /\ m'.held = Holds(bound) /\ ~m'.inTime
    \/ /\ m'.source = m.source /\ m'.target = m.target /\ m'.held = m.held
       /\ \/ /\ m.phase \in Running /\ m'.phase = m.phase /\ m'.seen = m.seen /\ m'.dump = m.dump
             /\ cancel'
             /\ m'.inTime => m.phase \in {"inspect", "target", "create", "transfer", "load"}
          \/ (m'.inTime => m.inTime) /\ m.phase = "starting" /\ m'.phase = "inspect"
          \/ /\ (m'.inTime => m.inTime) /\ (cancel => cancel')
             /\ \/ m.phase \in Running /\ m'.phase = "failed"
                \/ /\ m.phase = "inspect" /\ m'.phase = "target"
                   /\ m'.seen = Len(repo[m.source].log)
                \/ /\ m.phase = "target" /\ m'.phase \in {"create", "transfer"} /\ m'.seen = m.seen
                   /\ m'.phase = "transfer" => repo[m.target].log = <<>>
                \/ /\ m.phase = "target" /\ m'.phase = "verify" /\ m'.seen = m.seen /\ ~cancel
                   /\ Len(repo[m.target].log) = m.seen
                \/ /\ m.phase = "transfer" /\ m'.phase = "load" /\ m'.seen = m.seen
                   /\ m'.dump = repo[m.source].log
                \/ /\ m.phase = "load" /\ m'.phase = "verify" /\ m'.seen = m.seen /\ ~cancel
                   /\ Len(repo[m.target].log) = Len(m.dump)
                \/ /\ m.phase = "verify" /\ m'.phase = "relocate" /\ m'.seen = m.seen
                   /\ Len(repo[m.target].log) = m.seen

LEMMA QuietEffect ==
    ASSUME OneWay, MigrationInv, QuietStep
    PROVE  QuietMoves /\ (m.phase = "record" => m'.phase = "record")
<1>1. m \in Migrations
    BY DEF MigrationInv, MigrationTypeOK, Migrations
<1>2. ASSUME NEW t \in Servers, StartMigration(t)
      PROVE  QuietMoves /\ m.phase = "idle"
  <2>1. m' = [NoMigration EXCEPT !.phase = "starting", !.source = bound,
                                 !.target = t, !.held = Holds(bound)]
      BY <1>2 DEF StartMigration
  <2>2. m'.phase = "starting" /\ m'.source = bound /\ m'.target = t /\ m'.held = Holds(bound)
        /\ ~m'.inTime
      BY <2>1, NoMigrationTypes DEF Migrations
  <2>3. t \in Ahead
      BY <1>2 DEF StartMigration, OneWay, Ahead
  <2>4. QED BY <1>2, <2>2, <2>3 DEF QuietMoves, StartMigration
<1>3. CASE Cancel
  <2> DEFINE b == m.phase \in {"inspect", "target", "create", "transfer", "load"}
  <2>1. b \in BOOLEAN /\ m' = [m EXCEPT !.inTime = b] /\ m.phase \in Running /\ cancel'
      BY <1>3 DEF Cancel
  <2>2. m'.inTime = b
    <3> HIDE DEF b
    <3>1. QED BY <1>1, <2>1 DEF Migrations
  <2>3. /\ m'.source = m.source /\ m'.target = m.target /\ m'.held = m.held
        /\ m'.phase = m.phase /\ m'.seen = m.seen /\ m'.dump = m.dump
    <3> HIDE DEF b
    <3>1. QED BY <1>1, <2>1 DEF Migrations
  <2>4. QED BY <2>1, <2>2, <2>3 DEF QuietMoves
<1>4. CASE Begin
    BY <1>1, <1>4, BeginInspects DEF Migrations, QuietMoves
<1>5. CASE InspectSource
    BY <1>1, <1>5 DEF InspectSource, To, Migrations, QuietMoves, Running
<1>6. CASE InspectTarget
  <2>1. PICK phase \in {"create", "transfer", "verify", "failed"} :
            /\ m' = [m EXCEPT !.phase = phase]
            /\ phase = "transfer" => repo[m.target].log = <<>>
            /\ phase = "verify" => ~cancel /\ Len(repo[m.target].log) = m.seen
      BY <1>6 DEF InspectTarget, To, AlreadyLoaded
  <2>2. cancel' = cancel /\ m.phase = "target"
      BY <1>6 DEF InspectTarget
  <2>3. /\ m'.source = m.source /\ m'.target = m.target /\ m'.held = m.held
        /\ m'.phase = phase /\ m'.seen = m.seen /\ m'.inTime = m.inTime
      BY <1>1, <2>1 DEF Migrations
  <2>4. (m'.inTime => m.inTime) /\ (cancel => cancel')
      BY <2>2, <2>3
  <2>5. QED BY <2>1, <2>2, <2>3, <2>4 DEF QuietMoves, Running
<1>7. CASE StartTransfer \/ EndTransfer \/ Verify
  <2>1. CASE StartTransfer
    <3>1. /\ m'.source = m.source /\ m'.target = m.target /\ m'.held = m.held /\ m'.seen = m.seen
          /\ m'.phase = "load" /\ m'.dump = repo[m.source].log /\ m'.inTime = m.inTime
        BY <1>1, <2>1 DEF StartTransfer, Migrations
    <3>2. (m'.inTime => m.inTime) /\ (cancel => cancel') /\ m.phase = "transfer"
        BY <2>1, <3>1 DEF StartTransfer
    <3>3. QED BY <3>1, <3>2 DEF QuietMoves
  <2>2. CASE EndTransfer \/ Verify
    <3>1. PICK phase \in {"verify", "relocate", "failed"} :
              /\ m' = [m EXCEPT !.phase = phase]
              /\ phase = "verify" => /\ m.phase = "load" /\ ~cancel
                                    /\ Len(repo[m.target].log) = Len(m.dump)
              /\ phase = "relocate" => m.phase = "verify" /\ Len(repo[m.target].log) = m.seen
        BY <2>2 DEF EndTransfer, Verify, To
    <3>2. m.phase \in {"load", "verify"} /\ m.phase \in Running
        BY <2>2 DEF EndTransfer, Verify, Running
    <3>3. /\ m'.source = m.source /\ m'.target = m.target /\ m'.held = m.held
          /\ m'.phase = phase /\ m'.seen = m.seen
        BY <1>1, <3>1 DEF Migrations
    <3>4. m'.inTime = m.inTime
        BY <1>1, <3>1 DEF Migrations
    <3>5. (m'.inTime => m.inTime) /\ (cancel => cancel')
        BY <2>2, <3>4 DEF EndTransfer, Verify
    <3>6. CASE phase = "failed"
        BY <3>2, <3>3, <3>5, <3>6 DEF QuietMoves
    <3>7. CASE phase # "failed"
        BY <3>1, <3>3, <3>5, <3>7 DEF QuietMoves
    <3>8. QED BY <3>6, <3>7
  <2>3. QED BY <1>7, <2>1, <2>2
<1>8. CASE Crash
    BY <1>8, NoMigrationTypes DEF Crash, QuietMoves, OneWay, Goes
<1>9. QED BY <1>2, <1>3, <1>4, <1>5, <1>6, <1>7, <1>8 DEF QuietStep

LEMMA QuietKeeps ==
    ASSUME OneWay, MigrationInv, QuietStep
    PROVE  MigrationInv'
<1>1. /\ MigrationTypeOK /\ LogsFit /\ Pointers /\ Served /\ Leftovers /\ HeldOnTheWay
      /\ SinceIsLate /\ CancelSeen /\ CommitsSurvive
    BY DEF MigrationInv
<1>2. /\ UNCHANGED <<repo, wc, bound, commits, left, late>>
      /\ QuietMoves /\ (m.phase = "record" => m'.phase = "record")
    BY QuietUnchanged, QuietEffect
<1>3. /\ Ahead' = Ahead /\ \A s \in Servers : Holds(s)' = Holds(s)
      /\ bound \in Servers
    BY <1>1, <1>2 DEF Ahead, Holds, MigrationTypeOK
<1>4. \A s \in Servers : repo[s].log \in Logs /\ Len(repo[s].log) \in Nat
    BY <1>1, RepoTypes
<1>5. Pointers'
    BY <1>1, <1>2, <1>3 DEF Pointers, QuietMoves, Running
<1>6. Served'
    BY <1>1, <1>2 DEF Served, QuietMoves
<1>7. Leftovers'
  <2>1. \A t \in Ahead : (m'.phase = "record" => t # m'.target) => Prefix(repo[t].log, repo[bound].log)
      BY <1>1, <1>2 DEF Leftovers, QuietMoves
  <2>2. m'.phase \in Running \ {"starting", "inspect"} =>
            \A t \in Ahead \ {m'.target} : Len(repo[t].log) <= m'.seen
    <3>1. CASE m.phase = "inspect" /\ m'.phase = "target"
        BY <1>1, <1>2, <3>1 DEF Leftovers, QuietMoves, Pointers, Prefix, Running
    <3>2. CASE ~(m.phase = "inspect" /\ m'.phase = "target")
        BY <1>1, <1>2, <3>2 DEF Leftovers, QuietMoves, Running
    <3>3. QED BY <3>1, <3>2
  <2>3. m'.phase = "record" => \A t \in Ahead \ {m'.target} : Prefix(repo[t].log, repo[m'.target].log)
      BY <1>1, <1>2 DEF Leftovers, QuietMoves
  <2>4. m'.phase = "relocate" => Len(repo[m'.target].log) = m'.seen
      BY <1>1, <1>2 DEF Leftovers, QuietMoves
  <2>5. m'.phase = "load" => Prefix(m'.dump, repo[bound].log) /\ Prefix(repo[m'.target].log, m'.dump)
    <3>1. CASE m.phase = "transfer" /\ m'.phase = "load"
        BY <1>1, <1>2, <1>3, <1>4, <3>1, PrefixItself DEF Leftovers, QuietMoves, Pointers, Running
    <3>2. CASE ~(m.phase = "transfer" /\ m'.phase = "load")
        BY <1>1, <1>2, <3>2 DEF Leftovers, QuietMoves
    <3>3. QED BY <3>1, <3>2
  <2>6. QED BY <1>2, <1>3, <2>1, <2>2, <2>3, <2>4, <2>5 DEF Leftovers, Prefix
<1>8. HeldOnTheWay'
  <2>1. m'.phase \in Running \cup {"failed"} => m'.held \subseteq Holds(bound)
      BY <1>1, <1>2 DEF HeldOnTheWay, QuietMoves, Running
  <2>2. m'.phase \in Running \ {"starting", "inspect"} =>
            \A c \in m'.held : \E i \in 1..m'.seen : i <= Len(repo[bound].log) /\ repo[bound].log[i] = c
    <3>1. CASE m.phase = "inspect" /\ m'.phase = "target"
      <4>1. m'.seen = Len(repo[bound].log) /\ m'.held \subseteq Holds(bound)
          BY <1>1, <1>2, <3>1 DEF HeldOnTheWay, QuietMoves, Pointers, Running
      <4>2. Holds(bound) = {repo[bound].log[i] : i \in 1..Len(repo[bound].log)}
          BY <1>1, <1>3, RepoTypes
      <4>3. QED BY <1>3, <1>4, <4>1, <4>2
    <3>2. CASE ~(m.phase = "inspect" /\ m'.phase = "target")
        BY <1>1, <1>2, <3>2 DEF HeldOnTheWay, QuietMoves, Running
    <3>3. QED BY <3>1, <3>2
  <2>3. m'.phase = "load" => \A c \in m'.held : \E i \in 1..Len(m'.dump) : m'.dump[i] = c
    <3>1. CASE m.phase = "transfer" /\ m'.phase = "load"
      <4>1. m'.dump = repo[bound].log /\ m'.held \subseteq Holds(bound)
          BY <1>1, <1>2, <3>1 DEF HeldOnTheWay, QuietMoves, Pointers, Running
      <4>2. Holds(bound) = {repo[bound].log[i] : i \in 1..Len(repo[bound].log)}
          BY <1>1, <1>3, RepoTypes
      <4>3. QED BY <1>3, <1>4, <4>1, <4>2
    <3>2. CASE ~(m.phase = "transfer" /\ m'.phase = "load")
        BY <1>1, <1>2, <3>2 DEF HeldOnTheWay, QuietMoves
    <3>3. QED BY <3>1, <3>2
  <2>4. m'.phase \in {"verify", "relocate", "record", "succeeded"} => m'.held \subseteq Holds(m'.target)
    <3>1. CASE m.phase = "target" /\ m'.phase = "verify"
      <4>1. /\ Prefix(repo[m.target].log, repo[bound].log) /\ Len(repo[m.target].log) = m.seen
            /\ m.target \in Servers
          BY <1>1, <1>2, <3>1 DEF Leftovers, QuietMoves, Pointers, Running, Ahead
      <4>2. \A c \in m.held : \E i \in 1..m.seen : repo[bound].log[i] = c
          BY <1>1, <3>1 DEF HeldOnTheWay, Running
      <4>3. Holds(m.target) = {repo[m.target].log[i] : i \in 1..Len(repo[m.target].log)}
          BY <1>1, <4>1, RepoTypes
      <4>4. QED BY <1>2, <3>1, <4>1, <4>2, <4>3 DEF Prefix, QuietMoves
    <3>2. CASE m.phase = "load" /\ m'.phase = "verify"
      <4>1. /\ Prefix(repo[m.target].log, m.dump) /\ Len(repo[m.target].log) = Len(m.dump)
            /\ m.target \in Servers
          BY <1>1, <1>2, <3>2 DEF Leftovers, QuietMoves, Pointers, Running, Ahead
      <4>2. \A c \in m.held : \E i \in 1..Len(m.dump) : m.dump[i] = c
          BY <1>1, <3>2 DEF HeldOnTheWay
      <4>3. Holds(m.target) = {repo[m.target].log[i] : i \in 1..Len(repo[m.target].log)}
          BY <1>1, <4>1, RepoTypes
      <4>4. QED BY <1>2, <3>2, <4>1, <4>2, <4>3 DEF Prefix, QuietMoves
    <3>3. CASE ~(m.phase \in {"target", "load"} /\ m'.phase = "verify")
        BY <1>1, <1>2, <3>3 DEF HeldOnTheWay, QuietMoves
    <3>4. QED BY <3>1, <3>2, <3>3
  <2>5. m'.phase \in Running \cup {"failed", "succeeded"} => m'.target \in Servers
    <3>1. m.target \in Servers
        BY <1>1 DEF MigrationTypeOK
    <3>2. QED BY <1>2, <3>1 DEF QuietMoves, Ahead, Running
  <2>6. QED BY <1>2, <1>3, <2>1, <2>2, <2>3, <2>4, <2>5 DEF HeldOnTheWay, Running
<1>9. SinceIsLate'
  <2>1. m'.phase # "idle" => m'.source \in Servers /\ Holds(m'.source) \subseteq m'.held \cup late
      BY <1>1, <1>2, <1>3 DEF SinceIsLate, QuietMoves, MigrationTypeOK, Running
  <2>2. QED BY <1>2, <1>3, <2>1 DEF SinceIsLate
<1>10. CancelSeen'
    BY <1>1, <1>2 DEF CancelSeen, QuietMoves, Running
<1>11. CommitsSurvive'
    BY <1>1, <1>2, <1>3 DEF CommitsSurvive
<1>12. QED BY <1>5, <1>6, <1>7, <1>8, <1>9, <1>10, <1>11, QuietTypes DEF MigrationInv

(***************************************************************************)
(* Steps that write a repository or a pointer.                             *)
(***************************************************************************)

LEMMA CommitKeeps ==
    ASSUME OneWay, MigrationInv, NEW u \in Committers, StudioCommits(u)
    PROVE  MigrationInv'
<1>1. /\ MigrationTypeOK /\ LogsFit /\ Pointers /\ Served /\ Leftovers /\ HeldOnTheWay
      /\ SinceIsLate /\ CancelSeen /\ CommitsSurvive
    BY DEF MigrationInv
<1>2. PICK s \in Servers, c \in Nat : s = wc[u] /\ c = commits + 1
    BY <1>1, CommitsPositive DEF MigrationTypeOK
<1>3. /\ c \in Revs /\ commits \in Nat /\ commits < MaxCommits
      /\ Len(repo[s].log) \in Nat /\ Len(repo[s].log) < MaxCommits /\ bound \in Servers
      /\ m.source \in Servers /\ m.target \in Servers
  <2>1. commits \in Nat /\ commits < MaxCommits /\ MaxCommits \in Nat
      BY <1>1, CommitsPositive, MigrationAssumption DEF StudioCommits
  <2>2. c \in Revs
      BY <1>2, <2>1 DEF Revs
  <2>3. Len(repo[s].log) \in Nat /\ Len(repo[s].log) <= commits /\ Len(repo[s].log) < MaxCommits
      BY <1>1, <2>1, RepoTypes DEF LogsFit
  <2>4. QED BY <1>1, <2>1, <2>2, <2>3 DEF MigrationTypeOK
<1>4. /\ repo' = [repo EXCEPT ![s] = [uuid |-> repo[s].uuid, log |-> Append(repo[s].log, c)]]
      /\ Grows(s, c)
    BY <1>1, <1>2, CommitGrows
<1>5. /\ s \in left \cup {bound} \/ (m.phase = "record" /\ s = m.target)
      /\ UNCHANGED <<wc, bound, m, cancel, left>> /\ commits' = c
      /\ late' = IF m.phase = "idle" THEN late ELSE late \cup {c}
    BY <1>1, <1>2 DEF Pointers, Committers, StudioCommits
<1>6. /\ repo'[s].log \in Logs /\ Len(repo'[s].log) = Len(repo[s].log) + 1
      /\ c \in Holds(s)'
      /\ \A t \in Servers : /\ repo'[t].log \in Logs
                            /\ Holds(t) \subseteq Holds(t)'
                            /\ Holds(t)' \subseteq Holds(t) \cup {c}
                            /\ Prefix(repo[t].log, repo'[t].log)
    BY <1>1, <1>3, <1>4, GrowingLogs
<1>7. MigrationTypeOK' /\ LogsFit'
    BY <1>1, CommitTypes
<1>8. Pointers' /\ Served'
  <2>1. \A t \in Servers : repo'[t].uuid = repo[t].uuid
      BY <1>1, <1>3, <1>4 DEF MigrationTypeOK
  <2>2. QED BY <1>1, <1>2, <1>3, <1>5, <2>1 DEF Pointers, Served, Ahead
<1>9. /\ Ahead' = Ahead /\ Ahead \subseteq Servers
      /\ \A t \in Ahead : (m.phase = "record" => t # m.target) => repo'[t] = repo[t]
    BY <1>4, <1>5 DEF Ahead, Grows
<1>10. \A t \in Servers, l \in Logs : Prefix(l, repo[t].log) => Prefix(l, repo'[t].log)
    BY <1>1, <1>6, RepoTypes, PrefixTransitive
<1>11. Leftovers'
  <2>1. \A t \in Ahead : (m.phase = "record" => t # m.target) => Prefix(repo'[t].log, repo'[bound].log)
      BY <1>1, <1>3, <1>9, <1>10, RepoTypes DEF Leftovers
  <2>2. m.phase \in Running \ {"starting", "inspect"} =>
            \A t \in Ahead \ {m.target} : Len(repo'[t].log) <= m.seen
      BY <1>1, <1>9 DEF Leftovers
  <2>3. m.phase = "record" => \A t \in Ahead \ {m.target} : Prefix(repo'[t].log, repo'[m.target].log)
      BY <1>1, <1>3, <1>9, <1>10, RepoTypes DEF Leftovers
  <2>4. m.phase \in {"relocate", "load"} => repo'[m.target] = repo[m.target]
      BY <1>1, <1>9 DEF Pointers, Running
  <2>5. m.phase = "load" => Prefix(m.dump, repo'[bound].log)
      BY <1>1, <1>3, <1>10, RepoTypes DEF Leftovers
  <2>6. QED BY <1>1, <1>5, <1>9, <2>1, <2>2, <2>3, <2>4, <2>5 DEF Leftovers
<1>12. HeldOnTheWay'
  <2>1. m.phase \in Running \ {"starting", "inspect"} =>
            \A d \in m.held : \E i \in 1..m.seen : i <= Len(repo'[bound].log) /\ repo'[bound].log[i] = d
    <3>1. Prefix(repo[bound].log, repo'[bound].log) /\ m.seen \in Nat /\ Len(repo[bound].log) \in Nat
        BY <1>1, <1>3, <1>6, RepoTypes
    <3>2. \A i \in 1..m.seen : i <= Len(repo[bound].log) =>
              i <= Len(repo'[bound].log) /\ repo'[bound].log[i] = repo[bound].log[i]
        BY <1>3, <1>6, <3>1, LogIsSeq DEF Prefix
    <3>3. QED BY <1>1, <3>2 DEF HeldOnTheWay
  <2>2. QED BY <1>1, <1>2, <1>3, <1>5, <1>6, <2>1 DEF HeldOnTheWay
<1>13. SinceIsLate'
    BY <1>1, <1>2, <1>3, <1>5, <1>6 DEF SinceIsLate
<1>14. CancelSeen'
    BY <1>1, <1>5 DEF CancelSeen
<1>15. CommitsSurvive'
  <2>1. \A d \in 1..c : d \in 1..commits \/ d = c
      BY <1>2, <1>3
  <2>2. late \subseteq late'
      BY <1>5
  <2>3. \A d \in 1..c : d \in late' \/ \E t \in Servers : d \in Holds(t)'
      BY <1>1, <1>3, <1>6, <2>1, <2>2 DEF CommitsSurvive
  <2>4. QED BY <1>5, <2>3 DEF CommitsSurvive
<1>16. QED BY <1>7, <1>8, <1>11, <1>12, <1>13, <1>14, <1>15 DEF MigrationInv

LEMMA CreateKeeps ==
    ASSUME OneWay, MigrationInv, CreateTarget
    PROVE  MigrationInv'
<1>1. /\ MigrationTypeOK /\ LogsFit /\ Pointers /\ Served /\ Leftovers /\ HeldOnTheWay
      /\ SinceIsLate /\ CancelSeen /\ CommitsSurvive
    BY DEF MigrationInv
<1>2. /\ m.phase = "create"
      /\ UNCHANGED <<wc, bound, cancel, commits, left, late>>
      /\ \/ To("failed")
         \/ ~cancel /\ To("transfer")
    BY DEF CreateTarget
<1>3. /\ bound \in Servers /\ m.source = bound /\ m.target \in Ahead /\ m.target \in Servers
      /\ m.target # bound
    BY <1>1, <1>2 DEF Pointers, Running, Ahead, MigrationTypeOK
<1>4. /\ \A s \in Servers \ {m.target} : repo'[s] = repo[s]
      /\ \/ repo'[m.target] = repo[m.target]
         \/ repo'[m.target] = [uuid |-> "new", log |-> <<>>]
      /\ repo' \in [Servers -> [uuid : {"none", "new", "project"}, log : Logs]]
    BY <1>1, <1>3, EmptyLog DEF CreateTarget, MigrationTypeOK
<1>5. /\ m'.source = m.source /\ m'.target = m.target /\ m'.seen = m.seen /\ m'.dump = m.dump
      /\ m'.held = m.held /\ m' \in Migrations /\ (m'.inTime => m.inTime)
      /\ m'.phase \in {"failed", "transfer"} /\ (cancel => m'.phase = "failed")
  <2>1. CASE To("failed")
      BY <1>1, <2>1, PhaseChanges
  <2>2. CASE ~cancel /\ To("transfer")
      BY <1>1, <2>2, PhaseChanges DEF Running
  <2>3. QED BY <1>2, <2>1, <2>2
<1>6. MigrationTypeOK' /\ LogsFit'
    BY <1>1, CreateTypes
<1>7. Pointers' /\ Served'
    BY <1>1, <1>2, <1>3, <1>4, <1>5 DEF Pointers, Served, Ahead, Running
<1>8. Leftovers'
  <2>1. \A t \in Ahead : Prefix(repo'[t].log, repo[bound].log)
      BY <1>1, <1>2, <1>3, <1>4, RepoTypes, PrefixItself DEF Leftovers, Ahead
  <2>2. \A t \in Ahead \ {m.target} : repo'[t] = repo[t]
      BY <1>4 DEF Ahead
  <2>3. Ahead' = Ahead /\ repo'[bound] = repo[bound]
      BY <1>2, <1>3, <1>4 DEF Ahead
  <2>4. m'.phase \in Running \ {"starting", "inspect"} =>
            \A t \in Ahead \ {m.target} : Len(repo'[t].log) <= m.seen
      BY <1>1, <1>2, <2>2 DEF Leftovers, Running
  <2>5. QED BY <1>2, <1>5, <2>1, <2>3, <2>4 DEF Leftovers
<1>9. \A s \in Servers \ {m.target} : Holds(s)' = Holds(s)
    BY <1>4 DEF Holds
<1>10. HeldOnTheWay'
  <2>1. m.held \subseteq Holds(bound)'
      BY <1>1, <1>2, <1>3, <1>9 DEF HeldOnTheWay, Running
  <2>2. \A c \in m.held : \E i \in 1..m.seen : i <= Len(repo[bound].log) /\ repo[bound].log[i] = c
      BY <1>1, <1>2 DEF HeldOnTheWay, Running
  <2>3. repo'[bound] = repo[bound]
      BY <1>3, <1>4
  <2>4. QED BY <1>2, <1>5, <2>1, <2>2, <2>3 DEF HeldOnTheWay
<1>11. SinceIsLate'
    BY <1>1, <1>2, <1>3, <1>5, <1>9 DEF SinceIsLate
<1>12. CancelSeen'
    BY <1>1, <1>2, <1>5 DEF CancelSeen
<1>13. CommitsSurvive'
  <2>1. Holds(m.target) \subseteq Holds(bound)
    <3>1. Prefix(repo[m.target].log, repo[bound].log)
        BY <1>1, <1>2, <1>3 DEF Leftovers
    <3>2. QED BY <1>1, <1>3, <3>1, RepoTypes DEF Prefix
  <2>2. QED BY <1>1, <1>2, <1>3, <1>9, <2>1 DEF CommitsSurvive
<1>14. QED BY <1>6, <1>7, <1>8, <1>10, <1>11, <1>12, <1>13 DEF MigrationInv

LEMMA LoadKeeps ==
    ASSUME OneWay, MigrationInv, LoadRevision
    PROVE  MigrationInv'
<1>1. /\ MigrationTypeOK /\ LogsFit /\ Pointers /\ Served /\ Leftovers /\ HeldOnTheWay
      /\ SinceIsLate /\ CancelSeen /\ CommitsSurvive
    BY DEF MigrationInv
<1>2. m.phase = "load" /\ UNCHANGED <<wc, bound, m, cancel, commits, left, late>>
    BY DEF LoadRevision
<1>3. PICK t \in Ahead : t = m.target /\ t \in Servers /\ t # bound /\ m.source = bound
    BY <1>1, <1>2 DEF Pointers, Running, Ahead
<1>4. PICK n \in Nat : /\ n = Len(repo[t].log) /\ n < Len(m.dump) /\ n < MaxCommits
                       /\ m.dump[n + 1] \in Revs /\ Len(m.dump) <= commits
  <2>1. /\ Len(repo[t].log) \in Nat /\ Len(repo[t].log) < Len(m.dump)
        /\ Len(m.dump) \in 0..MaxCommits /\ \A i \in 1..Len(m.dump) : m.dump[i] \in Revs
      BY <1>1, <1>3, RepoTypes, LogIsSeq DEF LoadRevision
  <2>2. Len(m.dump) <= commits /\ MaxCommits \in Nat
      BY <1>1, MigrationAssumption DEF LogsFit
  <2>3. Len(repo[t].log) < MaxCommits /\ Len(repo[t].log) + 1 \in 1..Len(m.dump)
      BY <2>1, <2>2
  <2>4. QED BY <2>1, <2>2, <2>3
<1>5. PICK c \in Revs : c = m.dump[n + 1]
    BY <1>4
<1>6. repo' = [repo EXCEPT ![t] = [uuid |-> "project", log |-> Append(repo[t].log, c)]]
    BY <1>3, <1>4, <1>5 DEF LoadRevision
<1>7. Grows(t, c) /\ repo'[t].uuid = "project"
    BY <1>1, <1>3, <1>6 DEF MigrationTypeOK, Grows
<1>8. /\ repo'[t].log \in Logs /\ Len(repo'[t].log) = n + 1
      /\ \A s \in Servers : Holds(s) \subseteq Holds(s)'
      /\ \A s \in Servers \ {t} : repo'[s] = repo[s] /\ Holds(s)' = Holds(s)
  <2>1. \A s \in Servers \ {t} : repo'[s] = repo[s]
      BY <1>7 DEF Grows
  <2>2. \A s \in Servers \ {t} : Holds(s)' = Holds(s)
      BY <2>1 DEF Holds
  <2>3. /\ repo'[t].log \in Logs /\ Len(repo'[t].log) = Len(repo[t].log) + 1
        /\ \A s \in Servers : Holds(s) \subseteq Holds(s)'
      BY <1>1, <1>3, <1>4, <1>7, GrowingLogs
  <2>4. QED BY <1>4, <2>1, <2>2, <2>3
<1>9. MigrationTypeOK' /\ LogsFit'
    BY <1>1, LoadTypes
<1>10. Pointers' /\ Served'
    BY <1>1, <1>2, <1>3, <1>8 DEF Pointers, Served, Ahead, MigrationTypeOK
<1>11. Leftovers'
  <2>1. Prefix(repo'[t].log, m.dump)
    <3>1. /\ \A i \in 1..n : repo'[t].log[i] = repo[t].log[i]
          /\ repo'[t].log[n + 1] = c
        BY <1>1, <1>3, <1>4, <1>7, RepoTypes, AppendLog DEF Grows
    <3>2. \A i \in 1..n : repo[t].log[i] = m.dump[i]
        BY <1>1, <1>2, <1>3, <1>4 DEF Leftovers, Prefix
    <3>3. Len(m.dump) \in Nat
        BY <1>1, RepoTypes, LogIsSeq
    <3>4. n \in Nat /\ \A i \in 1..(n + 1) : i \in 1..n \/ i = n + 1
        BY <1>4
    <3>5. \A i \in 1..(n + 1) : repo'[t].log[i] = m.dump[i]
        BY <1>5, <3>1, <3>2, <3>4
    <3>6. QED BY <1>4, <1>8, <3>3, <3>5 DEF Prefix
  <2>2. Prefix(m.dump, repo[bound].log)
      BY <1>1, <1>2 DEF Leftovers
  <2>3. Prefix(repo'[t].log, repo[bound].log) /\ bound \in Servers
    <3>1. /\ bound \in Servers
          /\ repo'[t].log \in Logs /\ m.dump \in Logs /\ repo[bound].log \in Logs
        BY <1>1, <1>3, <1>8, RepoTypes DEF MigrationTypeOK
    <3>2. \A l, k, j \in Logs : Prefix(l, k) /\ Prefix(k, j) => Prefix(l, j)
        BY PrefixTransitive
    <3>3. QED BY <2>1, <2>2, <3>1, <3>2
  <2>4. Ahead' = Ahead /\ repo'[bound] = repo[bound] /\ Ahead \subseteq Servers
      BY <1>2, <1>3, <1>8, <2>3 DEF Ahead
  <2>5. \A s \in Ahead \ {t} : Prefix(repo'[s].log, repo[bound].log) /\ Len(repo'[s].log) <= m.seen
      BY <1>1, <1>2, <1>3, <1>8, <2>4 DEF Leftovers, Running
  <2>6. QED BY <1>2, <1>3, <2>1, <2>2, <2>3, <2>4, <2>5 DEF Leftovers
<1>12. HeldOnTheWay' /\ SinceIsLate' /\ CommitsSurvive'
  <2>1. bound \in Servers /\ repo'[bound] = repo[bound] /\ Holds(bound)' = Holds(bound)
      BY <1>1, <1>2, <1>3, <1>8 DEF MigrationTypeOK
  <2>2. HeldOnTheWay'
      BY <1>1, <1>2, <2>1 DEF HeldOnTheWay
  <2>3. SinceIsLate'
      BY <1>1, <1>2, <1>3, <2>1 DEF SinceIsLate
  <2>4. CommitsSurvive'
      BY <1>1, <1>2, <1>8 DEF CommitsSurvive
  <2>5. QED BY <2>2, <2>3, <2>4
<1>13. CancelSeen'
    BY <1>1, <1>2 DEF CancelSeen
<1>14. QED BY <1>9, <1>10, <1>11, <1>12, <1>13 DEF MigrationInv

LEMMA RelocateKeeps ==
    ASSUME OneWay, MigrationInv, Relocate
    PROVE  MigrationInv'
<1>1. /\ MigrationTypeOK /\ LogsFit /\ Pointers /\ Served /\ Leftovers /\ HeldOnTheWay
      /\ SinceIsLate /\ CancelSeen /\ CommitsSurvive
    BY DEF MigrationInv
<1>2. /\ m.phase = "relocate"
      /\ UNCHANGED <<repo, bound, cancel, commits, left, late>>
    BY DEF Relocate
<1>3. /\ bound \in Servers /\ m.source = bound /\ m.target \in Ahead /\ m.target \in Servers
      /\ m.target # bound /\ wc[TD] = bound /\ m.inTime = FALSE
    BY <1>1, <1>2 DEF Pointers, Running, Ahead, MigrationTypeOK, CancelSeen
<1>4. \/ /\ To("record") /\ wc' = [wc EXCEPT ![TD] = m.target]
         /\ repo[m.target].uuid = "project"
      \/ To("failed") /\ wc' = wc
    BY DEF Relocate, OneWay, Goes
<1>5. /\ m'.source = m.source /\ m'.target = m.target /\ m'.seen = m.seen /\ m'.dump = m.dump
      /\ m'.held = m.held /\ m' \in Migrations /\ m'.inTime = FALSE
      /\ \/ /\ m'.phase = "record" /\ wc' = [wc EXCEPT ![TD] = m.target]
            /\ repo[m.target].uuid = "project"
         \/ m'.phase = "failed" /\ wc' = wc
    BY <1>1, <1>3, <1>4, PhaseChanges DEF Running
<1>6. MigrationTypeOK' /\ LogsFit'
    BY <1>1, OtherTypes
<1>7. Pointers'
  <2>1. wc'[TD] = IF m'.phase = "record" THEN m.target ELSE bound
      BY <1>1, <1>3, <1>5 DEF MigrationTypeOK, Committers
  <2>2. \A u \in Artists : wc'[u] = wc[u]
      BY <1>1, <1>5, MigrationAssumption DEF MigrationTypeOK, Committers
  <2>3. QED BY <1>1, <1>2, <1>3, <1>5, <2>1, <2>2 DEF Pointers, Running, Ahead
<1>8. Served'
    BY <1>1, <1>2, <1>5 DEF Served
<1>9. Leftovers'
  <2>1. Ahead' = Ahead /\ Ahead \subseteq Servers
      BY <1>2 DEF Ahead
  <2>2. \A t \in Ahead : Prefix(repo[t].log, repo[bound].log)
      BY <1>1, <1>2 DEF Leftovers
  <2>3. \A t \in Ahead \ {m.target} : Len(repo[t].log) <= Len(repo[m.target].log)
      BY <1>1, <1>2 DEF Leftovers, Running
  <2>4. \A t \in Servers : repo[t].log \in Logs
      BY <1>1, RepoTypes
  <2>5. \A l, k, j \in Logs : Prefix(l, j) /\ Prefix(k, j) /\ Len(l) <= Len(k) => Prefix(l, k)
      BY PrefixesNest
  <2>6. \A t \in Ahead \ {m.target} : Prefix(repo[t].log, repo[m.target].log)
      BY <1>3, <2>1, <2>2, <2>3, <2>4, <2>5
  <2>7. \A t \in Ahead \ {m.target} : Len(repo[t].log) <= m.seen
      BY <1>1, <1>2 DEF Leftovers, Running
  <2>8. QED BY <1>2, <1>5, <2>1, <2>2, <2>6, <2>7 DEF Leftovers
<1>10. HeldOnTheWay'
  <2>1. m.held \subseteq Holds(bound) /\ m.held \subseteq Holds(m.target)
      BY <1>1, <1>2 DEF HeldOnTheWay, Running
  <2>2. \A c \in m.held : \E i \in 1..m.seen : i <= Len(repo[bound].log) /\ repo[bound].log[i] = c
      BY <1>1, <1>2 DEF HeldOnTheWay, Running
  <2>3. \A s \in Servers : Holds(s)' = Holds(s)
      BY <1>2 DEF Holds
  <2>4. QED BY <1>2, <1>3, <1>5, <2>1, <2>2, <2>3 DEF HeldOnTheWay
<1>11. SinceIsLate' /\ CommitsSurvive'
  <2>1. \A s \in Servers : Holds(s)' = Holds(s)
      BY <1>2 DEF Holds
  <2>2. QED BY <1>1, <1>2, <1>3, <1>5, <2>1 DEF SinceIsLate, CommitsSurvive
<1>12. CancelSeen'
    BY <1>5 DEF CancelSeen
<1>13. QED BY <1>6, <1>7, <1>8, <1>9, <1>10, <1>11, <1>12 DEF MigrationInv

LEMMA RecordKeeps ==
    ASSUME OneWay, MigrationInv, Record
    PROVE  MigrationInv'
<1>1. /\ MigrationTypeOK /\ LogsFit /\ Pointers /\ Served /\ Leftovers /\ HeldOnTheWay
      /\ SinceIsLate /\ CancelSeen /\ CommitsSurvive
    BY DEF MigrationInv
<1>2. /\ m.phase = "record" /\ To("succeeded")
      /\ UNCHANGED <<repo, wc, cancel, commits, late>>
    BY DEF Record
<1>3. /\ bound \in Servers /\ m.source = bound /\ m.target \in Ahead /\ m.target \in Servers
      /\ m.target # bound /\ wc[TD] = m.target /\ m.inTime = FALSE
    BY <1>1, <1>2 DEF Pointers, Running, Ahead, MigrationTypeOK, CancelSeen
<1>4. bound' = m.target /\ left' = left \cup {bound}
    BY <1>3 DEF Record, OneWay, Goes
<1>5. /\ m'.source = m.source /\ m'.target = m.target /\ m'.seen = m.seen /\ m'.dump = m.dump
      /\ m'.held = m.held /\ m' \in Migrations /\ m'.inTime = FALSE /\ m'.phase = "succeeded"
    BY <1>1, <1>2, <1>3, PhaseChanges
<1>6. MigrationTypeOK' /\ LogsFit'
    BY <1>1, OtherTypes
<1>7. Pointers' /\ Served'
    BY <1>1, <1>2, <1>3, <1>4, <1>5 DEF Pointers, Served, Running, Ahead
<1>8. Leftovers'
  <2>1. Ahead' = Ahead \ {m.target}
      BY <1>3, <1>4 DEF Ahead
  <2>2. \A t \in Ahead \ {m.target} : Prefix(repo[t].log, repo[m.target].log)
      BY <1>1, <1>2 DEF Leftovers
  <2>3. QED BY <1>2, <1>4, <1>5, <2>1, <2>2 DEF Leftovers, Running
<1>9. \A s \in Servers : Holds(s)' = Holds(s)
    BY <1>2 DEF Holds
<1>10. HeldOnTheWay'
  <2>1. m.held \subseteq Holds(m.target)
      BY <1>1, <1>2 DEF HeldOnTheWay
  <2>2. QED BY <1>3, <1>5, <1>9, <2>1 DEF HeldOnTheWay, Running
<1>11. SinceIsLate' /\ CommitsSurvive'
    BY <1>1, <1>2, <1>3, <1>5, <1>9 DEF SinceIsLate, CommitsSurvive
<1>12. CancelSeen'
    BY <1>5 DEF CancelSeen
<1>13. QED BY <1>6, <1>7, <1>8, <1>10, <1>11, <1>12 DEF MigrationInv

\* The answers end the migration: what is destroyed has its copy elsewhere.
LEMMA AnswerKeeps ==
    ASSUME OneWay, MigrationInv, AnswerOld \/ AnswerTarget
    PROVE  MigrationInv'
<1>1. /\ MigrationTypeOK /\ LogsFit /\ Pointers /\ Served /\ Leftovers /\ HeldOnTheWay
      /\ SinceIsLate /\ CancelSeen /\ CommitsSurvive
    BY DEF MigrationInv
<1>2. /\ m' = NoMigration /\ m.phase \in {"succeeded", "failed"}
      /\ UNCHANGED <<wc, bound, cancel, commits, left, late>>
    BY DEF AnswerOld, AnswerTarget
<1>3. m' \in Migrations /\ m'.phase = "idle" /\ m'.inTime = FALSE /\ Len(m'.dump) <= commits
    BY <1>1, <1>2, NoMigrationTypes, CommitsPositive
<1>4. bound \in Servers /\ m.source \in Servers /\ m.target \in Servers
    BY <1>1 DEF MigrationTypeOK
<1>5. PICK s \in Servers : s # bound /\ Holds(s) \subseteq Holds(bound) \cup late
                           /\ (repo' = repo \/ Destroyed(s))
  <2>1. CASE AnswerOld
    <3>1. m.source # bound /\ m.target = bound
        BY <1>1, <2>1 DEF AnswerOld, Pointers
    <3>2. Holds(m.source) \subseteq Holds(bound) \cup late
        BY <1>1, <2>1, <3>1 DEF AnswerOld, SinceIsLate, HeldOnTheWay
    <3>3. QED BY <1>4, <2>1, <3>1, <3>2 DEF AnswerOld
  <2>2. CASE AnswerTarget
    <3>1. m.target # bound /\ m.target \in Ahead
        BY <1>1, <2>2 DEF AnswerTarget, Pointers, Ahead
    <3>2. Prefix(repo[m.target].log, repo[bound].log)
        BY <1>1, <2>2, <3>1 DEF AnswerTarget, Leftovers
    <3>3. Holds(m.target) \subseteq Holds(bound)
        BY <1>1, <1>4, <3>2, RepoTypes DEF Prefix
    <3>4. QED BY <1>4, <2>2, <3>1, <3>3 DEF AnswerTarget
  <2>3. QED BY <2>1, <2>2
<1>6. /\ \A t \in Servers \ {s} : repo'[t] = repo[t]
      /\ repo'[s] = repo[s] \/ repo'[s] = [uuid |-> "none", log |-> <<>>]
      /\ repo' \in [Servers -> [uuid : {"none", "new", "project"}, log : Logs]]
    BY <1>1, <1>5, EmptyLog DEF MigrationTypeOK, Destroyed, NoRepo
<1>7. MigrationTypeOK' /\ LogsFit'
    BY <1>1, OtherTypes
<1>8. Pointers' /\ Served'
    BY <1>1, <1>2, <1>3, <1>4, <1>5, <1>6 DEF Pointers, Served, Running
<1>9. Leftovers'
  <2>1. Ahead' = Ahead /\ Ahead \subseteq Servers /\ repo'[bound] = repo[bound]
      BY <1>2, <1>4, <1>5, <1>6 DEF Ahead
  <2>2. \A t \in Ahead : Prefix(repo'[t].log, repo[bound].log)
    <3>1. \A t \in Ahead : Prefix(repo[t].log, repo[bound].log)
        BY <1>1, <1>2 DEF Leftovers
    <3>2. repo[bound].log \in Logs
        BY <1>1, <1>4, RepoTypes
    <3>3. Prefix(<<>>, repo[bound].log)
        BY <3>2, PrefixItself
    <3>4. QED BY <1>6, <2>1, <3>1, <3>3
  <2>3. QED BY <1>2, <1>3, <2>1, <2>2 DEF Leftovers, Running
<1>10. HeldOnTheWay' /\ SinceIsLate' /\ CancelSeen'
    BY <1>3 DEF HeldOnTheWay, SinceIsLate, CancelSeen, Running
<1>11. CommitsSurvive'
  <2>1. \A t \in Servers \ {s} : Holds(t)' = Holds(t)
      BY <1>6 DEF Holds
  <2>2. Holds(bound)' = Holds(bound)
      BY <1>2, <1>4, <1>5, <1>6 DEF Holds
  <2>3. QED BY <1>1, <1>2, <1>4, <1>5, <2>1, <2>2 DEF CommitsSurvive
<1>12. QED BY <1>7, <1>8, <1>9, <1>10, <1>11 DEF MigrationInv

(***************************************************************************)
(* The theorems.                                                           *)
(***************************************************************************)

LEMMA MigrationStarts ==
    ASSUME MigrationInit
    PROVE  MigrationInv
<1> DEFINE l == <<1>>
<1>1. /\ l \in Seq(Revs) /\ Len(l) = 1 /\ l[1] = 1 /\ DOMAIN l = {1}
      /\ MaxCommits \in Nat /\ 1 <= MaxCommits
  <2>1. 1 \in Revs /\ MaxCommits \in Nat /\ 1 <= MaxCommits
      BY MigrationAssumption DEF Revs
  <2>2. l \in Seq(Revs) /\ Len(l) = 1 /\ l[1] = 1
      BY <2>1
  <2>3. DOMAIN l = 1..Len(l)
    <3> HIDE DEF l
    <3>1. QED BY <2>2
  <2>4. DOMAIN l = {1}
    <3> HIDE DEF l
    <3>1. QED BY <2>2, <2>3
  <2>5. QED BY <2>1, <2>2, <2>4
<1>2. l \in Logs
  <2> HIDE DEF l
  <2>1. QED BY <1>1, SeqIsLog
<1>3. Home \in Servers
    BY MigrationAssumption
<1>4. repo = [s \in Servers |->
                IF s = Home THEN [uuid |-> "project", log |-> l] ELSE NoRepo]
    BY DEF MigrationInit
<1> HIDE DEF l
<1>5. /\ repo[Home] = [uuid |-> "project", log |-> l]
      /\ \A s \in Servers \ {Home} : repo[s] = [uuid |-> "none", log |-> <<>>]
      /\ repo \in [Servers -> [uuid : {"none", "new", "project"}, log : Logs]]
    BY <1>2, <1>3, <1>4, EmptyLog DEF NoRepo
<1>6. /\ wc = [u \in Committers |-> Home] /\ bound = Home /\ m = NoMigration /\ cancel = FALSE
      /\ commits = 1 /\ left = {} /\ late = {}
    BY DEF MigrationInit
<1>7. m \in Migrations /\ m.phase = "idle" /\ m.inTime = FALSE /\ Len(m.dump) <= 1
    BY <1>6, NoMigrationTypes
<1>8. MigrationTypeOK
  <2>1. wc \in [Committers -> Servers] /\ commits \in Revs
      BY <1>1, <1>3, <1>6 DEF Revs
  <2>2. QED BY <1>3, <1>5, <1>6, <1>7, <2>1 DEF MigrationTypeOK, Migrations
<1>9. LogsFit
  <2>1. Len(repo[Home].log) = 1 /\ \A s \in Servers \ {Home} : Len(repo[s].log) = 0
    <3>1. repo[Home].log = l /\ \A s \in Servers \ {Home} : repo[s].log = <<>>
        BY <1>5
    <3>2. Len(repo[Home].log) = 1
        BY <1>1, <3>1
    <3>3. QED BY <3>1, <3>2, EmptyLog
  <2>2. \A s \in Servers : Len(repo[s].log) <= 1
    <3>1. \A s \in Servers : Len(repo[s].log) \in {0, 1}
        BY <2>1, Zenon
    <3>2. \A k \in {0, 1} : k <= 1
        BY SMT
    <3>3. QED BY <3>1, <3>2, Zenon
  <2>3. QED BY <1>6, <1>7, <2>2 DEF LogsFit
<1>10. Pointers /\ Served /\ CancelSeen /\ HeldOnTheWay /\ SinceIsLate
    BY <1>3, <1>5, <1>6, <1>7
       DEF Pointers, Served, CancelSeen, HeldOnTheWay, SinceIsLate, Running, Committers
<1>11. Leftovers
  <2>1. \A t \in Ahead : repo[t].log = <<>> /\ Prefix(<<>>, repo[bound].log)
      BY <1>2, <1>3, <1>5, <1>6, PrefixItself DEF Ahead
  <2>2. QED BY <1>7, <2>1 DEF Leftovers, Running
<1>12. CommitsSurvive
  <2>1. 1 \in Holds(Home)
      BY <1>1, <1>5 DEF Holds
  <2>2. \A c \in 1..commits : c = 1
      BY <1>6
  <2>3. QED BY <1>3, <2>1, <2>2 DEF CommitsSurvive
<1>13. QED BY <1>8, <1>9, <1>10, <1>11, <1>12 DEF MigrationInv

\* A cancellation is seen by every step that follows it, whatever the
\* constants are: _reset comes before the Hub offers to cancel anything.
LEMMA CancelKept ==
    ASSUME MigrationTypeOK, CancelSeen, MigrationNext
    PROVE  CancelSeen'
<1>1. m \in Migrations
    BY DEF MigrationTypeOK, Migrations
<1>2. CASE Cancel
  <2> DEFINE b == m.phase \in {"inspect", "target", "create", "transfer", "load"}
  <2>1. b \in BOOLEAN /\ m' = [m EXCEPT !.inTime = b] /\ cancel'
      BY <1>2 DEF Cancel
  <2> HIDE DEF b
  <2>2. m'.inTime = b /\ m'.phase = m.phase
      BY <1>1, <2>1 DEF Migrations
  <2>3. QED BY <2>1, <2>2 DEF CancelSeen, b
<1>3. ASSUME NEW t \in Servers, StartMigration(t)
      PROVE  CancelSeen'
  <2>1. m'.inTime = FALSE
      BY <1>3, NoMigrationTypes DEF StartMigration, Migrations
  <2>2. QED BY <2>1 DEF CancelSeen
<1>4. CASE AnswerOld \/ AnswerTarget \/ Crash
  <2>1. m'.inTime = FALSE
      BY <1>4, NoMigrationTypes DEF AnswerOld, AnswerTarget, Crash
  <2>2. QED BY <2>1 DEF CancelSeen
<1>5. ASSUME NEW u \in Committers, StudioCommits(u)
      PROVE  CancelSeen'
    BY <1>5 DEF StudioCommits, CancelSeen
<1>6. CASE Work
  <2>1. m'.inTime = m.inTime
      BY <1>1, <1>6 DEF Work, Begin, InspectSource, InspectTarget, CreateTarget, StartTransfer,
                        LoadRevision, EndTransfer, Verify, Relocate, Record, To, Migrations
  <2>2. CASE ~m.inTime
      BY <2>1, <2>2 DEF CancelSeen
  <2>3. CASE m.inTime
    <3>1. cancel /\ m.phase \in {"inspect", "target", "create", "transfer", "load", "failed"}
        BY <2>3 DEF CancelSeen
    <3>2. cancel' = cancel
        BY <1>6, <3>1
           DEF Work, Begin, InspectSource, InspectTarget, CreateTarget, StartTransfer,
               LoadRevision, EndTransfer, Verify, Relocate, Record
    <3>3. m'.phase \in {"inspect", "target", "create", "transfer", "load", "failed"}
        BY <1>1, <1>6, <3>1
           DEF Work, Begin, InspectSource, InspectTarget, CreateTarget, StartTransfer,
               LoadRevision, EndTransfer, Verify, Relocate, Record, To, Migrations
    <3>4. QED BY <3>1, <3>2, <3>3 DEF CancelSeen
  <2>4. QED BY <2>2, <2>3
<1>7. QED BY <1>2, <1>3, <1>4, <1>5, <1>6 DEF MigrationNext

LEMMA TypedAndSeen == MigrationSpec => [](MigrationTypeOK /\ LogsFit /\ CancelSeen)
<1> DEFINE Inv == MigrationTypeOK /\ LogsFit /\ CancelSeen
<1>1. MigrationInit => Inv
    BY MigrationStarts DEF MigrationInv
<1>2. Inv /\ [MigrationNext]_migrationVars => Inv'
  <2>1. ASSUME Inv, MigrationNext PROVE Inv'
      BY <2>1, TypesKept, CancelKept
  <2>2. ASSUME Inv, UNCHANGED migrationVars PROVE Inv'
      BY <2>2 DEF migrationVars, MigrationTypeOK, LogsFit, CancelSeen
  <2>3. QED BY <2>1, <2>2
<1>3. QED BY <1>1, <1>2, PTL DEF MigrationSpec

LEMMA MigrationStutters ==
    ASSUME MigrationInv, UNCHANGED migrationVars
    PROVE  MigrationInv'
BY DEF MigrationInv, migrationVars, MigrationTypeOK, LogsFit, Pointers, Served, Leftovers,
       HeldOnTheWay, SinceIsLate, CancelSeen, CommitsSurvive, Ahead, Holds

LEMMA MigrationInvariant ==
    ASSUME OneWay
    PROVE  MigrationSpec => []MigrationInv
<1>1. MigrationInit => MigrationInv
    BY MigrationStarts
<1>2. MigrationInv /\ [MigrationNext]_migrationVars => MigrationInv'
  <2> SUFFICES ASSUME MigrationInv, [MigrationNext]_migrationVars
               PROVE  MigrationInv'
      OBVIOUS
  <2>1. ASSUME NEW u \in Committers, StudioCommits(u)
        PROVE  MigrationInv'
      BY <2>1, CommitKeeps
  <2>2. CASE QuietStep
      BY <2>2, QuietKeeps
  <2>3. CASE CreateTarget
      BY <2>3, CreateKeeps
  <2>4. CASE LoadRevision
      BY <2>4, LoadKeeps
  <2>5. CASE Relocate
      BY <2>5, RelocateKeeps
  <2>6. CASE Record
      BY <2>6, RecordKeeps
  <2>7. CASE AnswerOld \/ AnswerTarget
      BY <2>7, AnswerKeeps
  <2>8. CASE UNCHANGED migrationVars
      BY <2>8, MigrationStutters
  <2>9. QED
      BY <2>1, <2>2, <2>3, <2>4, <2>5, <2>6, <2>7, <2>8 DEF MigrationNext, Work, QuietStep
<1>3. QED BY <1>1, <1>2, PTL DEF MigrationSpec

\* Whatever the constants, every variable stays in its type: no log outgrows the
\* commits of the studio, and the phases, servers and revisions named by a
\* migration exist (migrate_project and the worker that runs it).
THEOREM MigrationIsTyped ==
    MigrationSpec => []MigrationTypeOK
BY TypedAndSeen, PTL

\* A migration that reports success has every revision of the source on the
\* target, except those committed while it ran: the number of revisions that
\* migrate_project compares is enough, because whatever a failed attempt left
\* on a server that the project may still go to is a beginning of the
\* project's own history.
THEOREM HistoryIsPreserved ==
    ASSUME OneWay
    PROVE  MigrationSpec => []HistoryPreserved
<1>1. MigrationInv => HistoryPreserved
    BY DEF MigrationInv, HistoryPreserved, HeldOnTheWay
<1>2. QED BY <1>1, MigrationInvariant, PTL

\* Whatever is answered to "Delete it, or keep it orphaned?" and to "Delete it
\* now?", every revision that was not committed during a migration is still on
\* some server.
THEOREM NoCommitIsDestroyed ==
    ASSUME OneWay
    PROVE  MigrationSpec => []CommitsSurvive
<1>1. MigrationInv => CommitsSurvive
    BY DEF MigrationInv
<1>2. QED BY <1>1, MigrationInvariant, PTL

\* The working copy of the Hub always points at a server that has the
\* project's repository: svn relocate comes after the check of the target, and
\* only the server it has left, or not reached, is ever emptied.
THEOREM WorkingCopyStaysServed ==
    ASSUME OneWay
    PROVE  MigrationSpec => []WorkingCopyServed
<1>1. MigrationInv => WorkingCopyServed
    BY DEF MigrationInv, WorkingCopyServed, Pointers, Served
<1>2. QED BY <1>1, MigrationInvariant, PTL

\* Whatever the servers, the habits and the faults: a migration cancelled
\* before its transfer has ended relocates nothing and binds nothing, no step
\* of migrate_project loses sight of the _cancel event.
THEOREM CancellationHolds ==
    MigrationSpec => []CancelledNeverMoves
<1>1. CancelSeen => CancelledNeverMoves
    BY DEF CancelledNeverMoves, CancelSeen
<1>2. QED BY <1>1, TypedAndSeen, PTL
=============================================================================
