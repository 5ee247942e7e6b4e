------------------------- MODULE CloudShelvesProofs ------------------------
(***************************************************************************)
(* Proofs that what the user says of a rating, a list or a dropped show    *)
(* stands (WordStands), and that the collection and the services stay in   *)
(* step (ShelfInStep), for any services, items, jobs and failures.         *)
(***************************************************************************)
EXTENDS CloudShelves, TLAPS

-----------------------------------------------------------------------------
(* Ratings and what services make of them.                                 *)

\* A rounded rating is a rating, and rounding it again changes nothing.
LEMMA RoundedOnce ==
    ASSUME NEW v \in 1..20
    PROVE  Rounded(v) \in 1..20 /\ Rounded(Rounded(v)) = Rounded(v)
BY DEF Rounded

LEMMA RoundedNone == Rounded(0) = 0
BY DEF Rounded

\* What a setup is.
LEMMA SetupFacts ==
    ASSUME setup \in Setups
    PROVE  /\ part \in Kind /\ svc \in [Conn -> Service]
           /\ part # "shelf" => \A c \in Conn : svc[c] \notin {"nuvio", "stremio"}
BY ConstantsAssumption DEF part, svc

\* The values a mark can have are closed under rounding, and no rating becomes none.
LEMMA ValuesFacts ==
    ASSUME setup \in Setups
    PROVE  /\ Values \subseteq 0..20 /\ 0 \in Values /\ Marks \subseteq Values
           /\ NoWord \notin Values
           /\ part = "ratings" =>
                \A v \in Values : /\ Rounded(v) \in Values
                                  /\ Rounded(Rounded(v)) = Rounded(v)
                                  /\ Rounded(v) = 0 <=> v = 0
           /\ part # "ratings" => Values = {0, 1} /\ Marks = {0, 1}
<1>1. Scores \subseteq 1..20
  BY ConstantsAssumption
<1>2. CASE part = "ratings"
  <2>1. Values = {0} \cup Scores \cup {Rounded(v) : v \in Scores} /\ Marks = Scores \cup {0}
    BY <1>2 DEF Values, Marks
  <2>2. \A v \in Scores : Rounded(v) \in 1..20 /\ Rounded(Rounded(v)) = Rounded(v)
    BY <1>1, RoundedOnce
  <2>3. /\ Values \subseteq 0..20 /\ 0 \in Values /\ Marks \subseteq Values
        /\ NoWord \notin Values
    <3>1. {Rounded(v) : v \in Scores} \subseteq 1..20
      BY <2>2
    <3>2. Values \subseteq 0..20
      <4>1. 1..20 \subseteq 0..20 /\ 0 \in 0..20
        OBVIOUS
      <4> HIDE DEF Values
      <4> QED
        BY <1>1, <2>1, <3>1, <4>1, Zenon
    <3> QED
      BY <2>1, <3>2 DEF NoWord
  <2>4. ASSUME NEW v \in Values
        PROVE  Rounded(v) \in Values /\ Rounded(Rounded(v)) = Rounded(v) /\ (Rounded(v) = 0 <=> v = 0)
    <3>1. CASE v = 0
      BY <3>1, <2>3, RoundedNone
    <3>2. CASE v \in Scores
      BY <3>2, <1>1, <2>1, <2>2
    <3>3. CASE v \in {Rounded(u) : u \in Scores}
      BY <3>3, <1>1, <2>1, <2>2
    <3> QED
      BY <2>1, <3>1, <3>2, <3>3
  <2> QED
    BY <1>2, <2>3, <2>4
<1>3. CASE part # "ratings"
  BY <1>3 DEF Values, Marks, NoWord
<1> QED
  BY <1>2, <1>3

\* Near a value of a mark are values only, none only near none.
LEMMA NearFacts ==
    ASSUME setup \in Setups, NEW w \in Values
    PROVE  /\ w \in Near(w) /\ Near(w) \subseteq Values
           /\ 0 \in Near(w) <=> w = 0
           /\ w = 0 => Near(w) = {0}
           /\ part # "ratings" => Near(w) = {w}
           /\ part = "ratings" => \A v \in Near(w) : Rounded(v) \in Near(w)
<1>1. CASE part = "ratings"
  <2>1. Near(w) = {w, Rounded(w)}
    BY <1>1 DEF Near
  <2>2. Rounded(w) \in Values /\ Rounded(Rounded(w)) = Rounded(w) /\ (Rounded(w) = 0 <=> w = 0)
    BY <1>1, ValuesFacts
  <2> QED
    BY <1>1, <2>1, <2>2
<1>2. CASE part # "ratings"
  BY <1>2 DEF Near
<1> QED
  BY <1>1, <1>2

\* Services that share a key; the key of each connection.
LEMMA KeyFacts ==
    ASSUME NEW c \in Conn
    PROVE  KeyOf(c) \in Key /\ KeyOf(c) \in Keys /\ c \in Sharing(KeyOf(c))
BY DEF KeyOf, Key, Keys, Sharing

\* What a service holds after it was sent a mark near the user's word is near it too.
LEMMA SentNear ==
    ASSUME setup \in Setups, part # "shelf", NEW c \in Conn, NEW m \in Media,
           NEW v \in Values, NEW now \in Values
    PROVE  /\ Sent(c, m, v, now) \in Values
           /\ \A w \in Values : Hears(KeyOf(c)) /\ v \in Near(w) /\ ~Excused(c, m, w)
                                => Sent(c, m, v, now) \in Near(w)
<1>1. CASE part = "ratings"
  <2>1. TraktRating(v) \in Values /\ \A w \in Values : v \in Near(w) => TraktRating(v) \in Near(w)
    BY <1>1, ValuesFacts, NearFacts DEF TraktRating
  <2>2. Sent(c, m, v, now) = CASE svc[c] = "mdblist" -> v
                               [] svc[c] = "simkl" -> SimklRating(m, v, now)
                               [] OTHER -> TraktRating(v)
    BY <1>1 DEF Sent, MdblistRating
  <2>3. CASE svc[c] = "simkl"
    <3>1. Sent(c, m, v, now) = SimklRating(m, v, now)
      BY <2>2, <2>3
    <3>2. CASE v # 0 /\ m \notin Watched
      <4>1. Sent(c, m, v, now) = now
        BY <3>1, <3>2 DEF SimklRating
      <4>2. \A w \in Values : v \in Near(w) => Excused(c, m, w)
        BY <1>1, <2>3, <3>2, NearFacts DEF Excused
      <4> QED
        BY <4>1, <4>2
    <3>3. CASE ~(v # 0 /\ m \notin Watched)
      BY <3>1, <3>3, <2>1 DEF SimklRating
    <3> QED
      BY <3>2, <3>3
  <2>4. CASE svc[c] # "simkl"
    BY <2>1, <2>2, <2>4
  <2> QED
    BY <2>3, <2>4
<1>2. CASE part = "lists"
  <2>1. Sent(c, m, v, now) = IF svc[c] = "simkl" THEN now ELSE v
    BY <1>2 DEF Sent, ListEntry
  <2>2. Hears(KeyOf(c)) => svc[c] # "simkl"
    BY <1>2, KeyFacts DEF Hears
  <2> QED
    BY <2>1, <2>2
<1>3. CASE part = "drops"
  <2>1. Sent(c, m, v, now) = IF v # 0 /\ svc[c] = "trakt" /\ m \notin Watched THEN now ELSE v
    BY <1>3 DEF Sent, DroppedShow
  <2>2. \A w \in Values : v \in Near(w) /\ ~Excused(c, m, w) => v = 0 /\ w = 0
    BY <1>3, ValuesFacts, NearFacts DEF Excused
  <2> QED
    BY <2>1, <2>2, NearFacts
<1> QED
  BY <1>1, <1>2, <1>3, SetupFacts DEF Kind

-----------------------------------------------------------------------------
(* Marks: the jobs of pulls and pushes.                                    *)

PullJob == [at : {"read"}, rows : Table, known : Table]
PushJob == [at : {"read"}, had : Table, plan : SUBSET Media]

MarksInv == TypeOK /\ WordHeld

\* What the invariant says of a state, part by part.
LEMMA MarksFacts ==
    ASSUME TypeOK
    PROVE  /\ setup \in Setups
           /\ mine \in [Key -> Table] /\ theirs \in [Conn -> Table]
           /\ pull \in [Conn -> PullJob \cup {NoJob}]
           /\ push \in [Conn -> PushJob \cup {NoJob}]
           /\ part = "shelf" => \A c \in Conn : pull[c] = NoJob /\ push[c] = NoJob
           /\ word \in [Key -> [Media -> Values \cup {NoWord}]]
BY DEF TypeOK, PullJob, PushJob, Idle

LEMMA JobsAreRecords ==
    /\ NoJob \notin PullJob /\ NoJob \notin PushJob
BY DEF NoJob, PullJob, PushJob

\* A pull at work has read tables, a push at work sends one.
LEMMA JobFacts ==
    ASSUME TypeOK, NEW c \in Conn
    PROVE  /\ pull[c] # NoJob => /\ pull[c] \in PullJob /\ part # "shelf"
                                /\ pull[c].rows \in Table /\ pull[c].known \in Table
           /\ push[c] # NoJob => /\ push[c] \in PushJob /\ part # "shelf"
                                /\ push[c].had \in Table /\ push[c].plan \subseteq Media
<1>1. pull[c] # NoJob => pull[c] \in PullJob /\ part # "shelf"
  BY MarksFacts
<1>2. push[c] # NoJob => push[c] \in PushJob /\ part # "shelf"
  BY MarksFacts
<1>3. \A job \in PullJob : job.rows \in Table /\ job.known \in Table
  BY DEF PullJob
<1>4. \A job \in PushJob : job.had \in Table /\ job.plan \subseteq Media
  BY DEF PushJob
<1> QED
  BY <1>1, <1>2, <1>3, <1>4

\* Nothing is a table, and so are marks of a set of media.
LEMMA TableFacts ==
    ASSUME setup \in Setups
    PROVE  /\ Nothing \in Table
           /\ part # "ratings" => \A S : AsMarks(S) \in Table
BY ValuesFacts DEF Nothing, AsMarks, Table

\* What a pull makes of the marks: a table, which keeps a word that the marks, what was
\* read and what was known are near to.
LEMMA PulledNear ==
    ASSUME TypeOK, NEW c \in Conn, NEW ok \in SUBSET Media, pull[c] # NoJob
    PROVE  /\ Pulled(c, ok) \in Table
           /\ \A m \in ok, w \in Values :
                /\ mine[KeyOf(c)][m] \in Near(w)
                /\ Excused(c, m, w) \/ pull[c].rows[m] \in Near(w)
                /\ part = "lists" \/ pull[c].known[m] \in Near(w)
                => Pulled(c, ok)[m] \in Near(w)
<1> DEFINE now == mine[KeyOf(c)]
           rows == pull[c].rows
           known == pull[c].known
<1>1. /\ setup \in Setups /\ now \in Table /\ rows \in Table /\ known \in Table
      /\ part # "shelf"
  BY MarksFacts, JobFacts, KeyFacts
<1>2. \A m \in Media : now[m] \in Values /\ rows[m] \in Values /\ known[m] \in Values
  BY <1>1 DEF Table
<1>3. CASE part = "ratings"
  <2> DEFINE made(m) == IF m \notin ok THEN now[m]
                        ELSE CASE svc[c] = "simkl" -> SimklImport(rows[m], known[m], now[m])
                               [] svc[c] = "mdblist" -> MdblistImport(rows[m], known[m], now[m])
                               [] OTHER -> TraktImport(rows[m], known[m], now[m])
  <2>1. Pulled(c, ok) = [m \in Media |-> made(m)]
    BY <1>3 DEF Pulled
  <2>2. \A a, b, d \in Values :
          /\ TraktImport(a, b, d) \in {a, d} /\ MdblistImport(a, b, d) \in {a, d}
          /\ SimklImport(a, b, d) = d \/ (SimklImport(a, b, d) = a /\ a # 0 /\ b = 0 /\ d = 0)
    BY DEF TraktImport, MdblistImport, SimklImport
  <2>3. \A m \in Media : \/ made(m) = now[m]
                         \/ m \in ok /\ svc[c] # "simkl" /\ made(m) = rows[m]
                         \/ m \in ok /\ made(m) = rows[m] /\ rows[m] # 0 /\ now[m] = 0
    BY <1>2, <2>2
  <2> HIDE DEF made
  <2>4. Pulled(c, ok) \in Table
    BY <1>2, <2>1, <2>3 DEF Table
  <2>5. ASSUME NEW m \in ok, NEW w \in Values, now[m] \in Near(w),
               Excused(c, m, w) \/ rows[m] \in Near(w)
        PROVE  made(m) \in Near(w)
    <3>1. Excused(c, m, w) => svc[c] = "simkl" /\ w # 0
      BY <1>3 DEF Excused
    <3>2. now[m] = 0 => w = 0
      BY <1>1, <2>5, NearFacts
    <3> QED
      BY <2>3, <2>5, <3>1, <3>2
  <2> QED
    BY <2>1, <2>4, <2>5
<1>4. CASE part = "lists"
  <2>1. svc[c] \in {"trakt", "trakt split", "simkl", "mdblist"}
    BY <1>1, <1>4, SetupFacts DEF Service
  <2> DEFINE made == CASE svc[c] = "trakt" -> UnifiedWatchlist(rows, now, ok)
                       [] svc[c] = "trakt split" -> SplitWatchlist(rows, now, ok)
                       [] svc[c] = "simkl" -> SimklWatchlist(rows, now, ok)
                       [] svc[c] = "mdblist" -> MdblistWatchlist(rows, now, ok)
  <2>2. Pulled(c, ok) = AsMarks(made)
    BY <1>4 DEF Pulled
  <2>3. \A m \in ok : (rows[m] # 0 <=> now[m] # 0) => (m \in made <=> now[m] # 0)
    BY <2>1 DEF UnifiedWatchlist, SplitWatchlist, SimklWatchlist, MdblistWatchlist, Has
  <2> HIDE DEF made
  <2>4. ASSUME NEW m \in ok, NEW w \in Values, now[m] \in Near(w),
               Excused(c, m, w) \/ rows[m] \in Near(w)
        PROVE  Pulled(c, ok)[m] \in Near(w)
    <3>1. ~Excused(c, m, w)
      BY <1>4 DEF Excused
    <3>2. Near(w) = {w} /\ w \in {0, 1}
      BY <1>1, <1>4, NearFacts, ValuesFacts
    <3>3. Pulled(c, ok)[m] = IF m \in made THEN 1 ELSE 0
      BY <2>2 DEF AsMarks
    <3> QED
      BY <2>3, <2>4, <3>1, <3>2, <3>3
  <2>5. Pulled(c, ok) \in Table
    BY <1>1, <1>4, <2>2, TableFacts
  <2> QED
    BY <2>4, <2>5
<1>5. CASE part = "drops"
  <2>1. Pulled(c, ok) = AsMarks(DropsAdded(rows, known, now))
    BY <1>5 DEF Pulled
  <2>2. ASSUME NEW m \in ok, NEW w \in Values, now[m] \in Near(w), known[m] \in Near(w),
               Excused(c, m, w) \/ rows[m] \in Near(w)
        PROVE  Pulled(c, ok)[m] \in Near(w)
    <3>1. Near(w) = {w} /\ w \in {0, 1}
      BY <1>1, <1>5, NearFacts, ValuesFacts
    <3>2. w = 0 => rows[m] = 0
      BY <1>5, <2>2, <3>1 DEF Excused
    <3>3. m \in DropsAdded(rows, known, now) <=> w = 1
      BY <2>2, <3>1, <3>2 DEF DropsAdded, Has
    <3>4. Pulled(c, ok)[m] = IF m \in DropsAdded(rows, known, now) THEN 1 ELSE 0
      BY <2>1 DEF AsMarks
    <3> QED
      BY <3>1, <3>3, <3>4
  <2>3. Pulled(c, ok) \in Table
    BY <1>1, <1>5, <2>1, TableFacts
  <2> QED
    BY <1>5, <2>2, <2>3
<1> QED
  BY <1>1, <1>3, <1>4, <1>5, SetupFacts DEF Kind

-----------------------------------------------------------------------------
(* The user's changes.                                                     *)

\* What the invariant says of media m at connection c.
WordAt(c, m) ==
    LET k == KeyOf(c)
        w == word[k][m]
    IN w # NoWord =>
        /\ Hears(k) /\ mine[k][m] \in Near(w)
        /\ Excused(c, m, w) \/ theirs[c][m] \in Near(w)
        /\ pull[c] # NoJob => /\ Excused(c, m, w) \/ pull[c].rows[m] \in Near(w)
                              /\ part = "lists" \/ pull[c].known[m] \in Near(w)
        /\ push[c] # NoJob => push[c].had[m] \in Near(w)

LEMMA WordHeldEverywhere == WordHeld <=> \A c \in Conn, m \in Media : WordAt(c, m)
BY DEF WordHeld, WordAt

\* What the parts of the model depend on is the setup.
LEMMA SetupKept ==
    ASSUME setup' = setup
    PROVE  /\ part' = part /\ svc' = svc /\ Values' = Values /\ Table' = Table /\ Marks' = Marks
           /\ PullJob' = PullJob /\ PushJob' = PushJob
           /\ \A k : Hears(k)' <=> Hears(k)
           /\ \A c : KeyOf(c)' = KeyOf(c)
           /\ \A w : Near(w)' = Near(w)
           /\ \A c, m, w : Excused(c, m, w)' <=> Excused(c, m, w)
<1>1. part' = part /\ svc' = svc
  BY DEF part, svc
<1>2. \A c : KeyOf(c)' = KeyOf(c)
  BY <1>1 DEF KeyOf
<1>3. Values' = Values /\ Marks' = Marks
  BY <1>1 DEF Values, Marks
<1>4. \A k : Sharing(k)' = Sharing(k)
  BY <1>2 DEF Sharing
<1> QED
  BY <1>1, <1>2, <1>3, <1>4 DEF Table, PullJob, PushJob, Hears, Near, Excused

\* Types of a step that leaves the setup alone.
LEMMA TypeStep ==
    ASSUME TypeOK, setup' = setup,
           mine' \in [Key -> Table], theirs' \in [Conn -> Table],
           pull' \in [Conn -> PullJob \cup {NoJob}], push' \in [Conn -> PushJob \cup {NoJob}],
           part = "shelf" => Idle',
           changes' \in 0..MaxChanges[part], fails' \in 0..MaxFails,
           word' \in [Key -> [Media -> Values \cup {NoWord}]]
    PROVE  TypeOK'
<1>1. setup' \in Setups
  BY MarksFacts
<1> QED
  BY <1>1, SetupKept DEF TypeOK, PullJob, PushJob

\* Counters of changes and failures stay within their bounds.
LEMMA CountersStep ==
    ASSUME TypeOK
    PROVE  /\ Change => changes' \in 0..MaxChanges[part]
           /\ changes' = changes => changes' \in 0..MaxChanges[part]
           /\ \A failed \in BOOLEAN : Fail(failed) => fails' \in 0..MaxFails
           /\ fails' = fails => fails' \in 0..MaxFails
<1>1. /\ changes \in 0..MaxChanges[part] /\ fails \in 0..MaxFails
      /\ MaxChanges[part] \in Nat /\ MaxFails \in Nat
  BY ConstantsAssumption, SetupFacts, MarksFacts DEF TypeOK
<1> QED
  BY <1>1 DEF Change, Fail

\* Where a step leaves everything alone that the word at m and c is about, it stands.
LEMMA WordAtKept ==
    ASSUME setup' = setup, NEW c \in Conn, NEW m \in Media, WordAt(c, m),
           word'[KeyOf(c)][m] \in {word[KeyOf(c)][m], NoWord},
           mine'[KeyOf(c)][m] = mine[KeyOf(c)][m], theirs'[c][m] = theirs[c][m],
           pull'[c] = pull[c] \/ pull'[c] = NoJob, push'[c] = push[c] \/ push'[c] = NoJob
    PROVE  WordAt(c, m)'
BY SetupKept DEF WordAt

\* The user says something new.
LEMMA SayStep ==
    ASSUME MarksInv, NEW k \in Key, NEW m \in Media, NEW v \in Values,
           NEW reached \in SUBSET Conn, part # "shelf", Say(k, m, v, reached)
    PROVE  MarksInv'
<1> DEFINE told(c) == [theirs[c] EXCEPT ![m] = Sent(c, m, v, theirs[c][m])]
           said == IF Idle /\ reached = Sharing(k) /\ Hears(k) THEN v ELSE NoWord
<1>1. /\ TypeOK /\ setup \in Setups /\ setup' = setup /\ pull' = pull /\ push' = push
      /\ reached \subseteq Sharing(k) /\ Change
      /\ mine \in [Key -> Table] /\ theirs \in [Conn -> Table]
      /\ word \in [Key -> [Media -> Values \cup {NoWord}]]
  BY MarksFacts DEF MarksInv, Say
<1>2. /\ mine' = [mine EXCEPT ![k] = [mine[k] EXCEPT ![m] = v]]
      /\ theirs' = [c \in Conn |-> IF c \in reached THEN told(c) ELSE theirs[c]]
      /\ word' = [word EXCEPT ![k] = [word[k] EXCEPT ![m] = said]]
      /\ Fail(reached # Sharing(k))
  BY <1>1 DEF Say
<1>3. \A c \in Conn : told(c) \in Table
  <2> TAKE c \in Conn
  <2>1. theirs[c] \in Table /\ theirs[c][m] \in Values
    BY <1>1 DEF Table
  <2>2. Sent(c, m, v, theirs[c][m]) \in Values
    BY <1>1, <2>1, SentNear
  <2> QED
    BY <2>1, <2>2 DEF Table
<1>4. said \in Values \cup {NoWord}
  OBVIOUS
<1>5. TypeOK'
  <2>1. mine' \in [Key -> Table]
    BY <1>1, <1>2 DEF Table
  <2>2. theirs' \in [Conn -> Table]
    BY <1>1, <1>2, <1>3
  <2>3. word' \in [Key -> [Media -> Values \cup {NoWord}]]
    BY <1>1, <1>2, <1>4
  <2>4. changes' \in 0..MaxChanges[part] /\ fails' \in 0..MaxFails
    BY <1>1, <1>2, CountersStep
  <2>5. part = "shelf" => Idle'
    OBVIOUS
  <2> QED
    BY <1>1, <2>1, <2>2, <2>3, <2>4, <2>5, MarksFacts, TypeStep
<1>6. ASSUME NEW c \in Conn, NEW n \in Media
      PROVE  WordAt(c, n)'
  <2>1. WordAt(c, n) /\ KeyOf(c) \in Key /\ c \in Sharing(KeyOf(c))
    BY KeyFacts, WordHeldEverywhere DEF MarksInv
  <2>2. CASE KeyOf(c) = k /\ n = m /\ said # NoWord
    <3>1. Idle /\ reached = Sharing(k) /\ Hears(k) /\ said = v
      BY <2>2
    <3>2. mine'[k][m] = v /\ word'[k][m] = v
      BY <1>1, <1>2, <3>1, <2>2 DEF Table
    <3>3. theirs'[c][m] = Sent(c, m, v, theirs[c][m])
      BY <1>1, <1>2, <2>1, <2>2, <3>1 DEF Table
    <3>4. theirs[c][m] \in Values
      BY <1>1 DEF Table
    <3>5. v \in Near(v)
      BY <1>1, NearFacts
    <3>6. Excused(c, m, v) \/ theirs'[c][m] \in Near(v)
      BY <1>1, <2>2, <3>1, <3>3, <3>4, <3>5, SentNear
    <3>7. pull'[c] = NoJob /\ push'[c] = NoJob
      BY <1>1, <3>1 DEF Idle
    <3> QED
      BY <1>1, <2>2, <3>1, <3>2, <3>5, <3>6, <3>7, SetupKept DEF WordAt
  <2>3. CASE ~(KeyOf(c) = k /\ n = m)
    <3>1. /\ mine'[KeyOf(c)][n] = mine[KeyOf(c)][n]
          /\ word'[KeyOf(c)][n] = word[KeyOf(c)][n]
      BY <1>1, <1>2, <2>1, <2>3 DEF Table
    <3>2. KeyOf(c) # k => c \notin reached
      BY <1>1 DEF Sharing
    <3>3. theirs'[c][n] = theirs[c][n]
      BY <1>1, <1>2, <2>3, <3>2 DEF Table
    <3> QED
      BY <1>1, <2>1, <3>1, <3>3, WordAtKept
  <2>4. CASE KeyOf(c) = k /\ n = m /\ said = NoWord
    <3>1. word'[k][m] = NoWord
      BY <1>1, <1>2, <2>4
    <3> QED
      BY <1>1, <2>4, <3>1, SetupKept DEF WordAt
  <2> QED
    BY <2>2, <2>3, <2>4
<1>7. WordHeld'
  BY <1>6 DEF WordHeld, WordAt
<1> QED
  BY <1>5, <1>7 DEF MarksInv

\* Every way to say something.
LEMMA UserStep ==
    ASSUME MarksInv,
           \/ \E m \in Media, v \in Marks, reached \in SUBSET Conn : Rate(m, v, reached)
           \/ \E m \in Media, reached \in SUBSET Conn : Unrate(m, reached)
           \/ \E c \in Conn, m \in Media, reached \in SUBSET Conn : AddToList(c, m, reached)
           \/ \E c \in Conn, m \in Media, reached \in SUBSET Conn : RemoveFromList(c, m, reached)
           \/ \E m \in Media, reached \in SUBSET Conn : DropShow(m, reached)
           \/ \E m \in Media, reached \in SUBSET Conn : UndropShow(m, reached)
    PROVE  MarksInv'
<1>1. setup \in Setups /\ "all" \in Key /\ Conn \subseteq Key
  BY MarksFacts DEF MarksInv, Key
<1>2. Marks \subseteq Values /\ 0 \in Values /\ (part # "ratings" => 1 \in Values)
  BY <1>1, ValuesFacts
<1>3. ASSUME NEW m \in Media, NEW v \in Marks, NEW reached \in SUBSET Conn, Rate(m, v, reached)
      PROVE  MarksInv'
  BY <1>1, <1>2, <1>3, SayStep DEF Rate
<1>4. ASSUME NEW m \in Media, NEW reached \in SUBSET Conn, Unrate(m, reached)
      PROVE  MarksInv'
  BY <1>1, <1>2, <1>4, SayStep DEF Unrate
<1>5. ASSUME NEW c \in Conn, NEW m \in Media, NEW reached \in SUBSET Conn,
             AddToList(c, m, reached)
      PROVE  MarksInv'
  BY <1>1, <1>2, <1>5, SayStep DEF AddToList
<1>6. ASSUME NEW c \in Conn, NEW m \in Media, NEW reached \in SUBSET Conn,
             RemoveFromList(c, m, reached)
      PROVE  MarksInv'
  BY <1>1, <1>2, <1>6, SayStep DEF RemoveFromList
<1>7. ASSUME NEW m \in Media, NEW reached \in SUBSET Conn, DropShow(m, reached)
      PROVE  MarksInv'
  BY <1>1, <1>2, <1>7, SayStep DEF DropShow
<1>8. ASSUME NEW m \in Media, NEW reached \in SUBSET Conn, UndropShow(m, reached)
      PROVE  MarksInv'
  BY <1>1, <1>2, <1>8, SayStep DEF UndropShow
<1> QED
  BY <1>3, <1>4, <1>5, <1>6, <1>7, <1>8

LEMMA ClearStep ==
    ASSUME MarksInv, ClearRatings
    PROVE  MarksInv'
<1>1. /\ TypeOK /\ setup \in Setups /\ setup' = setup /\ pull' = pull /\ push' = push
      /\ theirs' = theirs /\ fails' = fails /\ Change /\ part = "ratings"
      /\ mine \in [Key -> Table] /\ theirs \in [Conn -> Table]
      /\ word \in [Key -> [Media -> Values \cup {NoWord}]]
  BY MarksFacts DEF MarksInv, ClearRatings
<1>2. /\ mine' = [mine EXCEPT !["all"] = Nothing]
      /\ word' = [word EXCEPT !["all"] = [m \in Media |-> NoWord]]
  BY DEF ClearRatings
<1>3. Nothing \in Table
  BY <1>1, TableFacts
<1>4. TypeOK'
  <2>1. mine' \in [Key -> Table]
    BY <1>1, <1>2, <1>3
  <2>2. word' \in [Key -> [Media -> Values \cup {NoWord}]]
    BY <1>1, <1>2
  <2>3. changes' \in 0..MaxChanges[part] /\ fails' \in 0..MaxFails
    BY <1>1, CountersStep
  <2> QED
    BY <1>1, <2>1, <2>2, <2>3, MarksFacts, TypeStep
<1>5. ASSUME NEW c \in Conn, NEW m \in Media
      PROVE  WordAt(c, m)'
  <2>1. KeyOf(c) = "all" /\ "all" \in Key
    BY <1>1 DEF KeyOf, Key
  <2>2. word'["all"][m] = NoWord
    BY <1>1, <1>2, <2>1
  <2> QED
    BY <1>1, <2>1, <2>2, SetupKept DEF WordAt
<1>6. WordHeld'
  BY <1>5 DEF WordHeld, WordAt
<1> QED
  BY <1>4, <1>6 DEF MarksInv

LEMMA SayThereStep ==
    ASSUME MarksInv, NEW c \in Conn, NEW m \in Media, NEW v \in Marks, SayThere(c, m, v)
    PROVE  MarksInv'
<1>1. /\ TypeOK /\ setup \in Setups /\ setup' = setup /\ pull' = pull /\ push' = push
      /\ mine' = mine /\ fails' = fails /\ Change /\ part # "shelf" /\ v \in Values
      /\ KeyOf(c) \in Key
      /\ mine \in [Key -> Table] /\ theirs \in [Conn -> Table]
      /\ word \in [Key -> [Media -> Values \cup {NoWord}]]
  BY MarksFacts, KeyFacts, ValuesFacts DEF MarksInv, SayThere
<1>2. /\ theirs' = [theirs EXCEPT ![c] = [theirs[c] EXCEPT ![m] = v]]
      /\ word' = [word EXCEPT ![KeyOf(c)] = [word[KeyOf(c)] EXCEPT ![m] = NoWord]]
  BY DEF SayThere
<1>3. TypeOK'
  <2>1. theirs' \in [Conn -> Table]
    BY <1>1, <1>2 DEF Table
  <2>2. word' \in [Key -> [Media -> Values \cup {NoWord}]]
    BY <1>1, <1>2
  <2>3. changes' \in 0..MaxChanges[part] /\ fails' \in 0..MaxFails
    BY <1>1, CountersStep
  <2> QED
    BY <1>1, <2>1, <2>2, <2>3, MarksFacts, TypeStep
<1>4. ASSUME NEW d \in Conn, NEW n \in Media
      PROVE  WordAt(d, n)'
  <2>1. WordAt(d, n) /\ KeyOf(d) \in Key
    BY KeyFacts, WordHeldEverywhere DEF MarksInv
  <2>2. CASE KeyOf(d) = KeyOf(c) /\ n = m
    <3>1. word'[KeyOf(d)][n] = NoWord
      BY <1>1, <1>2, <2>2
    <3> QED
      BY <1>1, <3>1, SetupKept DEF WordAt
  <2>3. CASE ~(KeyOf(d) = KeyOf(c) /\ n = m)
    <3>1. word'[KeyOf(d)][n] = word[KeyOf(d)][n]
      BY <1>1, <1>2, <2>1, <2>3
    <3>2. d = c => KeyOf(d) = KeyOf(c)
      OBVIOUS
    <3>3. theirs'[d][n] = theirs[d][n]
      BY <1>1, <1>2, <2>3, <3>2 DEF Table
    <3> QED
      BY <1>1, <2>1, <3>1, <3>3, WordAtKept
  <2> QED
    BY <2>2, <2>3
<1>5. WordHeld'
  BY <1>4 DEF WordHeld, WordAt
<1> QED
  BY <1>3, <1>5 DEF MarksInv

-----------------------------------------------------------------------------
(* Pulls and pushes.                                                       *)

\* A job that starts reads what the service or the account has.
LEMMA PullReadStep ==
    ASSUME MarksInv, NEW c \in Conn, PullRead(c)
    PROVE  MarksInv'
<1> DEFINE job == [at |-> "read", rows |-> theirs[c],
                   known |-> IF part = "lists" THEN Nothing ELSE mine[KeyOf(c)]]
<1>1. /\ TypeOK /\ setup \in Setups /\ setup' = setup /\ push' = push /\ mine' = mine
      /\ theirs' = theirs /\ fails' = fails /\ changes' = changes /\ word' = word
      /\ part # "shelf"
      /\ mine \in [Key -> Table] /\ theirs \in [Conn -> Table]
      /\ pull \in [Conn -> PullJob \cup {NoJob}]
  BY MarksFacts DEF MarksInv, PullRead
<1>2. pull' = [pull EXCEPT ![c] = job]
  BY DEF PullRead
<1>3. job \in PullJob /\ job.rows = theirs[c]
      /\ (part # "lists" => job.known = mine[KeyOf(c)])
  BY <1>1, KeyFacts, TableFacts DEF PullJob
<1> HIDE DEF job
<1>4. TypeOK'
  <2>1. pull' \in [Conn -> PullJob \cup {NoJob}]
    BY <1>1, <1>2, <1>3
  <2>2. changes' \in 0..MaxChanges[part] /\ fails' \in 0..MaxFails
    BY <1>1, CountersStep
  <2> QED
    BY <1>1, <2>1, <2>2, MarksFacts, TypeStep
<1>5. ASSUME NEW d \in Conn, NEW n \in Media
      PROVE  WordAt(d, n)'
  <2>1. WordAt(d, n)
    BY WordHeldEverywhere DEF MarksInv
  <2>2. CASE d = c
    <3>1. pull'[c] = job
      BY <1>1, <1>2
    <3> QED
      BY <1>1, <1>3, <2>1, <2>2, <3>1, SetupKept DEF WordAt
  <2>3. CASE d # c
    <3>1. pull'[d] = pull[d]
      BY <1>1, <1>2, <2>3
    <3> QED
      BY <1>1, <2>1, <3>1, WordAtKept
  <2> QED
    BY <2>2, <2>3
<1>6. WordHeld'
  BY <1>5 DEF WordHeld, WordAt
<1> QED
  BY <1>4, <1>6 DEF MarksInv

LEMMA PushReadStep ==
    ASSUME MarksInv, NEW c \in Conn, PushRead(c)
    PROVE  MarksInv'
<1> DEFINE plan == CASE part = "ratings" -> RatingsPlan(c)
                     [] part = "lists" -> ListPlan(c)
                     [] part = "drops" -> DropsPlan(c)
           job == [at |-> "read", had |-> mine[KeyOf(c)], plan |-> plan]
<1>1. /\ TypeOK /\ setup \in Setups /\ setup' = setup /\ pull' = pull /\ mine' = mine
      /\ theirs' = theirs /\ fails' = fails /\ changes' = changes /\ word' = word
      /\ part # "shelf"
      /\ mine \in [Key -> Table] /\ push \in [Conn -> PushJob \cup {NoJob}]
  BY MarksFacts DEF MarksInv, PushRead
<1>2. push' = [push EXCEPT ![c] = job]
  BY DEF PushRead
<1>3. plan \subseteq Media
  <2>1. part \in {"ratings", "lists", "drops"}
    BY <1>1, SetupFacts DEF Kind
  <2>2. RatingsPlan(c) \subseteq Media /\ ListPlan(c) \subseteq Media /\ DropsPlan(c) \subseteq Media
    BY DEF RatingsPlan, ListPlan, DropsPlan, Has
  <2> QED
    BY <2>1, <2>2
<1> HIDE DEF plan
<1>4. job \in PushJob /\ job.had = mine[KeyOf(c)]
  BY <1>1, <1>3, KeyFacts DEF PushJob
<1> HIDE DEF job
<1>5. TypeOK'
  <2>1. push' \in [Conn -> PushJob \cup {NoJob}]
    BY <1>1, <1>2, <1>4
  <2>2. changes' \in 0..MaxChanges[part] /\ fails' \in 0..MaxFails
    BY <1>1, CountersStep
  <2> QED
    BY <1>1, <2>1, <2>2, MarksFacts, TypeStep
<1>6. ASSUME NEW d \in Conn, NEW n \in Media
      PROVE  WordAt(d, n)'
  <2>1. WordAt(d, n)
    BY WordHeldEverywhere DEF MarksInv
  <2>2. CASE d = c
    <3>1. push'[c] = job
      BY <1>1, <1>2
    <3> QED
      BY <1>1, <1>4, <2>1, <2>2, <3>1, SetupKept DEF WordAt
  <2>3. CASE d # c
    <3>1. push'[d] = push[d]
      BY <1>1, <1>2, <2>3
    <3> QED
      BY <1>1, <2>1, <3>1, WordAtKept
  <2> QED
    BY <2>2, <2>3
<1>7. WordHeld'
  BY <1>6 DEF WordHeld, WordAt
<1> QED
  BY <1>5, <1>7 DEF MarksInv

\* A job that ends writes what is near every word it does not unsay.
LEMMA PullApplyStep ==
    ASSUME MarksInv, NEW c \in Conn, NEW ok \in SUBSET Media, NEW clean \in BOOLEAN,
           PullApply(c, ok, clean)
    PROVE  MarksInv'
<1> DEFINE k == KeyOf(c)
           new == Pulled(c, ok)
           unsaid == [m \in Media |-> IF m \in ok THEN word[k][m] ELSE NoWord]
<1>1. /\ TypeOK /\ setup \in Setups /\ setup' = setup /\ push' = push /\ theirs' = theirs
      /\ changes' = changes /\ pull[c] # NoJob /\ Fail(~clean \/ ok # Media) /\ k \in Key
      /\ mine \in [Key -> Table] /\ theirs \in [Conn -> Table]
      /\ pull \in [Conn -> PullJob \cup {NoJob}]
      /\ word \in [Key -> [Media -> Values \cup {NoWord}]]
  BY MarksFacts, KeyFacts DEF MarksInv, PullApply
<1>2. /\ mine' = IF clean THEN [mine EXCEPT ![k] = new] ELSE mine
      /\ word' = [word EXCEPT ![k] = unsaid]
      /\ pull' = [pull EXCEPT ![c] = NoJob]
  BY DEF PullApply
<1>3. new \in Table
  BY <1>1, PulledNear
<1>4. TypeOK'
  <2>1. mine' \in [Key -> Table]
    BY <1>1, <1>2, <1>3
  <2>2. word' \in [Key -> [Media -> Values \cup {NoWord}]]
    BY <1>1, <1>2
  <2>3. pull' \in [Conn -> PullJob \cup {NoJob}]
    BY <1>1, <1>2
  <2>4. changes' \in 0..MaxChanges[part] /\ fails' \in 0..MaxFails
    BY <1>1, CountersStep
  <2>5. part = "shelf" => Idle'
    BY <1>1, JobFacts
  <2> QED
    BY <1>1, <2>1, <2>2, <2>3, <2>4, <2>5, MarksFacts, TypeStep
<1>5. ASSUME NEW d \in Conn, NEW n \in Media
      PROVE  WordAt(d, n)'
  <2>1. WordAt(d, n) /\ WordAt(c, n) /\ KeyOf(d) \in Key
    BY KeyFacts, WordHeldEverywhere DEF MarksInv
  <2>2. pull'[d] \in {pull[d], NoJob}
    BY <1>1, <1>2
  <2>3. CASE KeyOf(d) # k
    <3>1. mine'[KeyOf(d)] = mine[KeyOf(d)] /\ word'[KeyOf(d)] = word[KeyOf(d)]
      BY <1>1, <1>2, <2>1, <2>3
    <3> QED
      BY <1>1, <2>1, <2>2, <3>1, WordAtKept
  <2>4. CASE KeyOf(d) = k /\ (n \notin ok \/ word[k][n] = NoWord)
    <3>1. word'[k][n] = NoWord
      BY <1>1, <1>2, <2>4
    <3> QED
      BY <1>1, <2>4, <3>1, SetupKept DEF WordAt
  <2>5. CASE KeyOf(d) = k /\ n \in ok /\ word[k][n] # NoWord
    <3>1. word'[k][n] = word[k][n] /\ word[k][n] \in Values
      BY <1>1, <1>2, <2>5
    <3>2. new[n] \in Near(word[k][n])
      BY <1>1, <2>1, <2>5, <3>1, PulledNear DEF WordAt
    <3>3. mine'[k][n] \in {new[n], mine[k][n]}
      BY <1>1, <1>2
    <3>4. mine'[k][n] \in Near(word[k][n])
      BY <2>1, <2>5, <3>2, <3>3 DEF WordAt
    <3> QED
      BY <1>1, <2>1, <2>2, <2>5, <3>1, <3>4, SetupKept DEF WordAt
  <2> QED
    BY <2>3, <2>4, <2>5
<1>6. WordHeld'
  BY <1>5 DEF WordHeld, WordAt
<1> QED
  BY <1>4, <1>6 DEF MarksInv

LEMMA PushSendStep ==
    ASSUME MarksInv, NEW c \in Conn, NEW ok \in SUBSET Media, NEW moved \in SUBSET Media,
           PushSend(c, ok, moved)
    PROVE  MarksInv'
<1> DEFINE sent(m) == IF m \in ok THEN Sent(c, m, push[c].had[m], theirs[c][m])
                      ELSE IF m \in moved THEN 0 ELSE theirs[c][m]
<1>1. /\ TypeOK /\ setup \in Setups /\ setup' = setup /\ pull' = pull /\ mine' = mine
      /\ word' = word /\ changes' = changes /\ push[c] # NoJob
      /\ Fail(ok # push[c].plan) /\ part # "shelf"
      /\ mine \in [Key -> Table] /\ theirs \in [Conn -> Table]
      /\ push \in [Conn -> PushJob \cup {NoJob}] /\ push[c].had \in Table
      /\ word \in [Key -> [Media -> Values \cup {NoWord}]]
      /\ moved # {} => part = "drops"
  BY MarksFacts, JobFacts DEF MarksInv, PushSend
<1>2. /\ theirs' = [theirs EXCEPT ![c] = [m \in Media |-> sent(m)]]
      /\ push' = [push EXCEPT ![c] = NoJob]
  BY DEF PushSend
<1>3. ASSUME NEW m \in Media
      PROVE  /\ sent(m) \in Values
             /\ word[KeyOf(c)][m] # NoWord
                   => Excused(c, m, word[KeyOf(c)][m]) \/ sent(m) \in Near(word[KeyOf(c)][m])
  <2>1. /\ push[c].had[m] \in Values /\ theirs[c][m] \in Values /\ KeyOf(c) \in Key
        /\ word[KeyOf(c)][m] \in Values \cup {NoWord} /\ WordAt(c, m)
    BY <1>1, KeyFacts, WordHeldEverywhere DEF Table, MarksInv
  <2>2. CASE m \in ok
    BY <1>1, <2>1, <2>2, SentNear DEF WordAt
  <2>3. CASE m \notin ok /\ m \in moved
    <3>1. sent(m) = 0 /\ part = "drops"
      BY <1>1, <2>3
    <3>2. word[KeyOf(c)][m] # NoWord => \/ word[KeyOf(c)][m] = 0
                                        \/ Excused(c, m, word[KeyOf(c)][m])
      BY <1>1, <2>1, <3>1, ValuesFacts DEF Excused
    <3> QED
      BY <1>1, <2>1, <3>1, <3>2, ValuesFacts, NearFacts
  <2>4. CASE m \notin ok /\ m \notin moved
    BY <2>1, <2>4 DEF WordAt
  <2> QED
    BY <2>2, <2>3, <2>4
<1> HIDE DEF sent
<1>4. TypeOK'
  <2>1. theirs' \in [Conn -> Table]
    BY <1>1, <1>2, <1>3 DEF Table
  <2>2. push' \in [Conn -> PushJob \cup {NoJob}]
    BY <1>1, <1>2
  <2>3. changes' \in 0..MaxChanges[part] /\ fails' \in 0..MaxFails
    BY <1>1, CountersStep
  <2> QED
    BY <1>1, <2>1, <2>2, <2>3, MarksFacts, TypeStep
<1>5. ASSUME NEW d \in Conn, NEW n \in Media
      PROVE  WordAt(d, n)'
  <2>1. WordAt(d, n)
    BY WordHeldEverywhere DEF MarksInv
  <2>2. CASE d = c
    <3>1. theirs'[c][n] = sent(n) /\ push'[c] = NoJob
      BY <1>1, <1>2
    <3> QED
      BY <1>1, <1>3, <2>1, <2>2, <3>1, SetupKept DEF WordAt
  <2>3. CASE d # c
    <3>1. theirs'[d] = theirs[d] /\ push'[d] = push[d]
      BY <1>1, <1>2, <2>3
    <3> QED
      BY <1>1, <2>1, <3>1, WordAtKept
  <2> QED
    BY <2>2, <2>3
<1>6. WordHeld'
  BY <1>5 DEF WordHeld, WordAt
<1> QED
  BY <1>4, <1>6 DEF MarksInv

-----------------------------------------------------------------------------
(* Every behaviour of CloudMarks.                                          *)

LEMMA MarksStart == Init => MarksInv
<1> SUFFICES ASSUME Init PROVE MarksInv
  OBVIOUS
<1>1. /\ setup \in Setups /\ Nothing \in Table
      /\ mine = [k \in Key |-> Nothing] /\ theirs = [c \in Conn |-> Nothing]
      /\ pull = [c \in Conn |-> NoJob] /\ push = [c \in Conn |-> NoJob]
      /\ changes = 0 /\ fails = 0
      /\ word = [k \in Key |-> [m \in Media |-> NoWord]]
  BY TableFacts DEF Init
<1>2. 0 \in 0..MaxChanges[part] /\ 0 \in 0..MaxFails
  BY <1>1, ConstantsAssumption, SetupFacts
<1>3. TypeOK
  <2>1. /\ mine \in [Key -> Table] /\ theirs \in [Conn -> Table]
        /\ pull \in [Conn -> PullJob \cup {NoJob}] /\ push \in [Conn -> PushJob \cup {NoJob}]
        /\ word \in [Key -> [Media -> Values \cup {NoWord}]]
    BY <1>1
  <2>2. Idle
    BY <1>1 DEF Idle
  <2> QED
    BY <1>1, <1>2, <2>1, <2>2 DEF TypeOK, PullJob, PushJob
<1>4. WordHeld
  <2>1. \A c \in Conn, m \in Media : word[KeyOf(c)][m] = NoWord
    BY <1>1, KeyFacts
  <2> QED
    BY <2>1 DEF WordHeld
<1> QED
  BY <1>3, <1>4 DEF MarksInv

\* A step that leaves the marks alone.
LEMMA MarksUntouched ==
    ASSUME MarksInv, UNCHANGED <<setup, mine, theirs, pull, push, word>>,
           changes' \in 0..MaxChanges[part], fails' \in 0..MaxFails
    PROVE  MarksInv'
<1>1. /\ TypeOK /\ setup' = setup /\ mine' = mine /\ theirs' = theirs
      /\ pull' = pull /\ push' = push /\ word' = word
      /\ mine \in [Key -> Table] /\ theirs \in [Conn -> Table]
      /\ pull \in [Conn -> PullJob \cup {NoJob}] /\ push \in [Conn -> PushJob \cup {NoJob}]
      /\ word \in [Key -> [Media -> Values \cup {NoWord}]]
  BY MarksFacts DEF MarksInv
<1>2. part = "shelf" => Idle'
  BY <1>1 DEF TypeOK, Idle
<1>3. TypeOK'
  BY <1>1, <1>2, TypeStep
<1>4. ASSUME NEW c \in Conn, NEW m \in Media
      PROVE  WordAt(c, m)'
  <2>1. WordAt(c, m)
    BY WordHeldEverywhere DEF MarksInv
  <2> QED
    BY <1>1, <2>1, WordAtKept
<1>5. WordHeld'
  BY <1>4 DEF WordHeld, WordAt
<1> QED
  BY <1>3, <1>5 DEF MarksInv

LEMMA MarksStep == MarksInv /\ [Next]_vars => MarksInv'
<1> SUFFICES ASSUME MarksInv, [Next]_vars PROVE MarksInv'
  OBVIOUS
<1>1. CASE UNCHANGED vars
  <2>1. /\ changes' \in 0..MaxChanges[part] /\ fails' \in 0..MaxFails
    BY <1>1, CountersStep DEF vars, MarksInv
  <2> QED
    BY <1>1, <2>1, MarksUntouched DEF vars
<1>2. CASE Next
  <2>1. CASE ClearRatings
    BY <2>1, ClearStep
  <2>2. CASE \E c \in Conn, m \in Media, v \in Marks : SayThere(c, m, v)
    BY <2>2, SayThereStep
  <2>3. CASE \E c \in Conn : PullRead(c)
    BY <2>3, PullReadStep
  <2>4. CASE \E c \in Conn, ok \in SUBSET Media, clean \in BOOLEAN : PullApply(c, ok, clean)
    BY <2>4, PullApplyStep
  <2>5. CASE \E c \in Conn : PushRead(c)
    BY <2>5, PushReadStep
  <2>6. CASE \E c \in Conn, ok, moved \in SUBSET Media : PushSend(c, ok, moved)
    BY <2>6, PushSendStep
  <2> QED
    BY <1>2, <2>1, <2>2, <2>3, <2>4, <2>5, <2>6, UserStep DEF Next
<1> QED
  BY <1>1, <1>2

\* What is held of every connection is what stands for every key.
LEMMA HeldWordsStand == MarksInv => WordStands
<1> SUFFICES ASSUME MarksInv, NEW c \in Conn, NEW m \in Media, word[KeyOf(c)][m] # NoWord
             PROVE  mine[KeyOf(c)][m] \in Near(word[KeyOf(c)][m])
  BY DEF WordStands, Keys
<1> QED
  BY WordHeldEverywhere DEF MarksInv, WordAt

\* Every variable of the marks keeps its type: no service, pull or push makes a rating
\* that is none, and a collection has none of these jobs.
THEOREM MarksTypeCorrect == Spec => []TypeOK
<1>1. MarksInv => TypeOK
  BY DEF MarksInv
<1> QED
  BY <1>1, MarksStart, MarksStep, PTL DEF Spec

\* What the user says of a rating, a list entry or a dropped show while nothing is at work,
\* and every service hears, stands: no pull writes back what it read before, no push sends
\* it, and no rounding wears it down (Say, PullApply, PushSend).
THEOREM WordsStand == Spec => []WordStands
BY MarksStart, MarksStep, HeldWordsStand, PTL DEF Spec

-----------------------------------------------------------------------------
(* The collection: types.                                                  *)

CallRecord == [conn : Conn, rows : SUBSET Items, add : SUBSET Items, del : SUBSET Items,
               cur : SUBSET Titles]
TookRecord == [at : {"read"}, lib : SUBSET Titles, gone : SUBSET Titles, complete : BOOLEAN,
               later : SUBSET Titles]

\* A call names titles to the services that keep titles.
WellNamed(call) == Titled(call.conn) => call.add \cup call.del \subseteq Titles

ShelfTypes ==
    /\ shelf \in [Items -> SUBSET Source] /\ exists \subseteq Episodes /\ heard \subseteq Items
    /\ there \in [Conn -> SUBSET Items] /\ gone \in [Conn -> SUBSET Titles]
    /\ fresh \in [Conn -> (SUBSET Titles) \cup {Never}]
    /\ pushed \in [Conn -> (SUBSET Titles) \cup {Never}]
    /\ took \in [Conn -> TookRecord \cup {NoJob}]
    /\ calls \subseteq CallRecord /\ \A call \in calls : WellNamed(call)

ShelfInv == MarksInv /\ ShelfTypes /\ ShelfHeld

LEMMA ShelfTypesEnough ==
    ASSUME MarksInv, ShelfTypes
    PROVE  ShelfTypeOK
BY DEF MarksInv, ShelfTypes, ShelfTypeOK, CallRecord, TookRecord, WellNamed

\* A pull at work has read titles.
LEMMA TookFacts ==
    ASSUME ShelfTypes, NEW c \in Conn, took[c] # NoJob
    PROVE  /\ took[c] \in TookRecord /\ took[c].lib \subseteq Titles
           /\ took[c].gone \subseteq Titles /\ took[c].complete \in BOOLEAN
           /\ took[c].later \subseteq Titles
<1>1. took[c] \in TookRecord
  BY DEF ShelfTypes
<1>2. \A job \in TookRecord : /\ job.lib \subseteq Titles /\ job.gone \subseteq Titles
                              /\ job.complete \in BOOLEAN /\ job.later \subseteq Titles
  BY DEF TookRecord
<1> QED
  BY <1>1, <1>2

LEMMA TookIsRecord == NoJob \notin TookRecord
BY DEF NoJob, TookRecord

LEMMA CallFacts ==
    ASSUME NEW call \in CallRecord
    PROVE  /\ call.conn \in Conn /\ call.rows \subseteq Items /\ call.add \subseteq Items
           /\ call.del \subseteq Items /\ call.cur \subseteq Titles
BY DEF CallRecord

\* Rows and titles.
LEMMA TitleFacts ==
    /\ Titles \subseteq Items
    /\ \A i \in Items : TitleOf(i) \in Titles
    /\ \A t \in Titles : TitleOf(t) = t /\ t \notin Episodes
    /\ \A i \in Items : i \notin Titles => i \in Episodes
    /\ \A i \in Items : TitleOf(i) = Film => i = Film
BY ShelfAssumption DEF Titles, Items, TitleOf

LEMMA TitlesOfFacts ==
    ASSUME NEW I \in SUBSET Items
    PROVE  /\ TitlesOf(I) \subseteq Titles
           /\ \A i \in I : TitleOf(i) \in TitlesOf(I)
           /\ \A i \in Items : TitleOf(i) \notin TitlesOf(I) => i \notin I
           /\ \A i \in Items : i \in Alike(TitlesOf(I)) <=> TitleOf(i) \in TitlesOf(I)
           /\ \A t \in Titles : t \in I => t \in TitlesOf(I)
BY TitleFacts DEF TitlesOf, Alike

\* A title is on the shelf if a row of it has files.
LEMMA ShelfTitles ==
    ASSUME NEW files, NEW t
    PROVE  t \in TitlesOf(OnShelf(files)) <=> \E j \in Items : TitleOf(j) = t /\ files[j] # {}
BY DEF TitlesOf, OnShelf

\* Where the rows of a title have files or none as before, it is collected as before.
LEMMA CollectedKept ==
    ASSUME setup' = setup, NEW i \in Items, NEW c \in Conn,
           \A j \in Items : TitleOf(j) = TitleOf(i) => (shelf'[j] = {} <=> shelf[j] = {})
    PROVE  /\ TitleCollected(TitleOf(i))' <=> TitleCollected(TitleOf(i))
           /\ Collected(c, i)' <=> Collected(c, i)
<1>1. TitleCollected(TitleOf(i)) <=> \E j \in Items : TitleOf(j) = TitleOf(i) /\ shelf[j] # {}
  BY ShelfTitles DEF TitleCollected
<1>2. TitleCollected(TitleOf(i))' <=> \E j \in Items : TitleOf(j) = TitleOf(i) /\ shelf'[j] # {}
  BY ShelfTitles DEF TitleCollected
<1>3. Titled(c)' <=> Titled(c)
  BY DEF Titled, svc
<1> QED
  BY <1>1, <1>2, <1>3 DEF Collected

\* The parts of the invariant, for one row.
Agrees(call, i) ==
    Takes(call.conn, i) =>
        /\ Name(call.conn, i) \in call.add => Collected(call.conn, i)
        /\ Name(call.conn, i) \in call.del => ~Collected(call.conn, i)

Coming(c, i, call) ==
    /\ call.conn = c /\ TitleOf(i) \in TitlesOf(call.rows)
    /\ Name(c, i) \in call.add \cup call.del

PullAgrees(c, i) ==
    took[c] # NoJob =>
        /\ TitleOf(i) \in took[c].lib => TitleCollected(TitleOf(i))
        /\ svc[c] = "stremio" /\ (TitleOf(i) \in took[c].gone
                                 \/ (took[c].complete /\ TitleOf(i) \notin took[c].lib))
                => ~TitleCollected(TitleOf(i))

LEMMA HeldByRow ==
    ShelfHeld <=> /\ \A i \in heard, call \in calls : Agrees(call, i)
                  /\ \A i \in heard, c \in Conn :
                        InStep(c, i) \/ \E call \in calls : Coming(c, i, call)
                  /\ \A i \in heard, c \in Conn : PullAgrees(c, i)
                  /\ GoneOrThere
BY DEF ShelfHeld, CallsAgree, CallsComing, PullsAgree, Agrees, Coming, PullAgrees

LEMMA HeldByRowNext ==
    ASSUME \A i \in heard', call \in calls' : Agrees(call, i)',
           \A i \in heard', c \in Conn :
               InStep(c, i)' \/ \E call \in calls' : Coming(c, i, call)',
           \A i \in heard', c \in Conn : PullAgrees(c, i)',
           GoneOrThere'
    PROVE  ShelfHeld'
BY DEF ShelfHeld, CallsAgree, CallsComing, PullsAgree, Agrees, Coming, PullAgrees

\* What a setup fixes of the collection.
LEMMA ShelfSetupKept ==
    ASSUME setup' = setup
    PROVE  /\ svc' = svc /\ part' = part
           /\ \A c : Titled(c)' <=> Titled(c)
           /\ \A c, i : (Takes(c, i)' <=> Takes(c, i)) /\ Name(c, i)' = Name(c, i)
           /\ \A c, i, call : Coming(c, i, call)' <=> Coming(c, i, call)
           /\ \A call : WellNamed(call)' <=> WellNamed(call)
BY DEF svc, part, Titled, Takes, Name, Coming, WellNamed

\* Of a row whose title's files are or are not there as before, every part stays as it is
\* where its own variables do.
LEMMA RowKept ==
    ASSUME setup' = setup, NEW i \in Items,
           \A j \in Items : TitleOf(j) = TitleOf(i) => (shelf'[j] = {} <=> shelf[j] = {})
    PROVE  /\ \A call \in CallRecord : Agrees(call, i)' <=> Agrees(call, i)
           /\ \A c \in Conn : (Name(c, i) \in there'[c] <=> Name(c, i) \in there[c])
                                => (InStep(c, i)' <=> InStep(c, i))
           /\ \A c \in Conn : took'[c] = took[c] => (PullAgrees(c, i)' <=> PullAgrees(c, i))
<1>1. \A c \in Conn : /\ TitleCollected(TitleOf(i))' <=> TitleCollected(TitleOf(i))
                      /\ Collected(c, i)' <=> Collected(c, i)
  BY CollectedKept
<1>2. \A call \in CallRecord : Agrees(call, i)' <=> Agrees(call, i)
  BY <1>1, ShelfSetupKept, CallFacts DEF Agrees
<1>3. ASSUME NEW c \in Conn, Name(c, i) \in there'[c] <=> Name(c, i) \in there[c]
      PROVE  InStep(c, i)' <=> InStep(c, i)
  BY <1>1, <1>3, ShelfSetupKept DEF InStep
<1>4. ASSUME NEW c \in Conn, took'[c] = took[c]
      PROVE  PullAgrees(c, i)' <=> PullAgrees(c, i)
  BY <1>1, <1>4, ShelfSetupKept DEF PullAgrees
<1> QED
  BY <1>2, <1>3, <1>4

-----------------------------------------------------------------------------
(* What is sent.                                                           *)

LEMMA BeforeFacts ==
    ASSUME ShelfTypes, NEW c \in Conn
    PROVE  (IF pushed[c] = Never THEN {} ELSE pushed[c]) \subseteq Titles
BY DEF ShelfTypes

LEMMA LibraryFacts ==
    ASSUME NEW files \in [Items -> SUBSET Source], NEW named \in Lookups
    PROVE  /\ LibraryItems(files, named) \subseteq Titles
           /\ \A t \in named : t \in LibraryItems(files, named) <=> t \in TitlesOf(OnShelf(files))
<1>1. OnShelf(files) \in SUBSET Items
  BY DEF OnShelf
<1> QED
  BY <1>1, TitlesOfFacts DEF LibraryItems, Lookups

\* Stremio is sent the titles of the target, and told to forget those it was sent before.
StremioSays(call, c, rows, library, target) ==
    /\ call \in CallRecord /\ call.conn = c /\ call.rows = rows
    /\ call.add = library \cap target /\ call.del \subseteq target \ library
    /\ \A t \in target \ library : pushed[c] # Never /\ t \in pushed[c] => t \in call.del

LEMMA StremioFacts ==
    ASSUME ShelfTypes, NEW c \in Conn, NEW rows \in SUBSET Items,
           NEW library \in SUBSET Titles, NEW target \in SUBSET Titles
    PROVE  StremioSays(StremioCall(c, rows, library, target), c, rows, library, target)
<1> DEFINE before == IF pushed[c] = Never THEN {} ELSE pushed[c]
<1>1. before \subseteq Titles
  BY BeforeFacts
<1>2. StremioCall(c, rows, library, target)
        = [conn |-> c, rows |-> rows, add |-> library \cap target,
           del |-> (before \ library) \cap target, cur |-> library]
  BY DEF StremioCall, CallOf
<1>3. Titles \subseteq Items
  BY TitleFacts
<1>4. \A t \in target \ library : pushed[c] # Never /\ t \in pushed[c]
                                    => t \in (before \ library) \cap target
  OBVIOUS
<1> HIDE DEF before
<1>5. /\ library \cap target \in SUBSET Items /\ (before \ library) \cap target \in SUBSET Items
      /\ library \in SUBSET Titles
  BY <1>1, <1>3
<1>6. StremioCall(c, rows, library, target) \in CallRecord
  BY <1>2, <1>5 DEF CallRecord
<1> QED
  BY <1>2, <1>4, <1>6 DEF StremioSays

\* What a change of rows sends: titles of the rows that were found, or the rows.
DeltaSays(call, c, rows, added, changed, library) ==
    /\ call \in CallRecord /\ call.conn = c /\ call.rows = rows
    /\ svc[c] = "nuvio" => call.add = changed \cap library /\ call.del = changed \ library
    /\ svc[c] = "stremio" => StremioSays(call, c, rows, library, changed)
    /\ ~Titled(c) => /\ call.add \subseteq (IF added THEN rows ELSE {})
                     /\ call.del \subseteq (IF added THEN {} ELSE rows)
                     /\ rows \ {Series} \subseteq call.add \cup call.del

LEMMA DeltaFacts ==
    ASSUME ShelfTypes, NEW c \in Conn, NEW files \in [Items -> SUBSET Source],
           NEW rows \in SUBSET Items, NEW added \in BOOLEAN, NEW named \in Lookups
    PROVE  DeltaSays(Delta(c, files, rows, added, named), c, rows, added,
                     Targets(rows, named), LibraryItems(files, named))
<1> DEFINE changed == Targets(rows, named)
           library == LibraryItems(files, named)
<1>1. changed \subseteq Titles /\ library \subseteq Titles /\ Titles \subseteq Items
  BY TitlesOfFacts, TitleFacts, LibraryFacts DEF Targets
<1>2. CASE svc[c] = "nuvio"
  <2>1. Delta(c, files, rows, added, named)
          = [conn |-> c, rows |-> rows, add |-> changed \cap library,
             del |-> changed \ library, cur |-> {}]
    BY <1>2 DEF Delta, NuvioDelta, CallOf
  <2> HIDE DEF changed, library
  <2>2. /\ changed \cap library \in SUBSET Items /\ changed \ library \in SUBSET Items
        /\ {} \in SUBSET Titles
    BY <1>1
  <2>3. Delta(c, files, rows, added, named) \in CallRecord
    BY <2>1, <2>2 DEF CallRecord
  <2> QED
    BY <1>2, <2>1, <2>3 DEF Titled, changed, library, DeltaSays
<1>3. CASE svc[c] = "stremio"
  <2>1. Delta(c, files, rows, added, named) = StremioCall(c, rows, library, changed)
    BY <1>3 DEF Delta
  <2> HIDE DEF changed, library
  <2>2. library \in SUBSET Titles /\ changed \in SUBSET Titles
    BY <1>1
  <2>3. StremioSays(StremioCall(c, rows, library, changed), c, rows, library, changed)
    BY <2>2, StremioFacts
  <2>4. svc[c] # "nuvio" /\ Titled(c)
    BY <1>3 DEF Titled
  <2> QED
    BY <1>3, <2>1, <2>3, <2>4 DEF changed, library, DeltaSays, StremioSays
<1>4. CASE svc[c] \notin {"nuvio", "stremio"}
  <2> DEFINE some == IF svc[c] = "mdblist" THEN rows ELSE rows \ {Series}
  <2>1. Delta(c, files, rows, added, named)
          = [conn |-> c, rows |-> rows, add |-> IF added THEN some ELSE {},
             del |-> IF added THEN {} ELSE some, cur |-> {}]
    BY <1>4 DEF Delta, MdblistDelta, TraktDelta, CallOf
  <2>2. some \in SUBSET rows /\ rows \ {Series} \subseteq some
    OBVIOUS
  <2> HIDE DEF some
  <2>3. Delta(c, files, rows, added, named) \in CallRecord
    BY <2>1, <2>2 DEF CallRecord
  <2> QED
    BY <1>4, <2>1, <2>2, <2>3 DEF Titled, DeltaSays
<1> QED
  BY <1>2, <1>3, <1>4

\* What a full push sends: what is collected, and to Stremio what no longer is.
FullSays(call, c, library) ==
    /\ call \in CallRecord /\ call.conn = c /\ call.rows = {}
    /\ Titled(c) => call.add \subseteq library /\ call.del \subseteq Titles \ library
    /\ ~Titled(c) => call.add \subseteq OnShelf(shelf) /\ call.del = {}

LEMMA FullFacts ==
    ASSUME ShelfTypes, NEW c \in Conn, NEW named \in Lookups
    PROVE  FullSays(Full(c, named), c, LibraryItems(shelf, named))
<1> DEFINE library == LibraryItems(shelf, named)
<1>1. library \subseteq Titles /\ Titles \subseteq Items /\ OnShelf(shelf) \subseteq Items
  BY TitleFacts, LibraryFacts DEF OnShelf, ShelfTypes
<1>2. CASE svc[c] = "nuvio"
  <2>1. Full(c, named) = [conn |-> c, rows |-> {}, add |-> library, del |-> {}, cur |-> {}]
    BY <1>2 DEF Full, NuvioFull, CallOf
  <2> HIDE DEF library
  <2>2. Full(c, named) \in CallRecord
    BY <1>1, <2>1 DEF CallRecord
  <2> QED
    BY <1>1, <1>2, <2>1, <2>2 DEF Titled, library, FullSays
<1>3. CASE svc[c] = "stremio"
  <2>1. Full(c, named) = StremioCall(c, {}, library, Titles)
    BY <1>3 DEF Full, StremioFull
  <2> HIDE DEF library
  <2>2. StremioSays(StremioCall(c, {}, library, Titles), c, {}, library, Titles)
    <3>1. {} \in SUBSET Items /\ library \in SUBSET Titles /\ Titles \in SUBSET Titles
      BY <1>1
    <3> QED
      BY <3>1, StremioFacts
  <2> QED
    BY <1>1, <1>3, <2>1, <2>2 DEF Titled, library, FullSays, StremioSays
<1>4. CASE svc[c] \notin {"nuvio", "stremio"}
  <2> DEFINE some == IF svc[c] = "mdblist" THEN Sendable(c, OnShelf(shelf))
                     ELSE Sendable(c, OnShelf(shelf)) \ there[c]
  <2>1. Full(c, named) = [conn |-> c, rows |-> {}, add |-> some, del |-> {}, cur |-> {}]
    BY <1>4 DEF Full, MdblistFull, TraktFull, CallOf
  <2>2. some \subseteq OnShelf(shelf)
    BY DEF Sendable
  <2> HIDE DEF some
  <2>3. Full(c, named) \in CallRecord
    BY <1>1, <2>1, <2>2 DEF CallRecord
  <2> QED
    BY <1>4, <2>1, <2>2, <2>3 DEF Titled, FullSays
<1> QED
  BY <1>2, <1>3, <1>4

-----------------------------------------------------------------------------
(* The user collects and removes rows.                                     *)

Sendings(files, rows, added, named) ==
    {call \in {Delta(c, files, rows, added, named) : c \in Conn} : Worth(call)}

\* What a change of rows is: the files of these rows only, there or not there after it.
ChangesRows(files, rows, added) ==
    /\ files \in [Items -> SUBSET Source]
    /\ \A j \in Items \ rows : files[j] = shelf[j]
    /\ \A j \in rows : files[j] # {} <=> added

\* Calls that are sent say something of these rows and their titles only.
LEMMA SendingsFacts ==
    ASSUME ShelfTypes, NEW rows \in SUBSET Items, NEW added \in BOOLEAN, NEW named \in Lookups,
           NEW files \in [Items -> SUBSET Source],
           NEW call \in Sendings(files, rows, added, named)
    PROVE  /\ call \in CallRecord /\ WellNamed(call)
           /\ DeltaSays(call, call.conn, rows, added, Targets(rows, named),
                        LibraryItems(files, named))
           /\ \A i \in Items : Name(call.conn, i) \in call.add \cup call.del
                                => TitleOf(i) \in TitlesOf(rows)
<1>1. PICK c \in Conn : call = Delta(c, files, rows, added, named)
  BY DEF Sendings
<1>2. DeltaSays(call, c, rows, added, Targets(rows, named), LibraryItems(files, named))
  BY <1>1, DeltaFacts
<1>3. call \in CallRecord /\ call.conn = c
  BY <1>2 DEF DeltaSays
<1>4. Targets(rows, named) \subseteq TitlesOf(rows) /\ TitlesOf(rows) \subseteq Titles
  BY TitlesOfFacts DEF Targets
<1>5. Titled(c) => call.add \cup call.del \subseteq Targets(rows, named)
  BY <1>2 DEF DeltaSays, StremioSays, Titled
<1>6. ~Titled(c) => call.add \cup call.del \subseteq rows
  BY <1>2 DEF DeltaSays
<1>7. WellNamed(call)
  BY <1>3, <1>4, <1>5 DEF WellNamed
<1>8. ASSUME NEW i \in Items, Name(c, i) \in call.add \cup call.del
      PROVE  TitleOf(i) \in TitlesOf(rows)
  <2>1. CASE Titled(c)
    BY <1>4, <1>5, <1>8, <2>1 DEF Name
  <2>2. CASE ~Titled(c)
    <3>1. i \in rows
      BY <1>6, <1>8, <2>2 DEF Name
    <3> QED
      BY <3>1, TitlesOfFacts
  <2> QED
    BY <2>1, <2>2
<1> QED
  BY <1>2, <1>3, <1>7, <1>8

\* Rows of other titles are what they were.
LEMMA OtherRows ==
    ASSUME ShelfInv, NEW rows \in SUBSET Items, NEW added \in BOOLEAN, NEW named \in Lookups,
           NEW files, ChangesRows(files, rows, added), NEW missed,
           FanOut(files, rows, added, missed, named),
           NEW i \in heard', TitleOf(i) \notin TitlesOf(rows)
    PROVE  /\ \A call \in calls' : Agrees(call, i)'
           /\ \A c \in Conn : /\ InStep(c, i)' \/ \E call \in calls' : Coming(c, i, call)'
                              /\ PullAgrees(c, i)'
<1>1. /\ setup' = setup /\ shelf' = files /\ there' = there /\ took' = took
      /\ calls' = calls \cup Sendings(files, rows, added, named)
      /\ files \in [Items -> SUBSET Source] /\ ShelfTypes /\ calls \subseteq CallRecord
  BY DEF FanOut, Sendings, ChangesRows, ShelfInv, ShelfTypes
<1>2. i \in heard /\ i \in Items
  <2>1. heard' \subseteq heard \cup rows /\ heard \subseteq Items
    BY DEF FanOut, ShelfInv, ShelfTypes
  <2> QED
    BY <2>1, TitlesOfFacts
<1>3. \A j \in Items : TitleOf(j) = TitleOf(i) => (shelf'[j] = {} <=> shelf[j] = {})
  <2> TAKE j \in Items
  <2> SUFFICES ASSUME TitleOf(j) = TitleOf(i)
               PROVE  shelf'[j] = shelf[j]
    OBVIOUS
  <2>1. j \notin rows
    BY TitlesOfFacts
  <2> QED
    BY <1>1, <2>1 DEF ChangesRows
<1>4. /\ \A call \in calls : Agrees(call, i)
      /\ \A c \in Conn : /\ InStep(c, i) \/ \E call \in calls : Coming(c, i, call)
                         /\ PullAgrees(c, i)
  BY <1>2, HeldByRow DEF ShelfInv
<1>5. ASSUME NEW call \in calls' PROVE Agrees(call, i)'
  <2>1. CASE call \in calls
    BY <1>1, <1>2, <1>3, <1>4, <2>1, RowKept
  <2>2. CASE call \in Sendings(files, rows, added, named)
    <3>1. Name(call.conn, i) \notin call.add \cup call.del
      BY <1>1, <1>2, <2>2, SendingsFacts
    <3> QED
      BY <1>1, <3>1, ShelfSetupKept DEF Agrees
  <2> QED
    BY <1>1, <2>1, <2>2
<1>6. ASSUME NEW c \in Conn
      PROVE  /\ InStep(c, i)' \/ \E call \in calls' : Coming(c, i, call)'
             /\ PullAgrees(c, i)'
  <2>1. (InStep(c, i)' <=> InStep(c, i)) /\ (PullAgrees(c, i)' <=> PullAgrees(c, i))
    BY <1>1, <1>2, <1>3, RowKept
  <2>2. \A call \in calls : call \in calls' /\ (Coming(c, i, call)' <=> Coming(c, i, call))
    BY <1>1, ShelfSetupKept
  <2> QED
    BY <1>4, <2>1, <2>2
<1> QED
  BY <1>5, <1>6

\* Of a row that is heard now, every service is in step or has a call coming.
LEMMA ToldRows ==
    ASSUME ShelfInv, NEW rows \in SUBSET Items, NEW added \in BOOLEAN, NEW named \in Lookups,
           NEW files, ChangesRows(files, rows, added), NEW missed,
           FanOut(files, rows, added, missed, named),
           Quiet, named = Titles, Removable(files, rows),
           NEW i \in heard', TitleOf(i) \in TitlesOf(rows)
    PROVE  /\ \A call \in calls' : Agrees(call, i)'
           /\ \A c \in Conn : /\ InStep(c, i)' \/ \E call \in calls' : Coming(c, i, call)'
                              /\ PullAgrees(c, i)'
<1> DEFINE t == TitleOf(i)
           changed == Targets(rows, named)
           library == LibraryItems(files, named)
<1>1. /\ setup' = setup /\ shelf' = files /\ there' = there /\ took' = took
      /\ calls' = Sendings(files, rows, added, named)
      /\ files \in [Items -> SUBSET Source] /\ ShelfTypes /\ calls = {}
      /\ \A c \in Conn : took[c] = NoJob
  BY DEF FanOut, Sendings, ChangesRows, ShelfInv, ShelfTypes, Quiet, Pulling
<1>2. (i \in heard \/ i \in rows) /\ i \in Items
  BY DEF FanOut, ShelfInv, ShelfTypes
<1>3. t \in Titles /\ t \in changed
  BY <1>2, TitleFacts DEF Targets
<1>4. t \in library <=> TitleCollected(t)'
  <2>1. t \in library <=> t \in TitlesOf(OnShelf(files))
    BY <1>1, <1>3, LibraryFacts
  <2>2. TitleCollected(t)' <=> t \in TitlesOf(OnShelf(files))
    BY <1>1 DEF TitleCollected, OnShelf, TitlesOf
  <2> QED
    BY <2>1, <2>2
<1>5. \A c \in Conn : Collected(c, i)' <=> IF Titled(c) THEN t \in library ELSE files[i] # {}
  BY <1>1, <1>4, ShelfSetupKept DEF Collected
<1>6. i \in rows => (files[i] # {} <=> added)
  BY DEF ChangesRows
<1> HIDE DEF t, changed, library
<1>7. ASSUME NEW call \in calls' PROVE Agrees(call, i)'
  <2>1. call \in CallRecord /\ DeltaSays(call, call.conn, rows, added, changed, library)
    BY <1>1, <1>7, SendingsFacts DEF changed, library
  <2>2. call.conn \in Conn
    BY <2>1, CallFacts
  <2>3. CASE Titled(call.conn)
    <3>1. call.add \subseteq library /\ call.del \cap library = {}
      BY <2>1, <2>3 DEF DeltaSays, StremioSays, Titled
    <3>2. Name(call.conn, i) = t
      BY <2>3 DEF Name, t
    <3> QED
      BY <1>1, <1>5, <2>2, <2>3, <3>1, <3>2, ShelfSetupKept DEF Agrees
  <2>4. CASE ~Titled(call.conn)
    <3>1. /\ i \in call.add => added /\ i \in rows
          /\ i \in call.del => ~added /\ i \in rows
      BY <2>1, <2>4 DEF DeltaSays
    <3>2. Name(call.conn, i) = i
      BY <2>4 DEF Name
    <3> QED
      BY <1>1, <1>5, <1>6, <2>2, <2>4, <3>1, <3>2, ShelfSetupKept DEF Agrees
  <2> QED
    BY <2>3, <2>4
<1>8. ASSUME NEW c \in Conn
      PROVE  InStep(c, i)' \/ \E call \in calls' : Coming(c, i, call)'
  <2> DEFINE d == Delta(c, files, rows, added, named)
  <2>1. DeltaSays(d, c, rows, added, changed, library)
    BY <1>1, DeltaFacts DEF changed, library
  <2>2. Worth(d) => d \in calls'
    BY <1>1 DEF Sendings
  <2> HIDE DEF d
  <2>3. d.conn = c /\ d.rows = rows
    BY <2>1 DEF DeltaSays
  <2>4. Name(c, i) \in d.add \cup d.del => Worth(d) /\ Coming(c, i, d)
    BY <2>3 DEF Worth, Coming
  <2>5. SUFFICES ASSUME ~InStep(c, i)' PROVE Name(c, i) \in d.add \cup d.del
    BY <1>1, <2>2, <2>4, <2>5, ShelfSetupKept
  <2>6. Takes(c, i) /\ ~(Name(c, i) \in there[c] <=> Collected(c, i)')
    BY <1>1, <2>5, ShelfSetupKept DEF InStep
  <2>7. CASE svc[c] = "nuvio"
    <3>1. Name(c, i) = t
      BY <2>7 DEF Name, Titled, t
    <3> QED
      BY <1>3, <2>1, <2>7, <3>1 DEF DeltaSays
  <2>8. CASE svc[c] = "stremio"
    <3>1. Name(c, i) = t /\ Titled(c)
      BY <2>8 DEF Name, Titled, t
    <3>2. StremioSays(d, c, rows, library, changed)
      BY <2>1, <2>8 DEF DeltaSays
    <3>3. CASE t \in library
      BY <1>3, <3>1, <3>2, <3>3 DEF StremioSays
    <3>4. CASE t \notin library
      <4>1. t \in there[c]
        BY <1>5, <2>6, <3>1, <3>4
      <4>2. t \in TitlesOf(rows) \ TitlesOf(OnShelf(files))
        BY <1>1, <1>3, <3>4, LibraryFacts DEF t, library
      <4>3. pushed[c] # Never /\ t \in pushed[c]
        BY <2>8, <4>1, <4>2 DEF Removable
      <4> QED
        BY <1>3, <3>1, <3>2, <3>4, <4>3 DEF StremioSays
    <3> QED
      BY <3>3, <3>4
  <2>9. CASE ~Titled(c)
    <3>1. i # Series /\ Name(c, i) = i
      BY <2>6, <2>9 DEF Takes, Name
    <3>2. CASE i \in rows
      BY <2>1, <2>9, <3>1, <3>2 DEF DeltaSays
    <3>3. CASE i \notin rows
      <4>1. i \in heard /\ files[i] = shelf[i]
        BY <1>2, <3>3 DEF ChangesRows
      <4>2. InStep(c, i)
        BY <1>1, <4>1, HeldByRow DEF ShelfInv
      <4>3. i \in there[c] <=> shelf[i] # {}
        BY <2>6, <2>9, <3>1, <4>2 DEF InStep, Collected
      <4>4. Collected(c, i)' <=> shelf[i] # {}
        BY <1>5, <2>9, <4>1
      <4> QED
        BY <2>6, <3>1, <4>3, <4>4
    <3> QED
      BY <3>2, <3>3
  <2> QED
    BY <2>7, <2>8, <2>9 DEF Titled
<1>9. ASSUME NEW c \in Conn PROVE PullAgrees(c, i)'
  BY <1>1 DEF PullAgrees
<1> QED
  BY <1>7, <1>8, <1>9

\* The marks are not concerned.
LEMMA ShelfMarks ==
    ASSUME ShelfInv, UNCHANGED <<setup, mine, theirs, pull, push, word>>,
           Change \/ changes' = changes,
           (\E failed \in BOOLEAN : Fail(failed)) \/ fails' = fails
    PROVE  MarksInv'
<1>1. changes' \in 0..MaxChanges[part] /\ fails' \in 0..MaxFails
  BY CountersStep DEF ShelfInv, MarksInv
<1> QED
  BY <1>1, MarksUntouched DEF ShelfInv

LEMMA FanOutStep ==
    ASSUME ShelfInv, NEW rows \in SUBSET Items, NEW added \in BOOLEAN, NEW named \in Lookups,
           NEW files, ChangesRows(files, rows, added), NEW missed, exists' \subseteq Episodes,
           FanOut(files, rows, added, missed, named)
    PROVE  ShelfInv'
<1>1. /\ setup' = setup /\ shelf' = files /\ there' = there /\ gone' = gone /\ fresh' = fresh
      /\ pushed' = pushed /\ took' = took
      /\ calls' = calls \cup Sendings(files, rows, added, named)
      /\ heard' = IF Quiet /\ named = Titles /\ Removable(files, rows)
                  THEN heard \cup rows ELSE heard \ Alike(TitlesOf(rows))
      /\ files \in [Items -> SUBSET Source] /\ ShelfTypes
  BY DEF FanOut, Sendings, ChangesRows, ShelfInv
<1>2. MarksInv'
  <2>1. (named # Titles \/ missed # {}) \in BOOLEAN
    OBVIOUS
  <2>2. /\ UNCHANGED <<setup, mine, theirs, pull, push, word>> /\ Change
        /\ Fail(named # Titles \/ missed # {})
    BY DEF FanOut
  <2> QED
    BY <2>1, <2>2, ShelfMarks
<1>3. ShelfTypes'
  <2>1. heard' \subseteq Items
    BY <1>1 DEF ShelfTypes
  <2>2. calls' \subseteq CallRecord /\ \A call \in calls' : WellNamed(call)
    BY <1>1, SendingsFacts DEF ShelfTypes
  <2>3. \A call \in calls' : WellNamed(call)'
    BY <1>1, <2>2, ShelfSetupKept
  <2> QED
    BY <1>1, <2>1, <2>2, <2>3 DEF ShelfTypes
<1>4. ASSUME NEW i \in heard'
      PROVE  /\ \A call \in calls' : Agrees(call, i)'
             /\ \A c \in Conn : /\ InStep(c, i)' \/ \E call \in calls' : Coming(c, i, call)'
                                /\ PullAgrees(c, i)'
  <2>1. CASE TitleOf(i) \notin TitlesOf(rows)
    BY <2>1, OtherRows
  <2>2. CASE TitleOf(i) \in TitlesOf(rows)
    <3>1. i \in Items
      BY <1>3 DEF ShelfTypes
    <3>2. i \in Alike(TitlesOf(rows))
      BY <2>2, <3>1, TitlesOfFacts
    <3>3. Quiet /\ named = Titles /\ Removable(files, rows)
      BY <1>1, <3>2
    <3> QED
      BY <2>2, <3>3, ToldRows
  <2> QED
    BY <2>1, <2>2
<1>5. GoneOrThere'
  <2>1. GoneOrThere
    BY DEF ShelfInv, ShelfHeld
  <2> QED
    BY <1>1, <2>1, ShelfSetupKept DEF GoneOrThere
<1>6. ShelfHeld'
  BY <1>4, <1>5, HeldByRowNext
<1> QED
  BY <1>2, <1>3, <1>6 DEF ShelfInv

\* What the user collects.
LEMMA CollectStep ==
    ASSUME ShelfInv, NEW i \in Items, NEW named \in Lookups, Collect(i, named)
    PROVE  ShelfInv'
<1> DEFINE files == [shelf EXCEPT ![i] = {"manual"}]
<1>1. /\ FanOut(files, {i}, TRUE, {}, named) /\ exists' = exists \cup ({i} \cap Episodes)
  BY DEF Collect
<1>2. exists' \subseteq Episodes
  BY <1>1 DEF ShelfInv, ShelfTypes
<1>3. ChangesRows(files, {i}, TRUE)
  BY DEF ChangesRows, ShelfInv, ShelfTypes, Source
<1>4. {i} \in SUBSET Items
  OBVIOUS
<1> HIDE DEF files
<1> QED
  BY <1>1, <1>2, <1>3, <1>4, FanOutStep

LEMMA CollectEpisodesStep ==
    ASSUME ShelfInv, NEW E \in SUBSET Episodes, NEW missed \in SUBSET Seasons,
           NEW named \in Lookups, CollectEpisodes(E, missed, named)
    PROVE  ShelfInv'
<1> DEFINE found == Resolved(E, missed)
           files == [i \in Items |-> IF i \in found THEN shelf[i] \cup {"manual"} ELSE shelf[i]]
<1>1. FanOut(files, found, TRUE, missed, named) /\ exists' = exists \cup Made(E, missed)
  BY DEF CollectEpisodes
<1>2. exists' \subseteq Episodes
  BY <1>1, ShelfAssumption DEF ShelfInv, ShelfTypes, Made
<1>3. found \in SUBSET Items
  BY DEF Resolved, Items
<1> HIDE DEF found
<1>4. ChangesRows(files, found, TRUE)
  <2>1. shelf \in [Items -> SUBSET Source]
    BY DEF ShelfInv, ShelfTypes
  <2>2. files \in [Items -> SUBSET Source]
    BY <2>1 DEF Source
  <2>3. \A j \in Items \ found : files[j] = shelf[j]
    OBVIOUS
  <2>4. \A j \in found : files[j] # {}
    BY <1>3
  <2> QED
    BY <2>2, <2>3, <2>4 DEF ChangesRows
<1> HIDE DEF files
<1> QED
  BY <1>1, <1>2, <1>3, <1>4, FanOutStep

\* What the user removes.
LEMMA RemovedStep ==
    ASSUME ShelfInv, NEW rows \in SUBSET Items, NEW named \in Lookups, Removed(rows, named)
    PROVE  ShelfInv'
<1> DEFINE files == [i \in Items |-> IF i \in rows THEN {} ELSE shelf[i]]
<1>1. FanOut(files, rows, FALSE, {}, named) /\ exists' = exists
  BY DEF Removed
<1>2. exists' \subseteq Episodes
  BY <1>1 DEF ShelfInv, ShelfTypes
<1>3. ChangesRows(files, rows, FALSE)
  <2>1. shelf \in [Items -> SUBSET Source]
    BY DEF ShelfInv, ShelfTypes
  <2> QED
    BY <2>1 DEF ChangesRows
<1> HIDE DEF files
<1> QED
  BY <1>1, <1>2, <1>3, FanOutStep

\* Seasons are sets of episodes.
LEMMA SeasonFacts ==
    /\ \A E \in Seasons \cup Displayed : E \subseteq Episodes
    /\ UNION (Seasons \ Specials) \subseteq Episodes
    /\ Episodes \subseteq Items
BY ShelfAssumption DEF Items

\* Every change of the collection here.
LEMMA ChangeHereStep ==
    ASSUME ShelfInv,
           \/ \E i \in Items, named \in Lookups : Collect(i, named)
           \/ \E E \in Seasons \cup Displayed, missed \in SUBSET Seasons, named \in Lookups :
                    CollectSeason(E, missed, named)
           \/ \E missed \in SUBSET Seasons, named \in Lookups : CollectShow(missed, named)
           \/ \E i \in Items, named \in Lookups : Uncollect(i, named)
           \/ \E E \in Seasons \cup Displayed, named \in Lookups : UncollectSeason(E, named)
           \/ \E named \in Lookups : UncollectShow(named)
           \/ \E named \in Lookups : ClearCollection(named)
    PROVE  ShelfInv'
<1>1. exists \subseteq Episodes
  BY DEF ShelfInv, ShelfTypes
<1>2. CASE \E i \in Items, named \in Lookups : Collect(i, named)
  BY <1>2, CollectStep
<1>3. CASE \E E \in Seasons \cup Displayed, missed \in SUBSET Seasons, named \in Lookups :
                CollectSeason(E, missed, named)
  <2>1. PICK E \in Seasons \cup Displayed, missed \in SUBSET Seasons, named \in Lookups :
            CollectSeason(E, missed, named)
    BY <1>3
  <2>2. E \in SUBSET Episodes
    BY SeasonFacts
  <2> QED
    BY <2>1, <2>2, CollectEpisodesStep DEF CollectSeason
<1>4. CASE \E missed \in SUBSET Seasons, named \in Lookups : CollectShow(missed, named)
  <2>1. PICK missed \in SUBSET Seasons, named \in Lookups : CollectShow(missed, named)
    BY <1>4
  <2>2. UNION (Seasons \ Specials) \in SUBSET Episodes
    BY SeasonFacts
  <2> QED
    BY <2>1, <2>2, CollectEpisodesStep DEF CollectShow
<1>5. CASE \E i \in Items, named \in Lookups : Uncollect(i, named)
  <2>1. PICK i \in Items, named \in Lookups : Uncollect(i, named)
    BY <1>5
  <2>2. {i} \in SUBSET Items
    OBVIOUS
  <2> QED
    BY <2>1, <2>2, RemovedStep DEF Uncollect
<1>6. CASE \E E \in Seasons \cup Displayed, named \in Lookups : UncollectSeason(E, named)
  <2>1. PICK E \in Seasons \cup Displayed, named \in Lookups : UncollectSeason(E, named)
    BY <1>6
  <2>2. E \cap exists \in SUBSET Items
    BY <1>1, SeasonFacts
  <2> QED
    BY <2>1, <2>2, RemovedStep DEF UncollectSeason
<1>7. CASE \E named \in Lookups : UncollectShow(named)
  <2>1. exists \in SUBSET Items
    BY <1>1, SeasonFacts
  <2> QED
    BY <1>7, <2>1, RemovedStep DEF UncollectShow
<1>8. CASE \E named \in Lookups : ClearCollection(named)
  <2>1. OnShelf(shelf) \in SUBSET Items
    BY DEF OnShelf
  <2> QED
    BY <1>8, <2>1, RemovedStep DEF ClearCollection
<1> QED
  BY <1>2, <1>3, <1>4, <1>5, <1>6, <1>7, <1>8

-----------------------------------------------------------------------------
(* Servers, services and calls.                                            *)

\* What the invariant says of a row that was heard.
RowHeld(i) ==
    /\ \A call \in calls : Agrees(call, i)
    /\ \A c \in Conn : InStep(c, i) \/ \E call \in calls : Coming(c, i, call)
    /\ \A c \in Conn : PullAgrees(c, i)

LEMMA RowHeldFacts ==
    ASSUME ShelfInv
    PROVE  /\ \A i \in heard : RowHeld(i) /\ i \in Items
           /\ GoneOrThere /\ MarksInv /\ ShelfTypes /\ heard \subseteq Items
BY HeldByRow DEF RowHeld, ShelfInv, ShelfTypes

LEMMA RowHeldNext ==
    ASSUME MarksInv', ShelfTypes', GoneOrThere', \A i \in heard' : RowHeld(i)'
    PROVE  ShelfInv'
<1>1. ShelfHeld'
  BY HeldByRowNext DEF RowHeld
<1> QED
  BY <1>1 DEF ShelfInv

\* A media server's file comes or goes.
LEMMA ServerFileStep ==
    ASSUME ShelfInv, NEW i \in Items, ServerFile(i)
    PROVE  ShelfInv'
<1>1. /\ setup' = setup /\ there' = there /\ gone' = gone /\ fresh' = fresh
      /\ pushed' = pushed /\ took' = took /\ calls' = calls
      /\ heard' = heard \ Alike({TitleOf(i)})
      /\ exists' = exists \cup ({i} \cap Episodes)
      /\ shelf' = [shelf EXCEPT ![i] = IF "server" \in @ THEN @ \ {"server"}
                                       ELSE @ \cup {"server"}]
  BY DEF ServerFile
<1>2. MarksInv'
  <2>1. UNCHANGED <<setup, mine, theirs, pull, push, word>> /\ Change /\ fails' = fails
    BY DEF ServerFile
  <2> QED
    BY <2>1, ShelfMarks
<1>3. ShelfTypes'
  <2>1. ShelfTypes
    BY RowHeldFacts
  <2>2. shelf' \in [Items -> SUBSET Source]
    BY <1>1, <2>1 DEF ShelfTypes, Source
  <2>3. \A call \in calls' : WellNamed(call)'
    BY <1>1, <2>1, ShelfSetupKept DEF ShelfTypes
  <2> QED
    BY <1>1, <2>1, <2>2, <2>3 DEF ShelfTypes
<1>4. GoneOrThere'
  BY <1>1, RowHeldFacts, ShelfSetupKept DEF GoneOrThere
<1>5. ASSUME NEW j \in heard'
      PROVE  RowHeld(j)'
  <2>1. j \in heard /\ j \in Items /\ RowHeld(j)
    BY <1>1, RowHeldFacts
  <2>2. TitleOf(j) # TitleOf(i)
    BY <1>1, <2>1 DEF Alike
  <2>3. \A k \in Items : TitleOf(k) = TitleOf(j) => (shelf'[k] = {} <=> shelf[k] = {})
    BY <1>1, <2>2, RowHeldFacts DEF ShelfTypes
  <2>4. /\ \A call \in CallRecord : Agrees(call, j)' <=> Agrees(call, j)
        /\ \A c \in Conn : /\ InStep(c, j)' <=> InStep(c, j)
                           /\ PullAgrees(c, j)' <=> PullAgrees(c, j)
    BY <1>1, <2>1, <2>3, RowKept
  <2>5. calls \subseteq CallRecord
    BY RowHeldFacts DEF ShelfTypes
  <2>6. \A c, call : Coming(c, j, call)' <=> Coming(c, j, call)
    BY <1>1, ShelfSetupKept
  <2> QED
    BY <1>1, <2>1, <2>4, <2>5, <2>6 DEF RowHeld
<1> QED
  BY <1>2, <1>3, <1>4, <1>5, RowHeldNext

\* What a service holds after a call; a pull at work has read what it had read.
LEMMA StoredFacts ==
    ASSUME ShelfTypes, GoneOrThere, NEW c \in Conn, NEW add \in SUBSET Items,
           NEW del \in SUBSET Items, Titled(c) => add \cup del \subseteq Titles,
           Stored(c, add, del)
    PROVE  /\ there' \in [Conn -> SUBSET Items] /\ gone' \in [Conn -> SUBSET Titles]
           /\ fresh' \in [Conn -> (SUBSET Titles) \cup {Never}]
           /\ took' \in [Conn -> TookRecord \cup {NoJob}]
           /\ \A d \in Conn : svc[d] = "stremio" => gone'[d] \cap there'[d] = {}
           /\ there'[c] = (there[c] \ del) \cup add
           /\ \A d \in Conn : d # c => there'[d] = there[d]
           /\ \A d \in Conn : took[d] # NoJob => /\ took'[d].lib = took[d].lib
                                                 /\ took'[d].gone = took[d].gone
                                                 /\ took'[d].complete = took[d].complete
           /\ \A d \in Conn : took[d] = NoJob => took'[d] = NoJob
<1>1. /\ there \in [Conn -> SUBSET Items] /\ gone \in [Conn -> SUBSET Titles]
      /\ fresh \in [Conn -> (SUBSET Titles) \cup {Never}]
      /\ took \in [Conn -> TookRecord \cup {NoJob}]
  BY DEF ShelfTypes
<1>2. there' = [there EXCEPT ![c] = (@ \ del) \cup add]
  BY DEF Stored, MergedLibrary
<1>3. there' \in [Conn -> SUBSET Items] /\ there'[c] = (there[c] \ del) \cup add
  BY <1>1, <1>2
<1>4. \A d \in Conn : d # c => there'[d] = there[d]
  BY <1>1, <1>2
<1>5. gone' = [gone EXCEPT ![c] = IF svc[c] = "stremio"
                                  THEN (@ \cup (del \cap there[c])) \ add ELSE @]
  BY DEF Stored
<1>6. svc[c] = "stremio" => add \subseteq Titles /\ del \subseteq Titles
  BY DEF Titled
<1>7. gone' \in [Conn -> SUBSET Titles]
  BY <1>1, <1>5, <1>6
<1>8. ASSUME NEW d \in Conn, svc[d] = "stremio"
      PROVE  gone'[d] \cap there'[d] = {}
  <2>1. gone[d] \cap there[d] = {}
    BY <1>8 DEF GoneOrThere
  <2>2. CASE d = c
    <3>1. gone'[d] = (gone[d] \cup (del \cap there[d])) \ add
      BY <1>1, <1>5, <1>8, <2>2
    <3> QED
      BY <1>3, <2>1, <2>2, <3>1
  <2>3. CASE d # c
    BY <1>1, <1>4, <1>5, <2>1, <2>3
  <2> QED
    BY <2>2, <2>3
<1>9. CASE svc[c] = "stremio"
  <2> DEFINE T == (add \ there[c]) \cup (del \cap there[c])
  <2>1. T \subseteq Titles
    BY <1>6, <1>9
  <2>2. Touched(c, T)
    BY <1>9 DEF Stored
  <2> HIDE DEF T
  <2>3. fresh' = [fresh EXCEPT ![c] = IF @ = Never THEN @ ELSE @ \cup T]
    BY <2>2 DEF Touched
  <2>4. fresh' \in [Conn -> (SUBSET Titles) \cup {Never}]
    BY <1>1, <2>1, <2>3
  <2>5. took' = IF took[c] = NoJob THEN took ELSE [took EXCEPT ![c].later = @ \cup T]
    BY <2>2 DEF Touched
  <2>6. CASE took[c] = NoJob
    BY <1>1, <1>3, <1>4, <1>7, <1>8, <2>4, <2>5, <2>6
  <2>7. CASE took[c] # NoJob
    <3>1. took' = [took EXCEPT ![c].later = @ \cup T]
      BY <2>5, <2>7
    <3> DEFINE job == [took[c] EXCEPT !.later = @ \cup T]
    <3>2. took[c] \in TookRecord
      BY <1>1, <2>7
    <3>3. /\ job \in TookRecord /\ job.lib = took[c].lib /\ job.gone = took[c].gone
          /\ job.complete = took[c].complete
      BY <2>1, <3>2 DEF TookRecord
    <3>4. took'[c] = job /\ \A d \in Conn : d # c => took'[d] = took[d]
      BY <1>1, <3>1
    <3>5. took' = [d \in Conn |-> took'[d]]
      BY <1>1, <3>1
    <3> HIDE DEF job
    <3>6. took' \in [Conn -> TookRecord \cup {NoJob}]
      BY <1>1, <3>3, <3>4, <3>5
    <3> QED
      BY <1>3, <1>4, <1>7, <1>8, <2>4, <2>7, <3>3, <3>4, <3>6
  <2> QED
    BY <2>6, <2>7
<1>10. CASE svc[c] # "stremio"
  <2>1. fresh' = fresh /\ took' = took
    BY <1>10 DEF Stored
  <2> QED
    BY <1>1, <1>3, <1>4, <1>7, <1>8, <2>1
<1> QED
  BY <1>9, <1>10

\* Where the collection stays as it is, a row is held if its services and calls are.
LEMMA RowHeldLater ==
    ASSUME ShelfInv, setup' = setup, shelf' = shelf, NEW i \in Items, RowHeld(i),
           calls' \subseteq CallRecord,
           \A call \in calls' : call \in calls \/ Agrees(call, i),
           \A c \in Conn : /\ InStep(c, i) /\ ~InStep(c, i)'
                                => \E call \in calls' : Coming(c, i, call)
                           /\ \A call \in calls : Coming(c, i, call) =>
                                call \in calls' \/ InStep(c, i)',
           \A c \in Conn : took[c] = NoJob => took'[c] = NoJob \/ PullAgrees(c, i)',
           \A c \in Conn : took[c] # NoJob => /\ took'[c].lib = took[c].lib
                                              /\ took'[c].gone = took[c].gone
                                              /\ took'[c].complete = took[c].complete
    PROVE  RowHeld(i)'
<1>1. \A call \in CallRecord : Agrees(call, i)' <=> Agrees(call, i)
  BY RowKept
<1>2. \A call \in calls' : Agrees(call, i)'
  BY <1>1 DEF RowHeld
<1>3. \A c, call : Coming(c, i, call)' <=> Coming(c, i, call)
  BY ShelfSetupKept
<1>4. ASSUME NEW c \in Conn
      PROVE  InStep(c, i)' \/ \E call \in calls' : Coming(c, i, call)'
  <2>1. CASE InStep(c, i)
    BY <1>3, <2>1
  <2>2. CASE ~InStep(c, i)
    <3>1. PICK call \in calls : Coming(c, i, call)
      BY <2>2 DEF RowHeld
    <3> QED
      BY <1>3, <3>1
  <2> QED
    BY <2>1, <2>2
<1>5. ASSUME NEW c \in Conn
      PROVE  PullAgrees(c, i)'
  <2>1. CASE took[c] = NoJob
    BY <2>1 DEF PullAgrees
  <2>2. CASE took[c] # NoJob
    <3>1. PullAgrees(c, i)
      BY DEF RowHeld
    <3>2. TitleCollected(TitleOf(i))' <=> TitleCollected(TitleOf(i))
      BY CollectedKept
    <3> QED
      BY <2>2, <3>1, <3>2, ShelfSetupKept DEF PullAgrees
  <2> QED
    BY <2>1, <2>2
<1> QED
  BY <1>2, <1>4, <1>5 DEF RowHeld

\* A row is in step or not as before where the service holds it or not as before.
LEMMA InStepKept ==
    ASSUME setup' = setup, shelf' = shelf, NEW i \in Items, NEW c \in Conn,
           Name(c, i) \in there'[c] <=> Name(c, i) \in there[c]
    PROVE  InStep(c, i)' <=> InStep(c, i)
BY RowKept

\* The types after a step that leaves the collection here alone.
LEMMA TypesLater ==
    ASSUME ShelfInv, setup' = setup, shelf' = shelf, exists' = exists, heard' \subseteq heard,
           there' \in [Conn -> SUBSET Items], gone' \in [Conn -> SUBSET Titles],
           fresh' \in [Conn -> (SUBSET Titles) \cup {Never}],
           pushed' \in [Conn -> (SUBSET Titles) \cup {Never}],
           took' \in [Conn -> TookRecord \cup {NoJob}],
           calls' \subseteq CallRecord, \A call \in calls' : WellNamed(call)
    PROVE  ShelfTypes'
BY ShelfSetupKept DEF ShelfInv, ShelfTypes

\* A call reaches its service, or not.
LEMMA SendStep ==
    ASSUME ShelfInv, NEW call \in calls, NEW did \in BOOLEAN, NEW ok \in BOOLEAN,
           Send(call, did, ok)
    PROVE  ShelfInv'
<1> DEFINE c == call.conn
           rows == call.rows \cup call.add \cup call.del
<1>1. /\ setup' = setup /\ shelf' = shelf /\ exists' = exists /\ calls' = calls \ {call}
      /\ (ok => did)
      /\ heard' = IF ok THEN heard ELSE heard \ Alike(TitlesOf(rows))
      /\ IF did THEN Stored(c, call.add, call.del) ELSE UNCHANGED <<there, gone, fresh, took>>
      /\ pushed' = IF ok /\ svc[c] = "stremio" THEN [pushed EXCEPT ![c] = call.cur] ELSE pushed
  BY DEF Send
<1>2. /\ ShelfTypes /\ GoneOrThere /\ calls \subseteq CallRecord /\ WellNamed(call)
  BY RowHeldFacts DEF ShelfTypes
<1>3. /\ c \in Conn /\ call.add \in SUBSET Items /\ call.del \in SUBSET Items
      /\ call.cur \in SUBSET Titles /\ call.rows \in SUBSET Items
      /\ (Titled(c) => call.add \cup call.del \subseteq Titles)
  BY <1>2, CallFacts DEF WellNamed
<1>4. MarksInv'
  <2>1. /\ UNCHANGED <<setup, mine, theirs, pull, push, word>> /\ changes' = changes
        /\ Fail(~ok)
    BY DEF Send
  <2>2. (~ok) \in BOOLEAN
    OBVIOUS
  <2> QED
    BY <2>1, <2>2, ShelfMarks
<1> HIDE DEF c
<1>5. /\ there' \in [Conn -> SUBSET Items] /\ gone' \in [Conn -> SUBSET Titles]
      /\ fresh' \in [Conn -> (SUBSET Titles) \cup {Never}]
      /\ took' \in [Conn -> TookRecord \cup {NoJob}]
      /\ \A d \in Conn : svc[d] = "stremio" => gone'[d] \cap there'[d] = {}
      /\ did => there'[c] = (there[c] \ call.del) \cup call.add
      /\ ~did => there'[c] = there[c]
      /\ \A d \in Conn : d # c => there'[d] = there[d]
      /\ \A d \in Conn : took[d] # NoJob => /\ took'[d].lib = took[d].lib
                                            /\ took'[d].gone = took[d].gone
                                            /\ took'[d].complete = took[d].complete
      /\ \A d \in Conn : took[d] = NoJob => took'[d] = NoJob
  <2>1. CASE did
    <3> DEFINE add == call.add
               del == call.del
    <3>1. /\ Stored(c, add, del) /\ add \in SUBSET Items /\ del \in SUBSET Items
          /\ (Titled(c) => add \cup del \subseteq Titles)
      BY <1>1, <1>3, <2>1
    <3> HIDE DEF add, del
    <3>2. /\ there' \in [Conn -> SUBSET Items] /\ gone' \in [Conn -> SUBSET Titles]
          /\ fresh' \in [Conn -> (SUBSET Titles) \cup {Never}]
          /\ took' \in [Conn -> TookRecord \cup {NoJob}]
          /\ \A d \in Conn : svc[d] = "stremio" => gone'[d] \cap there'[d] = {}
          /\ there'[c] = (there[c] \ del) \cup add
          /\ \A d \in Conn : d # c => there'[d] = there[d]
          /\ \A d \in Conn : took[d] # NoJob => /\ took'[d].lib = took[d].lib
                                                /\ took'[d].gone = took[d].gone
                                                /\ took'[d].complete = took[d].complete
          /\ \A d \in Conn : took[d] = NoJob => took'[d] = NoJob
      BY <1>2, <1>3, <3>1, StoredFacts
    <3> QED
      BY <2>1, <3>2 DEF add, del
  <2>2. CASE ~did
    BY <1>1, <1>2, <2>2 DEF ShelfTypes, GoneOrThere
  <2> QED
    BY <2>1, <2>2
<1>6. pushed' \in [Conn -> (SUBSET Titles) \cup {Never}]
  BY <1>1, <1>2, <1>3 DEF ShelfTypes
<1>7. ShelfTypes'
  <2>1. heard' \subseteq heard /\ calls' \subseteq CallRecord
    BY <1>1, <1>2
  <2>2. \A other \in calls' : WellNamed(other)
    BY <1>1, <1>2 DEF ShelfTypes
  <2> QED
    BY <1>1, <1>5, <1>6, <2>1, <2>2, TypesLater
<1>8. GoneOrThere'
  BY <1>1, <1>5, ShelfSetupKept DEF GoneOrThere
<1>9. ASSUME NEW i \in heard'
      PROVE  RowHeld(i)'
  <2>1. i \in heard /\ i \in Items /\ RowHeld(i)
    BY <1>1, RowHeldFacts
  <2>2. Name(c, i) \in call.add \cup call.del => did
    <3>1. CASE ok
      BY <1>1, <3>1
    <3>2. CASE ~ok
      <4>1. rows \in SUBSET Items
        BY <1>3
      <4>2. TitleOf(i) \notin TitlesOf(rows)
        BY <1>1, <2>1, <3>2, <4>1, TitlesOfFacts
      <4>3. i \notin rows /\ TitleOf(i) \notin rows
        BY <2>1, <4>1, <4>2, TitlesOfFacts, TitleFacts
      <4> QED
        BY <4>3 DEF Name
    <3> QED
      BY <3>1, <3>2
  <2>3. Name(c, i) \in call.add \cup call.del => InStep(c, i)'
    <3> SUFFICES ASSUME Name(c, i) \in call.add \cup call.del, Takes(c, i)
                 PROVE  Name(c, i) \in there'[c] <=> Collected(c, i)
      <4>1. (Takes(c, i)' <=> Takes(c, i)) /\ Name(c, i)' = Name(c, i)
        BY <1>1, ShelfSetupKept
      <4>2. Collected(c, i)' <=> Collected(c, i)
        BY <1>1, <1>3, <2>1, CollectedKept
      <4> QED
        BY <4>1, <4>2 DEF InStep
    <3>1. /\ Name(c, i) \in call.add => Collected(c, i)
          /\ Name(c, i) \in call.del => ~Collected(c, i)
      BY <2>1 DEF RowHeld, Agrees, c
    <3> QED
      BY <1>5, <2>2, <3>1
  <2>4. Name(c, i) \notin call.add \cup call.del => (InStep(c, i)' <=> InStep(c, i))
    BY <1>1, <1>3, <1>5, <2>1, InStepKept
  <2>5. \A d \in Conn : d # c => (InStep(d, i)' <=> InStep(d, i))
    BY <1>1, <1>5, <2>1, InStepKept
  <2>6. ASSUME NEW d \in Conn
        PROVE  /\ InStep(d, i) => InStep(d, i)'
               /\ \A other \in calls : Coming(d, i, other) => other \in calls' \/ InStep(d, i)'
    <3>1. InStep(d, i) => InStep(d, i)'
      BY <2>3, <2>4, <2>5
    <3>2. Coming(d, i, call) => InStep(d, i)'
      BY <2>3 DEF Coming, c
    <3> QED
      BY <1>1, <3>1, <3>2
  <2> QED
    BY <1>1, <1>2, <1>5, <2>1, <2>6, RowHeldLater
<1> QED
  BY <1>4, <1>7, <1>8, <1>9, RowHeldNext

\* A title comes or goes at Nuvio or Stremio.
LEMMA ChangeThereStep ==
    ASSUME ShelfInv, NEW c \in Conn, NEW t \in Titles, ChangeThere(c, t)
    PROVE  ShelfInv'
<1>1. /\ setup' = setup /\ shelf' = shelf /\ exists' = exists /\ calls' = calls
      /\ pushed' = pushed /\ heard' = heard \ Alike({t}) /\ Titled(c)
      /\ IF t \in there[c] THEN Stored(c, {}, {t}) ELSE Stored(c, {t}, {})
  BY DEF ChangeThere
<1>2. ShelfTypes /\ GoneOrThere /\ calls \subseteq CallRecord
  BY RowHeldFacts DEF ShelfTypes
<1>3. MarksInv'
  <2>1. UNCHANGED <<setup, mine, theirs, pull, push, word>> /\ Change /\ fails' = fails
    BY DEF ChangeThere
  <2> QED
    BY <2>1, ShelfMarks
<1>4. PICK add \in SUBSET {t}, del \in SUBSET {t} : Stored(c, add, del)
  <2>1. {} \in SUBSET {t} /\ {t} \in SUBSET {t}
    OBVIOUS
  <2> QED
    BY <1>1, <2>1
<1>5. add \in SUBSET Items /\ del \in SUBSET Items /\ add \cup del \subseteq Titles
  BY TitleFacts
<1>6. /\ there' \in [Conn -> SUBSET Items] /\ gone' \in [Conn -> SUBSET Titles]
      /\ fresh' \in [Conn -> (SUBSET Titles) \cup {Never}]
      /\ took' \in [Conn -> TookRecord \cup {NoJob}]
      /\ \A d \in Conn : svc[d] = "stremio" => gone'[d] \cap there'[d] = {}
      /\ there'[c] = (there[c] \ del) \cup add
      /\ \A d \in Conn : d # c => there'[d] = there[d]
      /\ \A d \in Conn : took[d] # NoJob => /\ took'[d].lib = took[d].lib
                                            /\ took'[d].gone = took[d].gone
                                            /\ took'[d].complete = took[d].complete
      /\ \A d \in Conn : took[d] = NoJob => took'[d] = NoJob
  BY <1>2, <1>4, <1>5, StoredFacts
<1>7. ShelfTypes'
  <2>1. heard' \subseteq heard
    BY <1>1
  <2>2. pushed \in [Conn -> (SUBSET Titles) \cup {Never}] /\ \A call \in calls : WellNamed(call)
    BY <1>2 DEF ShelfTypes
  <2> QED
    BY <1>1, <1>2, <1>6, <2>1, <2>2, TypesLater
<1>8. GoneOrThere'
  BY <1>1, <1>6, ShelfSetupKept DEF GoneOrThere
<1>9. ASSUME NEW i \in heard'
      PROVE  RowHeld(i)'
  <2>1. i \in heard /\ i \in Items /\ RowHeld(i)
    BY <1>1, RowHeldFacts
  <2>2. Name(c, i) # t
    BY <1>1, <2>1 DEF Name, Alike
  <2>3. ASSUME NEW d \in Conn
        PROVE  InStep(d, i)' <=> InStep(d, i)
    <3>1. Name(d, i) \in there'[d] <=> Name(d, i) \in there[d]
      BY <1>6, <2>2
    <3> QED
      BY <1>1, <2>1, <3>1, InStepKept
  <2> QED
    BY <1>1, <1>2, <1>6, <2>1, <2>3, RowHeldLater
<1> QED
  BY <1>3, <1>7, <1>8, <1>9, RowHeldNext

-----------------------------------------------------------------------------
(* Full pushes and pulls.                                                  *)

\* A full push is under way: rows whose title was not found are no longer heard.
LEMMA FullPushStep ==
    ASSUME ShelfInv, NEW c \in Conn, NEW named \in Lookups, FullPush(c, named)
    PROVE  ShelfInv'
<1> DEFINE full == Full(c, named)
           library == LibraryItems(shelf, named)
<1>1. /\ setup' = setup /\ shelf' = shelf /\ exists' = exists /\ there' = there /\ gone' = gone
      /\ fresh' = fresh /\ pushed' = pushed /\ took' = took /\ calls' = calls \cup {full}
      /\ heard' = heard \ Alike(Titles \ named)
  BY DEF FullPush
<1>2. /\ ShelfTypes /\ GoneOrThere /\ calls \subseteq CallRecord
      /\ shelf \in [Items -> SUBSET Source]
  BY RowHeldFacts DEF ShelfTypes
<1>3. MarksInv'
  <2>1. /\ UNCHANGED <<setup, mine, theirs, pull, push, word>> /\ changes' = changes
        /\ Fail(named # Titles)
    BY DEF FullPush
  <2>2. (named # Titles) \in BOOLEAN
    OBVIOUS
  <2> QED
    BY <2>1, <2>2, ShelfMarks
<1>4. FullSays(full, c, library)
  BY <1>2, FullFacts
<1>5. \A t \in named : t \in library <=> TitleCollected(t)
  BY <1>2, LibraryFacts DEF TitleCollected
<1>6. library \subseteq Titles
  BY <1>2, LibraryFacts
<1> HIDE DEF full, library
<1>7. full \in CallRecord /\ full.conn = c /\ WellNamed(full)
  BY <1>4, <1>6 DEF FullSays, WellNamed
<1>8. ShelfTypes'
  <2>1. heard' \subseteq heard /\ calls' \subseteq CallRecord
    BY <1>1, <1>2, <1>7
  <2>2. \A call \in calls' : WellNamed(call)
    BY <1>1, <1>2, <1>7 DEF ShelfTypes
  <2>3. /\ there' \in [Conn -> SUBSET Items] /\ gone' \in [Conn -> SUBSET Titles]
        /\ fresh' \in [Conn -> (SUBSET Titles) \cup {Never}]
        /\ pushed' \in [Conn -> (SUBSET Titles) \cup {Never}]
        /\ took' \in [Conn -> TookRecord \cup {NoJob}]
    BY <1>1, <1>2 DEF ShelfTypes
  <2> QED
    BY <1>1, <2>1, <2>2, <2>3, TypesLater
<1>9. GoneOrThere'
  BY <1>1, <1>2, ShelfSetupKept DEF GoneOrThere
<1>10. ASSUME NEW i \in heard'
       PROVE  RowHeld(i)'
  <2>1. i \in heard /\ i \in Items /\ RowHeld(i)
    BY <1>1, RowHeldFacts
  <2>2. TitleOf(i) \in named
    BY <1>1, <2>1, TitleFacts DEF Alike
  <2>3. Agrees(full, i)
    <3>1. CASE Titled(c)
      <4>1. full.add \subseteq library /\ full.del \subseteq Titles \ library
        BY <1>4, <3>1 DEF FullSays
      <4>2. Name(c, i) = TitleOf(i) /\ (Collected(c, i) <=> TitleOf(i) \in library)
        BY <1>5, <2>2, <3>1 DEF Name, Collected
      <4> QED
        BY <1>7, <4>1, <4>2 DEF Agrees
    <3>2. CASE ~Titled(c)
      <4>1. full.add \subseteq OnShelf(shelf) /\ full.del = {}
        BY <1>4, <3>2 DEF FullSays
      <4>2. Name(c, i) = i /\ (Collected(c, i) <=> i \in OnShelf(shelf))
        BY <2>1, <3>2 DEF Name, Collected, OnShelf
      <4> QED
        BY <1>7, <4>1, <4>2 DEF Agrees
    <3> QED
      BY <3>1, <3>2
  <2>4. \A d \in Conn : InStep(d, i)' <=> InStep(d, i)
    BY <1>1, <2>1, InStepKept
  <2>5. calls' \subseteq CallRecord /\ \A call \in calls' : call \in calls \/ Agrees(call, i)
    BY <1>1, <1>2, <1>7, <2>3
  <2> QED
    BY <1>1, <2>1, <2>4, <2>5, RowHeldLater
<1> QED
  BY <1>3, <1>8, <1>9, <1>10, RowHeldNext

\* A pull reads a service: of rows that are heard and no call says anything of, the service
\* has what is collected.
LEMMA PullShelfStep ==
    ASSUME ShelfInv, NEW c \in Conn, NEW items \in SUBSET Titles, NEW complete \in BOOLEAN,
           PullShelf(c, items, complete)
    PROVE  ShelfInv'
<1> DEFINE read == Records(c, items, complete)
           told == UNION {call.rows : call \in calls}
<1>1. /\ setup' = setup /\ shelf' = shelf /\ exists' = exists /\ there' = there /\ gone' = gone
      /\ fresh' = fresh /\ pushed' = pushed /\ calls' = calls
      /\ took' = [took EXCEPT ![c] = read] /\ took[c] = NoJob
      /\ heard' = heard \ Alike(TitlesOf(told)) /\ Titled(c)
      /\ complete => items = Titles
  BY DEF PullShelf
<1>2. /\ ShelfTypes /\ GoneOrThere /\ calls \subseteq CallRecord
      /\ took \in [Conn -> TookRecord \cup {NoJob}]
  BY RowHeldFacts DEF ShelfTypes
<1>3. MarksInv'
  <2>1. UNCHANGED <<setup, mine, theirs, pull, push, word, changes, fails>>
    BY DEF PullShelf
  <2> QED
    BY <2>1, ShelfMarks
<1>4. read \in TookRecord /\ read # NoJob
  <2>1. /\ there[c] \cap items \in SUBSET Titles /\ gone[c] \cap items \in SUBSET Titles
        /\ {} \in SUBSET Titles
    OBVIOUS
  <2>2. read \in TookRecord
    BY <2>1 DEF Records, TookRecord
  <2> QED
    BY <2>2, TookIsRecord
<1>5. /\ read.lib = there[c] \cap items /\ read.gone = gone[c] \cap items
      /\ read.complete = complete
  BY DEF Records
<1> HIDE DEF read
<1>6. took'[c] = read /\ \A d \in Conn : d # c => took'[d] = took[d]
  BY <1>1, <1>2
<1>7. took' \in [Conn -> TookRecord \cup {NoJob}]
  BY <1>1, <1>2, <1>4
<1>8. ShelfTypes'
  <2>1. heard' \subseteq heard
    BY <1>1
  <2>2. /\ there' \in [Conn -> SUBSET Items] /\ gone' \in [Conn -> SUBSET Titles]
        /\ fresh' \in [Conn -> (SUBSET Titles) \cup {Never}]
        /\ pushed' \in [Conn -> (SUBSET Titles) \cup {Never}]
        /\ \A call \in calls' : WellNamed(call)
    BY <1>1, <1>2 DEF ShelfTypes
  <2> QED
    BY <1>1, <1>2, <1>7, <2>1, <2>2, TypesLater
<1>9. GoneOrThere'
  BY <1>1, <1>2, ShelfSetupKept DEF GoneOrThere
<1>10. told \in SUBSET Items
  BY <1>2, CallFacts
<1>11. ASSUME NEW i \in heard'
       PROVE  RowHeld(i)'
  <2> DEFINE t == TitleOf(i)
  <2>1. i \in heard /\ i \in Items /\ RowHeld(i) /\ t \in Titles
    BY <1>1, RowHeldFacts, TitleFacts
  <2>2. t \notin TitlesOf(told)
    BY <1>1, <1>10, <2>1, TitlesOfFacts
  <2>3. \A call \in calls : t \notin TitlesOf(call.rows)
    BY <2>2 DEF TitlesOf
  <2>4. InStep(c, i)
    BY <2>1, <2>3 DEF RowHeld, Coming
  <2>5. t \in there[c] <=> TitleCollected(t)
    BY <1>1, <2>4 DEF InStep, Takes, Name, Collected
  <2>6. \A d \in Conn : InStep(d, i)' <=> InStep(d, i)
    BY <1>1, <2>1, InStepKept
  <2>7. PullAgrees(c, i)'
    <3>1. TitleCollected(t)' <=> TitleCollected(t)
      BY <1>1, <2>1, CollectedKept
    <3>2. svc[c] = "stremio" => gone[c] \cap there[c] = {}
      BY <1>2 DEF GoneOrThere
    <3>3. /\ t \in read.lib => TitleCollected(t)
          /\ svc[c] = "stremio" /\ (t \in read.gone \/ (read.complete /\ t \notin read.lib))
                => ~TitleCollected(t)
      BY <1>1, <1>5, <2>1, <2>5, <3>2
    <3> QED
      BY <1>1, <1>6, <3>1, <3>3, ShelfSetupKept DEF PullAgrees
  <2>8. \A d \in Conn : took[d] = NoJob => took'[d] = NoJob \/ PullAgrees(d, i)'
    BY <1>6, <2>7
  <2>9. \A d \in Conn : took[d] # NoJob => took'[d] = took[d]
    BY <1>1, <1>6
  <2> HIDE DEF t
  <2> QED
    BY <1>1, <1>2, <2>1, <2>6, <2>8, <2>9, RowHeldLater
<1> QED
  BY <1>3, <1>8, <1>9, <1>11, RowHeldNext

\* What an applied pull makes of the files: of the rows that are titles only.
Applied(c, ok, clean) ==
    LET files == [i \in Items |-> IF i \in ok THEN shelf[i] \cup {c} ELSE shelf[i]]
    IN IF clean THEN CollectionSources(c, files) ELSE files

\* Says that c is Stremio and gave title i as gone.
Went(c, i) ==
    /\ svc[c] = "stremio"
    /\ i \in took[c].gone \/ (took[c].complete /\ i \notin took[c].lib)

AppliedSays(files, c, ok) ==
    /\ files \in [Items -> SUBSET Source]
    /\ \A i \in Items : i \notin Titles => files[i] = shelf[i]
    /\ \A t \in ok : files[t] = {} => Went(c, t)
    /\ \A t \in Titles : /\ t \notin ok => files[t] \subseteq shelf[t]
                         /\ ~Went(c, t) => shelf[t] \subseteq files[t]

LEMMA AppliedFacts ==
    ASSUME ShelfTypes, NEW c \in Conn, NEW ok \in SUBSET Titles, NEW clean \in BOOLEAN
    PROVE  AppliedSays(Applied(c, ok, clean), c, ok)
<1> DEFINE files == [i \in Items |-> IF i \in ok THEN shelf[i] \cup {c} ELSE shelf[i]]
<1>1. shelf \in [Items -> SUBSET Source] /\ c \in Source /\ Titles \subseteq Items
  BY TitleFacts DEF ShelfTypes, Source
<1>2. /\ files \in [Items -> SUBSET Source]
      /\ \A i \in Items : i \notin Titles => files[i] = shelf[i]
      /\ \A t \in ok : c \in files[t]
      /\ \A i \in Items : shelf[i] \subseteq files[i] /\ (i \notin ok => files[i] = shelf[i])
  BY <1>1
<1>3. CASE ~clean
  <2>1. Applied(c, ok, clean) = files
    BY <1>3 DEF Applied
  <2> HIDE DEF files
  <2> QED
    BY <1>1, <1>2, <2>1 DEF AppliedSays
<1>4. CASE clean
  <2>1. Applied(c, ok, clean) = CollectionSources(c, files)
    BY <1>4 DEF Applied
  <2> HIDE DEF files
  <2>2. Applied(c, ok, clean)
          = [i \in Items |-> IF i \in Titles /\ Went(c, i) THEN files[i] \ {c} ELSE files[i]]
    BY <2>1 DEF CollectionSources, Went
  <2> QED
    BY <1>1, <1>2, <2>2 DEF AppliedSays
<1> QED
  BY <1>3, <1>4

\* A pull is applied: a title it read in the library was collected already, and one it read
\* as gone was not, of the rows that are heard.
LEMMA ApplyShelfStep ==
    ASSUME ShelfInv, NEW c \in Conn, NEW ok \in SUBSET Titles, NEW clean \in BOOLEAN,
           ApplyShelf(c, ok, clean)
    PROVE  ShelfInv'
<1>1. /\ setup' = setup /\ exists' = exists /\ there' = there /\ gone' = gone
      /\ pushed' = pushed /\ calls' = calls /\ heard' = heard
      /\ shelf' = Applied(c, ok, clean)
      /\ took[c] # NoJob /\ ok \subseteq took[c].lib
      /\ fresh' = [fresh EXCEPT ![c] = IF clean /\ svc[c] = "stremio" THEN took[c].later ELSE @]
      /\ took' = [took EXCEPT ![c] = NoJob]
  BY DEF ApplyShelf, Applied
<1>2. /\ ShelfTypes /\ GoneOrThere /\ calls \subseteq CallRecord
      /\ shelf \in [Items -> SUBSET Source]
      /\ took \in [Conn -> TookRecord \cup {NoJob}]
      /\ fresh \in [Conn -> (SUBSET Titles) \cup {Never}]
  BY RowHeldFacts DEF ShelfTypes
<1>3. MarksInv'
  <2>1. /\ UNCHANGED <<setup, mine, theirs, pull, push, word>> /\ changes' = changes
        /\ Fail(~clean \/ ok # took[c].lib)
    BY DEF ApplyShelf
  <2>2. (~clean \/ ok # took[c].lib) \in BOOLEAN
    OBVIOUS
  <2> QED
    BY <2>1, <2>2, ShelfMarks
<1> DEFINE files == Applied(c, ok, clean)
<1>4. AppliedSays(files, c, ok)
  BY <1>2, AppliedFacts
<1>5. shelf' = files
  BY <1>1
<1> HIDE DEF files
<1>6. took' \in [Conn -> TookRecord \cup {NoJob}]
  BY <1>1, <1>2
<1>7. fresh' \in [Conn -> (SUBSET Titles) \cup {Never}]
  <2>1. took[c].later \in SUBSET Titles
    BY <1>1, <1>2, TookFacts
  <2> QED
    BY <1>1, <1>2, <2>1
<1>8. ShelfTypes'
  <2>1. \A call \in calls' : WellNamed(call)'
    BY <1>1, <1>2, ShelfSetupKept DEF ShelfTypes
  <2> QED
    BY <1>1, <1>2, <1>4, <1>5, <1>6, <1>7, <2>1 DEF ShelfTypes, AppliedSays
<1>9. GoneOrThere'
  BY <1>1, <1>2, ShelfSetupKept DEF GoneOrThere
<1>10. ASSUME NEW i \in heard
       PROVE  RowHeld(i)'
  <2> DEFINE t == TitleOf(i)
  <2>1. i \in Items /\ RowHeld(i) /\ t \in Titles /\ t \in Items
    BY <1>10, RowHeldFacts, TitleFacts
  <2>2. /\ t \in took[c].lib => TitleCollected(t)
        /\ Went(c, t) => ~TitleCollected(t)
    BY <1>1, <2>1 DEF RowHeld, PullAgrees, Went
  <2>3. TitleCollected(t) <=> \E j \in Items : TitleOf(j) = t /\ shelf[j] # {}
    BY ShelfTitles DEF TitleCollected
  <2>4. TitleCollected(t)' <=> \E j \in Items : TitleOf(j) = t /\ files[j] # {}
    <3>1. TitleCollected(t)' <=> t \in TitlesOf(OnShelf(files))
      BY <1>5 DEF TitleCollected, OnShelf, TitlesOf
    <3> QED
      BY <3>1, ShelfTitles
  <2> HIDE DEF t
  <2>5. \A j \in Items : TitleOf(j) = t /\ j # t => files[j] = shelf[j]
    <3>1. \A j \in Items : TitleOf(j) = t /\ j # t => j \notin Titles
      BY <2>1, TitleFacts
    <3> QED
      BY <1>4, <3>1 DEF AppliedSays
  <2>6. TitleCollected(t)' <=> TitleCollected(t)
    <3>1. ASSUME TitleCollected(t) PROVE TitleCollected(t)'
      <4>1. PICK j \in Items : TitleOf(j) = t /\ shelf[j] # {}
        BY <2>3, <3>1
      <4>2. files[j] # {}
        <5>1. CASE j = t
          <6>1. ~Went(c, t)
            BY <2>2, <3>1
          <6> QED
            BY <1>4, <2>1, <4>1, <5>1, <6>1 DEF AppliedSays
        <5>2. CASE j # t
          BY <2>5, <4>1, <5>2
        <5> QED
          BY <5>1, <5>2
      <4> QED
        BY <2>4, <4>1, <4>2
    <3>2. ASSUME TitleCollected(t)', ~TitleCollected(t) PROVE FALSE
      <4>1. PICK j \in Items : TitleOf(j) = t /\ files[j] # {}
        BY <2>4, <3>2
      <4>2. shelf[j] = {} /\ shelf[t] = {}
        <5>1. TitleOf(t) = t
          BY <2>1, TitleFacts
        <5> QED
          BY <2>1, <2>3, <3>2, <4>1, <5>1
      <4>3. j = t
        BY <2>5, <4>1, <4>2
      <4>4. t \notin ok
        BY <1>1, <2>2, <3>2
      <4> QED
        BY <1>4, <2>1, <4>1, <4>2, <4>3, <4>4 DEF AppliedSays
    <3> QED
      BY <3>1, <3>2
  <2>7. ASSUME NEW d \in Conn, Takes(d, i)
        PROVE  Collected(d, i)' <=> Collected(d, i)
    <3>1. CASE Titled(d)
      BY <1>1, <2>6, <3>1, ShelfSetupKept DEF Collected, t
    <3>2. CASE ~Titled(d)
      <4>1. i # Series
        BY <2>7, <3>2 DEF Takes
      <4>2. CASE i \in Episodes
        <5>1. i \notin Titles
          BY <2>1, <4>2, TitleFacts
        <5>2. files[i] = shelf[i]
          BY <1>4, <2>1, <5>1 DEF AppliedSays
        <5> QED
          BY <1>1, <1>5, <3>2, <5>2, ShelfSetupKept DEF Collected
      <4>3. CASE i = Film
        <5>1. \A j \in Items : TitleOf(j) = Film <=> j = Film
          BY <2>1, <4>3, TitleFacts DEF Titles
        <5>2. t = Film
          BY <2>1, <4>3, <5>1 DEF t
        <5>3. files[Film] # {} <=> shelf[Film] # {}
          BY <2>1, <2>3, <2>4, <2>6, <4>3, <5>1, <5>2
        <5> QED
          BY <1>1, <1>5, <3>2, <4>3, <5>3, ShelfSetupKept DEF Collected
      <4> QED
        BY <2>1, <4>1, <4>2, <4>3 DEF Items
    <3> QED
      BY <3>1, <3>2
  <2>8. \A call \in calls' : Agrees(call, i)'
    <3> SUFFICES ASSUME NEW call \in calls PROVE Agrees(call, i)'
      BY <1>1
    <3>1. Agrees(call, i) /\ call.conn \in Conn
      BY <1>2, <2>1, CallFacts DEF RowHeld
    <3> QED
      BY <1>1, <2>7, <3>1, ShelfSetupKept DEF Agrees
  <2>9. ASSUME NEW d \in Conn
        PROVE  InStep(d, i)' \/ \E call \in calls' : Coming(d, i, call)'
    <3>1. InStep(d, i)' <=> InStep(d, i)
      BY <1>1, <2>7, ShelfSetupKept DEF InStep
    <3>2. InStep(d, i) \/ \E call \in calls : Coming(d, i, call)
      BY <2>1 DEF RowHeld
    <3> QED
      BY <1>1, <3>1, <3>2, ShelfSetupKept
  <2>10. ASSUME NEW d \in Conn
         PROVE  PullAgrees(d, i)'
    <3>1. CASE d = c
      <4>1. took'[c] = NoJob
        BY <1>1, <1>2
      <4> QED
        BY <3>1, <4>1 DEF PullAgrees
    <3>2. CASE d # c
      <4>1. took'[d] = took[d]
        BY <1>1, <1>2, <3>2
      <4>2. PullAgrees(d, i)
        BY <2>1 DEF RowHeld
      <4> QED
        BY <1>1, <2>6, <4>1, <4>2, ShelfSetupKept DEF PullAgrees, t
    <3> QED
      BY <3>1, <3>2
  <2> QED
    BY <2>8, <2>9, <2>10 DEF RowHeld
<1>11. \A i \in heard' : RowHeld(i)'
  BY <1>1, <1>10
<1> QED
  BY <1>3, <1>8, <1>9, <1>11, RowHeldNext

-----------------------------------------------------------------------------
(* The theorems.                                                           *)

LEMMA ShelfStart == ShelfInit => ShelfInv
<1> SUFFICES ASSUME ShelfInit PROVE ShelfInv
  OBVIOUS
<1>1. MarksInv
  BY MarksStart DEF ShelfInit
<1>2. PICK I \in Before :
        /\ shelf = [i \in Items |-> IF i \in I THEN {"manual"} ELSE {}]
        /\ exists = I \ Titles /\ heard = I
        /\ there = [c \in Conn |-> IF Titled(c) THEN TitlesOf(I) ELSE I]
        /\ pushed = [c \in Conn |-> IF svc[c] = "stremio" /\ I # {} THEN TitlesOf(I) ELSE Never]
  BY DEF ShelfInit
<1>3. /\ gone = [c \in Conn |-> {}] /\ fresh = [c \in Conn |-> Never]
      /\ took = [c \in Conn |-> NoJob] /\ calls = {}
  BY DEF ShelfInit
<1>4. I \in SUBSET Items /\ TitlesOf(I) \subseteq Titles /\ Titles \subseteq Items
  <2>1. I \in SUBSET Items
    BY DEF Before, Items
  <2> QED
    BY <2>1, TitlesOfFacts, TitleFacts
<1>5. ShelfTypes
  <2>1. shelf \in [Items -> SUBSET Source]
    BY <1>2 DEF Source
  <2>2. exists \subseteq Episodes /\ heard \subseteq Items
    BY <1>2, <1>4, TitleFacts
  <2>3. there \in [Conn -> SUBSET Items]
    BY <1>2, <1>4
  <2>4. /\ pushed \in [Conn -> (SUBSET Titles) \cup {Never}]
        /\ gone \in [Conn -> SUBSET Titles] /\ fresh \in [Conn -> (SUBSET Titles) \cup {Never}]
    BY <1>2, <1>3, <1>4
  <2>5. took \in [Conn -> TookRecord \cup {NoJob}]
    BY <1>3
  <2> QED
    BY <1>3, <2>1, <2>2, <2>3, <2>4, <2>5 DEF ShelfTypes
<1>6. ASSUME NEW i \in heard, NEW c \in Conn
      PROVE  InStep(c, i)
  <2>1. i \in I /\ i \in Items
    BY <1>2, <1>4, <1>6
  <2>2. shelf[i] # {} /\ TitleOf(i) \in TitlesOf(I)
    BY <1>2, <1>4, <2>1, TitlesOfFacts
  <2>3. TitleCollected(TitleOf(i))
    BY <2>1, <2>2, ShelfTitles DEF TitleCollected
  <2> QED
    BY <1>2, <2>1, <2>2, <2>3 DEF InStep, Name, Collected
<1>7. GoneOrThere
  BY <1>3 DEF GoneOrThere
<1>8. \A i \in heard, c \in Conn : PullAgrees(c, i)
  BY <1>3 DEF PullAgrees
<1>9. ShelfHeld
  BY <1>3, <1>6, <1>7, <1>8, HeldByRow
<1> QED
  BY <1>1, <1>5, <1>9 DEF ShelfInv

\* A setup is for good.
LEMMA SetupFixed == [Next]_vars => setup' = setup
BY DEF Next, vars, Rate, Unrate, AddToList, RemoveFromList, DropShow, UndropShow, Say,
       ClearRatings, SayThere, PullRead, PullApply, PushRead, PushSend

\* Steps of the other marks, and steps of nobody.
LEMMA ShelfUntouched ==
    ASSUME ShelfInv, [Next]_vars, UNCHANGED shelfVars
    PROVE  ShelfInv'
<1>1. /\ setup' = setup /\ shelf' = shelf /\ exists' = exists /\ there' = there /\ gone' = gone
      /\ fresh' = fresh /\ pushed' = pushed /\ took' = took /\ calls' = calls /\ heard' = heard
  BY SetupFixed DEF shelfVars
<1>2. /\ ShelfTypes /\ GoneOrThere /\ calls \subseteq CallRecord
      /\ \A i \in heard : RowHeld(i) /\ i \in Items
  BY RowHeldFacts DEF ShelfTypes
<1>3. MarksInv'
  BY MarksStep DEF ShelfInv
<1>4. ShelfTypes'
  BY <1>1, <1>2, ShelfSetupKept DEF ShelfTypes
<1>5. GoneOrThere'
  BY <1>1, <1>2, ShelfSetupKept DEF GoneOrThere
<1>6. ASSUME NEW i \in heard'
      PROVE  RowHeld(i)'
  <2>1. RowHeld(i) /\ i \in Items
    BY <1>1, <1>2
  <2>2. \A c \in Conn : InStep(c, i)' <=> InStep(c, i)
    BY <1>1, <2>1, InStepKept
  <2> QED
    BY <1>1, <1>2, <2>1, <2>2, RowHeldLater
<1> QED
  BY <1>3, <1>4, <1>5, <1>6, RowHeldNext

LEMMA ShelfStepKeeps == ShelfInv /\ [ShelfNext]_allVars => ShelfInv'
<1> SUFFICES ASSUME ShelfInv, [ShelfNext]_allVars PROVE ShelfInv'
  OBVIOUS
<1>1. CASE Next /\ UNCHANGED shelfVars
  BY <1>1, ShelfUntouched
<1>2. CASE UNCHANGED allVars
  BY <1>2, ShelfUntouched DEF allVars
<1>3. CASE ShelfStep
  <2>1. CASE \E i \in Items : ServerFile(i)
    BY <2>1, ServerFileStep
  <2>2. CASE \E call \in calls, did, ok \in BOOLEAN : Send(call, did, ok)
    BY <2>2, SendStep
  <2>3. CASE \E c \in Conn, t \in Titles : ChangeThere(c, t)
    BY <2>3, ChangeThereStep
  <2>4. CASE \E c \in Conn, named \in Lookups : FullPush(c, named)
    BY <2>4, FullPushStep
  <2>5. CASE \E c \in Conn, items \in SUBSET Titles, complete \in BOOLEAN :
                PullShelf(c, items, complete)
    BY <2>5, PullShelfStep
  <2>6. CASE \E c \in Conn, ok \in SUBSET Titles, clean \in BOOLEAN : ApplyShelf(c, ok, clean)
    BY <2>6, ApplyShelfStep
  <2> QED
    BY <1>3, <2>1, <2>2, <2>3, <2>4, <2>5, <2>6, ChangeHereStep DEF ShelfStep
<1> QED
  BY <1>1, <1>2, <1>3 DEF ShelfNext

\* A row that was heard and no call under way says anything of is in step everywhere.
LEMMA HeldShelfInStep == ShelfInv => ShelfInStep
<1> SUFFICES ASSUME ShelfInv, NEW i \in heard, NEW c \in Conn,
                    \A call \in calls : i \notin Alike(TitlesOf(call.rows))
             PROVE  InStep(c, i)
  BY DEF ShelfInStep
<1>1. RowHeld(i) /\ i \in Items /\ calls \subseteq CallRecord
  BY RowHeldFacts DEF ShelfTypes
<1>2. \A call \in calls : ~Coming(c, i, call)
  <2> SUFFICES ASSUME NEW call \in calls PROVE TitleOf(i) \notin TitlesOf(call.rows)
    BY DEF Coming
  <2> QED
    BY <1>1 DEF Alike
<1> QED
  BY <1>1, <1>2 DEF RowHeld

\* What is held of calls, pulls and files is of the right type in every state.
THEOREM ShelfTypeCorrect == ShelfSpec => []ShelfTypeOK
<1>1. ShelfInv => ShelfTypeOK
  BY ShelfTypesEnough DEF ShelfInv
<1> QED
  BY <1>1, ShelfStart, ShelfStepKeeps, PTL DEF ShelfSpec

\* What the user collects or removes while nothing is at work, and every service hears, is
\* the same everywhere once the calls are answered, whatever pulls and full pushes run
\* beside it: a title leaves Nuvio and Stremio with its last row and not before, and no
\* pull brings back what was removed (FanOut, Send, PullShelf, ApplyShelf).
THEOREM ShelfStaysInStep == ShelfSpec => []ShelfInStep
BY HeldShelfInStep, ShelfStart, ShelfStepKeeps, PTL DEF ShelfSpec

\* The collection beside them, ratings, lists and dropped shows stand as WordsStand says.
THEOREM WordsStandBesideShelf == ShelfSpec => []WordStands
<1>1. ShelfInv => WordStands
  BY HeldWordsStand DEF ShelfInv
<1> QED
  BY <1>1, ShelfStart, ShelfStepKeeps, PTL DEF ShelfSpec
=============================================================================
