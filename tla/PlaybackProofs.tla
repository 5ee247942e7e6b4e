---------------------------- MODULE PlaybackProofs ----------------------------
(* What Playback keeps, for any number of servers, items, reports and acts. *)
EXTENDS Playback, FiniteSetTheorems, TLAPS

-----------------------------------------------------------------------------
(* Numbers.                                                                *)

(* Sequences that are appended.                                            *)
LEMMA Appended ==
    ASSUME NEW T, NEW s \in Seq(T), NEW t \in Seq(T)
    PROVE  s \o t \in Seq(T) /\ Len(s \o t) = Len(s) + Len(t)
  OBVIOUS

(* A finite set of numbers that is not empty has a greatest one.           *)
LEMMA Greatest ==
    ASSUME NEW S \in SUBSET Nat, IsFiniteSet(S), S # {}
    PROVE  Max(S) \in S /\ \A x \in S : x <= Max(S)
  <1> DEFINE Has(T) == \E m \in T : \A x \in T : x <= m
             Bad == {T \in FiniteSubsetsOf(Nat) : T # {} /\ ~Has(T)}
  <1>1. Bad = {}
    <2> SUFFICES ASSUME Bad # {} PROVE FALSE
      OBVIOUS
    <2>1. PICK T \in Bad : \A U \in Bad : <<U, T>> \notin StrictSubsetOrdering(Nat)
      <3>1. IsWellFoundedOn(StrictSubsetOrdering(Nat), FiniteSubsetsOf(Nat))
        BY FS_StrictSubsetOrderingWellFounded
      <3>2. Bad \subseteq FiniteSubsetsOf(Nat)
        OBVIOUS
      <3> HIDE DEF Bad
      <3> QED BY <3>1, <3>2, WFMin
    <2>2. T \in SUBSET Nat /\ IsFiniteSet(T) /\ T # {} /\ ~Has(T)
      BY DEF FiniteSubsetsOf
    <2>3. PICK a \in T : TRUE
      BY <2>2
    <2> DEFINE U == T \ {a}
    <2>4. U \in FiniteSubsetsOf(Nat) /\ <<U, T>> \in StrictSubsetOrdering(Nat)
      BY <2>2, <2>3, FS_RemoveElement DEF FiniteSubsetsOf, StrictSubsetOrdering
    <2>5. U # {}
      <3> SUFFICES ASSUME U = {} PROVE FALSE
        OBVIOUS
      <3>1. \A x \in T : x = a
        OBVIOUS
      <3>2. a \in T /\ \A x \in T : x <= a
        BY <2>2, <2>3, <3>1
      <3> QED BY <2>2, <3>2
    <2>6. Has(U)
      BY <2>1, <2>4, <2>5
    <2>7. PICK m \in U : \A x \in U : x <= m
      BY <2>6
    <2>8. a \in Nat /\ m \in Nat /\ m \in T
      BY <2>2, <2>3, <2>7
    <2>9. CASE a <= m
      <3>1. \A x \in T : x <= m
        BY <2>7, <2>9
      <3> QED BY <2>2, <2>8, <3>1
    <2>10. CASE m <= a
      <3>1. \A x \in T : x <= a
        BY <2>2, <2>7, <2>8, <2>10
      <3> QED BY <2>2, <2>3, <3>1
    <2> QED BY <2>8, <2>9, <2>10
  <1>2. Has(S)
    BY <1>1 DEF FiniteSubsetsOf
  <1>3. \E m \in S : \A x \in S : m >= x
    BY <1>2
  <1>4. Max(S) \in S /\ \A x \in S : Max(S) >= x
    BY <1>3 DEF Max
  <1> QED BY <1>4

(* What is made of the elements of a finite set is finite.                 *)
LEMMA ImageFinite ==
    ASSUME NEW S, IsFiniteSet(S), NEW f, DOMAIN f = S, f = [x \in S |-> f[x]]
    PROVE  IsFiniteSet({f[x] : x \in S})
  <1> DEFINE T == {f[x] : x \in S}
  <1>1. f \in Surjection(S, T)
    BY DEF Surjection
  <1> HIDE DEF T
  <1>2. IsFiniteSet(T)
    BY <1>1, FS_Surjection
  <1> QED BY <1>2 DEF T

(* A new report's number is past those of the reports that matter.          *)
LEMMA FreshNumber ==
    ASSUME TypeOK
    PROVE  /\ Fresh \in Nat
           /\ \A d \in inbox : d.n < Fresh
           /\ \A h \in busy : h.d.n < Fresh
  <1> DEFINE A == {d.n : d \in inbox}
             B == {h.d.n : h \in busy}
             rows == {g \in busy : g.row # None}
             C == {h.row.n : h \in rows}
             open == {d \in Conn : session[d] # None}
             D == {session[c].n : c \in open}
             N == {0} \cup A \cup B \cup C \cup D
  <1>1. IsFiniteSet(A) /\ A \subseteq Nat
    <2>1. A \subseteq Nat
      BY DEF TypeOK, Report
    <2> DEFINE f == [d \in inbox |-> d.n]
    <2>2. IsFiniteSet(inbox)
      BY DEF TypeOK
    <2>3. IsFiniteSet({f[d] : d \in inbox})
      BY <2>2, ImageFinite
    <2> QED BY <2>1, <2>3
  <1>2. IsFiniteSet(B) /\ B \subseteq Nat
    <2>1. B \subseteq Nat
      BY DEF TypeOK, Handler, Report
    <2> DEFINE f == [h \in busy |-> h.d.n]
    <2>2. IsFiniteSet(busy)
      BY DEF TypeOK
    <2>3. IsFiniteSet({f[h] : h \in busy})
      BY <2>2, ImageFinite
    <2> QED BY <2>1, <2>3
  <1>3. IsFiniteSet(C) /\ C \subseteq Nat
    <2>1. C \subseteq Nat
      BY DEF TypeOK, Handler, Sessions
    <2>2. IsFiniteSet(rows)
      BY FS_Subset DEF TypeOK
    <2> DEFINE f == [h \in rows |-> h.row.n]
    <2> HIDE DEF rows
    <2>3. IsFiniteSet({f[h] : h \in rows})
      BY <2>2, ImageFinite
    <2> QED BY <2>1, <2>3
  <1>4. IsFiniteSet(D) /\ D \subseteq Nat
    <2>1. D \subseteq Nat
      BY DEF TypeOK, Sessions
    <2>2. IsFiniteSet(Conn)
      <3>1. IsFiniteSet(Full) /\ IsFiniteSet(Side)
        BY ConstantsAssumption, FS_Subset
      <3>2. IsFiniteSet({"full"}) /\ IsFiniteSet({"side"})
        BY FS_Singleton
      <3>3. IsFiniteSet(Full \X {"full"}) /\ IsFiniteSet(Side \X {"side"})
        BY <3>1, <3>2, FS_Product
      <3> QED BY <3>3, FS_Union DEF Conn
    <2>3. IsFiniteSet(open)
      BY <2>2, FS_Subset
    <2> DEFINE f == [c \in open |-> session[c].n]
    <2> HIDE DEF open
    <2>4. IsFiniteSet({f[c] : c \in open})
      BY <2>3, ImageFinite
    <2> QED BY <2>1, <2>4
  <1>5. IsFiniteSet(N) /\ N \subseteq Nat /\ N # {}
    <2> HIDE DEF A, B, C, D
    <2>1. IsFiniteSet({0})
      BY FS_Singleton
    <2>2. IsFiniteSet({0} \cup A)
      BY <1>1, <2>1, FS_Union
    <2>3. IsFiniteSet({0} \cup A \cup B)
      BY <1>2, <2>2, FS_Union
    <2>4. IsFiniteSet({0} \cup A \cup B \cup C)
      BY <1>3, <2>3, FS_Union
    <2>5. IsFiniteSet(N)
      BY <1>4, <2>4, FS_Union
    <2> QED BY <1>1, <1>2, <1>3, <1>4, <2>5
  <1>6. Fresh = 1 + Max(N)
    BY DEF Fresh
  <1>7. (\A d \in inbox : d.n \in A) /\ (\A h \in busy : h.d.n \in B)
    OBVIOUS
  <1> HIDE DEF A, B, C, D
  <1>8. A \subseteq N /\ B \subseteq N
    OBVIOUS
  <1> HIDE DEF N
  <1>9. Max(N) \in N /\ \A x \in N : x <= Max(N)
    BY <1>5, Greatest
  <1> DEFINE top == Max(N)
  <1> HIDE DEF top
  <1>10. top \in Nat /\ \A x \in N : x \in Nat /\ x <= top
    BY <1>5, <1>9 DEF top
  <1>11. Fresh = 1 + top
    BY <1>6 DEF top
  <1>12. \A x \in N : x < 1 + top
    BY <1>10
  <1> QED BY <1>7, <1>8, <1>10, <1>11, <1>12

(* A counter of the history goes up for one item.                          *)
LEMMA Bumping ==
    ASSUME NEW f \in [Media -> Nat], NEW m \in Media, NEW k \in Nat
    PROVE  /\ Bump(f, m, k) \in [Media -> Nat]
           /\ Bump(f, m, k)[m] = f[m] + k
           /\ \A x \in Media : x # m => Bump(f, m, k)[x] = f[x]
  BY DEF Bump

-----------------------------------------------------------------------------
(* What the parts of a step do.                                            *)

(* A server reports on each of its connections.                            *)
Ev == {"start", "progress", "pause", "resume", "stop", "scrobble", "library", "played", "unplayed"}

LEMMA Emitting ==
    ASSUME TypeOK, NEW s, NEW ev \in Ev, NEW m \in Media, NEW pos \in Position,
           NEW ended \in BOOLEAN, Emit(s, ev, m, pos, ended)
    PROVE  /\ inbox' \subseteq Report /\ IsFiniteSet(inbox') /\ inbox \subseteq inbox'
           /\ \A d \in inbox' : \/ d \in inbox
                                \/ d.ev = ev /\ d.n = Fresh /\ d.conn[1] = s
           /\ \A c \in Conn : c[1] = s =>
                 \E d \in inbox' : d.conn = c /\ d.ev = ev /\ d.n = Fresh
  <1> DEFINE to == {d \in Conn : d[1] = s}
             made(c) == [conn |-> c, ev |-> ev, m |-> m, pos |-> pos, ended |-> ended,
                         at |-> now, n |-> Fresh]
             new == {made(c) : c \in to}
  <1>1. inbox' = inbox \cup new
    BY DEF Emit, Reports
  <1>2. ASSUME NEW c \in to
        PROVE  /\ made(c) \in Report
               /\ made(c).conn = c /\ made(c).ev = ev /\ made(c).n = Fresh
    BY FreshNumber DEF TypeOK, Report, Ev
  <1>3. IsFiniteSet(to)
    <2>1. IsFiniteSet(Full) /\ IsFiniteSet(Side)
      BY ConstantsAssumption, FS_Subset
    <2>2. IsFiniteSet({"full"}) /\ IsFiniteSet({"side"})
      BY FS_Singleton
    <2>3. IsFiniteSet(Full \X {"full"}) /\ IsFiniteSet(Side \X {"side"})
      BY <2>1, <2>2, FS_Product
    <2>4. IsFiniteSet(Conn)
      BY <2>3, FS_Union DEF Conn
    <2> QED BY <2>4, FS_Subset
  <1>4. IsFiniteSet(new)
    <2> DEFINE f == [c \in to |-> made(c)]
    <2> HIDE DEF to, made
    <2>1. IsFiniteSet({f[c] : c \in to})
      BY <1>3, ImageFinite
    <2> QED BY <2>1
  <1> HIDE DEF made
  <1>5. \A d \in new : d \in Report /\ d.ev = ev /\ d.n = Fresh /\ d.conn[1] = s
    BY <1>2
  <1>6. \A c \in Conn : c[1] = s => \E d \in new : d.conn = c /\ d.ev = ev /\ d.n = Fresh
    BY <1>2
  <1> HIDE DEF new
  <1>7. inbox' \subseteq Report
    BY <1>1, <1>5 DEF TypeOK
  <1>8. IsFiniteSet(inbox')
    <2>1. IsFiniteSet(inbox)
      BY DEF TypeOK
    <2> QED BY <1>1, <1>4, <2>1, FS_Union
  <1> QED BY <1>1, <1>5, <1>6, <1>7, <1>8

(* A push: calls, and tokens of the item pushed only.                      *)
LEMMA Pushes ==
    ASSUME TypeOK, NEW m \in Media, NEW w \in BOOLEAN, NEW but, PushWatchState(m, w, but)
    PROVE  /\ calls' \subseteq Call /\ IsFiniteSet(calls')
           /\ tokens' \in [Media -> Seq(Time)]
  <1> DEFINE to == Pushing \ but
             k == Cardinality(Echoing \cap to)
             left == [i \in 1..k |-> now]
  <1>1. now \in Time /\ calls \subseteq Call /\ IsFiniteSet(calls)
          /\ tokens \in [Media -> Seq(Time)]
    BY DEF TypeOK
  <1>2. IsFiniteSet(to) /\ to \subseteq Pushing
    BY ConstantsAssumption, FS_Subset
  <1>3. Calls(m, w, but) \subseteq Call /\ IsFiniteSet(Calls(m, w, but))
    <2> DEFINE c == [s \in to |-> [s |-> s, m |-> m, w |-> w, at |-> now]]
    <2>1. Calls(m, w, but) = {c[s] : s \in to}
      BY DEF Calls
    <2>2. IsFiniteSet({c[s] : s \in to})
      <3> HIDE DEF to
      <3> QED BY <1>2, ImageFinite
    <2>3. \A s \in to : c[s] \in Call
      BY <1>1, <1>2 DEF Call
    <2> HIDE DEF c, to
    <2> QED BY <2>1, <2>2, <2>3
  <1>4. calls' \subseteq Call /\ IsFiniteSet(calls')
    BY <1>1, <1>3, FS_Union DEF PushWatchState
  <1>5. k \in Nat
    <2>1. IsFiniteSet(Echoing \cap to)
      BY <1>2, FS_Subset
    <2> QED BY <2>1, FS_CardinalityType
  <1>6. Mark(tokens[m], to) = tokens[m] \o left
    BY DEF Mark
  <1> HIDE DEF k
  <1>7. left \in Seq(Time)
    BY <1>1, <1>5
  <1> HIDE DEF left
  <1>8. Mark(tokens[m], to) \in Seq(Time)
    <2>1. tokens[m] \in Seq(Time)
      BY <1>1
    <2> QED BY <1>6, <1>7, <2>1, Appended
  <1>9. tokens' = tokens \/ tokens' = [tokens EXCEPT ![m] = Mark(tokens[m], to)]
    BY DEF PushWatchState
  <1> HIDE DEF to
  <1> QED BY <1>1, <1>4, <1>8, <1>9

(* An unwatch is pushed without tokens.                                    *)
LEMMA PushesUnwatch ==
    ASSUME NEW m, NEW but, PushWatchState(m, FALSE, but)
    PROVE  tokens' = tokens
  BY DEF PushWatchState

-----------------------------------------------------------------------------
(* What a handler does, whichever server reports.                          *)

RowSet == [m : Media, pos : Position, n : Nat]

(* The row a handler saves is the one there is, or a new one with its report's *)
(* number; its position is the report's, or stays.                         *)
New(h) == h.row = None /\ session[h.d.conn] = None
NumberOf(h) == IF New(h) THEN h.d.n ELSE session[h.d.conn].n
PositionOf(h) == IF New(h) THEN 0 ELSE session[h.d.conn].pos
Fits(h, row) == row \in RowSet /\ row.n = NumberOf(h) /\ row.pos \in {PositionOf(h), h.d.pos}
Saves(h) == \E row : (h.row = None \/ Current(h) => Fits(h, row)) /\ SaveSession(h, row)
Moves(h) == session' = session \/ CloseSession(h) \/ (Opens(h.d) /\ Saves(h))

(* The history it writes is of one item, or it takes the plays of one away. *)
Writes(h) == \E m \in Media : (NoWrite \/ WriteProgress(m) \/ WriteCompleted(h, m)) /\ NoPush
Unwatches(h) ==
    /\ events[h.d.m] # {} /\ events' = [events EXCEPT ![h.d.m] = {}]
    /\ \E but : PushWatchState(h.d.m, FALSE, but)
    /\ cleared' = Bump(cleared, h.d.m, 1)
    /\ UNCHANGED <<progress, expired, hidden, eaten, recorded>>

Effect(h) ==
    /\ Done(h) /\ Moves(h) /\ sent' \in [Media -> Nat]
    /\ Writes(h) \/ Unwatches(h)
    /\ h.d.ev = "stop" /\ Kind[h.d.conn[1]] # "plex" => CloseSession(h)

(* A handler and its report have their types.                              *)
LEMMA HandlerType ==
    ASSUME TypeOK, NEW h \in busy
    PROVE  /\ h.d \in Report /\ h.d.conn \in Conn /\ h.d.m \in Media /\ h.d.pos \in Position
           /\ h.d.n \in Nat
           /\ h.row \in Sessions
           /\ session \in [Conn -> Sessions] /\ session[h.d.conn] \in Sessions
           /\ StopPosition(h) \in Position
           /\ h.row # None => h.row \in RowSet /\ h.row.m \in Media
  <1>1. h \in Handler
    BY DEF TypeOK
  <1>2. h.d \in Report /\ h.row \in Sessions
    BY <1>1 DEF Handler
  <1>3. h.d.conn \in Conn /\ h.d.m \in Media /\ h.d.pos \in Position /\ h.d.n \in Nat
    BY <1>2 DEF Report
  <1>4. h.row # None => h.row \in RowSet /\ h.row.m \in Media /\ h.row.pos \in Position
    BY <1>2 DEF Sessions, RowSet
  <1>5. StopPosition(h) \in Position
    BY <1>3, <1>4 DEF StopPosition, Position
  <1>6. session \in [Conn -> Sessions] /\ session[h.d.conn] \in Sessions
    BY <1>3 DEF TypeOK
  <1> QED BY <1>2, <1>3, <1>4, <1>5, <1>6

LEMMA OpenedType ==
    ASSUME TypeOK, NEW h \in busy, h.row = None \/ Current(h)
    PROVE  Opened(h) \in RowSet /\ Opened(h).n = NumberOf(h) /\ Opened(h).pos = PositionOf(h)
  <1>1. CASE h.row = None /\ session[h.d.conn] = None
    BY <1>1, HandlerType DEF Opened, Row, RowSet, NumberOf, PositionOf, New, Position
  <1>2. CASE session[h.d.conn] # None
    <2>1. session[h.d.conn] \in RowSet
      BY <1>2, HandlerType DEF Sessions, RowSet
    <2> QED BY <1>2, <2>1 DEF Opened, NumberOf, PositionOf, New
  <1> QED BY <1>1, <1>2 DEF Current

(* The item and the position of a row change.                              *)
LEMMA RowChanged ==
    ASSUME NEW r \in RowSet, NEW m \in Media, NEW pos \in Position
    PROVE  /\ [r EXCEPT !.m = m] \in RowSet /\ [r EXCEPT !.m = m].n = r.n
           /\ [r EXCEPT !.m = m].pos = r.pos
           /\ [r EXCEPT !.pos = pos] \in RowSet /\ [r EXCEPT !.pos = pos].n = r.n
           /\ [r EXCEPT !.pos = pos].pos = pos
           /\ [r EXCEPT !.m = m, !.pos = pos] \in RowSet
           /\ [r EXCEPT !.m = m, !.pos = pos].n = r.n
           /\ [r EXCEPT !.m = m, !.pos = pos].pos = pos
  BY DEF RowSet

(* A session is opened, or moved on.                                       *)
LEMMA StartEffect ==
    ASSUME TypeOK, NEW h \in busy, NEW moves \in BOOLEAN, Opens(h.d),
           StartSession(h, moves) \/ ProgressSession(h, moves) \/ KnownPosition(h) \/ PauseFound(h)
    PROVE  Effect(h)
  <1>1. h.d.m \in Media /\ h.d.pos \in Position
    BY HandlerType
  <1>2. Done(h) /\ NoWrite /\ NoPush /\ sent' = sent
    BY DEF StartSession, ProgressSession, KnownPosition, PauseFound, Quietly
  <1>3. session' = session \/ Saves(h)
    <2>1. CASE StartSession(h, moves)
      <3> DEFINE x == IF moves THEN h.d.m ELSE Opened(h).m
                 row == [Opened(h) EXCEPT !.m = x]
      <3>1. session' = session \/ SaveSession(h, row)
        BY <2>1 DEF StartSession
      <3>2. h.row = None \/ Current(h) => Fits(h, row)
        <4> SUFFICES ASSUME h.row = None \/ Current(h) PROVE Fits(h, row)
          OBVIOUS
        <4>1. Opened(h) \in RowSet /\ Opened(h).n = NumberOf(h) /\ Opened(h).pos = PositionOf(h)
          BY OpenedType
        <4>2. x \in Media
          BY <1>1, <4>1 DEF RowSet
        <4> HIDE DEF x
        <4> QED BY <1>1, <4>1, <4>2, RowChanged DEF Fits
      <3> HIDE DEF row
      <3> QED BY <3>1, <3>2 DEF Saves
    <2>2. CASE ProgressSession(h, moves)
      <3> DEFINE x == IF moves THEN h.d.m ELSE Opened(h).m
                 row == [Opened(h) EXCEPT !.m = x, !.pos = h.d.pos]
      <3>1. session' = session \/ SaveSession(h, row)
        BY <2>2 DEF ProgressSession
      <3>2. h.row = None \/ Current(h) => Fits(h, row)
        <4> SUFFICES ASSUME h.row = None \/ Current(h) PROVE Fits(h, row)
          OBVIOUS
        <4>1. Opened(h) \in RowSet /\ Opened(h).n = NumberOf(h) /\ Opened(h).pos = PositionOf(h)
          BY OpenedType
        <4>2. x \in Media
          BY <1>1, <4>1 DEF RowSet
        <4> HIDE DEF x
        <4> QED BY ZenonT(40), <1>1, <4>1, <4>2, RowChanged DEF Fits
      <3> HIDE DEF row
      <3> QED BY <3>1, <3>2 DEF Saves
    <2>3. CASE KnownPosition(h)
      <3> DEFINE y == IF h.d.pos = 0 THEN Opened(h).pos ELSE h.d.pos
                 row == [Opened(h) EXCEPT !.pos = y]
      <3>1. session' = session \/ SaveSession(h, row)
        BY <2>3 DEF KnownPosition
      <3>2. h.row = None \/ Current(h) => Fits(h, row)
        <4> SUFFICES ASSUME h.row = None \/ Current(h) PROVE Fits(h, row)
          OBVIOUS
        <4>1. Opened(h) \in RowSet /\ Opened(h).n = NumberOf(h) /\ Opened(h).pos = PositionOf(h)
          BY OpenedType
        <4>2. y \in Position /\ y \in {PositionOf(h), h.d.pos}
          BY <1>1, <4>1 DEF RowSet
        <4> HIDE DEF y
        <4> QED BY <1>1, <4>1, <4>2, RowChanged DEF Fits
      <3> HIDE DEF row
      <3> QED BY <3>1, <3>2 DEF Saves
    <2>4. CASE PauseFound(h)
      <3> DEFINE row == [Opened(h) EXCEPT !.pos = h.d.pos]
      <3>1. session' = session \/ SaveSession(h, row)
        BY <2>4 DEF PauseFound
      <3>2. h.row = None \/ Current(h) => Fits(h, row)
        BY <1>1, OpenedType, RowChanged DEF Fits
      <3> HIDE DEF row
      <3> QED BY <3>1, <3>2 DEF Saves
    <2> QED BY <2>1, <2>2, <2>3, <2>4
  <1>4. h.d.ev # "stop"
    BY DEF Opens
  <1>5. sent' \in [Media -> Nat]
    BY <1>2 DEF TypeOK
  <1>6. Writes(h)
    BY <1>1, <1>2 DEF Writes
  <1> QED BY <1>2, <1>3, <1>4, <1>5, <1>6 DEF Effect, Moves

(* A stop, or a report of a play.                                          *)
LEMMA ScrobbleType ==
    ASSUME TypeOK, NEW h, NEW m \in Media, NEW pos,
           Scrobble(h, m, pos) \/ UNCHANGED sent
    PROVE  sent' \in [Media -> Nat]
  <1>1. sent \in [Media -> Nat]
    BY DEF TypeOK
  <1>2. Bump(sent, m, 1) \in [Media -> Nat]
    BY <1>1, Bumping
  <1>3. sent' = sent \/ sent' = Bump(sent, m, 1)
    BY DEF Scrobble
  <1> QED BY <1>1, <1>2, <1>3

LEMMA WriteWatchWrites ==
    ASSUME NEW h, NEW m \in Media, NEW pos, WriteWatch(h, m, pos) \/ NoWrite \/ WriteCompleted(h, m), NoPush
    PROVE  Writes(h)
  BY DEF Writes, WriteWatch

LEMMA StopEffect ==
    ASSUME TypeOK, NEW h \in busy,
           \/ StopSession(h)
           \/ MarkedPlayed(h) /\ h.d.ev # "stop"
           \/ Ignored(h) /\ h.d.ev # "stop"
    PROVE  Effect(h)
  <1>1. h.d.m \in Media
    BY HandlerType
  <1>2. CASE StopSession(h)
    <2>1. Done(h) /\ CloseSession(h) /\ NoPush
      BY <1>2 DEF StopSession
    <2>2. Writes(h)
      BY <1>1, <1>2, WriteWatchWrites DEF StopSession
    <2>3. sent' \in [Media -> Nat]
      BY <1>1, <1>2, ScrobbleType DEF StopSession
    <2> QED BY <2>1, <2>2, <2>3 DEF Effect, Moves
  <1>3. CASE MarkedPlayed(h) /\ h.d.ev # "stop"
    <2>1. Done(h) /\ (CloseSession(h) \/ session' = session) /\ NoPush
      BY <1>3 DEF MarkedPlayed
    <2>2. Writes(h)
      BY <1>1, <1>3, WriteWatchWrites DEF MarkedPlayed
    <2>3. sent' \in [Media -> Nat]
      BY <1>1, <1>3, ScrobbleType DEF MarkedPlayed
    <2> QED BY <1>3, <2>1, <2>2, <2>3 DEF Effect, Moves
  <1>4. CASE Ignored(h) /\ h.d.ev # "stop"
    <2>1. Done(h) /\ session' = session /\ NoWrite /\ NoPush /\ sent' = sent
      BY <1>4 DEF Ignored, Quietly
    <2>2. sent' \in [Media -> Nat]
      BY <2>1 DEF TypeOK
    <2> QED BY <1>1, <1>4, <2>1, <2>2 DEF Effect, Moves, Writes
  <1> QED BY <1>2, <1>3, <1>4

(* A media marked unplayed.                                                *)
LEMMA UnwatchEffect ==
    ASSUME TypeOK, NEW h \in busy, NEW but, UnwatchToggle(h, but), h.d.ev # "stop"
    PROVE  Effect(h)
  <1>1. h.d.m \in Media
    BY HandlerType
  <1>2. Done(h) /\ session' = session /\ sent' = sent
    BY DEF UnwatchToggle
  <1>3. sent' \in [Media -> Nat]
    BY <1>2 DEF TypeOK
  <1>4. CASE KeepsWatched(h) /\ events[h.d.m] # {}
    BY <1>2, <1>3, <1>4 DEF UnwatchToggle, Unwatches, Effect, Moves
  <1>5. CASE ~(KeepsWatched(h) /\ events[h.d.m] # {})
    <2>1. NoWrite /\ NoPush
      BY <1>5 DEF UnwatchToggle, NoWrite, NoPush
    <2> QED BY <1>1, <1>2, <1>3, <2>1 DEF Writes, Effect, Moves
  <1> QED BY <1>4, <1>5

(* The handlers of Plex that end a session or record a play.               *)
LEMMA PlexStopEffect ==
    ASSUME TypeOK, NEW h \in busy, PlexStop(h)
    PROVE  Effect(h)
  <1>1. Done(h) /\ Kind[h.d.conn[1]] = "plex" /\ NoPush
    BY DEF PlexStop, Is
  <1>2. CloseSession(h) \/ session' = session
    <2>1. CASE KeepsSessions(h)
      BY <2>1 DEF PlexStop
    <2>2. CASE ~KeepsSessions(h)
      BY <2>2 DEF PlexStop
    <2> QED BY <2>1, <2>2
  <1>3. PICK m \in Media : WriteWatch(h, m, StopPosition(h)) \/ NoWrite
    <2>1. CASE h.row # None
      <3>1. h.row.m \in Media
        BY <2>1, HandlerType
      <3>2. WriteWatch(h, h.row.m, StopPosition(h)) \/ NoWrite
        BY <2>1 DEF PlexStop
      <3> QED BY <3>1, <3>2
    <2>2. CASE h.row = None
      <3>1. h.d.m \in Media
        BY HandlerType
      <3>2. WriteWatch(h, h.d.m, StopPosition(h)) \/ NoWrite
        BY <2>2 DEF PlexStop
      <3> QED BY <3>1, <3>2
    <2> QED BY <2>1, <2>2
  <1>4. Writes(h)
    BY <1>1, <1>3, WriteWatchWrites
  <1>5. sent' \in [Media -> Nat]
    <2>1. h.d.m \in Media
      BY HandlerType
    <2>2. Scrobble(h, h.d.m, StopPosition(h))
      BY DEF PlexStop
    <2> QED BY <2>1, <2>2, ScrobbleType
  <1> QED BY <1>1, <1>2, <1>4, <1>5 DEF Effect, Moves

LEMMA PlexScrobbleEffect ==
    ASSUME TypeOK, NEW h \in busy, PlexScrobble(h)
    PROVE  Effect(h)
  <1>1. h.d.m \in Media
    BY HandlerType
  <1>2. /\ Done(h) /\ (CloseSession(h) \/ session' = session) /\ NoPush /\ sent' = sent
        /\ Kind[h.d.conn[1]] = "plex" /\ (WriteCompleted(h, h.d.m) \/ NoWrite)
    BY DEF PlexScrobble, Is
  <1>3. Writes(h)
    BY <1>1, <1>2, WriteWatchWrites
  <1>4. sent' \in [Media -> Nat]
    BY <1>2 DEF TypeOK
  <1> QED BY <1>2, <1>3, <1>4 DEF Effect, Moves

LEMMA PlexSideEffect ==
    ASSUME TypeOK, NEW h \in busy, PlexSide(h)
    PROVE  Effect(h)
  <1>1. h.d.m \in Media
    BY HandlerType
  <1>2. CASE \/ Is(h, {"plex"}, "side", {"start"}) /\ KnownPosition(h)
             \/ Is(h, {"plex"}, "side", {"resume"}) /\ ProgressSession(h, FALSE)
             \/ Is(h, {"plex"}, "side", {"pause"}) /\ PauseFound(h)
    <2>1. Opens(h.d)
      BY <1>2 DEF Is, Opens
    <2>2. StartSession(h, FALSE) \/ ProgressSession(h, FALSE) \/ KnownPosition(h) \/ PauseFound(h)
      BY <1>2
    <2> QED BY <2>1, <2>2, StartEffect
  <1>3. CASE ~(\/ Is(h, {"plex"}, "side", {"start"}) /\ KnownPosition(h)
               \/ Is(h, {"plex"}, "side", {"resume"}) /\ ProgressSession(h, FALSE)
               \/ Is(h, {"plex"}, "side", {"pause"}) /\ PauseFound(h))
    <2>1. /\ Done(h) /\ CloseSession(h) /\ NoPush
          /\ WriteWatch(h, h.d.m, StopPosition(h)) \/ WriteCompleted(h, h.d.m) \/ NoWrite
          /\ Scrobble(h, h.d.m, StopPosition(h)) \/ UNCHANGED sent
      BY <1>3 DEF PlexSide
    <2>2. Writes(h)
      BY <1>1, <2>1, WriteWatchWrites
    <2>3. sent' \in [Media -> Nat]
      BY <1>1, <2>1, ScrobbleType
    <2> QED BY <2>1, <2>2, <2>3 DEF Effect, Moves
  <1> QED BY <1>2, <1>3

(* Playback reports of Jellyfin, Emby and Kodi.                            *)
LEMMA PlaybackEffect ==
    ASSUME TypeOK, NEW h \in busy,
           \/ JellyfinPlayback(h) \/ EmbyPlayback(h) \/ SidePlayback(h)
           \/ PlexPlay(h) \/ PlexPause(h) \/ KodiSession(h) \/ KodiStop(h)
    PROVE  Effect(h)
  <1> DEFINE opening(moves) ==
               \/ StartSession(h, moves) \/ ProgressSession(h, moves)
               \/ KnownPosition(h) \/ PauseFound(h)
             ends == StopSession(h) \/ (Ignored(h) /\ h.d.ev # "stop")
  <1>1. JellyfinPlayback(h) => (Opens(h.d) /\ opening(TRUE)) \/ ends
    BY DEF JellyfinPlayback, Is, Opens
  <1>2. EmbyPlayback(h) => (Opens(h.d) /\ opening(FALSE)) \/ ends
    BY DEF EmbyPlayback, Is, Opens
  <1>3. SidePlayback(h) => (Opens(h.d) /\ opening(FALSE)) \/ ends
    BY DEF SidePlayback, Is, Opens
  <1>4. PlexPlay(h) \/ PlexPause(h) => Opens(h.d) /\ opening(FALSE)
    BY DEF PlexPlay, PlexPause, Is, Opens
  <1>5. KodiSession(h) => Opens(h.d) /\ opening(FALSE)
    BY DEF KodiSession, Is, Opens
  <1>6. KodiStop(h) => ends
    <2>1. h.d.ev = "library" => h.d.ev # "stop"
      OBVIOUS
    <2> QED BY <2>1 DEF KodiStop
  <1> HIDE DEF opening, ends
  <1>7. (Opens(h.d) /\ (opening(TRUE) \/ opening(FALSE))) \/ ends
    BY <1>1, <1>2, <1>3, <1>4, <1>5, <1>6
  <1> USE DEF opening, ends
  <1>8. CASE Opens(h.d) /\ (opening(TRUE) \/ opening(FALSE))
    BY <1>8, StartEffect
  <1>9. CASE ends
    BY <1>9, StopEffect
  <1> QED BY <1>7, <1>8, <1>9

(* Marks made on a server.                                                 *)
LEMMA TogglesEffect ==
    ASSUME TypeOK, NEW h \in busy, JellyfinToggles(h) \/ EmbyToggles(h) \/ SideToggles(h)
    PROVE  Effect(h)
  <1>1. h.d.ev # "stop"
    BY DEF JellyfinToggles, EmbyToggles, SideToggles, Is
  <1>2. MarkedPlayed(h) \/ Ignored(h) \/ UnwatchToggle(h, {h.d.conn[1]}) \/ UnwatchToggle(h, {})
    BY DEF JellyfinToggles, EmbyToggles, SideToggles
  <1> QED BY <1>1, <1>2, StopEffect, UnwatchEffect

(* Whatever a handler does, this is what it comes to.                      *)
LEMMA FinishEffect ==
    ASSUME TypeOK, NEW h \in busy, Finish(h)
    PROVE  Effect(h)
  BY PlaybackEffect, TogglesEffect, PlexStopEffect, PlexScrobbleEffect, PlexSideEffect DEF Finish

-----------------------------------------------------------------------------
(* Types.                                                                  *)

Counts == [Media -> Nat]

LEMMA Counting ==
    ASSUME NEW f \in Counts, NEW m \in Media
    PROVE  /\ Bump(f, m, 1) \in Counts
           /\ Bump(f, m, 1)[m] = f[m] + 1
           /\ \A x \in Media : x # m => Bump(f, m, 1)[x] = f[x]
  BY Bumping DEF Counts

(* The counters of the history, each by name.                              *)
LEMMA HistoryType ==
    TypeOK <=> /\ now \in Time /\ session \in [Conn -> Sessions] /\ progress \subseteq Media
               /\ events \in [Media -> SUBSET Time] /\ tokens \in [Media -> Seq(Time)]
               /\ inbox \subseteq Report /\ busy \subseteq Handler /\ calls \subseteq Call
               /\ IsFiniteSet(inbox) /\ IsFiniteSet(busy) /\ IsFiniteSet(calls)
               /\ watching \in [Server -> {None} \cup [m : Media, pos : Position]]
               /\ flag \subseteq Server \X Media
               /\ acts \in Nat /\ again \in Nat /\ crashes \in Nat
               /\ genuine \in Counts /\ expired \in Counts /\ hidden \in Counts
               /\ eaten \in Counts /\ astray \in Counts /\ cleared \in Counts
               /\ recorded \in Counts /\ sent \in Counts
  BY DEF TypeOK, Counts

(* The first token is used up: the others stay.                            *)
LEMMA ConsumeType ==
    ASSUME tokens \in [Media -> Seq(Time)], NEW m \in Media
    PROVE  /\ Consume(m) \in [Media -> Seq(Time)]
           /\ \A x \in Media : x # m => Consume(m)[x] = tokens[x]
           /\ tokens[m] = <<>> => Consume(m)[m] = <<>>
           /\ tokens[m] # <<>> => Len(Consume(m)[m]) + 1 = Len(tokens[m])
  <1>1. tokens[m] \in Seq(Time)
    OBVIOUS
  <1>2. CASE tokens[m] = <<>>
    BY <1>2 DEF Consume
  <1>3. CASE tokens[m] # <<>>
    <2>1. Tail(tokens[m]) \in Seq(Time) /\ Len(Tail(tokens[m])) = Len(tokens[m]) - 1
      BY <1>1, <1>3
    <2>2. Consume(m) = [tokens EXCEPT ![m] = Tail(tokens[m])]
      BY <1>3 DEF Consume
    <2>3. Consume(m) \in [Media -> Seq(Time)] /\ Consume(m)[m] = Tail(tokens[m])
            /\ \A x \in Media : x # m => Consume(m)[x] = tokens[x]
      BY <2>1, <2>2
    <2>4. Len(tokens[m]) \in Nat
      BY <1>1
    <2> QED BY <1>3, <2>1, <2>3, <2>4
  <1> QED BY <1>2, <1>3

(* What is written of one item: a play is recorded when it is kept.        *)
LEMMA WriteKeeps ==
    ASSUME TypeOK, NEW h, NEW m \in Media,
           NoWrite \/ WriteProgress(m) \/ WriteCompleted(h, m)
    PROVE  /\ progress' \subseteq Media /\ events' \in [Media -> SUBSET Time]
           /\ tokens' \in [Media -> Seq(Time)]
           /\ expired' \in Counts /\ hidden' \in Counts
           /\ eaten' \in Counts /\ recorded' \in Counts
           /\ \A x \in Media : recorded[x] <= recorded'[x]
           /\ \A x \in Media : events'[x] # {} => events[x] # {} \/ recorded[x] < recorded'[x]
  <1>1. /\ progress \subseteq Media /\ events \in [Media -> SUBSET Time] /\ now \in Time
        /\ tokens \in [Media -> Seq(Time)]
        /\ expired \in Counts /\ hidden \in Counts
        /\ eaten \in Counts /\ recorded \in Counts
    BY HistoryType
  <1>2. \A x \in Media : recorded[x] \in Nat
    BY <1>1 DEF Counts
  <1>3. CASE NoWrite \/ WriteProgress(m)
    <2>1. /\ progress' \subseteq Media
          /\ UNCHANGED <<events, tokens, expired, hidden, eaten, recorded>>
      BY <1>1, <1>3 DEF NoWrite, WriteProgress
    <2> QED BY <1>1, <1>2, <2>1
  <1>4. CASE WriteCompleted(h, m)
    <2>1. tokens' = Consume(m)
      BY <1>4 DEF WriteCompleted
    <2>2. expired' = IF tokens[m] # <<>> /\ ~IsEcho(m) THEN Bump(expired, m, 1) ELSE expired
      BY <1>4 DEF WriteCompleted
    <2>3. hidden' = IF IsEcho(m) /\ ~Echo(h.d, m) THEN Bump(hidden, m, 1) ELSE hidden
      BY <1>4 DEF WriteCompleted
    <2>4. eaten' = Bump(eaten, m, 1) \/ eaten' = eaten
      BY <1>4 DEF WriteCompleted
    <2>5. \/ UNCHANGED <<events, progress, recorded>>
          \/ /\ recorded' = Bump(recorded, m, 1)
             /\ events' = [events EXCEPT ![m] = @ \cup {now}]
             /\ progress' = progress \ {m}
      BY <1>4 DEF WriteCompleted
    <2>6. tokens' \in [Media -> Seq(Time)]
      BY <1>1, <2>1, ConsumeType
    <2>7. eaten' \in Counts
      BY <1>1, <2>4, Counting
    <2>8. expired' \in Counts /\ hidden' \in Counts
      BY <1>1, <2>2, <2>3, Counting
    <2>10. /\ recorded' \in Counts
           /\ \A x \in Media : recorded[x] <= recorded'[x]
      <3>1. CASE recorded' = recorded
        BY <1>1, <1>2, <3>1
      <3>2. CASE recorded' = Bump(recorded, m, 1)
        <4>1. recorded' \in Counts /\ recorded'[m] = recorded[m] + 1
                /\ \A x \in Media : x # m => recorded'[x] = recorded[x]
          BY <1>1, <3>2, Counting
        <4> QED BY <1>2, <4>1
      <3> QED BY <2>5, <3>1, <3>2
    <2>11. \A x \in Media : events'[x] # {} => events[x] # {} \/ recorded[x] < recorded'[x]
      <3>1. CASE events' = events
        BY <3>1
      <3>2. CASE recorded' = Bump(recorded, m, 1) /\ events' = [events EXCEPT ![m] = @ \cup {now}]
        <4>1. recorded'[m] = recorded[m] + 1
          BY <1>1, <3>2, Counting
        <4>2. \A x \in Media : x # m => events'[x] = events[x]
          BY <1>1, <3>2
        <4> QED BY <1>2, <4>1, <4>2
      <3> QED BY <2>5, <3>1, <3>2
    <2>12. progress' \subseteq Media /\ events' \in [Media -> SUBSET Time]
      BY <1>1, <2>5
    <2> QED BY <2>6, <2>7, <2>8, <2>10, <2>11, <2>12
  <1> QED BY <1>3, <1>4

-----------------------------------------------------------------------------
(* The types and the plays, action by action.                              *)

HInv == TypeOK /\ PlaysOwed

(* Nothing changes of the plays.                                           *)
LEMMA OwedStays ==
    ASSUME HInv, UNCHANGED <<events, cleared, recorded>>
    PROVE  PlaysOwed'
  BY DEF HInv, PlaysOwed

(* A server plays, or its user marks something: it reports, or it does not. *)
Reported ==
    \/ UNCHANGED inbox
    \/ \E s \in Server, ev \in Ev, m \in Media, pos \in Position, ended \in BOOLEAN :
          Emit(s, ev, m, pos, ended)

LEMMA ReportedType ==
    ASSUME TypeOK, Reported
    PROVE  inbox' \subseteq Report /\ IsFiniteSet(inbox')
  <1>1. CASE inbox' = inbox
    BY <1>1, HistoryType
  <1>2. CASE \E s \in Server, ev \in Ev, m \in Media, pos \in Position, ended \in BOOLEAN :
                Emit(s, ev, m, pos, ended)
    BY <1>2, Emitting
  <1> QED BY <1>1, <1>2 DEF Reported

Plays == {None} \cup [m : Media, pos : Position]

LEMMA ServerStep ==
    ASSUME HInv, Rest, Reported, acts' \in Nat, watching' \in [Server -> Plays],
           flag' \subseteq Server \X Media, genuine' \in Counts
    PROVE  HInv'
  <1>1. TypeOK
    BY DEF HInv
  <1>2. inbox' \subseteq Report /\ IsFiniteSet(inbox')
    BY <1>1, ReportedType
  <1>3. UNCHANGED <<now, session, progress, events, tokens, recent, busy, calls,
                    again, crashes, expired, hidden, astray, eaten, cleared, recorded, sent>>
    BY DEF Rest
  <1>4. TypeOK'
    <2>1. /\ now' \in Time /\ session' \in [Conn -> Sessions] /\ progress' \subseteq Media
          /\ events' \in [Media -> SUBSET Time] /\ tokens' \in [Media -> Seq(Time)]
          /\ busy' \subseteq Handler /\ calls' \subseteq Call
          /\ IsFiniteSet(busy') /\ IsFiniteSet(calls')
          /\ again' \in Nat /\ crashes' \in Nat
          /\ expired' \in Counts /\ hidden' \in Counts
          /\ eaten' \in Counts /\ astray' \in Counts /\ cleared' \in Counts
          /\ recorded' \in Counts /\ sent' \in Counts
      BY <1>1, <1>3, HistoryType
    <2> QED BY <1>2, <2>1 DEF TypeOK, Plays, Counts
  <1>5. PlaysOwed'
    BY <1>3, OwedStays
  <1> QED BY <1>4, <1>5 DEF HInv

LEMMA WatchingType ==
    ASSUME TypeOK, NEW s \in Server, watching[s] # None
    PROVE  watching[s].m \in Media /\ watching[s].pos \in Position
  <1>1. watching[s] \in [m : Media, pos : Position]
    BY DEF TypeOK
  <1> QED BY <1>1

LEMMA PlayKeeps ==
    ASSUME HInv, NEW s \in Server, NEW m \in Media, Play(s, m)
    PROVE  HInv'
  <1>1. acts \in Nat /\ watching \in [Server -> Plays] /\ flag \subseteq Server \X Media
          /\ genuine \in Counts
    BY HistoryType DEF HInv, Plays
  <1>2. acts' = acts + 1 /\ flag' = flag /\ genuine' = genuine /\ Rest
          /\ watching' = [watching EXCEPT ![s] = [m |-> m, pos |-> 0]]
          /\ Emit(s, "start", m, 0, FALSE)
    BY DEF Play
  <1>3. [m |-> m, pos |-> 0] \in Plays
    BY DEF Plays, Position
  <1>4. watching' \in [Server -> Plays]
    BY <1>1, <1>2, <1>3
  <1>5. Reported
    <2>1. "start" \in Ev /\ 0 \in Position /\ FALSE \in BOOLEAN
      BY DEF Ev, Position
    <2> QED BY <1>2, <2>1 DEF Reported
  <1> QED BY <1>1, <1>2, <1>4, <1>5, ServerStep

LEMMA AdvanceKeeps ==
    ASSUME HInv, NEW s \in Server, Advance(s)
    PROVE  HInv'
  <1> DEFINE w == watching[s]
  <1>1. acts \in Nat /\ watching \in [Server -> Plays] /\ flag \subseteq Server \X Media
          /\ genuine \in Counts
    BY HistoryType DEF HInv, Plays
  <1>2. w # None /\ w.pos < 2 /\ w \in [m : Media, pos : Position]
    BY <1>1 DEF Advance, Plays
  <1>3. w.m \in Media /\ w.pos \in Position /\ w.pos + 1 \in Position /\ 2 \in Position
    BY <1>2 DEF Position
  <1>4. watching' = [watching EXCEPT ![s] = [w EXCEPT !.pos = w.pos + 1]]
    BY DEF Advance
  <1>5. [w EXCEPT !.pos = w.pos + 1] \in Plays
    BY <1>2, <1>3 DEF Plays
  <1>6. watching' \in [Server -> Plays]
    BY <1>1, <1>4, <1>5
  <1>7. acts' = acts /\ Rest
    BY DEF Advance
  <1>8. flag' \subseteq Server \X Media
    <2>1. flag' = flag \/ flag' = flag \cup {<<s, w.m>>}
      BY DEF Advance
    <2> QED BY <1>1, <1>3, <2>1
  <1>9. genuine' \in Counts
    <2>1. genuine' = genuine \/ genuine' = Bump(genuine, w.m, 1)
      BY DEF Advance
    <2> QED BY <1>1, <1>3, <2>1, Counting
  <1>10. Reported
    <2>1. \/ Emit(s, "scrobble", w.m, 2, FALSE) \/ Emit(s, "progress", w.m, w.pos + 1, FALSE)
          \/ UNCHANGED inbox
      <3>1. CASE Kind[s] = "plex" /\ w.pos = 1
        BY <3>1 DEF Advance
      <3>2. CASE Kind[s] \in {"jellyfin", "kodi"}
        BY <3>2 DEF Advance
      <3>3. CASE ~(Kind[s] = "plex" /\ w.pos = 1) /\ ~(Kind[s] \in {"jellyfin", "kodi"})
        BY <3>3 DEF Advance
      <3> QED BY <3>1, <3>2, <3>3
    <2> HIDE DEF w
    <2>2. "scrobble" \in Ev /\ "progress" \in Ev /\ FALSE \in BOOLEAN
      BY DEF Ev
    <2> QED BY <1>3, <2>1, <2>2 DEF Reported
  <1> QED BY <1>1, <1>6, <1>7, <1>8, <1>9, <1>10, ServerStep

LEMMA PauseKeeps ==
    ASSUME HInv, NEW s \in Server, Pause(s)
    PROVE  HInv'
  <1>1. acts \in Nat /\ watching \in [Server -> Plays] /\ flag \subseteq Server \X Media
          /\ genuine \in Counts
    BY HistoryType DEF HInv, Plays
  <1>2. watching[s].m \in Media
    BY WatchingType DEF HInv, Pause
  <1>3. acts' = acts + 1 /\ watching' = watching /\ flag' = flag /\ genuine' = genuine /\ Rest
    BY DEF Pause
  <1>4. Emit(s, "pause", watching[s].m, 1, FALSE) \/ Emit(s, "progress", watching[s].m, 1, FALSE)
    BY DEF Pause
  <1>5. Reported
    <2>1. "pause" \in Ev /\ "progress" \in Ev /\ 1 \in Position /\ FALSE \in BOOLEAN
      BY DEF Ev, Position
    <2> QED BY <1>2, <1>4, <2>1 DEF Reported
  <1> QED BY <1>1, <1>3, <1>5, ServerStep

LEMMA ResumeKeeps ==
    ASSUME HInv, NEW s \in Server, Resume(s)
    PROVE  HInv'
  <1>1. acts \in Nat /\ watching \in [Server -> Plays] /\ flag \subseteq Server \X Media
          /\ genuine \in Counts
    BY HistoryType DEF HInv, Plays
  <1>2. watching[s].m \in Media
    BY WatchingType DEF HInv, Resume
  <1>3. acts' = acts + 1 /\ watching' = watching /\ flag' = flag /\ genuine' = genuine /\ Rest
    BY DEF Resume
  <1>4. PICK pos \in {0, 1} : Emit(s, "resume", watching[s].m, pos, FALSE)
    BY DEF Resume
  <1>5. pos \in Position
    BY DEF Position
  <1>6. Reported
    BY <1>2, <1>4, <1>5 DEF Reported, Ev
  <1> QED BY <1>1, <1>3, <1>6, ServerStep

LEMMA StopPlayingKeeps ==
    ASSUME HInv, NEW s \in Server, StopPlaying(s)
    PROVE  HInv'
  <1> DEFINE w == watching[s]
             ended == w.pos = 2 /\ Kind[s] # "plex"
  <1>1. acts \in Nat /\ watching \in [Server -> Plays] /\ flag \subseteq Server \X Media
          /\ genuine \in Counts
    BY HistoryType DEF HInv, Plays
  <1>2. w.m \in Media /\ w.pos \in Position
    BY WatchingType DEF HInv, StopPlaying
  <1>3. acts' = acts /\ watching' = [watching EXCEPT ![s] = None] /\ flag' = flag
          /\ genuine' = genuine /\ Rest
    BY DEF StopPlaying
  <1>4. PICK pos \in {0, w.pos} : Emit(s, "stop", w.m, pos, ended)
    BY DEF StopPlaying
  <1>5. pos \in Position /\ ended \in BOOLEAN /\ "stop" \in Ev
    BY <1>2 DEF Position, Ev
  <1> HIDE DEF w, ended
  <1>6. Reported
    BY <1>2, <1>4, <1>5 DEF Reported
  <1>7. watching' \in [Server -> Plays]
    BY <1>1, <1>3 DEF Plays
  <1> QED BY <1>1, <1>3, <1>6, <1>7, ServerStep

LEMMA ToggleKeeps ==
    ASSUME HInv, NEW s \in Server, NEW m \in Media, NEW w \in BOOLEAN, Toggle(s, m, w)
    PROVE  HInv'
  <1>1. acts \in Nat /\ watching \in [Server -> Plays] /\ flag \subseteq Server \X Media
          /\ genuine \in Counts
    BY HistoryType DEF HInv, Plays
  <1>2. acts' = acts + 1 /\ watching' = watching /\ Rest
    BY DEF Toggle
  <1>3. flag' \subseteq Server \X Media
    <2>1. flag' = flag \cup {<<s, m>>} \/ flag' = flag \ {<<s, m>>}
      BY DEF Toggle
    <2> QED BY <1>1, <2>1
  <1>4. genuine' \in Counts
    <2>1. genuine' = genuine \/ genuine' = Bump(genuine, m, 1)
      BY DEF Toggle
    <2> QED BY <1>1, <2>1, Counting
  <1>5. Reported
    <2> DEFINE ev == IF Kind[s] = "kodi" THEN "library" ELSE IF w THEN "played" ELSE "unplayed"
               pos == IF w THEN 2 ELSE 0
    <2>1. Emit(s, ev, m, pos, w)
      BY DEF Toggle
    <2>2. ev \in Ev /\ pos \in Position
      BY DEF Ev, Position
    <2> HIDE DEF ev, pos
    <2> QED BY <2>1, <2>2 DEF Reported
  <1> QED BY <1>1, <1>2, <1>3, <1>4, <1>5, ServerStep

(* A call arrives, or fails.                                               *)
LEMMA ServerCallKeeps ==
    ASSUME HInv, NEW c \in calls, ServerCall(c)
    PROVE  HInv'
  <1>1. TypeOK
    BY DEF HInv
  <1>2. calls \subseteq Call /\ IsFiniteSet(calls)
    BY <1>1, HistoryType
  <1>3. c \in Call /\ calls' \subseteq Call /\ IsFiniteSet(calls')
    BY <1>2, FS_Subset DEF ServerCall
  <1>4. c.s \in Server /\ c.m \in Media /\ c.w \in BOOLEAN
    BY <1>3, ConstantsAssumption DEF Call
  <1>5. UNCHANGED <<now, session, progress, events, tokens, recent, busy, watching,
                    bounds, genuine, expired, hidden, eaten, cleared, recorded, sent>>
    BY DEF ServerCall
  <1>6. flag' \subseteq Server \X Media
    <2>1. flag' = flag \/ flag' = flag \cup {<<c.s, c.m>>} \/ flag' = flag \ {<<c.s, c.m>>}
      BY DEF ServerCall
    <2>2. flag \subseteq Server \X Media
      BY <1>1, HistoryType
    <2> QED BY <1>4, <2>1, <2>2
  <1>7. Reported
    <2> DEFINE ev == IF c.w THEN "played" ELSE "unplayed"
               pos == IF c.w THEN 2 ELSE 0
    <2>1. inbox' = inbox \/ Emit(c.s, ev, c.m, pos, FALSE)
      BY DEF ServerCall
    <2>2. ev \in Ev /\ pos \in Position
      BY DEF Ev, Position
    <2> HIDE DEF ev, pos
    <2> QED BY <1>4, <2>1, <2>2 DEF Reported
  <1>8. inbox' \subseteq Report /\ IsFiniteSet(inbox')
    BY <1>1, <1>7, ReportedType
  <1>9. TypeOK'
    <2>1. /\ now' \in Time /\ session' \in [Conn -> Sessions] /\ progress' \subseteq Media
          /\ events' \in [Media -> SUBSET Time] /\ tokens' \in [Media -> Seq(Time)]
          /\ busy' \subseteq Handler /\ IsFiniteSet(busy')
          /\ watching' \in [Server -> {None} \cup [m : Media, pos : Position]]
      BY <1>1, <1>5, HistoryType
    <2>2. /\ acts' \in Nat /\ again' \in Nat /\ crashes' \in Nat
          /\ genuine' \in Counts /\ expired' \in Counts /\ hidden' \in Counts
          /\ eaten' \in Counts /\ cleared' \in Counts
          /\ recorded' \in Counts /\ sent' \in Counts
      BY <1>1, <1>5, HistoryType DEF bounds
    <2>3. astray' \in Counts
      <3>1. astray' = astray \/ astray' = Bump(astray, c.m, 1)
        BY DEF ServerCall
      <3>2. astray \in Counts
        BY <1>1, HistoryType
      <3> QED BY <1>4, <3>1, <3>2, Counting
    <2> QED BY <1>3, <1>6, <1>8, <2>1, <2>2, <2>3 DEF TypeOK, Counts
  <1>10. PlaysOwed'
    BY <1>5, OwedStays
  <1> QED BY <1>9, <1>10 DEF HInv

(* What a push leaves alone.                                               *)
PushStep(m) ==
    /\ acts' \in Nat /\ astray' \in Counts
    /\ \E w \in BOOLEAN : \E but : PushWatchState(m, w, but)
    /\ UNCHANGED <<now, session, recent, inbox, busy, server, again, crashes,
                   expired, hidden, eaten, cleared, sent>>

LEMMA PushStepKeeps ==
    ASSUME HInv, NEW m \in Media, PushStep(m),
           progress' \subseteq Media, genuine' \in Counts,
           events' \in [Media -> SUBSET Time], recorded' \in Counts,
           \A x \in Media : recorded[x] <= recorded'[x],
           \A x \in Media : events'[x] # {} => events[x] # {} \/ recorded[x] < recorded'[x]
    PROVE  HInv'
  <1>1. TypeOK
    BY DEF HInv
  <1>w. PICK w \in BOOLEAN : \E but : PushWatchState(m, w, but)
    BY DEF PushStep
  <1>2. PICK but : PushWatchState(m, w, but)
    BY <1>w
  <1>3. UNCHANGED <<now, session, recent, inbox, busy, server, again, crashes,
                    expired, hidden, eaten, cleared, sent>>
    BY DEF PushStep
  <1>4. /\ calls' \subseteq Call /\ IsFiniteSet(calls')
        /\ tokens' \in [Media -> Seq(Time)]
    BY <1>1, <1>2, Pushes
  <1>5. TypeOK'
    <2>1. /\ now' \in Time /\ session' \in [Conn -> Sessions]
          /\ inbox' \subseteq Report /\ IsFiniteSet(inbox')
          /\ busy' \subseteq Handler /\ IsFiniteSet(busy')
          /\ watching' \in [Server -> {None} \cup [m : Media, pos : Position]]
          /\ flag' \subseteq Server \X Media
      BY <1>1, <1>3, HistoryType DEF server
    <2>2. /\ again' \in Nat /\ crashes' \in Nat
          /\ expired' \in Counts /\ hidden' \in Counts
          /\ eaten' \in Counts /\ cleared' \in Counts /\ sent' \in Counts
      BY <1>1, <1>3, HistoryType
    <2>3. acts' \in Nat /\ astray' \in Counts
      BY DEF PushStep
    <2> QED BY <1>4, <2>1, <2>2, <2>3 DEF TypeOK, Counts
  <1>7. PlaysOwed'
    <2>1. cleared' = cleared
      BY <1>3
    <2>2. ASSUME NEW x \in Media
          PROVE  cleared'[x] <= recorded'[x] /\ (events'[x] # {} => cleared'[x] < recorded'[x])
      <3>1. cleared[x] \in Nat /\ recorded[x] \in Nat /\ recorded'[x] \in Nat
        BY <1>1, HistoryType DEF Counts
      <3>2. cleared[x] <= recorded[x] /\ (events[x] # {} => cleared[x] < recorded[x])
        BY DEF HInv, PlaysOwed
      <3> QED BY <2>1, <3>1, <3>2
    <2> QED BY <2>2 DEF PlaysOwed
  <1> QED BY <1>5, <1>7 DEF HInv

LEMMA JoinedFinite ==
    ASSUME NEW m, NEW but
    PROVE  IsFiniteSet(Joined(m, but)) /\ Cardinality(Joined(m, but)) \in Nat
  <1>1. IsFiniteSet(Joined(m, but))
    BY ConstantsAssumption, FS_Subset DEF Joined, Echoing
  <1> QED BY <1>1, FS_CardinalityType

LEMMA MarkAsWatchedKeeps ==
    ASSUME HInv, NEW m \in Media, NEW force \in BOOLEAN, MarkAsWatched(m, force)
    PROVE  HInv'
  <1>1. /\ acts \in Nat /\ now \in Time /\ progress \subseteq Media
        /\ events \in [Media -> SUBSET Time]
        /\ recorded \in Counts /\ genuine \in Counts
    BY HistoryType DEF HInv
  <1>2. PushStep(m)
    <2>1. acts' \in Nat
      BY <1>1 DEF MarkAsWatched
    <2>2. PushWatchState(m, TRUE, {})
      BY DEF MarkAsWatched
    <2>3. astray' \in Counts
      <3>1. astray \in Counts /\ Cardinality(Joined(m, {})) \in Nat
        BY HistoryType, JoinedFinite DEF HInv
      <3> QED BY <3>1, Bumping DEF MarkAsWatched, Counts
    <2> QED BY <2>1, <2>2, <2>3 DEF MarkAsWatched, PushStep
  <1>3. /\ events' = [events EXCEPT ![m] = @ \cup {now}] /\ progress' = progress \ {m}
        /\ recorded' = Bump(recorded, m, 1) /\ genuine' = Bump(genuine, m, 1)
    BY DEF MarkAsWatched
  <1>4. progress' \subseteq Media /\ events' \in [Media -> SUBSET Time]
    BY <1>1, <1>3
  <1>5. /\ recorded' \in Counts /\ genuine' \in Counts /\ recorded'[m] = recorded[m] + 1
        /\ \A x \in Media : x # m => recorded'[x] = recorded[x]
    BY <1>1, <1>3, Counting
  <1>6. \A x \in Media : recorded[x] \in Nat
    BY <1>1 DEF Counts
  <1>7. \A x \in Media : recorded[x] <= recorded'[x]
    BY <1>5, <1>6
  <1>8. \A x \in Media : x # m => events'[x] = events[x]
    BY <1>1, <1>3
  <1>9. \A x \in Media : events'[x] # {} => events[x] # {} \/ recorded[x] < recorded'[x]
    BY <1>5, <1>6, <1>8
  <1> QED BY <1>2, <1>4, <1>5, <1>7, <1>9, PushStepKeeps

LEMMA UnwatchItemKeeps ==
    ASSUME HInv, NEW m \in Media, UnwatchItem(m)
    PROVE  HInv'
  <1>1. /\ acts \in Nat /\ progress \subseteq Media /\ events \in [Media -> SUBSET Time]
        /\ recorded \in Counts /\ genuine \in Counts
    BY HistoryType DEF HInv
  <1>2. PushStep(m)
    <2>1. acts' \in Nat
      BY <1>1 DEF UnwatchItem
    <2>2. PushWatchState(m, FALSE, {})
      BY DEF UnwatchItem
    <2>3. astray' \in Counts
      BY HistoryType DEF HInv, UnwatchItem
    <2> QED BY <2>1, <2>2, <2>3 DEF UnwatchItem, PushStep
  <1>3. /\ events' = [events EXCEPT ![m] = {}] /\ progress' = progress
        /\ recorded' = recorded /\ genuine' = genuine
    BY DEF UnwatchItem
  <1>4. \A x \in Media : events'[x] # {} => events[x] # {}
    BY <1>1, <1>3
  <1>5. \A x \in Media : recorded[x] <= recorded'[x]
    BY <1>1, <1>3 DEF Counts
  <1>6. events' \in [Media -> SUBSET Time]
    BY <1>1, <1>3
  <1> QED BY <1>1, <1>2, <1>3, <1>4, <1>5, <1>6, PushStepKeeps

LEMMA NewItemKeeps ==
    ASSUME HInv, NEW s \in Server, NEW m \in Media, PushWatchedForNewItem(s, m)
    PROVE  HInv'
  <1>1. /\ acts \in Nat /\ progress \subseteq Media /\ events \in [Media -> SUBSET Time]
        /\ recorded \in Counts /\ genuine \in Counts
    BY HistoryType DEF HInv
  <1>2. PushStep(m)
    <2>1. acts' \in Nat
      BY <1>1 DEF PushWatchedForNewItem
    <2>2. PushWatchState(m, TRUE, Server \ {s})
      BY DEF PushWatchedForNewItem
    <2>3. astray' \in Counts
      <3>1. astray \in Counts /\ Cardinality(Joined(m, Server \ {s})) \in Nat
        BY HistoryType, JoinedFinite DEF HInv
      <3> QED BY <3>1, Bumping DEF PushWatchedForNewItem, Counts
    <2> QED BY <2>1, <2>2, <2>3 DEF PushWatchedForNewItem, PushStep
  <1>3. events' = events /\ progress' = progress /\ recorded' = recorded /\ genuine' = genuine
    BY DEF PushWatchedForNewItem
  <1>4. \A x \in Media : recorded[x] <= recorded'[x]
    BY <1>1, <1>3 DEF Counts
  <1> QED BY <1>1, <1>2, <1>3, <1>4, PushStepKeeps

(* A report is taken up.                                                   *)
Made(d) == [d |-> d, row |-> session[d.conn], twice |-> Twice(d), k |-> again]

LEMMA MadeType ==
    ASSUME TypeOK, NEW d \in inbox
    PROVE  Made(d) \in Handler /\ Made(d).d = d /\ Made(d).row = session[d.conn]
  <1>1. d \in Report
    BY DEF TypeOK
  <1>2. d.conn \in Conn
    BY <1>1 DEF Report
  <1>3. session[d.conn] \in Sessions /\ again \in Nat
    BY <1>2, HistoryType
  <1>4. Twice(d) \in BOOLEAN
    BY DEF Twice
  <1> QED BY <1>1, <1>3, <1>4 DEF Made, Handler

LEMMA BeginKeeps ==
    ASSUME HInv, NEW d \in inbox, Begin(d)
    PROVE  HInv'
  <1>1. TypeOK
    BY DEF HInv
  <1>2. UNCHANGED <<now, session, progress, events, tokens, calls, server, acts,
                    crashes, history>>
    BY DEF Begin
  <1>3. busy' = busy \/ busy' = busy \cup {Made(d)}
    BY DEF Begin, Made
  <1>4. inbox' \subseteq inbox /\ again' \in Nat
    <2>1. again \in Nat
      BY <1>1, HistoryType
    <2> QED BY <2>1 DEF Begin
  <1>5. busy' \subseteq Handler /\ IsFiniteSet(busy')
    <2>1. busy \subseteq Handler /\ IsFiniteSet(busy)
      BY <1>1, HistoryType
    <2>2. Made(d) \in Handler
      BY <1>1, MadeType
    <2>3. IsFiniteSet(busy \cup {Made(d)})
      BY <2>1, FS_AddElement
    <2> QED BY <1>3, <2>1, <2>2, <2>3
  <1>6. inbox' \subseteq Report /\ IsFiniteSet(inbox')
    <2>1. inbox \subseteq Report /\ IsFiniteSet(inbox)
      BY <1>1, HistoryType
    <2> QED BY <1>4, <2>1, FS_Subset
  <1>7. TypeOK'
    <2>1. /\ now' \in Time /\ session' \in [Conn -> Sessions] /\ progress' \subseteq Media
          /\ events' \in [Media -> SUBSET Time] /\ tokens' \in [Media -> Seq(Time)]
          /\ calls' \subseteq Call /\ IsFiniteSet(calls')
          /\ watching' \in [Server -> {None} \cup [m : Media, pos : Position]]
          /\ flag' \subseteq Server \X Media
      BY <1>1, <1>2, HistoryType DEF server
    <2>2. /\ acts' \in Nat /\ crashes' \in Nat
          /\ genuine' \in Counts /\ expired' \in Counts /\ hidden' \in Counts
          /\ eaten' \in Counts /\ astray' \in Counts /\ cleared' \in Counts
          /\ recorded' \in Counts /\ sent' \in Counts
      BY <1>1, <1>2, HistoryType DEF history
    <2> QED BY <1>4, <1>5, <1>6, <2>1, <2>2 DEF TypeOK, Counts
  <1>8. PlaysOwed'
    BY <1>2, OwedStays DEF history
  <1> QED BY <1>7, <1>8 DEF HInv

(* A handler ends.                                                         *)
LEMMA MovesType ==
    ASSUME TypeOK, NEW h \in busy, Moves(h)
    PROVE  session' \in [Conn -> Sessions]
  <1>1. session \in [Conn -> Sessions] /\ h.d.conn \in Conn
    BY HandlerType
  <1>2. CASE session' = session
    BY <1>1, <1>2
  <1>3. CASE CloseSession(h)
    BY <1>1, <1>3 DEF CloseSession, Sessions
  <1>4. CASE Saves(h)
    <2>1. PICK row : /\ h.row = None \/ Current(h) => Fits(h, row)
                     /\ SaveSession(h, row)
      BY <1>4 DEF Saves
    <2>2. \/ session' = session
          \/ row \in RowSet /\ session' = [session EXCEPT ![h.d.conn] = row]
      BY <2>1 DEF SaveSession, Fits
    <2>3. RowSet \subseteq Sessions
      BY DEF RowSet, Sessions
    <2> QED BY <1>1, <2>2, <2>3
  <1> QED BY <1>2, <1>3, <1>4 DEF Moves

LEMMA DoneType ==
    ASSUME TypeOK, NEW h, Done(h)
    PROVE  busy' \subseteq Handler /\ IsFiniteSet(busy')
  <1>1. busy \subseteq Handler /\ IsFiniteSet(busy) /\ busy' = busy \ {h}
    BY HistoryType DEF Done
  <1> QED BY <1>1, FS_Subset

LEMMA FinishKeeps ==
    ASSUME HInv, NEW h \in busy, Finish(h)
    PROVE  HInv'
  <1>1. TypeOK
    BY DEF HInv
  <1>2. Effect(h)
    BY <1>1, FinishEffect
  <1>3. Done(h) /\ Moves(h) /\ sent' \in Counts /\ (Writes(h) \/ Unwatches(h))
    BY <1>2 DEF Effect, Counts
  <1>4. /\ session' \in [Conn -> Sessions]
        /\ busy' \subseteq Handler /\ IsFiniteSet(busy')
    BY <1>1, <1>3, MovesType, DoneType
  <1>5. h.d.m \in Media
    BY <1>1, HandlerType
  <1>6. /\ now' \in Time /\ inbox' \subseteq Report /\ IsFiniteSet(inbox')
        /\ watching' \in [Server -> {None} \cup [m : Media, pos : Position]]
        /\ flag' \subseteq Server \X Media
        /\ acts' \in Nat /\ again' \in Nat /\ crashes' \in Nat /\ genuine' \in Counts
    <2>1. UNCHANGED <<now, recent, inbox, server, bounds, genuine>>
      BY <1>3 DEF Done
    <2> QED BY <1>1, <2>1, HistoryType DEF server, bounds
  <1>a. astray' \in Counts
    <2>1. astray' = astray \/ astray' = Bump(astray, h.d.m, 1)
      BY <1>3 DEF Done
    <2>2. astray \in Counts
      BY <1>1, HistoryType
    <2> QED BY <1>5, <2>1, <2>2, Counting
  <1>7. CASE Writes(h)
    <2>1. PICK m \in Media : (NoWrite \/ WriteProgress(m) \/ WriteCompleted(h, m)) /\ NoPush
      BY <1>7 DEF Writes
    <2>2. /\ progress' \subseteq Media /\ events' \in [Media -> SUBSET Time]
          /\ tokens' \in [Media -> Seq(Time)]
          /\ expired' \in Counts /\ hidden' \in Counts
          /\ eaten' \in Counts /\ recorded' \in Counts
          /\ \A x \in Media : recorded[x] <= recorded'[x]
          /\ \A x \in Media : events'[x] # {} => events[x] # {} \/ recorded[x] < recorded'[x]
      BY <1>1, <2>1, WriteKeeps
    <2>3. calls' = calls /\ cleared' = cleared
      BY <2>1 DEF NoPush
    <2>4. calls' \subseteq Call /\ IsFiniteSet(calls') /\ cleared' \in Counts
      BY <1>1, <2>3, HistoryType
    <2>5. TypeOK'
      BY <1>3, <1>4, <1>6, <1>a, <2>2, <2>4 DEF TypeOK, Counts
    <2>7. PlaysOwed'
      <3>1. ASSUME NEW x \in Media
            PROVE  cleared'[x] <= recorded'[x] /\ (events'[x] # {} => cleared'[x] < recorded'[x])
        <4>1. cleared[x] \in Nat /\ recorded[x] \in Nat
          BY <1>1, HistoryType DEF Counts
        <4>2. recorded'[x] \in Nat /\ recorded[x] <= recorded'[x]
          BY <2>2 DEF Counts
        <4>3. events'[x] # {} => events[x] # {} \/ recorded[x] < recorded'[x]
          BY <2>2
        <4>4. cleared[x] <= recorded[x] /\ (events[x] # {} => cleared[x] < recorded[x])
          BY DEF HInv, PlaysOwed
        <4> QED BY <2>3, <4>1, <4>2, <4>3, <4>4
      <3> QED BY <3>1 DEF PlaysOwed
    <2> QED BY <2>5, <2>7 DEF HInv
  <1>8. CASE Unwatches(h)
    <2>1. /\ events[h.d.m] # {} /\ events' = [events EXCEPT ![h.d.m] = {}]
          /\ cleared' = Bump(cleared, h.d.m, 1)
          /\ UNCHANGED <<progress, expired, hidden, eaten, recorded>>
      BY <1>8 DEF Unwatches
    <2>2. PICK but : PushWatchState(h.d.m, FALSE, but)
      BY <1>8 DEF Unwatches
    <2>3. calls' \subseteq Call /\ IsFiniteSet(calls')
      BY <1>1, <1>5, <2>2, Pushes
    <2>4. tokens' = tokens
      BY <2>2, PushesUnwatch
    <2>5. /\ cleared' \in Counts /\ cleared'[h.d.m] = cleared[h.d.m] + 1
          /\ \A x \in Media : x # h.d.m => cleared'[x] = cleared[x]
      <3>1. cleared \in Counts
        BY <1>1, HistoryType
      <3> QED BY <1>5, <2>1, <3>1, Counting
    <2>6. /\ events' \in [Media -> SUBSET Time] /\ events'[h.d.m] = {}
          /\ \A x \in Media : x # h.d.m => events'[x] = events[x]
      <3>1. events \in [Media -> SUBSET Time]
        BY <1>1, HistoryType
      <3> QED BY <1>5, <2>1, <3>1
    <2>7. /\ progress' \subseteq Media /\ tokens' \in [Media -> Seq(Time)]
          /\ expired' \in Counts /\ hidden' \in Counts /\ eaten' \in Counts
          /\ recorded' \in Counts
      BY <1>1, <2>1, <2>4, HistoryType
    <2>8. TypeOK'
      BY <1>3, <1>4, <1>6, <1>a, <2>3, <2>5, <2>6, <2>7 DEF TypeOK, Counts
    <2>10. PlaysOwed'
      <3>1. ASSUME NEW x \in Media
            PROVE  cleared'[x] <= recorded'[x] /\ (events'[x] # {} => cleared'[x] < recorded'[x])
        <4>1. cleared[x] \in Nat /\ recorded[x] \in Nat /\ recorded' = recorded
          BY <1>1, <2>1, HistoryType DEF Counts
        <4>2. cleared[x] <= recorded[x] /\ (events[x] # {} => cleared[x] < recorded[x])
          BY DEF HInv, PlaysOwed
        <4>3. CASE x = h.d.m
          BY <2>1, <2>5, <2>6, <4>1, <4>2, <4>3
        <4>4. CASE x # h.d.m
          BY <2>5, <2>6, <4>1, <4>2, <4>4
        <4> QED BY <4>3, <4>4
      <3> QED BY <3>1 DEF PlaysOwed
    <2> QED BY <2>8, <2>10 DEF HInv
  <1> QED BY <1>3, <1>7, <1>8

(* Outside the webhooks.                                                   *)
LEMMA EmbyPollKeeps ==
    ASSUME HInv, NEW s \in Server, EmbyPoll(s)
    PROVE  /\ HInv'
           /\ \A c \in Conn : session'[c] = None <=> session[c] = None
           /\ \A c \in Conn : session[c] # None => session'[c].n = session[c].n
  <1> DEFINE c == <<s, "full">>
  <1>1. TypeOK
    BY DEF HInv
  <1>2. c \in Conn /\ session[c] # None /\ watching[s] # None
          /\ session' = [session EXCEPT ![c].pos = watching[s].pos]
    BY DEF EmbyPoll
  <1>3. session \in [Conn -> Sessions] /\ session[c] \in RowSet
    BY <1>1, <1>2, HistoryType DEF Sessions, RowSet
  <1>4. watching[s].pos \in Position
    BY <1>1, <1>2, WatchingType
  <1> DEFINE row == [session[c] EXCEPT !.pos = watching[s].pos]
  <1>5. row \in RowSet /\ row.n = session[c].n /\ row # None
    BY <1>3, <1>4 DEF RowSet, None
  <1>6. session' = [session EXCEPT ![c] = row]
    BY <1>2
  <1> HIDE DEF row
  <1>7. session' \in [Conn -> Sessions]
    BY <1>2, <1>3, <1>5, <1>6 DEF Sessions, RowSet
  <1>8. \A x \in Conn : IF x = c THEN session'[x] = row ELSE session'[x] = session[x]
    BY <1>3, <1>6
  <1>9. UNCHANGED <<now, progress, events, tokens, recent, inbox, busy, calls, server,
                    bounds, history>>
    BY DEF EmbyPoll
  <1>10. TypeOK'
    BY <1>1, <1>7, <1>9 DEF TypeOK, server, bounds, history
  <1>11. PlaysOwed'
    BY <1>9, OwedStays DEF history
  <1> HIDE DEF c
  <1> QED BY <1>2, <1>5, <1>8, <1>10, <1>11 DEF HInv

LEMMA ClearKeeps ==
    ASSUME HInv, ClearSessions
    PROVE  HInv'
  <1>1. TypeOK
    BY DEF HInv
  <1>2. session' = [c \in Conn |-> None] /\ acts' = acts + 1
          /\ UNCHANGED <<now, progress, events, tokens, recent, inbox, busy, calls, server,
                         again, crashes, history>>
    BY DEF ClearSessions
  <1>3. session' \in [Conn -> Sessions]
    BY <1>2 DEF Sessions
  <1>4. acts' \in Nat
    BY <1>1, <1>2, HistoryType
  <1>5. TypeOK'
    BY <1>1, <1>2, <1>3, <1>4 DEF TypeOK, server, history
  <1>6. PlaysOwed'
    BY <1>2, OwedStays DEF history
  <1> QED BY <1>5, <1>6 DEF HInv

LEMMA EchoesCounted ==
    ASSUME NEW I, NEW B, NEW C, IsFiniteSet(I), IsFiniteSet(B), IsFiniteSet(C), NEW m
    PROVE  /\ Cardinality({d \in I : Echo(d, m)}) \in Nat
           /\ Cardinality({h \in B : Echo(h.d, m)}) \in Nat
           /\ Cardinality({c \in C : Echoed(c, m)}) \in Nat
           /\ Echoes(I, B, C, m) \in Nat
  <1>1. /\ IsFiniteSet({d \in I : Echo(d, m)})
        /\ IsFiniteSet({h \in B : Echo(h.d, m)})
        /\ IsFiniteSet({c \in C : Echoed(c, m)})
    BY FS_Subset
  <1> QED BY <1>1, FS_CardinalityType DEF Echoes

LEMMA CrashKeeps ==
    ASSUME HInv, Crash
    PROVE  HInv'
  <1>1. TypeOK
    BY DEF HInv
  <1>2. /\ crashes' = crashes + 1 /\ session' = [c \in Conn |-> None]
        /\ tokens' = [m \in Media |-> <<>>]
        /\ expired' = [m \in Media |-> expired[m] + Len(tokens[m])]
        /\ busy' = {} /\ calls' = {} /\ (inbox' = inbox \/ inbox' = {})
        /\ UNCHANGED <<now, progress, events, server, acts, again, genuine,
                       hidden, eaten, cleared, recorded, sent>>
        /\ astray' = [m \in Media |-> astray[m] + Echoes(inbox \ inbox', busy, calls, m)]
    BY DEF Crash
  <1>3. /\ session' \in [Conn -> Sessions] /\ crashes' \in Nat
        /\ tokens' \in [Media -> Seq(Time)]
    BY <1>1, <1>2, HistoryType DEF Sessions
  <1>4. \A x \in Media : expired[x] \in Nat /\ Len(tokens[x]) \in Nat
    BY <1>1, HistoryType DEF Counts
  <1>5. expired' \in Counts
    BY <1>2, <1>4 DEF Counts
  <1>6. IsFiniteSet(inbox') /\ IsFiniteSet(busy') /\ inbox' \subseteq Report
    <2>1. IsFiniteSet(inbox) /\ inbox \subseteq Report
      BY <1>1, HistoryType
    <2> QED BY <1>2, <2>1, FS_EmptySet
  <1>a. astray' \in Counts
    <2>1. /\ IsFiniteSet(inbox \ inbox') /\ IsFiniteSet(busy) /\ IsFiniteSet(calls)
          /\ astray \in Counts
      BY <1>1, HistoryType, FS_Subset
    <2> DEFINE k(m) == Echoes(inbox \ inbox', busy, calls, m)
    <2>2. \A m \in Media : astray[m] \in Nat /\ k(m) \in Nat
      BY <2>1, EchoesCounted DEF Counts
    <2>3. astray' = [m \in Media |-> astray[m] + k(m)]
      BY <1>2
    <2> HIDE DEF k
    <2> QED BY <2>2, <2>3 DEF Counts
  <1>7. TypeOK'
    <2>1. /\ now' \in Time /\ progress' \subseteq Media /\ events' \in [Media -> SUBSET Time]
          /\ busy' \subseteq Handler /\ calls' \subseteq Call
          /\ watching' \in [Server -> {None} \cup [m : Media, pos : Position]]
          /\ flag' \subseteq Server \X Media
      BY <1>1, <1>2, HistoryType DEF server
    <2>2. /\ acts' \in Nat /\ again' \in Nat /\ genuine' \in Counts /\ hidden' \in Counts
          /\ eaten' \in Counts /\ cleared' \in Counts
          /\ recorded' \in Counts /\ sent' \in Counts
      BY <1>1, <1>2, HistoryType
    <2>3. IsFiniteSet(calls')
      BY <1>2, FS_EmptySet
    <2> QED BY <1>3, <1>5, <1>6, <1>a, <2>3, <2>1, <2>2 DEF TypeOK, Counts
  <1>9. PlaysOwed'
    BY <1>2 DEF HInv, PlaysOwed
  <1> QED BY <1>7, <1>9 DEF HInv

LEMMA TickKeeps ==
    ASSUME HInv, Tick
    PROVE  HInv'
  <1>1. TypeOK
    BY DEF HInv
  <1>2. UNCHANGED <<session, progress, events, tokens, recent, inbox, busy, calls, server,
                    bounds, history>>
    BY DEF Tick
  <1>3. now' \in Time
    <2>1. now \in Time /\ now < MaxTime /\ now' = now + 1 /\ MaxTime \in Nat
      BY <1>1, HistoryType, ConstantsAssumption DEF Tick
    <2> QED BY <2>1 DEF Time
  <1>4. TypeOK'
    BY <1>1, <1>2, <1>3 DEF TypeOK, server, bounds, history
  <1>5. PlaysOwed'
    BY <1>2, OwedStays DEF history
  <1> QED BY <1>4, <1>5 DEF HInv

-----------------------------------------------------------------------------
(* Sessions of the connections whose reports arrive one at a time.         *)

(* The connections the invariant is about.                                 *)
InOrder == {c \in Ordered : Kind[c[1]] # "plex"}

LEMMA InOrderConn ==
    ASSUME NEW c \in InOrder
    PROVE  c \in Conn /\ c[1] \in Server /\ Kind[c[1]] # "plex"
  BY ConstantsAssumption DEF InOrder, Conn

LEMMA SessionsEndFor ==
    SessionsEnd <=> \A c \in InOrder : OneAtATime(c) /\ StopComes(c)
  BY DEF SessionsEnd, InOrder

(* Rows are as they were, and so is what is on its way.                    *)
LEMMA SessionsStay ==
    ASSUME SessionsEnd, UNCHANGED <<inbox, busy, watching>>,
           \A c \in Conn : session'[c] = None <=> session[c] = None,
           \A c \in Conn : session[c] # None => session'[c].n = session[c].n
    PROVE  SessionsEnd'
  <1> SUFFICES ASSUME NEW c \in InOrder PROVE OneAtATime(c)' /\ StopComes(c)'
    BY DEF SessionsEnd, InOrder
  <1>1. c \in Conn /\ OneAtATime(c) /\ StopComes(c)
    BY InOrderConn, SessionsEndFor
  <1>2. UnderWay(c)' = UnderWay(c)
    BY DEF UnderWay
  <1>3. StopComes(c)'
    BY <1>1, <1>2 DEF StopComes
  <1>4. OneAtATime(c)'
    BY <1>1 DEF OneAtATime
  <1> QED BY <1>3, <1>4

(* A server reports: behind all that is on its way.                        *)
LEMMA SessionsEmit ==
    ASSUME TypeOK, SessionsEnd, UNCHANGED <<session, busy>>,
           NEW s \in Server, NEW ev \in Ev, NEW m \in Media, NEW pos \in Position,
           NEW ended \in BOOLEAN, Emit(s, ev, m, pos, ended),
           \A t \in Server : t # s => watching'[t] = watching[t],
           \/ watching'[s] # None
           \/ ev = "stop"
           \/ watching'[s] = watching[s] /\ ev \notin {"start", "progress", "pause", "resume"}
    PROVE  SessionsEnd'
  <1> SUFFICES ASSUME NEW c \in InOrder PROVE OneAtATime(c)' /\ StopComes(c)'
    BY DEF SessionsEnd, InOrder
  <1>1. c \in Conn /\ c[1] \in Server /\ OneAtATime(c) /\ StopComes(c)
    BY InOrderConn, SessionsEndFor
  <1>2. /\ inbox \subseteq inbox'
        /\ \A d \in inbox' : d \in inbox \/ (d.ev = ev /\ d.n = Fresh /\ d.conn[1] = s)
        /\ c[1] = s => \E d \in inbox' : d.conn = c /\ d.ev = ev /\ d.n = Fresh
    BY <1>1, Emitting
  <1>3. /\ Fresh \in Nat
        /\ \A d \in inbox : d.n < Fresh
        /\ \A h \in busy : h.d.n < Fresh
    BY FreshNumber
  <1>4. OneAtATime(c)'
    <2>1. ASSUME NEW h \in busy, h.d.conn = c, NEW d \in inbox', d.conn = c
          PROVE  h.d.n <= d.n
      <3>1. CASE d \in inbox
        BY <1>1, <2>1, <3>1 DEF OneAtATime
      <3>2. CASE d.n = Fresh
        <4>1. h.d.n \in Nat
          BY HandlerType
        <4> QED BY <1>3, <3>2, <4>1
      <3> QED BY <1>2, <3>1, <3>2
    <2> QED BY <1>1, <2>1 DEF OneAtATime
  <1>5. UnderWay(c) \subseteq UnderWay(c)'
    BY <1>2 DEF UnderWay
  <1>6. \A d \in UnderWay(c)' : d \in UnderWay(c) \/ (d.ev = ev /\ d.n = Fresh /\ c[1] = s)
    BY <1>2 DEF UnderWay
  <1>7. \A d \in UnderWay(c) : d.n < Fresh
    BY <1>3 DEF UnderWay
  <1>8. StopComes(c)'
    <2>1. CASE c[1] # s
      <3>1. UnderWay(c)' = UnderWay(c)
        BY <1>5, <1>6, <2>1
      <3>2. watching'[c[1]] = watching[c[1]]
        BY <1>1, <2>1
      <3> QED BY <1>1, <3>1, <3>2 DEF StopComes
    <2>2. CASE c[1] = s /\ watching'[s] # None
      BY <2>2 DEF StopComes
    <2>3. CASE c[1] = s /\ ev = "stop"
      <3>1. PICK e \in inbox' : e.conn = c /\ e.ev = ev /\ e.n = Fresh
        BY <1>2, <2>3
      <3>2. e \in UnderWay(c)'
        BY <3>1 DEF UnderWay
      <3>3. \A d \in UnderWay(c)' : Opens(d) => d.n < e.n
        BY <1>6, <1>7, <2>3, <3>1 DEF Opens
      <3> QED BY <2>3, <3>1, <3>2, <3>3 DEF StopComes
    <2>4. CASE /\ c[1] = s /\ watching'[s] = watching[s]
               /\ ev \notin {"start", "progress", "pause", "resume"}
      <3>1. \A d \in UnderWay(c)' : Opens(d) => d \in UnderWay(c)
        BY <1>6, <2>4 DEF Opens
      <3>2. watching'[c[1]] = watching[c[1]] /\ session' = session
        BY <2>4
      <3> QED BY <1>1, <1>5, <3>1, <3>2 DEF StopComes
    <2> QED BY <2>1, <2>2, <2>3, <2>4
  <1> QED BY <1>4, <1>8

(* Playback goes on without a report.                                      *)
LEMMA SessionsGoOn ==
    ASSUME SessionsEnd, UNCHANGED <<session, inbox, busy>>, NEW s \in Server,
           \A t \in Server : t # s => watching'[t] = watching[t],
           watching'[s] # None
    PROVE  SessionsEnd'
  <1> SUFFICES ASSUME NEW c \in InOrder PROVE OneAtATime(c)' /\ StopComes(c)'
    BY DEF SessionsEnd, InOrder
  <1>1. c \in Conn /\ c[1] \in Server /\ OneAtATime(c) /\ StopComes(c)
    BY InOrderConn, SessionsEndFor
  <1>2. OneAtATime(c)'
    BY <1>1 DEF OneAtATime
  <1>3. UnderWay(c)' = UnderWay(c)
    BY DEF UnderWay
  <1>4. CASE c[1] = s
    BY <1>2, <1>4 DEF StopComes
  <1>5. CASE c[1] # s
    <2>1. watching'[c[1]] = watching[c[1]]
      BY <1>1, <1>5
    <2> QED BY <1>1, <1>2, <1>3, <2>1 DEF StopComes
  <1> QED BY <1>4, <1>5

(* What happens at a server.                                               *)
LEMMA PlayingSessions ==
    ASSUME TypeOK, SessionsEnd, NEW s \in Server,
           Advance(s) \/ Pause(s) \/ Resume(s) \/ (\E m \in Media : Play(s, m))
    PROVE  SessionsEnd'
  <1>1. session' = session /\ busy' = busy
    BY DEF Advance, Pause, Resume, Play, Rest
  <1>2. watching \in [Server -> Plays]
    BY HistoryType DEF Plays
  <1>3. /\ \A t \in Server : t # s => watching'[t] = watching[t]
        /\ watching'[s] # None
    <2>1. CASE Advance(s)
      <3>1. watching[s] \in [m : Media, pos : Position]
        BY <1>2, <2>1 DEF Advance, Plays
      <3>2. watching' = [watching EXCEPT ![s] = [watching[s] EXCEPT !.pos = watching[s].pos + 1]]
        BY <2>1 DEF Advance
      <3>3. [watching[s] EXCEPT !.pos = watching[s].pos + 1] # None
        BY <3>1 DEF None
      <3> QED BY <1>2, <3>2, <3>3
    <2>2. CASE Pause(s) \/ Resume(s)
      BY <2>2 DEF Pause, Resume
    <2>3. CASE \E m \in Media : Play(s, m)
      <3>1. PICK m \in Media : watching' = [watching EXCEPT ![s] = [m |-> m, pos |-> 0]]
        BY <2>3 DEF Play
      <3>2. [m |-> m, pos |-> 0] # None
        BY DEF None
      <3> QED BY <1>2, <3>1, <3>2
    <2> QED BY <2>1, <2>2, <2>3
  <1>4. \/ inbox' = inbox
        \/ \E ev \in Ev, m \in Media, pos \in Position, ended \in BOOLEAN : Emit(s, ev, m, pos, ended)
    <2>1. /\ "start" \in Ev /\ "scrobble" \in Ev /\ "progress" \in Ev /\ "pause" \in Ev
          /\ "resume" \in Ev /\ FALSE \in BOOLEAN
          /\ 0 \in Position /\ 1 \in Position /\ 2 \in Position
      BY DEF Ev, Position
    <2>2. CASE Advance(s)
      <3> DEFINE w == watching[s]
      <3>1. w \in [m : Media, pos : Position] /\ w.pos < 2
        BY <1>2, <2>2 DEF Advance, Plays
      <3>2. w.m \in Media /\ w.pos + 1 \in Position
        BY <3>1 DEF Position
      <3>3. \/ Emit(s, "scrobble", w.m, 2, FALSE) \/ Emit(s, "progress", w.m, w.pos + 1, FALSE)
            \/ UNCHANGED inbox
        <4>1. CASE Kind[s] = "plex" /\ w.pos = 1
          BY <2>2, <4>1 DEF Advance
        <4>2. CASE Kind[s] \in {"jellyfin", "kodi"}
          BY <2>2, <4>2 DEF Advance
        <4>3. CASE ~(Kind[s] = "plex" /\ w.pos = 1) /\ ~(Kind[s] \in {"jellyfin", "kodi"})
          BY <2>2, <4>3 DEF Advance
        <4> QED BY <4>1, <4>2, <4>3
      <3> HIDE DEF w
      <3> QED BY <2>1, <3>2, <3>3
    <2>3. CASE Pause(s)
      <3>1. watching[s].m \in Media
        BY <2>3, WatchingType DEF Pause
      <3>2. Emit(s, "pause", watching[s].m, 1, FALSE) \/ Emit(s, "progress", watching[s].m, 1, FALSE)
        BY <2>3 DEF Pause
      <3> QED BY <2>1, <3>1, <3>2
    <2>4. CASE Resume(s)
      <3>1. watching[s].m \in Media
        BY <2>4, WatchingType DEF Resume
      <3>2. Emit(s, "resume", watching[s].m, 0, FALSE) \/ Emit(s, "resume", watching[s].m, 1, FALSE)
        BY <2>4 DEF Resume
      <3> QED BY <2>1, <3>1, <3>2
    <2>5. CASE \E m \in Media : Play(s, m)
      <3>1. PICK m \in Media : Emit(s, "start", m, 0, FALSE)
        BY <2>5 DEF Play
      <3> QED BY <2>1, <3>1
    <2> QED BY <2>2, <2>3, <2>4, <2>5
  <1>5. CASE inbox' = inbox
    BY <1>1, <1>3, <1>5, SessionsGoOn
  <1>6. CASE \E ev \in Ev, m \in Media, pos \in Position, ended \in BOOLEAN : Emit(s, ev, m, pos, ended)
    <2>1. PICK ev \in Ev, m \in Media, pos \in Position, ended \in BOOLEAN : Emit(s, ev, m, pos, ended)
      BY <1>6
    <2> QED BY <1>1, <1>3, <2>1, SessionsEmit
  <1> QED BY <1>4, <1>5, <1>6

LEMMA StopPlayingSessions ==
    ASSUME TypeOK, SessionsEnd, NEW s \in Server, StopPlaying(s)
    PROVE  SessionsEnd'
  <1> DEFINE w == watching[s]
             ended == w.pos = 2 /\ Kind[s] # "plex"
  <1>1. session' = session /\ busy' = busy
    BY DEF StopPlaying, Rest
  <1>2. w.m \in Media /\ w.pos \in Position
    BY WatchingType DEF StopPlaying
  <1>3. PICK pos \in {0, w.pos} : Emit(s, "stop", w.m, pos, ended)
    BY DEF StopPlaying
  <1>4. pos \in Position /\ ended \in BOOLEAN /\ "stop" \in Ev
    BY <1>2 DEF Position, Ev
  <1>5. watching' = [watching EXCEPT ![s] = None] /\ watching \in [Server -> Plays]
    BY HistoryType DEF StopPlaying, Plays
  <1>6. \A t \in Server : t # s => watching'[t] = watching[t]
    BY <1>5
  <1> HIDE DEF w, ended
  <1> QED BY <1>1, <1>2, <1>3, <1>4, <1>6, SessionsEmit

(* Reports of marks open no session.                                       *)
LEMMA ToggleSessions ==
    ASSUME TypeOK, SessionsEnd, NEW s \in Server, NEW m \in Media, NEW w \in BOOLEAN, Toggle(s, m, w)
    PROVE  SessionsEnd'
  <1> DEFINE ev == IF Kind[s] = "kodi" THEN "library" ELSE IF w THEN "played" ELSE "unplayed"
             pos == IF w THEN 2 ELSE 0
  <1>1. session' = session /\ busy' = busy /\ watching' = watching
    BY DEF Toggle, Rest
  <1>2. Emit(s, ev, m, pos, w)
    BY DEF Toggle
  <1>3. ev \in Ev /\ pos \in Position /\ ev \notin {"start", "progress", "pause", "resume"}
    BY DEF Ev, Position
  <1> HIDE DEF ev, pos
  <1> QED BY <1>1, <1>2, <1>3, SessionsEmit

LEMMA ServerCallSessions ==
    ASSUME TypeOK, SessionsEnd, NEW c \in calls, ServerCall(c)
    PROVE  SessionsEnd'
  <1> DEFINE no == FALSE
  <1> DEFINE ev == IF c.w THEN "played" ELSE "unplayed"
             pos == IF c.w THEN 2 ELSE 0
  <1>1. session' = session /\ busy' = busy /\ watching' = watching
    BY DEF ServerCall
  <1>2. c.s \in Server /\ c.m \in Media /\ c.w \in BOOLEAN
    <2>1. c \in Call
      BY HistoryType
    <2> QED BY <2>1, ConstantsAssumption DEF Call
  <1>3. inbox' = inbox \/ Emit(c.s, ev, c.m, pos, no)
    BY DEF ServerCall
  <1>4. ev \in Ev /\ pos \in Position /\ ev \notin {"start", "progress", "pause", "resume"}
    BY DEF Ev, Position
  <1>7. no \in BOOLEAN
    OBVIOUS
  <1> HIDE DEF ev, pos, no
  <1>5. CASE inbox' = inbox
    BY <1>1, <1>5, SessionsStay
  <1>6. CASE Emit(c.s, ev, c.m, pos, no)
    BY <1>1, <1>2, <1>4, <1>6, <1>7, SessionsEmit
  <1> QED BY <1>3, <1>5, <1>6

(* A report is taken up: the oldest, with the row that is there.           *)
LEMMA BeginSessions ==
    ASSUME TypeOK, SessionsEnd, NEW d \in inbox, Begin(d)
    PROVE  SessionsEnd'
  <1> SUFFICES ASSUME NEW c \in InOrder PROVE OneAtATime(c)' /\ StopComes(c)'
    BY DEF SessionsEnd, InOrder
  <1>1. c \in Conn /\ Kind[c[1]] # "plex" /\ c \in Ordered /\ OneAtATime(c) /\ StopComes(c)
    BY InOrderConn, SessionsEndFor DEF InOrder
  <1>2. session' = session /\ watching' = watching
    BY DEF Begin, server
  <1>3. inbox' = inbox \/ inbox' = inbox \ {d}
    BY DEF Begin
  <1>4. busy' = busy \/ busy' = busy \cup {Made(d)}
    BY DEF Begin, Made
  <1>5. Made(d).d = d /\ Made(d).row = session[d.conn]
    BY MadeType
  <1>6. CASE d.conn # c
    <2>1. UnderWay(c)' = UnderWay(c)
      BY <1>3, <1>4, <1>5, <1>6 DEF UnderWay
    <2>2. \A h \in busy' : h.d.conn = c => h \in busy
      BY <1>4, <1>5, <1>6
    <2>3. inbox' \subseteq inbox
      BY <1>3
    <2>4. OneAtATime(c)'
      BY <1>1, <1>2, <2>2, <2>3 DEF OneAtATime
    <2> QED BY <1>1, <1>2, <2>1, <2>4 DEF StopComes
  <1>7. CASE d.conn = c
    <2>1. /\ \A e \in inbox : e.conn = c => e.n >= d.n
          /\ \A h \in busy : h.d.conn # c
      BY <1>1, <1>7 DEF Begin
    <2>2. busy' = busy \cup {Made(d)}
      <3>1. ~SeenBefore(d)
        BY <1>1, <1>7 DEF SeenBefore, Plexy
      <3> QED BY <3>1 DEF Begin, Made
    <2>3. \A h \in busy' : h.d.conn = c => h = Made(d)
      BY <2>1, <2>2
    <2>4. \A e \in inbox' : e.conn = c => d.n <= e.n
      <3>1. \A e \in inbox : e.n \in Nat
        BY HistoryType DEF Report
      <3> QED BY <1>3, <2>1, <3>1
    <2>5. OneAtATime(c)'
      BY <1>2, <1>5, <1>7, <2>3, <2>4 DEF OneAtATime
    <2>6. UnderWay(c)' = UnderWay(c)
      BY <1>3, <1>5, <2>2 DEF UnderWay
    <2> QED BY <1>1, <1>2, <2>5, <2>6 DEF StopComes
  <1> QED BY <1>6, <1>7

(* A handler touches the row of its connection only, and only one that opens *)
(* a session leaves a row where there was none.                            *)
LEMMA MovesOwn ==
    ASSUME TypeOK, NEW h \in busy, Moves(h)
    PROVE  /\ \A c \in Conn : c # h.d.conn => session'[c] = session[c]
           /\ ~Opens(h.d) /\ session[h.d.conn] = None => session'[h.d.conn] = None
           /\ /\ CloseSession(h)
              /\ session[h.d.conn] # None => h.row # None /\ session[h.d.conn].n = h.row.n
              => session'[h.d.conn] = None
  <1>1. session \in [Conn -> Sessions] /\ h.d.conn \in Conn
    BY HandlerType
  <1>2. ASSUME CloseSession(h)
        PROVE  /\ \A c \in Conn : c # h.d.conn => session'[c] = session[c]
               /\ Current(h) => session'[h.d.conn] = None
               /\ ~Current(h) => session' = session
    BY <1>1, <1>2 DEF CloseSession
  <1>3. CASE session' = session
    BY <1>2, <1>3 DEF Current
  <1>4. CASE CloseSession(h)
    BY <1>2, <1>4 DEF Current
  <1>5. CASE Opens(h.d) /\ Saves(h)
    <2>1. PICK row : SaveSession(h, row)
      BY <1>5 DEF Saves
    <2>2. session' = session \/ session' = [session EXCEPT ![h.d.conn] = row]
      BY <2>1 DEF SaveSession, Fits
    <2>3. \A c \in Conn : c # h.d.conn => session'[c] = session[c]
      BY <1>1, <2>2
    <2> QED BY <1>2, <1>5, <2>3 DEF Current
  <1> QED BY <1>3, <1>4, <1>5 DEF Moves

LEMMA FinishSessions ==
    ASSUME TypeOK, SessionsEnd, NEW h \in busy, Finish(h)
    PROVE  SessionsEnd'
  <1> SUFFICES ASSUME NEW c \in InOrder PROVE OneAtATime(c)' /\ StopComes(c)'
    BY DEF SessionsEnd, InOrder
  <1>1. c \in Conn /\ Kind[c[1]] # "plex" /\ OneAtATime(c) /\ StopComes(c)
    BY InOrderConn, SessionsEndFor
  <1>2. Effect(h)
    BY FinishEffect
  <1>3. /\ Moves(h) /\ busy' = busy \ {h} /\ inbox' = inbox /\ watching' = watching
        /\ h.d.ev = "stop" /\ Kind[h.d.conn[1]] # "plex" => CloseSession(h)
    BY <1>2 DEF Effect, Done, server
  <1>4. UnderWay(c)' \subseteq UnderWay(c)
    BY <1>3 DEF UnderWay
  <1>5. CASE h.d.conn # c
    <2>1. session'[c] = session[c]
      BY <1>1, <1>3, <1>5, MovesOwn
    <2>2. OneAtATime(c)'
      BY <1>1, <1>3, <2>1 DEF OneAtATime
    <2>3. UnderWay(c)' = UnderWay(c)
      BY <1>3, <1>5 DEF UnderWay
    <2> QED BY <1>1, <1>3, <2>1, <2>2, <2>3 DEF StopComes
  <1>6. CASE h.d.conn = c
    <2>1. \A g \in busy : g.d.conn = c => g = h
      BY <1>1, <1>6 DEF OneAtATime
    <2>2. \A g \in busy' : g.d.conn # c
      BY <1>3, <2>1
    <2>3. OneAtATime(c)'
      BY <2>2 DEF OneAtATime
    <2>4. UnderWay(c)' = {d \in inbox : d.conn = c}
      BY <1>3, <2>2 DEF UnderWay
    <2>5. \A d \in UnderWay(c) : d = h.d \/ d \in UnderWay(c)'
      BY <2>1, <2>4 DEF UnderWay
    <2>6. h.d \in UnderWay(c)
      BY <1>6 DEF UnderWay
    <2>7. \A d \in UnderWay(c)' : h.d.n <= d.n
      BY <1>1, <1>6, <2>4 DEF OneAtATime
    <2>8. \A d \in UnderWay(c) : d.n \in Nat
      <3>1. \A d \in inbox : d.n \in Nat
        BY HistoryType DEF Report
      <3>2. \A g \in busy : g.d.n \in Nat
        BY HandlerType
      <3> QED BY <3>1, <3>2 DEF UnderWay
    <2>9. StopComes(c)'
      <3> SUFFICES ASSUME watching[c[1]] = None
                   PROVE  \/ session'[c] = None /\ \A d \in UnderWay(c)' : ~Opens(d)
                          \/ \E e \in UnderWay(c)' : e.ev = "stop" /\ \A d \in UnderWay(c)' : Opens(d) => d.n < e.n
        BY <1>3 DEF StopComes
      <3>1. CASE session[c] = None /\ \A d \in UnderWay(c) : ~Opens(d)
        <4>1. ~Opens(h.d)
          BY <2>6, <3>1
        <4>2. session'[c] = None
          BY <1>3, <1>6, <3>1, <4>1, MovesOwn
        <4> QED BY <1>4, <3>1, <4>2
      <3>2. CASE \E e \in UnderWay(c) : e.ev = "stop" /\ \A d \in UnderWay(c) : Opens(d) => d.n < e.n
        <4>1. PICK e \in UnderWay(c) : e.ev = "stop" /\ \A d \in UnderWay(c) : Opens(d) => d.n < e.n
          BY <3>2
        <4>2. CASE e \in UnderWay(c)'
          BY <1>4, <4>1, <4>2
        <4>3. CASE e = h.d
          <5>1. CloseSession(h)
            BY <1>1, <1>3, <1>6, <4>1, <4>3
          <5>2. session[c] # None => h.row # None /\ session[c].n = h.row.n
            BY <1>1, <1>6 DEF OneAtATime
          <5>3. session'[c] = None
            BY <1>3, <1>6, <5>1, <5>2, MovesOwn
          <5>4. ASSUME NEW d \in UnderWay(c)' PROVE ~Opens(d)
            <6>1. d \in UnderWay(c) /\ h.d.n <= d.n
              BY <1>4, <2>7
            <6>2. d.n \in Nat /\ h.d.n \in Nat
              BY <2>6, <2>8, <6>1
            <6> QED BY <4>1, <4>3, <6>1, <6>2
          <5> QED BY <5>3, <5>4
        <4> QED BY <2>5, <4>2, <4>3
      <3> QED BY <1>1, <3>1, <3>2 DEF StopComes
    <2> QED BY <2>3, <2>9
  <1> QED BY <1>5, <1>6

(* Sessions are cleared: a stop still under way finds nothing to end.       *)
LEMMA ClearedSessions ==
    ASSUME TypeOK, SessionsEnd, ClearSessions
    PROVE  SessionsEnd'
  <1> SUFFICES ASSUME NEW c \in InOrder PROVE OneAtATime(c)' /\ StopComes(c)'
    BY DEF SessionsEnd, InOrder
  <1>1. c \in Conn /\ OneAtATime(c) /\ StopComes(c)
    BY InOrderConn, SessionsEndFor
  <1>2. inbox' = inbox /\ busy' = busy /\ watching' = watching /\ session' = [x \in Conn |-> None]
    BY DEF ClearSessions, server
  <1>3. session'[c] = None
    BY <1>1, <1>2
  <1>4. UnderWay(c)' = UnderWay(c)
    BY <1>2 DEF UnderWay
  <1>5. OneAtATime(c)'
    BY <1>1, <1>2, <1>3 DEF OneAtATime
  <1> QED BY <1>1, <1>2, <1>3, <1>4, <1>5 DEF StopComes

(* A crash takes the handler at work with it, and may take the reports.     *)
LEMMA CrashSessions ==
    ASSUME TypeOK, SessionsEnd, Crash
    PROVE  SessionsEnd'
  <1> SUFFICES ASSUME NEW c \in InOrder PROVE OneAtATime(c)' /\ StopComes(c)'
    BY DEF SessionsEnd, InOrder
  <1>1. c \in Conn /\ OneAtATime(c) /\ StopComes(c)
    BY InOrderConn, SessionsEndFor
  <1>2. /\ inbox' = inbox \/ inbox' = {}
        /\ busy' = {} /\ watching' = watching /\ session' = [x \in Conn |-> None]
    BY DEF Crash, server
  <1>3. session'[c] = None
    BY <1>1, <1>2
  <1>4. OneAtATime(c)'
    BY <1>2 DEF OneAtATime
  <1>5. UnderWay(c)' = {d \in inbox' : d.conn = c}
    BY <1>2 DEF UnderWay
  <1>6. CASE inbox' = {}
    BY <1>3, <1>4, <1>5, <1>6 DEF StopComes
  <1>7. CASE inbox' = inbox
    <2>1. UnderWay(c)' \subseteq UnderWay(c)
      BY <1>5, <1>7 DEF UnderWay
    <2>2. StopComes(c)'
      <3> SUFFICES ASSUME watching[c[1]] = None, ~(\A d \in UnderWay(c)' : ~Opens(d))
                   PROVE  \E e \in UnderWay(c)' : e.ev = "stop" /\ \A d \in UnderWay(c)' : Opens(d) => d.n < e.n
        BY <1>2, <1>3 DEF StopComes
      <3>1. PICK o \in UnderWay(c)' : Opens(o)
        OBVIOUS
      <3>2. PICK e \in UnderWay(c) : e.ev = "stop" /\ \A d \in UnderWay(c) : Opens(d) => d.n < e.n
        BY <1>1, <2>1, <3>1 DEF StopComes
      <3>3. o.n < e.n
        BY <2>1, <3>1, <3>2
      <3>4. e \in UnderWay(c)'
        <4> SUFFICES ASSUME e \notin inbox PROVE FALSE
          BY <1>5, <1>7 DEF UnderWay
        <4>1. PICK h \in busy : e = h.d /\ h.d.conn = c
          BY DEF UnderWay
        <4>2. o \in inbox /\ o.conn = c
          BY <1>5, <1>7
        <4>3. h.d.n <= o.n
          BY <1>1, <4>1, <4>2 DEF OneAtATime
        <4>4. o.n \in Nat /\ h.d.n \in Nat
          BY <4>2, HistoryType, HandlerType DEF Report
        <4> QED BY <3>3, <4>1, <4>3, <4>4
      <3> QED BY <2>1, <3>2, <3>4
    <2> QED BY <1>4, <2>2
  <1> QED BY <1>2, <1>6, <1>7

-----------------------------------------------------------------------------
(* The invariant and what it says.                                         *)

BInv == HInv /\ SessionsEnd

LEMMA BInvInit == Init => BInv
  <1> SUFFICES ASSUME Init PROVE BInv
    OBVIOUS
  <1>1. Zero \in Counts /\ \A m \in Media : Zero[m] = 0
    BY DEF Zero, Counts
  <1>2. TypeOK
    <2>1. IsFiniteSet(inbox) /\ IsFiniteSet(busy) /\ IsFiniteSet(calls)
      BY FS_EmptySet DEF Init
    <2>2. now \in Time
      BY ConstantsAssumption DEF Init, Time
    <2>3. /\ session \in [Conn -> Sessions] /\ events \in [Media -> SUBSET Time]
          /\ tokens \in [Media -> Seq(Time)]
          /\ watching \in [Server -> {None} \cup [m : Media, pos : Position]]
      BY DEF Init, Sessions
    <2>4. /\ progress \subseteq Media /\ inbox \subseteq Report /\ busy \subseteq Handler
          /\ calls \subseteq Call /\ flag \subseteq Server \X Media
          /\ acts \in Nat /\ again \in Nat /\ crashes \in Nat
      BY DEF Init
    <2>5. {genuine, expired, hidden, astray, eaten, cleared, recorded, sent} \subseteq Counts
      BY <1>1 DEF Init
    <2> QED BY <2>1, <2>2, <2>3, <2>4, <2>5 DEF TypeOK, Counts
  <1>4. PlaysOwed
    BY <1>1 DEF Init, PlaysOwed
  <1>5. SessionsEnd
    <2> SUFFICES ASSUME NEW c \in InOrder PROVE OneAtATime(c) /\ StopComes(c)
      BY SessionsEndFor
    <2>1. session[c] = None /\ inbox = {} /\ busy = {}
      BY InOrderConn DEF Init
    <2> QED BY <2>1 DEF OneAtATime, StopComes, UnderWay
  <1> QED BY <1>2, <1>4, <1>5 DEF BInv, HInv

(* A user acts.                                                            *)
LEMMA UserActsKeep ==
    ASSUME BInv, UserActs
    PROVE  BInv'
  <1>1. HInv /\ SessionsEnd /\ TypeOK
    BY DEF BInv, HInv
  <1>2. ASSUME NEW s \in Server, NEW m \in Media, Play(s, m)
        PROVE  BInv'
    <2>1. HInv'
      BY <1>1, <1>2, PlayKeeps
    <2>2. SessionsEnd'
      BY <1>1, <1>2, PlayingSessions
    <2> QED BY <2>1, <2>2 DEF BInv
  <1>3. ASSUME NEW s \in Server, NEW m \in Media, PushWatchedForNewItem(s, m)
        PROVE  BInv'
    <2>1. HInv'
      BY <1>1, <1>3, NewItemKeeps
    <2>2. UNCHANGED <<session, inbox, busy, watching>>
      BY <1>3 DEF PushWatchedForNewItem, server
    <2> QED BY <1>1, <2>1, <2>2, SessionsStay DEF BInv
  <1>4. ASSUME NEW s \in Server, NEW m \in Media, NEW w \in BOOLEAN, Toggle(s, m, w)
        PROVE  BInv'
    BY <1>1, <1>4, ToggleKeeps, ToggleSessions DEF BInv
  <1>5. ASSUME NEW s \in Server, Advance(s) PROVE BInv'
    BY <1>1, <1>5, AdvanceKeeps, PlayingSessions DEF BInv
  <1>6. ASSUME NEW s \in Server, Pause(s) PROVE BInv'
    BY <1>1, <1>6, PauseKeeps, PlayingSessions DEF BInv
  <1>7. ASSUME NEW s \in Server, Resume(s) PROVE BInv'
    BY <1>1, <1>7, ResumeKeeps, PlayingSessions DEF BInv
  <1>8. ASSUME NEW s \in Server, StopPlaying(s) PROVE BInv'
    BY <1>1, <1>8, StopPlayingKeeps, StopPlayingSessions DEF BInv
  <1>9. ASSUME NEW m \in Media, UnwatchItem(m) PROVE BInv'
    <2>1. HInv'
      BY <1>1, <1>9, UnwatchItemKeeps
    <2>2. UNCHANGED <<session, inbox, busy, watching>>
      BY <1>9 DEF UnwatchItem, server
    <2> QED BY <1>1, <2>1, <2>2, SessionsStay DEF BInv
  <1>10. ASSUME NEW m \in Media, NEW force \in BOOLEAN, MarkAsWatched(m, force) PROVE BInv'
    <2>1. HInv'
      BY <1>1, <1>10, MarkAsWatchedKeeps
    <2>2. UNCHANGED <<session, inbox, busy, watching>>
      BY <1>10 DEF MarkAsWatched, server
    <2> QED BY <1>1, <2>1, <2>2, SessionsStay DEF BInv
  <1>11. ASSUME ClearSessions PROVE BInv'
    BY <1>1, <1>11, ClearKeeps, ClearedSessions DEF BInv
  <1> QED BY <1>2, <1>3, <1>4, <1>5, <1>6, <1>7, <1>8, <1>9, <1>10, <1>11 DEF UserActs

(* Reports and calls are answered.                                         *)
LEMMA AnswerKeeps ==
    ASSUME BInv, Answer
    PROVE  BInv'
  <1>1. HInv /\ SessionsEnd /\ TypeOK
    BY DEF BInv, HInv
  <1>2. ASSUME NEW c \in calls, ServerCall(c) PROVE BInv'
    BY <1>1, <1>2, ServerCallKeeps, ServerCallSessions DEF BInv
  <1>3. ASSUME NEW d \in inbox, Begin(d) PROVE BInv'
    BY <1>1, <1>3, BeginKeeps, BeginSessions DEF BInv
  <1>4. ASSUME NEW h \in busy, Finish(h) PROVE BInv'
    BY <1>1, <1>4, FinishKeeps, FinishSessions DEF BInv
  <1> QED BY <1>2, <1>3, <1>4 DEF Answer

LEMMA BInvStep == BInv /\ [Next]_vars => BInv'
  <1> SUFFICES ASSUME BInv, [Next]_vars PROVE BInv'
    OBVIOUS
  <1>1. HInv /\ SessionsEnd /\ TypeOK
    BY DEF BInv, HInv
  <1>2. CASE UserActs
    BY <1>2, UserActsKeep
  <1>3. CASE Answer
    BY <1>3, AnswerKeeps
  <1>4. ASSUME NEW s \in Server, EmbyPoll(s) PROVE BInv'
    <2>1. /\ HInv'
          /\ \A c \in Conn : session'[c] = None <=> session[c] = None
          /\ \A c \in Conn : session[c] # None => session'[c].n = session[c].n
      BY <1>1, <1>4, EmbyPollKeeps
    <2>2. UNCHANGED <<inbox, busy, watching>>
      BY <1>4 DEF EmbyPoll, server
    <2> QED BY <1>1, <2>1, <2>2, SessionsStay DEF BInv
  <1>5. CASE Crash
    BY <1>1, <1>5, CrashKeeps, CrashSessions DEF BInv
  <1>6. CASE Tick
    <2>1. UNCHANGED <<session, inbox, busy, watching>>
      BY <1>6 DEF Tick, server
    <2>2. SessionsEnd'
      BY <1>1, <2>1, SessionsStay
    <2> QED BY <1>1, <1>6, <2>2, TickKeeps DEF BInv
  <1>7. CASE UNCHANGED vars
    <2>1. UNCHANGED <<session, inbox, busy, watching>>
      BY <1>7 DEF vars, server
    <2>2. SessionsEnd'
      BY <1>1, <2>1, SessionsStay
    <2>3. TypeOK'
      BY <1>1, <1>7 DEF TypeOK, vars, server, bounds, history
    <2>4. PlaysOwed'
      BY <1>1, <1>7, OwedStays DEF vars, history
    <2> QED BY <2>2, <2>3, <2>4 DEF BInv, HInv
  <1> QED BY <1>2, <1>3, <1>4, <1>5, <1>6, <1>7 DEF Next

THEOREM PlaybackInvariant == Spec => []BInv
  BY BInvInit, BInvStep, PTL DEF Spec

(* Every variable keeps its type, and what is on its way stays finite.      *)
THEOREM PlaybackTypeCorrect == Spec => []TypeOK
  <1>1. BInv => TypeOK
    BY DEF BInv, HInv
  <1> QED BY <1>1, PlaybackInvariant, PTL

(* An unwatch that servers report back to each other comes to rest: every  *)
(* round of calls takes plays away, so there are no more rounds than plays  *)
(* were recorded (_handle_unwatch_toggle).                                 *)
THEOREM UnwatchComesToRest == Spec => []RoundsEnd
  <1>1. BInv => RoundsEnd
    BY DEF BInv, HInv, PlaysOwed, RoundsEnd
  <1> QED BY <1>1, PlaybackInvariant, PTL

(* A row of now playing whose playback is over is on its way out, wherever  *)
(* a server's reports arrive one at a time: through crashes, reports sent   *)
(* again, a user who clears the sessions and a poller that refreshes them.  *)
THEOREM NowPlayingEnds == Spec => []NowPlayingTrue
  <1>1. BInv => NowPlayingTrue
    <2> SUFFICES ASSUME BInv, NEW c \in Ordered, Kind[c[1]] # "plex", session[c] # None,
                        watching[c[1]] = None
                 PROVE  InFlight(c)
      BY DEF NowPlayingTrue
    <2>1. StopComes(c)
      BY DEF BInv, SessionsEnd
    <2>2. PICK e \in UnderWay(c) : TRUE
      BY <2>1 DEF StopComes
    <2> QED BY <2>2 DEF UnderWay, InFlight
  <1> QED BY <1>1, PlaybackInvariant, PTL
-----------------------------------------------------------------------------
(* How many: sets that grow by one element, or lose one.                   *)

LEMMA Fewer ==
    ASSUME NEW S, IsFiniteSet(S), NEW T, T \subseteq S
    PROVE  /\ IsFiniteSet(T)
           /\ Cardinality(T) \in Nat /\ Cardinality(S) \in Nat
           /\ Cardinality(T) <= Cardinality(S)
  BY FS_Subset, FS_CardinalityType

LEMMA OneMore ==
    ASSUME NEW S, IsFiniteSet(S), NEW x, NEW T, T \subseteq S \cup {x}
    PROVE  /\ IsFiniteSet(T)
           /\ Cardinality(T) \in Nat /\ Cardinality(S) \in Nat
           /\ Cardinality(T) <= Cardinality(S) + 1
  <1> DEFINE U == S \cup {x}
  <1>1. /\ IsFiniteSet(U) /\ Cardinality(S) \in Nat
        /\ Cardinality(U) = Cardinality(S) \/ Cardinality(U) = Cardinality(S) + 1
    BY FS_AddElement, FS_CardinalityType
  <1>2. T \in SUBSET U
    OBVIOUS
  <1> HIDE DEF U
  <1>3. IsFiniteSet(T) /\ Cardinality(T) \in Nat /\ Cardinality(T) <= Cardinality(U)
    BY <1>1, <1>2, Fewer
  <1> QED BY <1>1, <1>3

LEMMA OneLess ==
    ASSUME NEW S, IsFiniteSet(S), NEW x \in S, NEW T, T \subseteq S \ {x}
    PROVE  /\ IsFiniteSet(T)
           /\ Cardinality(T) \in Nat /\ Cardinality(S) \in Nat
           /\ Cardinality(T) + 1 <= Cardinality(S)
  <1> DEFINE U == S \ {x}
  <1>1. /\ IsFiniteSet(U) /\ Cardinality(S) \in Nat
        /\ Cardinality(U) = Cardinality(S) - 1
    BY FS_RemoveElement, FS_CardinalityType
  <1>2. T \in SUBSET U
    OBVIOUS
  <1> HIDE DEF U
  <1>3. IsFiniteSet(T) /\ Cardinality(T) \in Nat /\ Cardinality(T) <= Cardinality(U)
    BY <1>1, <1>2, Fewer
  <1> QED BY <1>1, <1>3

-----------------------------------------------------------------------------
(* What is on its way: each report, handler and call.                      *)

LEMMA ConnFinite == IsFiniteSet(Conn)
  <1>1. IsFiniteSet(Full) /\ IsFiniteSet(Side)
    BY ConstantsAssumption, FS_Subset
  <1>2. IsFiniteSet({"full"}) /\ IsFiniteSet({"side"})
    BY FS_Singleton
  <1>3. IsFiniteSet(Full \X {"full"}) /\ IsFiniteSet(Side \X {"side"})
    BY <1>1, <1>2, FS_Product
  <1> QED BY <1>3, FS_Union DEF Conn

LEMMA ConnServer ==
    ASSUME NEW c \in Conn
    PROVE  c[1] \in Server
  BY ConstantsAssumption DEF Conn

(* What a server reports.                                                  *)
Says(d, s, ev, m, pos, ended) ==
    /\ d.conn \in Conn /\ d.conn[1] = s
    /\ d.ev = ev /\ d.m = m /\ d.pos = pos /\ d.ended = ended
    /\ d.at = now /\ d.n = Fresh

LEMMA Saying ==
    ASSUME NEW s, NEW ev, NEW m, NEW pos, NEW ended, Emit(s, ev, m, pos, ended)
    PROVE  /\ \A d \in inbox' : d \in inbox \/ Says(d, s, ev, m, pos, ended)
           /\ \A d, e \in inbox' : d \notin inbox /\ e \notin inbox /\ d.conn = e.conn => d = e
           /\ inbox \subseteq inbox'
  <1>1. inbox' = inbox \cup Reports(s, ev, m, pos, ended)
    BY DEF Emit
  <1>2. \A d \in Reports(s, ev, m, pos, ended) :
           /\ Says(d, s, ev, m, pos, ended)
           /\ d = [conn |-> d.conn, ev |-> ev, m |-> m, pos |-> pos, ended |-> ended,
                   at |-> now, n |-> Fresh]
    BY DEF Reports, Says
  <1>3. \A d, e \in Reports(s, ev, m, pos, ended) : d.conn = e.conn => d = e
    BY <1>2
  <1> QED BY <1>1, <1>2, <1>3

(* A server with one connection makes one report.                          *)
LEMMA SayingOnce ==
    ASSUME NEW s, NEW ev, NEW m, NEW pos, NEW ended, Emit(s, ev, m, pos, ended),
           \A c, d \in Conn : c[1] = s /\ d[1] = s => c = d
    PROVE  \E x : /\ inbox' \subseteq inbox \cup {x}
                  /\ \A d \in inbox' : d \in inbox \/ Says(d, s, ev, m, pos, ended)
  <1>1. /\ \A d \in inbox' : d \in inbox \/ Says(d, s, ev, m, pos, ended)
        /\ \A d, e \in inbox' : d \notin inbox /\ e \notin inbox /\ d.conn = e.conn => d = e
    BY Saying
  <1>2. \A d, e \in inbox' : d \notin inbox /\ e \notin inbox => d = e
    BY <1>1 DEF Says
  <1>3. CASE inbox' \subseteq inbox
    BY <1>1, <1>3
  <1>4. CASE ~(inbox' \subseteq inbox)
    <2>1. PICK x \in inbox' : x \notin inbox
      BY <1>4
    <2>2. inbox' \subseteq inbox \cup {x}
      BY <1>2, <2>1
    <2> QED BY <1>1, <2>2
  <1> QED BY <1>3, <1>4

LEMMA NoneFlying ==
    ASSUME TypeOK, NEW s, Flying(s) = 0
    PROVE  /\ \A d \in inbox : d.conn[1] # s
           /\ \A h \in busy : h.d.conn[1] # s
  <1> DEFINE A == {d \in inbox : d.conn[1] = s}
             B == {h \in busy : h.d.conn[1] = s}
  <1>1. IsFiniteSet(A) /\ IsFiniteSet(B)
    BY FS_Subset DEF TypeOK
  <1>2. Cardinality(A) + Cardinality(B) = 0
    BY DEF Flying
  <1> HIDE DEF A, B
  <1>3. Cardinality(A) = 0 /\ Cardinality(B) = 0
    BY <1>1, <1>2, FS_CardinalityType
  <1>4. A = {} /\ B = {}
    BY <1>1, <1>3, FS_EmptySet
  <1> QED BY <1>4 DEF A, B

-----------------------------------------------------------------------------
(* Positions: what says that playback went past 90%, and when.             *)

(* A row, a handler's copy of one, or a report that will make one.         *)
SeesEnd(c) ==
    \/ session[c] # None /\ session[c].pos = 2
    \/ \E d \in UnderWay(c) : Opens(d) /\ d.pos = 2
    \/ \E h \in busy : h.d.conn = c /\ h.row # None /\ h.row.pos = 2

(* It is true of what plays, or the stop on its way says the same.  Plex    *)
(* reports 90% by media.scrobble, which opens no session.                  *)
EndsTrue(c) ==
    SeesEnd(c) => /\ Kind[c[1]] # "plex"
                  /\ watching[c[1]] # None => watching[c[1]].pos = 2
                  /\ watching[c[1]] = None => \A d \in UnderWay(c) : d.ev = "stop" => d.ended

(* A playback has one stop, and none while it lasts.                       *)
OneStop(c) ==
    /\ \A d, e \in inbox : d.conn = c /\ e.conn = c /\ d.ev = "stop" /\ e.ev = "stop" => d = e
    /\ watching[c[1]] # None => \A d \in UnderWay(c) : d.ev # "stop"

(* What is on its way left when its time says, and is not late.             *)
Timely ==
    /\ \A d \in inbox : d.at <= now /\ now - d.at <= Latency
    /\ \A h \in busy : h.d.at <= now
    /\ \A c \in calls : c.at <= now
    /\ \A r \in recent : r.at \in Nat /\ r.at <= now

WInv == Timely /\ IsFiniteSet(calls) /\ \A c \in Conn : OneStop(c) /\ EndsTrue(c)

(* Every server but Plex waits for the answer to a report.                 *)
InTurn == \A c \in Conn : Kind[c[1]] # "plex" => c \in Ordered

LEMMA TimesAre ==
    ASSUME TypeOK
    PROVE  /\ now \in Nat /\ Latency \in Nat /\ Retry \in Nat /\ Window \in Nat
           /\ \A d \in inbox : d.at \in Nat
           /\ \A h \in busy : h.d.at \in Nat
           /\ \A c \in calls : c.at \in Nat
  <1>1. Time \subseteq Nat
    BY ConstantsAssumption DEF Time
  <1>2. inbox \subseteq Report /\ now \in Time /\ calls \subseteq Call
    BY DEF TypeOK
  <1>3. \A d \in Report : d.at \in Nat
    BY <1>1 DEF Report
  <1>4. \A h \in busy : h.d \in Report
    BY HandlerType
  <1>5. \A c \in Call : c.at \in Nat
    BY <1>1 DEF Call
  <1>6. Latency \in Nat /\ Retry \in Nat /\ Window \in Nat
    BY ConstantsAssumption
  <1> QED BY <1>1, <1>2, <1>3, <1>4, <1>5, <1>6

LEMMA UnderWayType ==
    ASSUME TypeOK, NEW c, NEW d \in UnderWay(c)
    PROVE  d \in Report /\ d.conn = c
  <1>1. inbox \subseteq Report
    BY DEF TypeOK
  <1>2. \A h \in busy : h.d \in Report
    BY HandlerType
  <1> QED BY <1>1, <1>2 DEF UnderWay

(* A report made keeps the times.                                          *)
LEMMA TimelyEmits ==
    ASSUME TypeOK, Timely, UNCHANGED <<now, busy, recent>>, calls' \subseteq calls,
           NEW s, NEW ev, NEW m, NEW pos, NEW ended,
           inbox' = inbox \/ Emit(s, ev, m, pos, ended)
    PROVE  Timely'
  <1>1. now \in Nat /\ Latency \in Nat
    BY TimesAre
  <1>2. \A d \in inbox' : d \in inbox \/ d.at = now
    <2>1. CASE inbox' = inbox
      BY <2>1
    <2>2. CASE Emit(s, ev, m, pos, ended)
      BY <2>2, Saying DEF Says
    <2> QED BY <2>1, <2>2
  <1>3. \A d \in inbox' : d.at <= now /\ now - d.at <= Latency
    BY <1>1, <1>2 DEF Timely
  <1> QED BY <1>3 DEF Timely

(* Where nothing happens to a connection.                                  *)
LEMMA WayElsewhere ==
    ASSUME NEW c \in Conn, OneStop(c), EndsTrue(c),
           session'[c] = session[c], busy' = busy, watching'[c[1]] = watching[c[1]],
           \A d : d.conn = c => (d \in inbox' <=> d \in inbox)
    PROVE  OneStop(c)' /\ EndsTrue(c)'
  <1>1. UnderWay(c)' = UnderWay(c)
    BY DEF UnderWay
  <1>2. SeesEnd(c)' <=> SeesEnd(c)
    BY <1>1 DEF SeesEnd
  <1>3. EndsTrue(c)'
    BY <1>1, <1>2 DEF EndsTrue
  <1>4. OneStop(c)'
    BY <1>1 DEF OneStop
  <1> QED BY <1>3, <1>4

LEMMA SaysElsewhere ==
    ASSUME NEW s, NEW ev, NEW m, NEW pos, NEW ended,
           inbox' = inbox \/ Emit(s, ev, m, pos, ended), NEW c, c[1] # s
    PROVE  \A d : d.conn = c => (d \in inbox' <=> d \in inbox)
  <1>1. CASE inbox' = inbox
    BY <1>1
  <1>2. CASE Emit(s, ev, m, pos, ended)
    BY <1>2, Saying DEF Says
  <1> QED BY <1>1, <1>2

(* A report that is neither a stop nor says more than what plays.           *)
LEMMA WaySays ==
    ASSUME TypeOK, WInv, UNCHANGED <<now, session, busy, recent>>, calls' \subseteq calls,
           NEW s \in Server, NEW ev \in Ev \ {"stop"}, NEW m, NEW pos, NEW ended,
           inbox' = inbox \/ Emit(s, ev, m, pos, ended),
           \A t \in Server : t # s => watching'[t] = watching[t],
           watching[s] = None => watching'[s] = None,
           watching'[s] = None => watching[s] = None,
           watching[s] # None => watching[s].pos <= watching'[s].pos /\ watching'[s].pos \in Position,
           ev \in {"start", "progress", "pause", "resume"} /\ pos = 2 =>
              /\ Kind[s] # "plex" /\ watching'[s] # None /\ watching'[s].pos = 2
    PROVE  WInv'
  <1>1. Timely'
    BY TimelyEmits DEF WInv
  <1>2. IsFiniteSet(calls')
    BY FS_Subset DEF WInv
  <1>3. ASSUME NEW c \in Conn PROVE OneStop(c)' /\ EndsTrue(c)'
    <2>1. OneStop(c) /\ EndsTrue(c) /\ c[1] \in Server
      BY ConnServer DEF WInv
    <2>2. CASE c[1] # s
      <3>1. \A d : d.conn = c => (d \in inbox' <=> d \in inbox)
        BY <2>2, SaysElsewhere
      <3>2. watching'[c[1]] = watching[c[1]]
        BY <2>1, <2>2
      <3> QED BY <2>1, <3>1, <3>2, WayElsewhere
    <2>3. CASE c[1] = s
      <3>1. \A d \in inbox' : d \in inbox \/ Says(d, s, ev, m, pos, ended)
        BY Saying
      <3>2. \A d \in UnderWay(c)' : d \in UnderWay(c) \/ Says(d, s, ev, m, pos, ended)
        BY <3>1 DEF UnderWay
      <3>3. \A d \in UnderWay(c)' : d.ev = "stop" => d \in UnderWay(c)
        BY <3>2 DEF Says
      <3>4. OneStop(c)'
        <4>1. \A d \in inbox' : d.ev = "stop" => d \in inbox
          BY <3>1 DEF Says
        <4>2. watching'[c[1]] # None => watching[c[1]] # None
          BY <2>3
        <4> QED BY <2>1, <3>3, <4>1, <4>2 DEF OneStop
      <3>5. SeesEnd(c)' => \/ SeesEnd(c)
                           \/ Kind[s] # "plex" /\ watching'[s] # None /\ watching'[s].pos = 2
        <4>1. \A d \in UnderWay(c)' : Opens(d) /\ d.pos = 2 /\ d \notin UnderWay(c) =>
                 Kind[s] # "plex" /\ watching'[s] # None /\ watching'[s].pos = 2
          BY <3>2 DEF Says, Opens
        <4> QED BY <4>1 DEF SeesEnd
      <3>6. EndsTrue(c)'
        <4>1. SeesEnd(c) /\ watching'[s] # None => watching'[s].pos = 2
          <5> SUFFICES ASSUME SeesEnd(c), watching'[s] # None PROVE watching'[s].pos = 2
            OBVIOUS
          <5>1. watching[s] # None /\ watching[s].pos = 2
            BY <2>1, <2>3 DEF EndsTrue
          <5> QED BY <5>1 DEF Position
        <4>2. SeesEnd(c) /\ watching'[s] = None => \A d \in UnderWay(c)' : d.ev = "stop" => d.ended
          BY <2>1, <2>3, <3>3 DEF EndsTrue
        <4>3. SeesEnd(c) => Kind[s] # "plex"
          BY <2>1, <2>3 DEF EndsTrue
        <4> QED BY <2>3, <3>5, <4>1, <4>2, <4>3 DEF EndsTrue
      <3> QED BY <3>4, <3>6
    <2> QED BY <2>2, <2>3
  <1> QED BY <1>1, <1>2, <1>3 DEF WInv

(* What happens at a server, of what plays there and what it reports.       *)
LEMMA AdvanceDoes ==
    ASSUME TypeOK, NEW s \in Server, Advance(s)
    PROVE  /\ watching[s] # None /\ watching'[s] # None
           /\ watching[s].m \in Media /\ watching'[s].m = watching[s].m
           /\ watching[s].pos \in {0, 1} /\ watching'[s].pos = watching[s].pos + 1
           /\ \A t \in Server : t # s => watching'[t] = watching[t]
           /\ genuine' = IF watching[s].pos = 1 THEN Bump(genuine, watching[s].m, 1) ELSE genuine
           /\ \/ UNCHANGED inbox /\ ~(Kind[s] = "plex" /\ watching[s].pos = 1)
              \/ /\ Kind[s] = "plex" /\ watching[s].pos = 1
                 /\ Emit(s, "scrobble", watching[s].m, 2, FALSE)
              \/ /\ Kind[s] # "plex"
                 /\ Emit(s, "progress", watching[s].m, watching'[s].pos, FALSE)
  <1> DEFINE w == watching[s]
  <1>1. watching \in [Server -> Plays]
    BY HistoryType DEF Plays
  <1>2. w \in [m : Media, pos : Position] /\ w # None /\ w.pos < 2
    BY <1>1 DEF Advance, Plays
  <1>3. w.m \in Media /\ w.pos \in {0, 1}
    BY <1>2 DEF Position
  <1>4. watching' = [watching EXCEPT ![s] = [w EXCEPT !.pos = w.pos + 1]]
    BY DEF Advance
  <1>5. watching'[s] = [w EXCEPT !.pos = w.pos + 1]
          /\ \A t \in Server : t # s => watching'[t] = watching[t]
    BY <1>1, <1>4
  <1>6. [w EXCEPT !.pos = w.pos + 1] # None /\ [w EXCEPT !.pos = w.pos + 1].m = w.m
          /\ [w EXCEPT !.pos = w.pos + 1].pos = w.pos + 1
    BY <1>2 DEF None
  <1>7. genuine' = IF w.pos = 1 THEN Bump(genuine, w.m, 1) ELSE genuine
    BY DEF Advance
  <1>8. \/ UNCHANGED inbox /\ ~(Kind[s] = "plex" /\ w.pos = 1)
        \/ Kind[s] = "plex" /\ w.pos = 1 /\ Emit(s, "scrobble", w.m, 2, FALSE)
        \/ Kind[s] # "plex" /\ Emit(s, "progress", w.m, w.pos + 1, FALSE)
    <2>1. CASE Kind[s] = "plex" /\ w.pos = 1
      BY <2>1 DEF Advance
    <2>2. CASE Kind[s] \in {"jellyfin", "kodi"}
      BY <2>2 DEF Advance
    <2>3. CASE ~(Kind[s] = "plex" /\ w.pos = 1) /\ ~(Kind[s] \in {"jellyfin", "kodi"})
      BY <2>3 DEF Advance
    <2> QED BY <2>1, <2>2, <2>3
  <1> HIDE DEF w
  <1> QED BY <1>2, <1>3, <1>5, <1>6, <1>7, <1>8 DEF w

LEMMA PlayDoes ==
    ASSUME TypeOK, NEW s \in Server, NEW m \in Media, Play(s, m)
    PROVE  /\ watching[s] = None /\ watching'[s] # None
           /\ watching'[s].m = m /\ watching'[s].pos = 0
           /\ \A t \in Server : t # s => watching'[t] = watching[t]
           /\ Emit(s, "start", m, 0, FALSE) /\ genuine' = genuine
           /\ \A d \in inbox : d.conn[1] # s
           /\ \A h \in busy : h.d.conn[1] # s
  <1>1. watching \in [Server -> Plays]
    BY HistoryType DEF Plays
  <1>2. watching' = [watching EXCEPT ![s] = [m |-> m, pos |-> 0]]
    BY DEF Play
  <1>3. [m |-> m, pos |-> 0] # None
    BY DEF None
  <1>4. Flying(s) = 0 /\ watching[s] = None /\ Emit(s, "start", m, 0, FALSE) /\ genuine' = genuine
    BY DEF Play
  <1>5. /\ \A d \in inbox : d.conn[1] # s
        /\ \A h \in busy : h.d.conn[1] # s
    BY <1>4, NoneFlying
  <1>6. watching'[s] = [m |-> m, pos |-> 0] /\ \A t \in Server : t # s => watching'[t] = watching[t]
    BY <1>1, <1>2
  <1>7. watching'[s].m = m /\ watching'[s].pos = 0 /\ watching'[s] # None
    BY <1>3, <1>6
  <1> QED BY <1>4, <1>5, <1>6, <1>7

LEMMA StopDoes ==
    ASSUME TypeOK, NEW s \in Server, StopPlaying(s)
    PROVE  /\ watching[s] # None /\ watching'[s] = None
           /\ watching[s].m \in Media /\ watching[s].pos \in Position
           /\ \A t \in Server : t # s => watching'[t] = watching[t]
           /\ genuine' = genuine
           /\ \E pos \in {0, watching[s].pos}, ended \in BOOLEAN :
                 /\ Emit(s, "stop", watching[s].m, pos, ended)
                 /\ ended <=> watching[s].pos = 2 /\ Kind[s] # "plex"
  <1>1. watching \in [Server -> Plays]
    BY HistoryType DEF Plays
  <1>2. watching[s] # None /\ watching[s].m \in Media /\ watching[s].pos \in Position
    BY WatchingType DEF StopPlaying
  <1>3. watching' = [watching EXCEPT ![s] = None] /\ genuine' = genuine
    BY DEF StopPlaying
  <1> DEFINE ended == watching[s].pos = 2 /\ Kind[s] # "plex"
  <1>4. \E pos \in {0, watching[s].pos} : Emit(s, "stop", watching[s].m, pos, ended)
    BY DEF StopPlaying
  <1>5. ended \in BOOLEAN /\ (ended <=> watching[s].pos = 2 /\ Kind[s] # "plex")
    OBVIOUS
  <1> HIDE DEF ended
  <1>6. \E pos \in {0, watching[s].pos}, e \in BOOLEAN :
           /\ Emit(s, "stop", watching[s].m, pos, e)
           /\ e <=> watching[s].pos = 2 /\ Kind[s] # "plex"
    BY <1>4, <1>5
  <1> QED BY <1>1, <1>2, <1>3, <1>6

LEMMA PausesDo ==
    ASSUME TypeOK, NEW s \in Server, Pause(s) \/ Resume(s)
    PROVE  /\ watching' = watching /\ watching[s] # None
           /\ watching[s].pos = 1 /\ genuine' = genuine
           /\ \E ev \in {"pause", "resume", "progress"}, pos \in {0, 1} :
                 Emit(s, ev, watching[s].m, pos, FALSE)
  <1>1. CASE Pause(s)
    <2>1. Emit(s, "pause", watching[s].m, 1, FALSE) \/ Emit(s, "progress", watching[s].m, 1, FALSE)
      BY <1>1 DEF Pause
    <2> QED BY <1>1, <2>1 DEF Pause
  <1>2. CASE Resume(s)
    <2>1. \E pos \in {0, 1} : Emit(s, "resume", watching[s].m, pos, FALSE)
      BY <1>2 DEF Resume
    <2> QED BY <1>2, <2>1 DEF Resume
  <1> QED BY <1>1, <1>2

LEMMA ToggleDoes ==
    ASSUME NEW s \in Server, NEW m \in Media, NEW w \in BOOLEAN, Toggle(s, m, w)
    PROVE  /\ watching' = watching /\ Kind[s] # "plex"
           /\ genuine' = IF w THEN Bump(genuine, m, 1) ELSE genuine
           /\ \E ev \in {"library", "played", "unplayed"}, pos \in {0, 2} :
                 /\ Emit(s, ev, m, pos, w)
                 /\ ev \in {"library", "played"} => w
  <1> DEFINE ev == IF Kind[s] = "kodi" THEN "library" ELSE IF w THEN "played" ELSE "unplayed"
             pos == IF w THEN 2 ELSE 0
  <1>1. Emit(s, ev, m, pos, w)
    BY DEF Toggle
  <1>2. ev \in {"library", "played", "unplayed"} /\ pos \in {0, 2}
    OBVIOUS
  <1>3. ev \in {"library", "played"} => w
    BY DEF Toggle
  <1> HIDE DEF ev, pos
  <1>4. \E e \in {"library", "played", "unplayed"}, p \in {0, 2} :
           Emit(s, e, m, p, w) /\ (e \in {"library", "played"} => w)
    BY <1>1, <1>2, <1>3
  <1> QED BY <1>4 DEF Toggle

LEMMA CallDoes ==
    ASSUME TypeOK, NEW c \in calls, ServerCall(c)
    PROVE  /\ c \in Call /\ c.s \in Server /\ c.s \in Pushing /\ c.m \in Media /\ c.w \in BOOLEAN
           /\ calls' = calls \ {c}
           /\ UNCHANGED <<now, session, progress, events, tokens, recent, busy, watching, bounds,
                          genuine, expired, hidden, eaten, cleared, recorded, sent>>
           /\ \E ev \in {"played", "unplayed"}, pos \in {0, 2} :
                 /\ ev = "played" <=> c.w
                 /\ \/ inbox' = inbox
                    \/ Emit(c.s, ev, c.m, pos, FALSE) /\ Kind[c.s] \in {"jellyfin", "emby"}
  <1> DEFINE no == FALSE
  <1> DEFINE ev == IF c.w THEN "played" ELSE "unplayed"
             pos == IF c.w THEN 2 ELSE 0
  <1>1. c \in Call
    BY HistoryType
  <1>2. c.s \in Server /\ c.s \in Pushing /\ c.m \in Media /\ c.w \in BOOLEAN
    BY <1>1, ConstantsAssumption DEF Call
  <1>3. inbox' = inbox \/ (Emit(c.s, ev, c.m, pos, no) /\ Kind[c.s] \in {"jellyfin", "emby"})
    BY DEF ServerCall, Echoing
  <1>4. ev \in {"played", "unplayed"} /\ pos \in {0, 2} /\ (ev = "played" <=> c.w)
    OBVIOUS
  <1> HIDE DEF ev, pos, no
  <1>5. \E e \in {"played", "unplayed"}, p \in {0, 2} :
           /\ e = "played" <=> c.w
           /\ inbox' = inbox \/ (Emit(c.s, e, c.m, p, no) /\ Kind[c.s] \in {"jellyfin", "emby"})
    BY <1>3, <1>4
  <1>6. /\ calls' = calls \ {c}
        /\ UNCHANGED <<now, session, progress, events, tokens, recent, busy, watching, bounds,
                       genuine, expired, hidden, eaten, cleared, recorded, sent>>
    BY DEF ServerCall
  <1> QED BY <1>1, <1>2, <1>5, <1>6 DEF no

LEMMA RestDoes ==
    ASSUME Rest
    PROVE  UNCHANGED <<now, session, progress, events, tokens, recent, busy, calls, again,
                       crashes, expired, hidden, astray, eaten, cleared, recorded, sent>>
  BY DEF Rest

-----------------------------------------------------------------------------
(* The way, action by action.                                              *)

LEMMA AdvanceWay ==
    ASSUME TypeOK, WInv, NEW s \in Server, Advance(s)
    PROVE  WInv'
  <1>1. Rest
    BY DEF Advance
  <1>2. UNCHANGED <<now, session, busy, recent>> /\ calls' \subseteq calls
    BY <1>1, RestDoes
  <1>3. /\ watching[s] # None /\ watching'[s] # None
        /\ \A t \in Server : t # s => watching'[t] = watching[t]
        /\ watching[s].pos \in {0, 1} /\ watching'[s].pos = watching[s].pos + 1
    BY AdvanceDoes
  <1>4. watching[s].pos <= watching'[s].pos /\ watching'[s].pos \in Position
    BY <1>3 DEF Position
  <1>5. \/ inbox' = inbox \/ Emit(s, "scrobble", watching[s].m, 2, FALSE)
        \/ Kind[s] # "plex" /\ Emit(s, "progress", watching[s].m, watching'[s].pos, FALSE)
    BY AdvanceDoes
  <1>6. "scrobble" \in Ev \ {"stop"} /\ "progress" \in Ev \ {"stop"}
          /\ "scrobble" \notin {"start", "progress", "pause", "resume"}
    BY DEF Ev
  <1>7. CASE inbox' = inbox \/ Emit(s, "scrobble", watching[s].m, 2, FALSE)
    BY <1>2, <1>3, <1>4, <1>6, <1>7, WaySays
  <1>8. CASE Kind[s] # "plex" /\ Emit(s, "progress", watching[s].m, watching'[s].pos, FALSE)
    BY <1>2, <1>3, <1>4, <1>6, <1>8, WaySays
  <1> QED BY <1>5, <1>7, <1>8

LEMMA PausesWay ==
    ASSUME TypeOK, WInv, NEW s \in Server, Pause(s) \/ Resume(s)
    PROVE  WInv'
  <1>1. Rest
    BY DEF Pause, Resume
  <1>2. UNCHANGED <<now, session, busy, recent>> /\ calls' \subseteq calls
    BY <1>1, RestDoes
  <1>3. PICK ev \in {"pause", "resume", "progress"}, pos \in {0, 1} :
           Emit(s, ev, watching[s].m, pos, FALSE)
    BY PausesDo
  <1>4. ev \in Ev \ {"stop"} /\ pos # 2
    BY DEF Ev
  <1>5. watching' = watching /\ watching[s] # None /\ watching[s].pos = 1
    BY PausesDo
  <1>6. watching[s].pos <= watching'[s].pos /\ watching'[s].pos \in Position
    BY <1>5 DEF Position
  <1> QED BY <1>2, <1>3, <1>4, <1>5, <1>6, WaySays

(* A mark made, by the user or for a call.                                 *)
LEMMA MarkWay ==
    ASSUME TypeOK, WInv, UNCHANGED <<now, session, busy, recent, watching>>, calls' \subseteq calls,
           NEW s \in Server, NEW ev \in {"library", "played", "unplayed"}, NEW m, NEW pos, NEW w,
           inbox' = inbox \/ Emit(s, ev, m, pos, w)
    PROVE  WInv'
  <1>1. ev \in Ev \ {"stop"} /\ ev \notin {"start", "progress", "pause", "resume"}
    BY DEF Ev
  <1>2. watching[s] # None => watching[s].pos <= watching'[s].pos /\ watching'[s].pos \in Position
    BY WatchingType DEF Position
  <1> QED BY <1>1, <1>2, WaySays

LEMMA ToggleWay ==
    ASSUME TypeOK, WInv, NEW s \in Server, NEW m \in Media, NEW w \in BOOLEAN, Toggle(s, m, w)
    PROVE  WInv'
  <1>1. Rest
    BY DEF Toggle
  <1>2. PICK ev \in {"library", "played", "unplayed"}, pos \in {0, 2} : Emit(s, ev, m, pos, w)
    BY ToggleDoes
  <1>3. watching' = watching
    BY ToggleDoes
  <1> QED BY <1>1, <1>2, <1>3, RestDoes, MarkWay

LEMMA ServerCallWay ==
    ASSUME TypeOK, WInv, NEW c \in calls, ServerCall(c)
    PROVE  WInv'
  <1> DEFINE no == FALSE
  <1>1. PICK ev \in {"played", "unplayed"}, pos \in {0, 2} :
           inbox' = inbox \/ Emit(c.s, ev, c.m, pos, no)
    BY CallDoes
  <1>2. c.s \in Server /\ calls' \subseteq calls /\ UNCHANGED <<now, session, busy, recent, watching>>
    BY CallDoes
  <1> HIDE DEF no
  <1> QED BY <1>1, <1>2, MarkWay

(* A new playback finds nothing of the one before.                         *)
LEMMA PlayWay ==
    ASSUME InTurn, TypeOK, SessionsEnd, WInv, NEW s \in Server, NEW m \in Media, Play(s, m)
    PROVE  WInv'
  <1>1. Rest
    BY DEF Play
  <1>2. UNCHANGED <<now, session, busy, recent, calls>>
    BY <1>1, RestDoes
  <1>3. /\ watching[s] = None /\ watching'[s] # None /\ watching'[s].pos = 0
        /\ \A t \in Server : t # s => watching'[t] = watching[t]
        /\ Emit(s, "start", m, 0, FALSE)
        /\ \A d \in inbox : d.conn[1] # s
        /\ \A h \in busy : h.d.conn[1] # s
    BY PlayDoes
  <1>4. Timely' /\ IsFiniteSet(calls')
    BY <1>2, <1>3, TimelyEmits DEF WInv
  <1>5. ASSUME NEW c \in Conn PROVE OneStop(c)' /\ EndsTrue(c)'
    <2>1. OneStop(c) /\ EndsTrue(c) /\ c[1] \in Server
      BY ConnServer DEF WInv
    <2>2. CASE c[1] # s
      <3>1. \A d : d.conn = c => (d \in inbox' <=> d \in inbox)
        BY <1>3, <2>2, SaysElsewhere
      <3>2. watching'[c[1]] = watching[c[1]]
        BY <1>3, <2>1, <2>2
      <3> QED BY <1>2, <2>1, <3>1, <3>2, WayElsewhere
    <2>3. CASE c[1] = s
      <3> DEFINE no == FALSE
      <3>0. Emit(s, "start", m, 0, no)
        BY <1>3
      <3> HIDE DEF no
      <3>1. \A d \in inbox' : d \in inbox \/ (d.ev = "start" /\ d.pos = 0)
        BY <3>0, Saying DEF Says
      <3>2. \A d \in inbox : d.conn # c
        BY <1>3, <2>3
      <3>3. \A h \in busy' : h.d.conn # c
        BY <1>2, <1>3, <2>3
      <3>4. \A d \in UnderWay(c)' : d.ev = "start" /\ d.pos = 0
        BY <3>1, <3>2, <3>3 DEF UnderWay
      <3>5. OneStop(c)'
        <4>1. \A d \in inbox' : d.conn = c => d.ev = "start"
          BY <3>1, <3>2
        <4> QED BY <3>4, <4>1 DEF OneStop
      <3>6. ~SeesEnd(c)'
        <4>1. session[c] # None => session[c].pos # 2
          <5> SUFFICES ASSUME session[c] # None, session[c].pos = 2 PROVE FALSE
            OBVIOUS
          <5>1. SeesEnd(c)
            BY DEF SeesEnd
          <5>2. Kind[c[1]] # "plex"
            BY <2>1, <5>1 DEF EndsTrue
          <5>3. StopComes(c)
            BY <5>2 DEF SessionsEnd, InTurn
          <5>4. PICK e \in UnderWay(c) : TRUE
            BY <1>3, <2>3, <5>3 DEF StopComes
          <5>5. e.conn = c /\ (e \in inbox \/ \E h \in busy : e = h.d)
            BY <5>4 DEF UnderWay
          <5> QED BY <1>2, <3>2, <3>3, <5>5
        <4> QED BY <1>2, <3>3, <3>4, <4>1 DEF SeesEnd
      <3> QED BY <3>5, <3>6 DEF EndsTrue
    <2> QED BY <2>2, <2>3
  <1> QED BY <1>4, <1>5 DEF WInv

(* Playback ends: one that went past 90% is said to have ended.             *)
LEMMA StopPlayingWay ==
    ASSUME TypeOK, WInv, NEW s \in Server, StopPlaying(s)
    PROVE  WInv'
  <1>1. Rest
    BY DEF StopPlaying
  <1>2. UNCHANGED <<now, session, busy, recent, calls>>
    BY <1>1, RestDoes
  <1>3. /\ watching[s] # None /\ watching'[s] = None
        /\ \A t \in Server : t # s => watching'[t] = watching[t]
    BY StopDoes
  <1>4. PICK pos \in {0, watching[s].pos}, ended \in BOOLEAN :
           /\ Emit(s, "stop", watching[s].m, pos, ended)
           /\ ended <=> watching[s].pos = 2 /\ Kind[s] # "plex"
    BY StopDoes
  <1>5. Timely' /\ IsFiniteSet(calls')
    BY <1>2, <1>4, TimelyEmits DEF WInv
  <1>6. ASSUME NEW c \in Conn PROVE OneStop(c)' /\ EndsTrue(c)'
    <2>1. OneStop(c) /\ EndsTrue(c) /\ c[1] \in Server
      BY ConnServer DEF WInv
    <2>2. CASE c[1] # s
      <3>1. \A d : d.conn = c => (d \in inbox' <=> d \in inbox)
        BY <1>4, <2>2, SaysElsewhere
      <3>2. watching'[c[1]] = watching[c[1]]
        BY <1>3, <2>1, <2>2
      <3> QED BY <1>2, <2>1, <3>1, <3>2, WayElsewhere
    <2>3. CASE c[1] = s
      <3>1. /\ \A d \in inbox' : d \in inbox \/ Says(d, s, "stop", watching[s].m, pos, ended)
            /\ \A d, e \in inbox' : d \notin inbox /\ e \notin inbox /\ d.conn = e.conn => d = e
        BY <1>4, Saying
      <3>2. \A d \in UnderWay(c)' : d \in UnderWay(c) \/ (d.ev = "stop" /\ d.ended = ended)
        BY <1>2, <3>1 DEF UnderWay, Says
      <3>3. \A d \in UnderWay(c) : d.ev # "stop"
        BY <1>3, <2>1, <2>3 DEF OneStop
      <3>4. OneStop(c)'
        <4>1. \A d \in inbox' : d.conn = c /\ d.ev = "stop" => d \notin inbox
          BY <3>3 DEF UnderWay
        <4> QED BY <1>3, <2>3, <3>1, <4>1 DEF OneStop
      <3>5. SeesEnd(c)' => SeesEnd(c)
        BY <1>2, <3>2 DEF SeesEnd, Opens
      <3>6. EndsTrue(c)'
        <4> SUFFICES ASSUME SeesEnd(c)
                     PROVE  Kind[s] # "plex" /\ \A d \in UnderWay(c)' : d.ev = "stop" => d.ended
          BY <1>3, <2>3, <3>5 DEF EndsTrue
        <4>1. Kind[s] # "plex" /\ watching[s].pos = 2
          BY <1>3, <2>1, <2>3 DEF EndsTrue
        <4> QED BY <1>4, <3>2, <3>3, <4>1
      <3> QED BY <3>4, <3>6
    <2> QED BY <2>2, <2>3
  <1> QED BY <1>5, <1>6 DEF WInv

(* Calls that are made leave now.                                          *)
LEMMA PushCalls ==
    ASSUME TypeOK, IsFiniteSet(calls), NEW m, NEW w, NEW but, PushWatchState(m, w, but)
    PROVE  /\ IsFiniteSet(calls')
           /\ \A c \in calls' : c \in calls \/ (c.at = now /\ c.m = m /\ c.w = w /\ c.s \in Pushing \ but)
  <1> DEFINE to == Pushing \ but
             f == [s \in to |-> [s |-> s, m |-> m, w |-> w, at |-> now]]
  <1>1. calls' = calls \cup {f[s] : s \in to}
    BY DEF PushWatchState, Calls
  <1>2. IsFiniteSet(to)
    <2>1. IsFiniteSet(Pushing)
      BY ConstantsAssumption, FS_Subset
    <2> QED BY <2>1, FS_Subset
  <1>3. IsFiniteSet({f[s] : s \in to})
    <2> HIDE DEF to
    <2> QED BY <1>2, ImageFinite
  <1>4. \A s \in to : f[s].at = now /\ f[s].m = m /\ f[s].w = w /\ f[s].s = s
    OBVIOUS
  <1>5. \A s \in to : f[s].at = now /\ f[s].m = m /\ f[s].w = w /\ f[s].s \in to
    BY <1>4
  <1> HIDE DEF f
  <1>6. \A c \in {f[s] : s \in to} : c.at = now /\ c.m = m /\ c.w = w /\ c.s \in to
    BY <1>5
  <1>7. IsFiniteSet(calls')
    BY <1>1, <1>3, FS_Union
  <1> QED BY <1>1, <1>6, <1>7

(* Nothing is new on the way but calls.                                    *)
LEMMA WayStays ==
    ASSUME WInv, UNCHANGED <<now, session, inbox, busy, recent, watching>>,
           IsFiniteSet(calls'), \A c \in calls' : c \in calls \/ c.at = now, now \in Nat
    PROVE  WInv'
  <1>1. Timely'
    BY DEF WInv, Timely
  <1>2. ASSUME NEW c \in Conn PROVE OneStop(c)' /\ EndsTrue(c)'
    BY WayElsewhere DEF WInv
  <1> QED BY <1>1, <1>2 DEF WInv

LEMMA PushesWay ==
    ASSUME TypeOK, WInv, NEW m, NEW w, NEW but, PushWatchState(m, w, but),
           UNCHANGED <<now, session, inbox, busy, recent, watching>>
    PROVE  WInv'
  <1>1. IsFiniteSet(calls') /\ \A c \in calls' : c \in calls \/ c.at = now
    BY PushCalls DEF WInv
  <1> QED BY <1>1, WayStays, TimesAre

(* Less is on the way, or the same, and rows say no more.                  *)
LEMMA WayShrinks ==
    ASSUME WInv, NEW c \in Conn, watching' = watching, inbox' \subseteq inbox,
           UnderWay(c)' \subseteq UnderWay(c), SeesEnd(c)' => SeesEnd(c)
    PROVE  OneStop(c)' /\ EndsTrue(c)'
  <1>1. OneStop(c) /\ EndsTrue(c)
    BY DEF WInv
  <1>2. OneStop(c)'
    BY <1>1 DEF OneStop
  <1>3. EndsTrue(c)'
    BY <1>1 DEF EndsTrue
  <1> QED BY <1>2, <1>3

LEMMA BeginWay ==
    ASSUME TypeOK, WInv, NEW d \in inbox, Begin(d)
    PROVE  WInv'
  <1>1. UNCHANGED <<now, session, calls, watching>>
    BY DEF Begin, server
  <1>2. inbox' = inbox \/ inbox' = inbox \ {d}
    BY DEF Begin
  <1>3. busy' = busy \/ busy' = busy \cup {Made(d)}
    BY DEF Begin, Made
  <1>4. Made(d).d = d /\ Made(d).row = session[d.conn]
    BY MadeType
  <1>5. recent' = Remember(d)
    BY DEF Begin
  <1>6. Timely'
    <2>1. now \in Nat
      BY TimesAre
    <2>2. \A r \in recent' : r \in recent \/ r = [conn |-> d.conn, ev |-> d.ev, at |-> now]
      BY <1>5 DEF Remember
    <2>3. \A r \in recent' : r \in recent \/ r.at = now
      BY <2>2
    <2>4. \A r \in recent' : r.at \in Nat /\ r.at <= now
      BY <2>1, <2>3 DEF WInv, Timely
    <2>5. \A h \in busy' : h \in busy \/ h.d \in inbox
      BY <1>3, <1>4
    <2>6. \A h \in busy' : h.d.at <= now
      BY <2>5 DEF WInv, Timely
    <2> QED BY <1>1, <1>2, <2>4, <2>6 DEF WInv, Timely
  <1>7. ASSUME NEW c \in Conn PROVE OneStop(c)' /\ EndsTrue(c)'
    <2>1. inbox' \subseteq inbox
      BY <1>2
    <2>2. UnderWay(c)' \subseteq UnderWay(c)
      BY <1>3, <1>4, <2>1 DEF UnderWay
    <2>3. SeesEnd(c)' => SeesEnd(c)
      BY <1>1, <1>3, <1>4, <2>2 DEF SeesEnd
    <2> QED BY <1>1, <2>1, <2>2, <2>3, WayShrinks
  <1> QED BY <1>1, <1>6, <1>7 DEF WInv

(* A row that a handler leaves says no more than its report did, and the row *)
(* there was.                                                              *)
LEMMA MovesPosition ==
    ASSUME TypeOK, NEW h \in busy, Moves(h)
    PROVE  /\ session'[h.d.conn] # None /\ session'[h.d.conn].pos = 2
              => \/ session[h.d.conn] # None /\ session[h.d.conn].pos = 2
                 \/ Opens(h.d) /\ h.d.pos = 2
  <1> DEFINE c == h.d.conn
  <1>1. session \in [Conn -> Sessions] /\ c \in Conn
    BY HandlerType
  <1>2. CASE session' = session
    BY <1>2
  <1>3. CASE CloseSession(h)
    BY <1>1, <1>3 DEF CloseSession
  <1>4. CASE Opens(h.d) /\ Saves(h)
    <2>1. PICK row : (h.row = None \/ Current(h) => Fits(h, row)) /\ SaveSession(h, row)
      BY <1>4 DEF Saves
    <2>2. CASE h.row = None \/ Current(h)
      <3>1. session' = [session EXCEPT ![c] = row]
        BY <2>1, <2>2 DEF SaveSession
      <3>2. session'[c] = row
        BY <1>1, <3>1
      <3>3. row.pos = h.d.pos \/ row.pos = PositionOf(h)
        BY <2>1, <2>2 DEF Fits
      <3>4. PositionOf(h) = 2 => session[c] # None /\ session[c].pos = 2
        BY <2>2 DEF PositionOf, New, Current
      <3> QED BY <1>4, <3>2, <3>3, <3>4
    <2>3. CASE ~(h.row = None \/ Current(h))
      BY <2>1, <2>3 DEF SaveSession
    <2> QED BY <2>2, <2>3
  <1> QED BY <1>2, <1>3, <1>4 DEF Moves

LEMMA FinishWay ==
    ASSUME TypeOK, WInv, NEW h \in busy, Finish(h)
    PROVE  WInv'
  <1>1. Effect(h)
    BY FinishEffect
  <1>2. Done(h) /\ Moves(h) /\ (Writes(h) \/ Unwatches(h))
    BY <1>1 DEF Effect
  <1>3. UNCHANGED <<now, recent, inbox, watching>> /\ busy' = busy \ {h}
    BY <1>2 DEF Done, server
  <1>4. IsFiniteSet(calls') /\ \A c \in calls' : c \in calls \/ c.at = now
    <2>1. CASE Writes(h)
      BY <2>1 DEF Writes, NoPush, WInv
    <2>2. CASE Unwatches(h)
      BY <2>2, PushCalls DEF Unwatches, WInv
    <2> QED BY <1>2, <2>1, <2>2
  <1>5. Timely'
    <2>1. now \in Nat
      BY TimesAre
    <2> QED BY <1>3, <1>4, <2>1 DEF WInv, Timely
  <1>6. ASSUME NEW c \in Conn PROVE OneStop(c)' /\ EndsTrue(c)'
    <2>1. UnderWay(c)' \subseteq UnderWay(c)
      BY <1>3 DEF UnderWay
    <2>2. SeesEnd(c)' => SeesEnd(c)
      <3>1. CASE c = h.d.conn
        <4>1. h.d \in UnderWay(c)
          BY <3>1 DEF UnderWay
        <4>2. session'[c] # None /\ session'[c].pos = 2
                => \/ session[c] # None /\ session[c].pos = 2
                   \/ Opens(h.d) /\ h.d.pos = 2
          BY <1>2, <3>1, MovesPosition
        <4> QED BY <1>3, <2>1, <4>1, <4>2 DEF SeesEnd
      <3>2. CASE c # h.d.conn
        <4>1. session'[c] = session[c]
          BY <1>2, <3>2, MovesOwn
        <4> QED BY <1>3, <2>1, <4>1 DEF SeesEnd
      <3> QED BY <3>1, <3>2
    <2> QED BY <1>3, <2>1, <2>2, WayShrinks
  <1> QED BY <1>4, <1>5, <1>6 DEF WInv

LEMMA ClearWay ==
    ASSUME TypeOK, WInv, ClearSessions
    PROVE  WInv'
  <1>1. UNCHANGED <<now, inbox, busy, recent, calls, watching>> /\ session' = [c \in Conn |-> None]
    BY DEF ClearSessions, server
  <1>2. Timely'
    BY <1>1 DEF WInv, Timely
  <1>3. ASSUME NEW c \in Conn PROVE OneStop(c)' /\ EndsTrue(c)'
    <2>1. session'[c] = None /\ UnderWay(c)' = UnderWay(c)
      BY <1>1 DEF UnderWay
    <2>2. SeesEnd(c)' => SeesEnd(c)
      BY <1>1, <2>1 DEF SeesEnd
    <2> QED BY <1>1, <2>1, <2>2, WayShrinks
  <1> QED BY <1>1, <1>2, <1>3 DEF WInv

LEMMA CrashWay ==
    ASSUME TypeOK, WInv, Crash
    PROVE  WInv'
  <1>1. /\ UNCHANGED <<now, watching>> /\ session' = [c \in Conn |-> None]
        /\ recent' = {} /\ busy' = {} /\ calls' = {} /\ (inbox' = inbox \/ inbox' = {})
    BY DEF Crash, server
  <1>2. Timely' /\ IsFiniteSet(calls')
    BY <1>1, FS_EmptySet DEF WInv, Timely
  <1>3. ASSUME NEW c \in Conn PROVE OneStop(c)' /\ EndsTrue(c)'
    <2>1. session'[c] = None /\ inbox' \subseteq inbox
      BY <1>1
    <2>2. UnderWay(c)' \subseteq UnderWay(c)
      BY <1>1, <2>1 DEF UnderWay
    <2>3. SeesEnd(c)' => SeesEnd(c)
      BY <1>1, <2>1, <2>2 DEF SeesEnd
    <2> QED BY <1>1, <2>1, <2>2, <2>3, WayShrinks
  <1> QED BY <1>2, <1>3 DEF WInv

(* The poller copies the position of what plays.                           *)
LEMMA EmbyPollWay ==
    ASSUME TypeOK, WInv, NEW s \in Server, EmbyPoll(s)
    PROVE  WInv'
  <1> DEFINE e == <<s, "full">>
  <1>1. /\ UNCHANGED <<now, inbox, busy, recent, calls, watching>>
        /\ session' = [session EXCEPT ![e].pos = watching[s].pos]
        /\ e \in Conn /\ Kind[s] = "emby" /\ watching[s] # None /\ session[e] # None
    BY DEF EmbyPoll, server
  <1>2. session \in [Conn -> Sessions] /\ session[e] \in RowSet
    BY <1>1, HistoryType DEF Sessions, RowSet
  <1> DEFINE row == [session[e] EXCEPT !.pos = watching[s].pos]
  <1>3. row.pos = watching[s].pos /\ session' = [session EXCEPT ![e] = row] /\ e[1] = s
    BY <1>1, <1>2 DEF RowSet
  <1> HIDE DEF row
  <1>4. Timely'
    BY <1>1 DEF WInv, Timely
  <1>5. ASSUME NEW c \in Conn PROVE OneStop(c)' /\ EndsTrue(c)'
    <2>1. UnderWay(c)' = UnderWay(c)
      BY <1>1 DEF UnderWay
    <2>2. CASE c # e \/ watching[s].pos # 2
      <3>1. session'[c] # None /\ session'[c].pos = 2 => session[c] # None /\ session[c].pos = 2
        <4>1. CASE c = e
          BY <1>2, <1>3, <2>2, <4>1
        <4>2. CASE c # e
          BY <1>2, <1>3, <4>2
        <4> QED BY <4>1, <4>2
      <3>2. SeesEnd(c)' => SeesEnd(c)
        BY <1>1, <2>1, <3>1 DEF SeesEnd
      <3> QED BY <1>1, <2>1, <3>2, WayShrinks
    <2>3. CASE c = e /\ watching[s].pos = 2
      <3>1. OneStop(c)'
        BY <1>1, <2>1 DEF WInv, OneStop
      <3>2. EndsTrue(c)'
        BY <1>1, <1>3, <2>3 DEF EndsTrue
      <3> QED BY <3>1, <3>2
    <2> QED BY <2>2, <2>3
  <1> QED BY <1>1, <1>4, <1>5 DEF WInv

LEMMA TickWay ==
    ASSUME TypeOK, WInv, Tick
    PROVE  WInv'
  <1>1. UNCHANGED <<session, inbox, busy, recent, calls, watching>> /\ now' = now + 1
    BY DEF Tick, server
  <1>2. now \in Nat /\ Latency \in Nat /\ \A d \in inbox : d.at \in Nat
    BY TimesAre
  <1>3. \A h \in busy : h.d.at \in Nat
    BY TimesAre
  <1>4. \A c \in calls : c.at \in Nat
    BY TimesAre
  <1>5. Timely'
    <2>1. \A d \in inbox : now - d.at < Latency
      BY <1>2 DEF Tick, Older
    <2>2. \A d \in inbox' : d.at <= now' /\ now' - d.at <= Latency
      BY <1>1, <1>2, <2>1 DEF WInv, Timely
    <2>3. \A h \in busy' : h.d.at <= now'
      BY <1>1, <1>2, <1>3 DEF WInv, Timely
    <2>4. \A c \in calls' : c.at <= now'
      BY <1>1, <1>2, <1>4 DEF WInv, Timely
    <2>5. \A r \in recent' : r.at \in Nat /\ r.at <= now'
      BY <1>1, <1>2 DEF WInv, Timely
    <2> QED BY <2>2, <2>3, <2>4, <2>5 DEF Timely
  <1>6. ASSUME NEW c \in Conn PROVE OneStop(c)' /\ EndsTrue(c)'
    BY <1>1, WayElsewhere DEF WInv
  <1> QED BY <1>1, <1>5, <1>6 DEF WInv

LEMMA WayStep ==
    ASSUME InTurn, TypeOK, SessionsEnd, WInv, [Next]_vars
    PROVE  WInv'
  <1>1. ASSUME NEW s \in Server, NEW m \in Media, Play(s, m) PROVE WInv'
    BY <1>1, PlayWay
  <1>2. ASSUME NEW s \in Server, NEW m \in Media, PushWatchedForNewItem(s, m) PROVE WInv'
    BY <1>2, PushesWay DEF PushWatchedForNewItem, server
  <1>3. ASSUME NEW s \in Server, NEW m \in Media, NEW w \in BOOLEAN, Toggle(s, m, w) PROVE WInv'
    BY <1>3, ToggleWay
  <1>4. ASSUME NEW s \in Server, Advance(s) \/ Pause(s) \/ Resume(s) \/ StopPlaying(s) PROVE WInv'
    BY <1>4, AdvanceWay, PausesWay, StopPlayingWay
  <1>5. ASSUME NEW m \in Media, UnwatchItem(m) PROVE WInv'
    BY <1>5, PushesWay DEF UnwatchItem, server
  <1>6. ASSUME NEW m \in Media, NEW force \in BOOLEAN, MarkAsWatched(m, force) PROVE WInv'
    BY <1>6, PushesWay DEF MarkAsWatched, server
  <1>7. CASE UserActs
    BY <1>1, <1>2, <1>3, <1>4, <1>5, <1>6, <1>7, ClearWay DEF UserActs
  <1>8. CASE Answer
    BY <1>8, ServerCallWay, BeginWay, FinishWay DEF Answer
  <1>9. ASSUME NEW s \in Server, EmbyPoll(s) PROVE WInv'
    BY <1>9, EmbyPollWay
  <1>10. CASE UNCHANGED vars
    <2>1. UNCHANGED <<now, session, inbox, busy, recent, calls, watching>>
      BY <1>10 DEF vars, server
    <2>2. IsFiniteSet(calls')
      BY <2>1 DEF WInv
    <2> QED BY <2>1, <2>2, WayStays, TimesAre
  <1> QED BY <1>7, <1>8, <1>9, <1>10, CrashWay, TickWay DEF Next

LEMMA WayStart == Init => WInv
  <1> SUFFICES ASSUME Init PROVE WInv
    OBVIOUS
  <1>1. inbox = {} /\ busy = {} /\ calls = {} /\ recent = {}
    BY DEF Init
  <1>2. \A c \in Conn : session[c] = None
    BY DEF Init
  <1>3. Timely /\ IsFiniteSet(calls)
    BY <1>1, FS_EmptySet DEF Timely
  <1>4. ASSUME NEW c \in Conn PROVE OneStop(c) /\ EndsTrue(c)
    <2>1. UnderWay(c) = {}
      BY <1>1 DEF UnderWay
    <2> QED BY <1>1, <1>2, <2>1 DEF OneStop, EndsTrue, SeesEnd
  <1> QED BY <1>3, <1>4 DEF WInv

-----------------------------------------------------------------------------
(* Outbound scrobbles: every play has one to come, at the most.            *)

(* Reports whose handler will scrobble, whatever it finds: a stop that says *)
(* the playback went past 90%, an update of Kodi's library, and a mark on a *)
(* connection that keeps no watched state to recognise an echo by.         *)
Real(d, m) ==
    /\ d.m = m
    /\ \/ d.ev = "stop" /\ (d.ended \/ d.pos = 2)
       \/ d.ev = "library" /\ ~Plexy(d)
       \/ d.ev = "played" /\ Kind[d.conn[1]] = "emby" /\ d.conn \in NoWatched

(* Marks that may be echoes.                                               *)
Told(d, m) == d.m = m /\ d.ev = "played" /\ ~Plexy(d) /\ d.conn \notin NoWatched

(* A report of Plex that was taken up and is delivered again is known.      *)
Marked(d) == Plexy(d) /\ \E r \in recent : r.conn = d.conn /\ r.ev = d.ev /\ r.at >= d.at

Past90(m) == {s \in Server : watching[s] # None /\ watching[s].m = m /\ watching[s].pos = 2}
RealIn(m) == {d \in inbox : Real(d, m) /\ ~Marked(d)}
RealAt(m) == {h \in busy : Real(h.d, m)}
ToldIn(m) == {d \in inbox : Told(d, m)}
ToldAt(m) == {h \in busy : Told(h.d, m)}
Called(m) == {c \in calls : c.w /\ c.m = m /\ Kind[c.s] \in {"jellyfin", "emby"}}

Owed(m) == sent[m] + Cardinality(Past90(m)) + Cardinality(RealIn(m)) + Cardinality(RealAt(m))
MayEcho(m) == Cardinality(ToldIn(m)) + Cardinality(ToldAt(m)) + Cardinality(Called(m))
Due(m) == genuine[m] + expired[m] + eaten[m] + again + crashes * Cardinality(Conn)

(* A mark that finds no token is scrobbled: then it is not an echo.         *)
Fair(m) == Owed(m) <= Due(m) /\ Owed(m) + MayEcho(m) <= Due(m) + Len(tokens[m])

(* What the theorem asks of the servers.                                   *)
OneConnection == Full \cap Side = {}
EchoesKept == \A s \in Pushing : Kind[s] = "emby" => <<s, "full">> \notin NoWatched
AnsweredInTime == Latency < Retry

LEMMA Finite ==
    ASSUME TypeOK, IsFiniteSet(calls), NEW m \in Media
    PROVE  /\ IsFiniteSet(Past90(m)) /\ IsFiniteSet(RealIn(m)) /\ IsFiniteSet(RealAt(m))
           /\ IsFiniteSet(ToldIn(m)) /\ IsFiniteSet(ToldAt(m)) /\ IsFiniteSet(Called(m))
  <1>1. IsFiniteSet(Server) /\ IsFiniteSet(inbox) /\ IsFiniteSet(busy)
    BY ConstantsAssumption DEF TypeOK
  <1> QED BY <1>1, FS_Subset DEF Past90, RealIn, RealAt, ToldIn, ToldAt, Called

LEMMA Numbers ==
    ASSUME TypeOK, IsFiniteSet(calls), NEW m \in Media
    PROVE  /\ sent[m] \in Nat /\ genuine[m] \in Nat /\ expired[m] \in Nat /\ eaten[m] \in Nat
           /\ again \in Nat /\ crashes \in Nat /\ crashes * Cardinality(Conn) \in Nat
           /\ Cardinality(Past90(m)) \in Nat
           /\ Cardinality(RealIn(m)) \in Nat /\ Cardinality(RealAt(m)) \in Nat
           /\ Cardinality(ToldIn(m)) \in Nat /\ Cardinality(ToldAt(m)) \in Nat
           /\ Cardinality(Called(m)) \in Nat
           /\ tokens[m] \in Seq(Time) /\ Len(tokens[m]) \in Nat
           /\ Owed(m) \in Nat /\ Due(m) \in Nat /\ MayEcho(m) \in Nat
  <1>1. /\ sent[m] \in Nat /\ genuine[m] \in Nat /\ expired[m] \in Nat /\ eaten[m] \in Nat
        /\ again \in Nat /\ crashes \in Nat
        /\ tokens[m] \in Seq(Time) /\ Len(tokens[m]) \in Nat
    BY HistoryType DEF Counts
  <1>2. /\ Cardinality(Past90(m)) \in Nat
        /\ Cardinality(RealIn(m)) \in Nat /\ Cardinality(RealAt(m)) \in Nat
        /\ Cardinality(ToldIn(m)) \in Nat /\ Cardinality(ToldAt(m)) \in Nat
        /\ Cardinality(Called(m)) \in Nat
    BY Finite, FS_CardinalityType
  <1>3. crashes * Cardinality(Conn) \in Nat
    <2>1. Cardinality(Conn) \in Nat
      BY ConnFinite, FS_CardinalityType
    <2> QED BY <1>1, <2>1
  <1>4. Owed(m) \in Nat
    BY <1>1, <1>2 DEF Owed
  <1>5. MayEcho(m) \in Nat
    BY <1>2 DEF MayEcho
  <1>6. Due(m) \in Nat
    <2> DEFINE k == crashes * Cardinality(Conn)
    <2>1. k \in Nat /\ Due(m) = genuine[m] + expired[m] + eaten[m] + again + k
      BY <1>3 DEF Due
    <2> HIDE DEF k
    <2> QED BY <1>1, <2>1
  <1> QED BY <1>1, <1>2, <1>3, <1>4, <1>5, <1>6

(* The same of the next state.                                             *)
Numbered ==
    TypeOK /\ IsFiniteSet(calls) =>
        \A m \in Media : /\ Owed(m) \in Nat /\ Due(m) \in Nat /\ MayEcho(m) \in Nat
                         /\ Len(tokens[m]) \in Nat

LEMMA NumbersHold == Numbered
  BY Numbers DEF Numbered

LEMMA NumbersPrimed == Numbered'
  BY NumbersHold, PTL

LEMMA NumbersNext ==
    ASSUME TypeOK', IsFiniteSet(calls'), NEW m \in Media
    PROVE  /\ Owed(m)' \in Nat /\ Due(m)' \in Nat /\ MayEcho(m)' \in Nat
           /\ Len(tokens'[m]) \in Nat
  BY NumbersPrimed DEF Numbered

(* Each side moves by no more than the other.                              *)
LEMMA FairKept ==
    ASSUME TypeOK, TypeOK', IsFiniteSet(calls), IsFiniteSet(calls'), NEW m \in Media, Fair(m),
           Owed(m)' + Due(m) <= Owed(m) + Due(m)',
           Owed(m)' + MayEcho(m)' + Due(m) + Len(tokens[m])
             <= Owed(m) + MayEcho(m) + Due(m)' + Len(tokens'[m])
    PROVE  Fair(m)'
  <1> DEFINE a == Owed(m)
             b == Owed(m)'
             d == Due(m)
             e == Due(m)'
             f == MayEcho(m)
             g == MayEcho(m)'
             t == Len(tokens[m])
             u == Len(tokens'[m])
  <1>1. a \in Nat /\ d \in Nat /\ f \in Nat /\ t \in Nat
    BY Numbers
  <1>2. b \in Nat /\ e \in Nat /\ g \in Nat /\ u \in Nat
    BY NumbersNext
  <1>3. a <= d /\ a + f <= d + t
    BY DEF Fair
  <1>4. b + d <= a + e /\ b + g + d + t <= a + f + e + u
    OBVIOUS
  <1>5. b <= e /\ b + g <= e + u
    <2> HIDE DEF a, b, d, e, f, g, t, u
    <2> QED BY <1>1, <1>2, <1>3, <1>4
  <1> QED BY <1>5 DEF Fair

(* Something happens at the servers.                                       *)
LEMMA FairServes ==
    ASSUME TypeOK, TypeOK', IsFiniteSet(calls), IsFiniteSet(calls'), NEW m \in Media, Fair(m),
           UNCHANGED <<busy, recent, tokens, sent, expired, eaten, again, crashes>>,
           Cardinality(Past90(m)') + Cardinality(RealIn(m)') + genuine[m]
             <= Cardinality(Past90(m)) + Cardinality(RealIn(m)) + genuine'[m],
           Cardinality(Past90(m)') + Cardinality(RealIn(m)') + genuine[m]
               + Cardinality(ToldIn(m)') + Cardinality(Called(m)')
             <= Cardinality(Past90(m)) + Cardinality(RealIn(m)) + genuine'[m]
                  + Cardinality(ToldIn(m)) + Cardinality(Called(m)),
           Cardinality(Past90(m)') \in Nat, Cardinality(RealIn(m)') \in Nat,
           Cardinality(ToldIn(m)') \in Nat, Cardinality(Called(m)') \in Nat
    PROVE  Fair(m)'
  <1> DEFINE p == Cardinality(Past90(m))
             q == Cardinality(Past90(m)')
             i == Cardinality(RealIn(m))
             j == Cardinality(RealIn(m)')
             t == Cardinality(ToldIn(m))
             u == Cardinality(ToldIn(m)')
             c == Cardinality(Called(m))
             d == Cardinality(Called(m)')
             b == Cardinality(RealAt(m))
             o == Cardinality(ToldAt(m))
             k == crashes * Cardinality(Conn)
             g == genuine[m]
             h == genuine'[m]
             s == sent[m]
             x == expired[m]
             y == eaten[m]
             z == again
             n == Len(tokens[m])
  <1>1. /\ p \in Nat /\ i \in Nat /\ t \in Nat /\ c \in Nat /\ b \in Nat /\ o \in Nat /\ k \in Nat
        /\ g \in Nat /\ s \in Nat /\ n \in Nat /\ x \in Nat /\ y \in Nat /\ z \in Nat
    BY Numbers
  <1>2. h \in Nat
    BY DEF TypeOK
  <1>3. q \in Nat /\ j \in Nat /\ u \in Nat /\ d \in Nat
    OBVIOUS
  <1>4. RealAt(m)' = RealAt(m) /\ ToldAt(m)' = ToldAt(m)
    BY DEF RealAt, ToldAt
  <1>5. q + j + g <= p + i + h /\ q + j + g + u + d <= p + i + h + t + c
    OBVIOUS
  <1>6. Owed(m) = s + p + i + b /\ Owed(m)' = s + q + j + b
    BY <1>4 DEF Owed
  <1>7. MayEcho(m) = t + o + c /\ MayEcho(m)' = u + o + d
    BY <1>4 DEF MayEcho
  <1>8. Due(m) = g + x + y + z + k /\ Due(m)' = h + x + y + z + k
    BY DEF Due
  <1> HIDE DEF p, q, i, j, t, u, c, d, b, o, k, g, h, s, x, y, z, n
  <1>9. Owed(m)' + Due(m) <= Owed(m) + Due(m)'
    BY <1>1, <1>2, <1>3, <1>5, <1>6, <1>8
  <1>10. Owed(m)' + MayEcho(m)' + Due(m) + n <= Owed(m) + MayEcho(m) + Due(m)' + n
    BY <1>1, <1>2, <1>3, <1>5, <1>6, <1>7, <1>8
  <1>11. tokens'[m] = tokens[m]
    OBVIOUS
  <1> QED BY <1>9, <1>10, <1>11, FairKept DEF n

-----------------------------------------------------------------------------
(* Every play has one scrobble to come, action by action.                  *)

(* The reports that count are those that did, and what is said now.         *)
LEMMA SaysReal ==
    ASSUME recent' = recent, NEW s, NEW ev, NEW m, NEW pos, NEW ended,
           inbox' = inbox \/ Emit(s, ev, m, pos, ended), NEW x
    PROVE  /\ \A d \in RealIn(x)' : d \in RealIn(x) \/ (Says(d, s, ev, m, pos, ended) /\ Real(d, x))
           /\ \A d \in ToldIn(x)' : d \in ToldIn(x) \/ (Says(d, s, ev, m, pos, ended) /\ Told(d, x))
  <1>1. \A d \in inbox' : d \in inbox \/ Says(d, s, ev, m, pos, ended)
    BY Saying
  <1> QED BY <1>1 DEF RealIn, ToldIn, Marked

LEMMA SaysNothing ==
    ASSUME recent' = recent, NEW s, NEW ev, NEW m, NEW pos, NEW ended,
           inbox' = inbox \/ Emit(s, ev, m, pos, ended), ev \notin {"stop", "library", "played"}, NEW x
    PROVE  RealIn(x)' \subseteq RealIn(x) /\ ToldIn(x)' \subseteq ToldIn(x)
  <1>1. /\ \A d \in RealIn(x)' : d \in RealIn(x) \/ (Says(d, s, ev, m, pos, ended) /\ Real(d, x))
        /\ \A d \in ToldIn(x)' : d \in ToldIn(x) \/ (Says(d, s, ev, m, pos, ended) /\ Told(d, x))
    BY SaysReal
  <1> QED BY <1>1 DEF Says, Real, Told

LEMMA OneConn ==
    ASSUME OneConnection, NEW s
    PROVE  \A c, d \in Conn : c[1] = s /\ d[1] = s => c = d
  BY DEF OneConnection, Conn

(* One report more, at the most.                                           *)
LEMMA SaysOne ==
    ASSUME OneConnection, TypeOK, recent' = recent, NEW s, NEW ev, NEW m, NEW pos, NEW ended,
           inbox' = inbox \/ Emit(s, ev, m, pos, ended), NEW x \in Media, IsFiniteSet(calls)
    PROVE  /\ Cardinality(RealIn(x)') \in Nat /\ Cardinality(ToldIn(x)') \in Nat
           /\ Cardinality(RealIn(x)') <= Cardinality(RealIn(x)) + 1
           /\ Cardinality(ToldIn(x)') <= Cardinality(ToldIn(x)) + 1
           /\ (\A d : Says(d, s, ev, m, pos, ended) => ~Real(d, x))
                => Cardinality(RealIn(x)') <= Cardinality(RealIn(x))
           /\ \/ Cardinality(RealIn(x)') <= Cardinality(RealIn(x))
              \/ Cardinality(ToldIn(x)') <= Cardinality(ToldIn(x))
           /\ (\A d : Says(d, s, ev, m, pos, ended) => ~Told(d, x))
                => Cardinality(ToldIn(x)') <= Cardinality(ToldIn(x))
  <1>1. /\ \A d \in RealIn(x)' : d \in RealIn(x) \/ (Says(d, s, ev, m, pos, ended) /\ Real(d, x))
        /\ \A d \in ToldIn(x)' : d \in ToldIn(x) \/ (Says(d, s, ev, m, pos, ended) /\ Told(d, x))
    BY SaysReal
  <1>2. PICK y : inbox' \subseteq inbox \cup {y}
    <2>1. CASE inbox' = inbox
      BY <2>1
    <2>2. CASE Emit(s, ev, m, pos, ended)
      BY <2>2, OneConn, SayingOnce
    <2> QED BY <2>1, <2>2
  <1>3. RealIn(x)' \subseteq RealIn(x) \cup {y} /\ ToldIn(x)' \subseteq ToldIn(x) \cup {y}
    BY <1>2 DEF RealIn, ToldIn, Marked
  <1>4. IsFiniteSet(RealIn(x)) /\ IsFiniteSet(ToldIn(x))
    BY Finite
  <1>5. /\ Cardinality(RealIn(x)') \in Nat /\ Cardinality(RealIn(x)') <= Cardinality(RealIn(x)) + 1
        /\ Cardinality(ToldIn(x)') \in Nat /\ Cardinality(ToldIn(x)') <= Cardinality(ToldIn(x)) + 1
    BY <1>3, <1>4, OneMore
  <1>6. RealIn(x)' \subseteq RealIn(x) => Cardinality(RealIn(x)') <= Cardinality(RealIn(x))
    BY <1>4, Fewer
  <1>7. ToldIn(x)' \subseteq ToldIn(x) => Cardinality(ToldIn(x)') <= Cardinality(ToldIn(x))
    BY <1>4, Fewer
  <1>8. RealIn(x)' \subseteq RealIn(x) \/ ToldIn(x)' \subseteq ToldIn(x)
    <2>1. ~(Real(y, x) /\ Told(y, x))
      BY DEF Real, Told
    <2>2. (\A d \in RealIn(x)' : Real(d, x)) /\ (\A d \in ToldIn(x)' : Told(d, x))
      BY DEF RealIn, ToldIn
    <2> QED BY <1>3, <2>1, <2>2
  <1> QED BY <1>1, <1>5, <1>6, <1>7, <1>8

(* Nothing counts more than it did.                                        *)
LEMMA FairQuiet ==
    ASSUME TypeOK, TypeOK', IsFiniteSet(calls), IsFiniteSet(calls'), NEW m \in Media, Fair(m),
           UNCHANGED <<busy, recent, tokens, sent, expired, eaten, again, crashes>>,
           genuine'[m] = genuine[m],
           Past90(m)' \subseteq Past90(m), RealIn(m)' \subseteq RealIn(m),
           ToldIn(m)' \subseteq ToldIn(m), Called(m)' \subseteq Called(m)
    PROVE  Fair(m)'
  <1> DEFINE p == Cardinality(Past90(m))
             q == Cardinality(Past90(m)')
             i == Cardinality(RealIn(m))
             j == Cardinality(RealIn(m)')
             t == Cardinality(ToldIn(m))
             u == Cardinality(ToldIn(m)')
             c == Cardinality(Called(m))
             d == Cardinality(Called(m)')
             g == genuine[m]
  <1>1. /\ q \in Nat /\ p \in Nat /\ q <= p
        /\ j \in Nat /\ i \in Nat /\ j <= i
        /\ u \in Nat /\ t \in Nat /\ u <= t
        /\ d \in Nat /\ c \in Nat /\ d <= c
    BY Finite, Fewer
  <1>2. g \in Nat
    BY Numbers
  <1> HIDE DEF p, q, i, j, t, u, c, d, g
  <1>3. q + j + g <= p + i + g /\ q + j + g + u + d <= p + i + g + t + c
    BY <1>1, <1>2
  <1> QED BY <1>1, <1>3, FairServes DEF p, q, i, j, t, u, c, d, g

LEMMA PlayFair ==
    ASSUME TypeOK, TypeOK', IsFiniteSet(calls), IsFiniteSet(calls'), NEW x \in Media, Fair(x),
           NEW s \in Server, NEW m \in Media, Play(s, m)
    PROVE  Fair(x)'
  <1>1. UNCHANGED <<busy, recent, tokens, sent, expired, eaten, again, crashes, calls>>
    BY RestDoes DEF Play
  <1>2. /\ watching'[s].pos = 0 /\ genuine' = genuine
        /\ \A t \in Server : t # s => watching'[t] = watching[t]
    BY PlayDoes
  <1> DEFINE no == FALSE
  <1>3. Emit(s, "start", m, 0, no)
    BY PlayDoes
  <1> HIDE DEF no
  <1>4. RealIn(x)' \subseteq RealIn(x) /\ ToldIn(x)' \subseteq ToldIn(x)
    BY <1>1, <1>3, SaysNothing
  <1>5. Past90(x)' \subseteq Past90(x)
    BY <1>2 DEF Past90
  <1>6. Called(x)' = Called(x)
    BY <1>1 DEF Called
  <1> QED BY <1>1, <1>2, <1>4, <1>5, <1>6, FairQuiet

LEMMA PausesFair ==
    ASSUME TypeOK, TypeOK', IsFiniteSet(calls), IsFiniteSet(calls'), NEW x \in Media, Fair(x),
           NEW s \in Server, Pause(s) \/ Resume(s)
    PROVE  Fair(x)'
  <1>1. UNCHANGED <<busy, recent, tokens, sent, expired, eaten, again, crashes, calls>>
    BY RestDoes DEF Pause, Resume
  <1>2. watching' = watching /\ genuine' = genuine
    BY PausesDo
  <1> DEFINE no == FALSE
  <1>3. PICK ev \in {"pause", "resume", "progress"}, pos \in {0, 1} : Emit(s, ev, watching[s].m, pos, no)
    BY PausesDo
  <1> HIDE DEF no
  <1>4. RealIn(x)' \subseteq RealIn(x) /\ ToldIn(x)' \subseteq ToldIn(x)
    BY <1>1, <1>3, SaysNothing
  <1>5. Past90(x)' \subseteq Past90(x) /\ Called(x)' = Called(x)
    BY <1>1, <1>2 DEF Past90, Called
  <1> QED BY <1>1, <1>2, <1>4, <1>5, FairQuiet

(* Past 90% there is a play more, and a stop to come.                      *)
LEMMA AdvanceFair ==
    ASSUME TypeOK, TypeOK', IsFiniteSet(calls), IsFiniteSet(calls'), NEW x \in Media, Fair(x),
           NEW s \in Server, Advance(s)
    PROVE  Fair(x)'
  <1>1. UNCHANGED <<busy, recent, tokens, sent, expired, eaten, again, crashes, calls>>
    BY RestDoes DEF Advance
  <1>2. /\ watching[s] # None /\ watching'[s] # None /\ watching'[s].m = watching[s].m
        /\ watching[s].m \in Media
        /\ watching[s].pos \in {0, 1} /\ watching'[s].pos = watching[s].pos + 1
        /\ \A t \in Server : t # s => watching'[t] = watching[t]
        /\ genuine' = IF watching[s].pos = 1 THEN Bump(genuine, watching[s].m, 1) ELSE genuine
    BY AdvanceDoes
  <1> DEFINE no == FALSE
  <1>3. \/ inbox' = inbox \/ Emit(s, "scrobble", watching[s].m, 2, no)
        \/ Emit(s, "progress", watching[s].m, watching'[s].pos, no)
    BY AdvanceDoes
  <1> HIDE DEF no
  <1>4. RealIn(x)' \subseteq RealIn(x) /\ ToldIn(x)' \subseteq ToldIn(x)
    <2>1. CASE inbox' = inbox \/ Emit(s, "scrobble", watching[s].m, 2, no)
      BY <1>1, <2>1, SaysNothing
    <2>2. CASE Emit(s, "progress", watching[s].m, watching'[s].pos, no)
      BY <1>1, <2>2, SaysNothing
    <2> QED BY <1>3, <2>1, <2>2
  <1>5. Called(x)' = Called(x)
    BY <1>1 DEF Called
  <1>6. genuine \in Counts
    BY HistoryType
  <1>7. CASE watching[s].pos = 0 \/ x # watching[s].m
    <2>1. Past90(x)' \subseteq Past90(x)
      BY <1>2, <1>7 DEF Past90
    <2>2. genuine'[x] = genuine[x]
      BY <1>2, <1>6, <1>7, Counting
    <2> QED BY <1>1, <1>4, <1>5, <2>1, <2>2, FairQuiet
  <1>8. CASE watching[s].pos = 1 /\ x = watching[s].m
    <2>1. Past90(x)' \subseteq Past90(x) \cup {s}
      BY <1>2 DEF Past90
    <2>2. genuine'[x] = genuine[x] + 1
      BY <1>2, <1>6, <1>8, Counting
    <2> DEFINE p == Cardinality(Past90(x))
               q == Cardinality(Past90(x)')
               i == Cardinality(RealIn(x))
               j == Cardinality(RealIn(x)')
               t == Cardinality(ToldIn(x))
               u == Cardinality(ToldIn(x)')
               c == Cardinality(Called(x))
               g == genuine[x]
    <2>3. /\ q \in Nat /\ p \in Nat /\ q <= p + 1
          /\ j \in Nat /\ i \in Nat /\ j <= i
          /\ u \in Nat /\ t \in Nat /\ u <= t
      BY <1>4, <2>1, Finite, Fewer, OneMore
    <2>4. g \in Nat /\ c \in Nat
      BY Numbers
    <2> HIDE DEF p, q, i, j, t, u, c, g
    <2>5. q + j + g <= p + i + (g + 1) /\ q + j + g + u + c <= p + i + (g + 1) + t + c
      BY <2>3, <2>4
    <2> QED BY <1>1, <1>5, <2>2, <2>3, <2>4, <2>5, FairServes DEF p, q, i, j, t, u, c, g
  <1> QED BY <1>2, <1>7, <1>8

(* The stop takes the place of the playback.                               *)
LEMMA StopPlayingFair ==
    ASSUME OneConnection, TypeOK, TypeOK', IsFiniteSet(calls), IsFiniteSet(calls'),
           NEW x \in Media, Fair(x), NEW s \in Server, StopPlaying(s)
    PROVE  Fair(x)'
  <1>1. UNCHANGED <<busy, recent, tokens, sent, expired, eaten, again, crashes, calls>>
    BY RestDoes DEF StopPlaying
  <1>2. /\ watching[s] # None /\ watching'[s] = None /\ watching[s].pos \in Position
        /\ \A t \in Server : t # s => watching'[t] = watching[t]
        /\ genuine' = genuine
    BY StopDoes
  <1>3. PICK pos \in {0, watching[s].pos}, ended \in BOOLEAN :
           /\ Emit(s, "stop", watching[s].m, pos, ended)
           /\ ended <=> watching[s].pos = 2 /\ Kind[s] # "plex"
    BY StopDoes
  <1>4. Called(x)' = Called(x) /\ Past90(x)' \subseteq Past90(x) \ {s}
    BY <1>1, <1>2 DEF Called, Past90
  <1> DEFINE p == Cardinality(Past90(x))
             q == Cardinality(Past90(x)')
             i == Cardinality(RealIn(x))
             j == Cardinality(RealIn(x)')
             t == Cardinality(ToldIn(x))
             u == Cardinality(ToldIn(x)')
             c == Cardinality(Called(x))
             g == genuine[x]
  <1>5. g \in Nat /\ c \in Nat /\ p \in Nat /\ i \in Nat /\ t \in Nat
    BY Numbers
  <1>6. q \in Nat /\ q <= p /\ (s \in Past90(x) => q + 1 <= p)
    BY <1>4, Finite, Fewer, OneLess
  <1>7. /\ j \in Nat /\ u \in Nat /\ j <= i + 1
        /\ (\A d : Says(d, s, "stop", watching[s].m, pos, ended) => ~Real(d, x)) => j <= i
        /\ (\A d : Says(d, s, "stop", watching[s].m, pos, ended) => ~Told(d, x)) => u <= t
    BY <1>1, <1>3, SaysOne
  <1>8. u <= t
    BY <1>7 DEF Says, Told
  <1>9. q + j <= p + i
    <2>1. CASE s \in Past90(x)
      <3> HIDE DEF p, q, i, j
      <3> QED BY <1>5, <1>6, <1>7, <2>1
    <2>2. CASE s \notin Past90(x)
      <3>1. watching[s].pos # 2 \/ watching[s].m # x
        BY <1>2, <2>2 DEF Past90
      <3>2. \A d : Says(d, s, "stop", watching[s].m, pos, ended) => ~Real(d, x)
        BY <1>3, <3>1 DEF Says, Real
      <3>3. j <= i
        BY <1>7, <3>2
      <3> HIDE DEF p, q, i, j
      <3> QED BY <1>5, <1>6, <1>7, <3>3
    <2> QED BY <2>1, <2>2
  <1> HIDE DEF p, q, i, j, t, u, c, g
  <1>10. q + j + g <= p + i + g /\ q + j + g + u + c <= p + i + g + t + c
    BY <1>5, <1>6, <1>7, <1>8, <1>9
  <1> QED BY <1>1, <1>2, <1>4, <1>5, <1>6, <1>7, <1>10, FairServes DEF p, q, i, j, t, u, c, g

(* What the user marks is a play, and one report tells of it.               *)
LEMMA ToggleFair ==
    ASSUME OneConnection, TypeOK, TypeOK', IsFiniteSet(calls), IsFiniteSet(calls'),
           NEW x \in Media, Fair(x),
           NEW s \in Server, NEW m \in Media, NEW w \in BOOLEAN, Toggle(s, m, w)
    PROVE  Fair(x)'
  <1>1. UNCHANGED <<busy, recent, tokens, sent, expired, eaten, again, crashes, calls>>
    BY RestDoes DEF Toggle
  <1>2. watching' = watching /\ genuine' = IF w THEN Bump(genuine, m, 1) ELSE genuine
    BY ToggleDoes
  <1>3. PICK ev \in {"library", "played", "unplayed"}, pos \in {0, 2} :
           Emit(s, ev, m, pos, w) /\ (ev \in {"library", "played"} => w)
    BY ToggleDoes
  <1>4. Called(x)' = Called(x) /\ Past90(x)' = Past90(x)
    BY <1>1, <1>2 DEF Called, Past90
  <1>5. genuine \in Counts
    BY HistoryType
  <1>6. CASE x # m \/ ~w
    <2>1. \A d : Says(d, s, ev, m, pos, w) => ~Real(d, x) /\ ~Told(d, x)
      BY <1>3, <1>6 DEF Says, Real, Told
    <2>2. /\ \A d \in RealIn(x)' : d \in RealIn(x) \/ (Says(d, s, ev, m, pos, w) /\ Real(d, x))
          /\ \A d \in ToldIn(x)' : d \in ToldIn(x) \/ (Says(d, s, ev, m, pos, w) /\ Told(d, x))
      BY <1>1, <1>3, SaysReal
    <2>3. RealIn(x)' \subseteq RealIn(x) /\ ToldIn(x)' \subseteq ToldIn(x)
      BY <2>1, <2>2
    <2>4. genuine'[x] = genuine[x]
      BY <1>2, <1>5, <1>6, Counting
    <2> QED BY <1>1, <1>4, <2>3, <2>4, FairQuiet
  <1>7. CASE x = m /\ w
    <2>1. genuine'[x] = genuine[x] + 1
      BY <1>2, <1>5, <1>7, Counting
    <2> DEFINE p == Cardinality(Past90(x))
               i == Cardinality(RealIn(x))
               j == Cardinality(RealIn(x)')
               t == Cardinality(ToldIn(x))
               u == Cardinality(ToldIn(x)')
               c == Cardinality(Called(x))
               g == genuine[x]
    <2>2. g \in Nat /\ c \in Nat /\ p \in Nat /\ i \in Nat /\ t \in Nat
      BY Numbers
    <2>3. j \in Nat /\ u \in Nat /\ j <= i + 1 /\ u <= t + 1 /\ (j <= i \/ u <= t)
      BY <1>1, <1>3, SaysOne
    <2> HIDE DEF p, i, j, t, u, c, g
    <2>4. p + j + g <= p + i + (g + 1) /\ p + j + g + u + c <= p + i + (g + 1) + t + c
      BY <2>2, <2>3
    <2> QED BY <1>1, <1>4, <2>1, <2>2, <2>3, <2>4, FairServes DEF p, i, j, t, u, c, g
  <1> QED BY <1>6, <1>7

(* A server that carries out a call makes one report, an echo.              *)
LEMMA ServerCallFair ==
    ASSUME OneConnection, EchoesKept, TypeOK, TypeOK', IsFiniteSet(calls), IsFiniteSet(calls'),
           NEW x \in Media, Fair(x), NEW c \in calls, ServerCall(c)
    PROVE  Fair(x)'
  <1>1. UNCHANGED <<busy, recent, tokens, sent, expired, eaten, again, crashes, watching, genuine>>
    BY CallDoes DEF bounds
  <1>2. calls' = calls \ {c} /\ c.s \in Pushing
    BY CallDoes
  <1>3. PICK ev \in {"played", "unplayed"}, pos \in {0, 2} :
           /\ ev = "played" <=> c.w
           /\ \/ inbox' = inbox
              \/ Emit(c.s, ev, c.m, pos, FALSE) /\ Kind[c.s] \in {"jellyfin", "emby"}
    BY CallDoes
  <1>4. Called(x)' = Called(x) \ {c} /\ Past90(x)' = Past90(x)
    BY <1>1, <1>2 DEF Called, Past90
  <1>5. /\ \A d \in RealIn(x)' : d \in RealIn(x) \/ (Says(d, c.s, ev, c.m, pos, FALSE) /\ Real(d, x))
        /\ \A d \in ToldIn(x)' : d \in ToldIn(x) \/ (Says(d, c.s, ev, c.m, pos, FALSE) /\ Told(d, x))
    BY <1>1, <1>3, SaysReal
  <1>6. \A d : Says(d, c.s, ev, c.m, pos, FALSE) => ~Real(d, x)
    <2> SUFFICES ASSUME NEW d, Says(d, c.s, ev, c.m, pos, FALSE), Real(d, x) PROVE FALSE
      OBVIOUS
    <2>1. d.ev = ev /\ d.conn \in Conn /\ d.conn[1] = c.s
      BY DEF Says
    <2>2. Kind[c.s] = "emby" /\ d.conn \in NoWatched
      BY <1>3, <2>1 DEF Real
    <2>3. c.s \in Full /\ c.s \notin Side
      BY <1>2, ConstantsAssumption DEF OneConnection
    <2>4. d.conn = <<c.s, "full">>
      BY <2>1, <2>3 DEF Conn
    <2> QED BY <1>2, <2>2, <2>4 DEF EchoesKept
  <1>7. RealIn(x)' \subseteq RealIn(x)
    BY <1>5, <1>6
  <1>8. CASE ToldIn(x)' \subseteq ToldIn(x)
    BY <1>1, <1>4, <1>7, <1>8, FairQuiet
  <1>9. CASE ~(ToldIn(x)' \subseteq ToldIn(x))
    <2>1. c \in Called(x)
      <3>1. PICK d : Says(d, c.s, ev, c.m, pos, FALSE) /\ Told(d, x) /\ d \in inbox' /\ d \notin ToldIn(x)
        BY <1>5, <1>9 DEF ToldIn
      <3>2. ev = "played" /\ c.m = x
        BY <3>1 DEF Says, Told
      <3>3. inbox' # inbox
        BY <3>1 DEF ToldIn
      <3> QED BY <1>3, <3>2, <3>3 DEF Called
    <2> DEFINE p == Cardinality(Past90(x))
               i == Cardinality(RealIn(x))
               j == Cardinality(RealIn(x)')
               t == Cardinality(ToldIn(x))
               u == Cardinality(ToldIn(x)')
               k == Cardinality(Called(x))
               l == Cardinality(Called(x)')
               g == genuine[x]
    <2>2. g \in Nat /\ k \in Nat /\ p \in Nat /\ i \in Nat /\ t \in Nat
      BY Numbers
    <2>3. j \in Nat /\ j <= i
      BY <1>7, Finite, Fewer
    <2>4. l \in Nat /\ l + 1 <= k
      BY <1>4, <2>1, Finite, OneLess
    <2>5. u \in Nat /\ u <= t + 1
      <3>1. CASE inbox' = inbox
        <4> HIDE DEF t, u
        <4> QED BY <1>1, <1>9, <3>1 DEF ToldIn
      <3>2. CASE Emit(c.s, ev, c.m, pos, FALSE)
        BY <1>1, <3>2, SaysOne
      <3> QED BY <1>3, <3>1, <3>2
    <2> HIDE DEF p, i, j, t, u, k, l, g
    <2>6. p + j + g <= p + i + g /\ p + j + g + u + l <= p + i + g + t + k
      BY <2>2, <2>3, <2>4, <2>5
    <2> QED BY <1>1, <1>4, <2>2, <2>3, <2>4, <2>5, <2>6, FairServes DEF p, i, j, t, u, k, l, g
  <1> QED BY <1>8, <1>9

(* A push: as many tokens as calls that may echo.                          *)
LEMMA PushTokens ==
    ASSUME TypeOK, IsFiniteSet(calls), NEW m \in Media, NEW w \in BOOLEAN, NEW but,
           PushWatchState(m, w, but), NEW x \in Media
    PROVE  /\ Cardinality(Called(x)') \in Nat
           /\ Cardinality(Called(x)') + Len(tokens[x]) <= Cardinality(Called(x)) + Len(tokens'[x])
  <1> DEFINE to == Pushing \ but
             some == Echoing \cap to
             k == Cardinality(some)
             left == [i \in 1..k |-> now]
             f == [s \in some |-> [s |-> s, m |-> m, w |-> w, at |-> now]]
             T == {f[s] : s \in some}
  <1>1. IsFiniteSet(some) /\ k \in Nat
    <2>1. IsFiniteSet(Pushing) /\ some \in SUBSET Pushing
      BY ConstantsAssumption, FS_Subset
    <2> HIDE DEF some
    <2> QED BY <2>1, FS_Subset, FS_CardinalityType
  <1>2. IsFiniteSet(T) /\ Cardinality(T) \in Nat /\ Cardinality(T) <= k
    <2>1. f \in Surjection(some, T)
      BY DEF Surjection
    <2> HIDE DEF f, T, some
    <2> QED BY <1>1, <2>1, FS_Surjection, FS_CardinalityType DEF k
  <1>3. calls' = calls \cup {[s |-> s, m |-> m, w |-> w, at |-> now] : s \in to}
    BY DEF PushWatchState, Calls
  <1>4. Cardinality(Called(x)) \in Nat /\ tokens[x] \in Seq(Time) /\ Len(tokens[x]) \in Nat
    BY Numbers
  <1>5. CASE w /\ x = m
    <2>1. Called(x)' \subseteq Called(x) \cup T
      <3>1. \A c \in calls' : c \in calls \/ \E s \in to : c = [s |-> s, m |-> m, w |-> w, at |-> now]
        BY <1>3
      <3>2. \A s \in to : [s |-> s, m |-> m, w |-> w, at |-> now].s = s /\ s \in Server
        BY ConstantsAssumption
      <3>3. \A c \in Called(x)' : c \in calls \/ \E s \in some : c = [s |-> s, m |-> m, w |-> w, at |-> now]
        BY <3>1, <3>2 DEF Called, Echoing
      <3> QED BY <3>3 DEF Called
    <2>2. Cardinality(Called(x)') \in Nat /\ Cardinality(Called(x)') <= Cardinality(Called(x)) + k
      <3> DEFINE A == Called(x)
                 B == Called(x)'
      <3>1. IsFiniteSet(A) /\ Cardinality(A) \in Nat
        BY Finite, FS_CardinalityType
      <3> HIDE DEF A, B, T
      <3>2. /\ IsFiniteSet(A \cup T) /\ IsFiniteSet(A \cap T)
            /\ Cardinality(A \cup T) = Cardinality(A) + Cardinality(T) - Cardinality(A \cap T)
        BY <1>2, <3>1, FS_Union, FS_Intersection
      <3>3. Cardinality(A \cap T) \in Nat
        BY <3>2, FS_CardinalityType
      <3>4. B \subseteq A \cup T
        BY <2>1 DEF A, B
      <3>5. Cardinality(B) \in Nat /\ Cardinality(B) <= Cardinality(A \cup T)
        BY <3>2, <3>4, Fewer
      <3>6. Cardinality(B) <= Cardinality(A) + k
        <4> HIDE DEF k
        <4> QED BY <1>1, <1>2, <3>1, <3>2, <3>3, <3>5
      <3> QED BY <3>5, <3>6 DEF A, B
    <2> HIDE DEF T, f
    <2>3. left \in Seq(Time) /\ Len(left) = k
      <3> HIDE DEF k
      <3> QED BY <1>1 DEF TypeOK
    <2>4. tokens'[x] = tokens[x] \o left
      <3>1. tokens \in [Media -> Seq(Time)]
        BY DEF TypeOK
      <3>2. tokens' = [tokens EXCEPT ![m] = Mark(tokens[m], to)]
        BY <1>5 DEF PushWatchState
      <3> QED BY <1>5, <3>1, <3>2 DEF Mark
    <2> HIDE DEF left, k
    <2>5. Len(tokens'[x]) = Len(tokens[x]) + k
      BY <1>4, <2>3, <2>4, Appended
    <2> QED BY <1>1, <1>4, <2>2, <2>5
  <1>6. CASE ~(w /\ x = m)
    <2>1. Called(x)' = Called(x)
      BY <1>3, <1>6 DEF Called
    <2>2. tokens'[x] = tokens[x]
      <3>1. tokens \in [Media -> Seq(Time)]
        BY DEF TypeOK
      <3>2. tokens' = IF w THEN [tokens EXCEPT ![m] = Mark(tokens[m], to)] ELSE tokens
        BY DEF PushWatchState
      <3> QED BY <1>6, <3>1, <3>2
    <2> QED BY <1>4, <2>1, <2>2
  <1> QED BY <1>5, <1>6

LEMMA PushesFair ==
    ASSUME TypeOK, TypeOK', IsFiniteSet(calls), IsFiniteSet(calls'), NEW x \in Media, Fair(x),
           NEW m \in Media, NEW w \in BOOLEAN, NEW but, PushWatchState(m, w, but),
           UNCHANGED <<inbox, busy, recent, watching, sent, expired, eaten, again, crashes>>,
           genuine[x] <= genuine'[x]
    PROVE  Fair(x)'
  <1> DEFINE e == Cardinality(ToldIn(x)) + Cardinality(ToldAt(x))
             r == sent[x] + Cardinality(Past90(x)) + Cardinality(RealIn(x)) + Cardinality(RealAt(x))
             c == Cardinality(Called(x))
             d == Cardinality(Called(x)')
             t == Len(tokens[x])
             u == Len(tokens'[x])
             g == genuine[x]
             h == genuine'[x]
             k == crashes * Cardinality(Conn)
             y == expired[x] + eaten[x] + again
  <1>1. e \in Nat /\ r \in Nat /\ c \in Nat /\ t \in Nat /\ g \in Nat /\ k \in Nat /\ y \in Nat
    <2>1. k \in Nat
      BY Numbers
    <2>2. /\ Cardinality(ToldIn(x)) \in Nat /\ Cardinality(ToldAt(x)) \in Nat
          /\ expired[x] \in Nat /\ eaten[x] \in Nat /\ again \in Nat
          /\ sent[x] \in Nat /\ Cardinality(Past90(x)) \in Nat
          /\ Cardinality(RealIn(x)) \in Nat /\ Cardinality(RealAt(x)) \in Nat
      BY Numbers
    <2>3. e \in Nat /\ y \in Nat /\ r \in Nat
      BY <2>2
    <2>4. c \in Nat /\ t \in Nat /\ g \in Nat
      BY Numbers
    <2> QED BY <2>1, <2>3, <2>4
  <1>2. h \in Nat /\ u \in Nat
    BY NumbersNext DEF TypeOK
  <1>3. d \in Nat /\ d + t <= c + u
    BY PushTokens
  <1>4. /\ Past90(x)' = Past90(x) /\ RealIn(x)' = RealIn(x) /\ RealAt(x)' = RealAt(x)
        /\ ToldIn(x)' = ToldIn(x) /\ ToldAt(x)' = ToldAt(x)
    BY DEF Past90, RealIn, RealAt, ToldIn, ToldAt, Marked
  <1>5. Owed(x) = r /\ Owed(x)' = r /\ MayEcho(x) = e + c /\ MayEcho(x)' = e + d
    BY <1>4 DEF Owed, MayEcho
  <1>6. Due(x) = g + y + k /\ Due(x)' = h + y + k
    <2>1. g + expired[x] + eaten[x] + again + k = g + (expired[x] + eaten[x] + again) + k
      <3>1. /\ g \in Nat /\ expired[x] \in Nat /\ eaten[x] \in Nat /\ again \in Nat /\ k \in Nat
        BY Numbers
      <3> HIDE DEF g, k
      <3> QED BY <3>1
    <2>2. h + expired[x] + eaten[x] + again + k = h + (expired[x] + eaten[x] + again) + k
      <3>1. /\ h \in Nat /\ expired[x] \in Nat /\ eaten[x] \in Nat /\ again \in Nat /\ k \in Nat
        BY <1>2, Numbers
      <3> HIDE DEF h, k
      <3> QED BY <3>1
    <2> QED BY <2>1, <2>2 DEF Due
  <1>7. g <= h
    OBVIOUS
  <1> HIDE DEF e, r, c, d, t, u, g, h, k, y
  <1>8. Owed(x)' + Due(x) <= Owed(x) + Due(x)'
    BY <1>1, <1>2, <1>5, <1>6, <1>7
  <1>9. Owed(x)' + MayEcho(x)' + Due(x) + t <= Owed(x) + MayEcho(x) + Due(x)' + u
    BY <1>1, <1>2, <1>3, <1>5, <1>6, <1>7
  <1> QED BY <1>8, <1>9, FairKept DEF t, u

LEMMA MarksFair ==
    ASSUME TypeOK, TypeOK', IsFiniteSet(calls), IsFiniteSet(calls'), NEW x \in Media, Fair(x),
           NEW m \in Media,
           \/ \E force \in BOOLEAN : MarkAsWatched(m, force)
           \/ UnwatchItem(m)
           \/ \E s \in Server : PushWatchedForNewItem(s, m)
    PROVE  Fair(x)'
  <1>1. UNCHANGED <<inbox, busy, recent, watching, sent, expired, eaten, again, crashes>>
    BY DEF MarkAsWatched, UnwatchItem, PushWatchedForNewItem, server
  <1> DEFINE no == FALSE
             yes == TRUE
  <1>2. PICK w \in {yes, no} : \E but : PushWatchState(m, w, but)
    BY DEF MarkAsWatched, UnwatchItem, PushWatchedForNewItem
  <1>3. w \in BOOLEAN
    OBVIOUS
  <1>4. genuine \in Counts
    BY HistoryType
  <1>5. genuine' = genuine \/ genuine' = Bump(genuine, m, 1)
    BY DEF MarkAsWatched, UnwatchItem, PushWatchedForNewItem
  <1>6. genuine[x] <= genuine'[x]
    <2>1. genuine[x] \in Nat
      BY <1>4 DEF Counts
    <2> QED BY <1>4, <1>5, <2>1, Counting
  <1> HIDE DEF yes, no
  <1> QED BY <1>1, <1>2, <1>3, <1>6, PushesFair

(* A report is taken up: its handler owes what it did, and one that comes   *)
(* twice is the server's doing.                                            *)
LEMMA BeginFair ==
    ASSUME AnsweredInTime, TypeOK, TypeOK', IsFiniteSet(calls), IsFiniteSet(calls'), Timely,
           NEW x \in Media, Fair(x), NEW d \in inbox, Begin(d)
    PROVE  Fair(x)'
  <1>1. UNCHANGED <<now, calls, watching, tokens, sent, expired, eaten, crashes, genuine>>
    BY DEF Begin, server, history
  <1>2. /\ inbox' = inbox \/ inbox' = inbox \ {d}
        /\ recent' = Remember(d)
        /\ busy' = busy \/ (busy' = busy \cup {Made(d)} /\ ~SeenBefore(d))
        /\ again \in Nat /\ again' \in Nat
        /\ again' = again \/ (again' = again + 1 /\ ~Plexy(d))
        /\ ~Plexy(d) => inbox' = inbox \ {d} \/ again' = again + 1
    BY HistoryType DEF Begin, Made
  <1>3. Made(d).d = d
    BY MadeType
  <1>4. Past90(x)' = Past90(x) /\ Called(x)' = Called(x)
    BY <1>1 DEF Past90, Called
  <1>5. /\ now \in Nat /\ Latency \in Nat /\ Retry \in Nat /\ Latency < Retry
        /\ \A e \in inbox : e.at \in Nat /\ e.at <= now /\ now - e.at <= Latency
        /\ \A r \in recent : r.at \in Nat /\ r.at <= now
    BY TimesAre DEF Timely, AnsweredInTime
  <1>6. \A e \in inbox : Marked(e) => Marked(e)'
    <2> SUFFICES ASSUME NEW e \in inbox, Marked(e) PROVE Marked(e)'
      OBVIOUS
    <2>1. PICK r \in recent : r.conn = e.conn /\ r.ev = e.ev /\ r.at >= e.at
      BY DEF Marked
    <2>2. CASE r \in recent'
      BY <2>1, <2>2 DEF Marked, Plexy
    <2>3. CASE r \notin recent'
      <3>1. now - r.at < Retry
        BY <1>5, <2>1
      <3>2. Plexy(d) /\ r.conn = d.conn /\ r.ev = d.ev
        BY <1>2, <2>3, <3>1 DEF Remember
      <3> DEFINE s == [conn |-> d.conn, ev |-> d.ev, at |-> now]
      <3>3. s \in recent'
        BY <1>2, <3>2 DEF Remember
      <3>4. s.conn = e.conn /\ s.ev = e.ev /\ s.at >= e.at
        BY <1>5, <2>1, <3>2
      <3> QED BY <3>3, <3>4 DEF Marked, Plexy
    <2> QED BY <2>2, <2>3
  <1>7. RealIn(x)' \subseteq RealIn(x) /\ ToldIn(x)' \subseteq ToldIn(x)
    BY <1>2, <1>6 DEF RealIn, ToldIn
  <1>8. Plexy(d) => d \notin RealIn(x)'
    <2> SUFFICES ASSUME Plexy(d) PROVE Marked(d)'
      BY DEF RealIn
    <2> DEFINE s == [conn |-> d.conn, ev |-> d.ev, at |-> now]
    <2>1. s \in recent'
      BY <1>2 DEF Remember
    <2>2. s.conn = d.conn /\ s.ev = d.ev /\ s.at >= d.at
      BY <1>5
    <2> QED BY <2>1, <2>2 DEF Marked, Plexy
  <1>9. Plexy(d) /\ Marked(d) => SeenBefore(d)
    <2> SUFFICES ASSUME Plexy(d), Marked(d) PROVE SeenBefore(d)
      OBVIOUS
    <2>1. PICK r \in recent : r.conn = d.conn /\ r.ev = d.ev /\ r.at >= d.at
      BY DEF Marked
    <2>2. now - r.at < Retry
      BY <1>5, <2>1
    <2> QED BY <2>1, <2>2 DEF SeenBefore
  <1> DEFINE i == Cardinality(RealIn(x))
             j == Cardinality(RealIn(x)')
             b == Cardinality(RealAt(x))
             a == Cardinality(RealAt(x)')
             t == Cardinality(ToldIn(x))
             u == Cardinality(ToldIn(x)')
             o == Cardinality(ToldAt(x))
             q == Cardinality(ToldAt(x)')
             k == again
             l == again'
  <1>10. /\ i \in Nat /\ b \in Nat /\ t \in Nat /\ o \in Nat /\ j \in Nat /\ u \in Nat
         /\ j <= i /\ u <= t
    BY <1>7, Finite, Fewer, Numbers
  <1>11. /\ a \in Nat /\ a <= b + 1
         /\ q \in Nat /\ q <= o + 1
         /\ busy' = busy \/ ~Real(d, x) => a <= b
         /\ busy' = busy \/ ~Told(d, x) => q <= o
    <2>1. RealAt(x)' \subseteq RealAt(x) \cup {Made(d)} /\ ToldAt(x)' \subseteq ToldAt(x) \cup {Made(d)}
      BY <1>2 DEF RealAt, ToldAt
    <2>2. busy' = busy \/ ~Real(d, x) => RealAt(x)' \subseteq RealAt(x)
      BY <1>2, <1>3 DEF RealAt
    <2>3. busy' = busy \/ ~Told(d, x) => ToldAt(x)' \subseteq ToldAt(x)
      BY <1>2, <1>3 DEF ToldAt
    <2>4. IsFiniteSet(RealAt(x)) /\ IsFiniteSet(ToldAt(x))
      BY Finite
    <2>5. a \in Nat /\ a <= b + 1 /\ q \in Nat /\ q <= o + 1
      BY <2>1, <2>4, OneMore
    <2>6. busy' = busy \/ ~Real(d, x) => a <= b
      BY <2>2, <2>4, Fewer
    <2>7. busy' = busy \/ ~Told(d, x) => q <= o
      BY <2>3, <2>4, Fewer
    <2> QED BY <2>5, <2>6, <2>7
  <1>12. busy' # busy /\ Real(d, x) => j + 1 <= i \/ (l = k + 1 /\ ~Told(d, x))
    <2> SUFFICES ASSUME busy' # busy, Real(d, x) PROVE j + 1 <= i \/ (l = k + 1 /\ ~Told(d, x))
      OBVIOUS
    <2>1. ~Told(d, x) /\ d.m = x
      BY DEF Real, Told
    <2>2. ~Marked(d)
      BY <1>2, <1>9 DEF Marked
    <2>3. d \in RealIn(x)
      BY <2>2 DEF RealIn
    <2>4. l = k + 1 \/ d \notin RealIn(x)'
      BY <1>2, <1>8 DEF RealIn
    <2>5. d \notin RealIn(x)' => j + 1 <= i
      <3>1. d \notin RealIn(x)' => RealIn(x)' \subseteq RealIn(x) \ {d}
        BY <1>7
      <3> QED BY <2>3, <3>1, Finite, OneLess
    <2> QED BY <2>1, <2>4, <2>5
  <1>13. busy' # busy /\ Told(d, x) => u + 1 <= t \/ (l = k + 1 /\ ~Real(d, x))
    <2> SUFFICES ASSUME busy' # busy, Told(d, x) PROVE u + 1 <= t \/ (l = k + 1 /\ ~Real(d, x))
      OBVIOUS
    <2>1. ~Real(d, x) /\ ~Plexy(d)
      BY DEF Real, Told
    <2>2. d \in ToldIn(x)
      BY DEF ToldIn
    <2>3. l = k + 1 \/ ToldIn(x)' \subseteq ToldIn(x) \ {d}
      BY <1>2, <2>1 DEF ToldIn
    <2> QED BY <2>1, <2>2, <2>3, Finite, OneLess
  <1>14. j + a + k <= i + b + l /\ j + a + u + q + k <= i + b + t + o + l
    <2>1. k \in Nat /\ l \in Nat /\ (l = k \/ l = k + 1)
      BY <1>2
    <2>2. ~(Real(d, x) /\ Told(d, x))
      BY DEF Real, Told
    <2> HIDE DEF i, j, b, a, t, u, o, q, k, l
    <2>3. CASE busy' = busy
      BY <1>10, <1>11, <2>1, <2>3
    <2>4. CASE busy' # busy /\ Real(d, x)
      BY <1>10, <1>11, <1>12, <2>1, <2>2, <2>4
    <2>5. CASE busy' # busy /\ Told(d, x)
      BY <1>10, <1>11, <1>13, <2>1, <2>2, <2>5
    <2>6. CASE busy' # busy /\ ~Real(d, x) /\ ~Told(d, x)
      BY <1>10, <1>11, <2>1, <2>6
    <2> QED BY <2>3, <2>4, <2>5, <2>6
  <1> DEFINE s == sent[x] + Cardinality(Past90(x))
             c == Cardinality(Called(x))
             y == genuine[x] + expired[x] + eaten[x]
             z == crashes * Cardinality(Conn)
             n == Len(tokens[x])
  <1>15. s \in Nat /\ c \in Nat /\ y \in Nat /\ z \in Nat /\ n \in Nat /\ k \in Nat /\ l \in Nat
    <2>1. z \in Nat
      BY Numbers
    <2>2. s \in Nat /\ y \in Nat
      <3>1. /\ sent[x] \in Nat /\ Cardinality(Past90(x)) \in Nat
            /\ genuine[x] \in Nat /\ expired[x] \in Nat /\ eaten[x] \in Nat
        BY Numbers
      <3> QED BY <3>1
    <2>3. c \in Nat /\ n \in Nat /\ k \in Nat /\ l \in Nat
      BY <1>2, Numbers
    <2> QED BY <2>1, <2>2, <2>3
  <1>16. Owed(x) = s + i + b /\ Owed(x)' = s + j + a
    BY <1>1, <1>4 DEF Owed
  <1>17. MayEcho(x) = t + o + c /\ MayEcho(x)' = u + q + c
    BY <1>4 DEF MayEcho
  <1>18. Due(x) = y + k + z /\ Due(x)' = y + l + z
    BY <1>1 DEF Due
  <1>19. tokens'[x] = tokens[x]
    BY <1>1
  <1> HIDE DEF i, j, b, a, t, u, o, q, k, l, s, c, y, z, n
  <1>20. Owed(x)' + Due(x) <= Owed(x) + Due(x)'
    BY <1>10, <1>11, <1>14, <1>15, <1>16, <1>18
  <1>21. Owed(x)' + MayEcho(x)' + Due(x) + n <= Owed(x) + MayEcho(x) + Due(x)' + n
    BY <1>10, <1>11, <1>14, <1>15, <1>16, <1>17, <1>18
  <1> QED BY <1>19, <1>20, <1>21, FairKept DEF n

-----------------------------------------------------------------------------
(* What a handler tells the services, and the tokens it spends.            *)

(* A scrobble is made for a report that counts as a play.                  *)
Tells(h) == sent' = sent \/ (Real(h.d, h.d.m) /\ sent' = Bump(sent, h.d.m, 1))
Spends(h) == \E y \in Media : NoWrite \/ WriteProgress(y) \/ (h.d.ev # "played" /\ WriteCompleted(h, y))
Settles(h) ==
    \/ Tells(h) /\ Spends(h) /\ NoPush
    \/ sent' = sent /\ \E but : PushWatchState(h.d.m, FALSE, but) /\ UNCHANGED <<expired, eaten>>
    \/ /\ h.d.ev = "played" /\ ~Plexy(h.d) /\ KeepsWatched(h) /\ MarkedPlayed(h)

LEMMA SpendsWatch ==
    ASSUME NEW h, h.d.ev # "played", NEW m \in Media, NEW pos,
           WriteWatch(h, m, pos) \/ NoWrite \/ WriteCompleted(h, m)
    PROVE  Spends(h)
  BY DEF Spends, WriteWatch

(* A stop that is scrobbled says itself that the playback went past 90%.    *)
LEMMA StopReal ==
    ASSUME TypeOK, WInv, NEW h \in busy, h.d.ev = "stop", StopPosition(h) = 2
    PROVE  Real(h.d, h.d.m)
  <1>1. h.d.conn \in Conn /\ h.d.pos \in Position /\ h.d \in UnderWay(h.d.conn)
    BY HandlerType DEF UnderWay
  <1>2. OneStop(h.d.conn) /\ EndsTrue(h.d.conn)
    BY <1>1 DEF WInv
  <1>3. watching[h.d.conn[1]] = None
    BY <1>1, <1>2 DEF OneStop
  <1>4. CASE ~h.d.ended /\ h.d.pos = 0
    <2>1. h.row # None /\ h.row.pos = 2
      BY <1>4 DEF StopPosition
    <2>2. SeesEnd(h.d.conn)
      BY <2>1 DEF SeesEnd
    <2>3. h.d.ended
      BY <1>1, <1>2, <1>3, <2>2 DEF EndsTrue
    <2> QED BY <1>4, <2>3
  <1>5. CASE h.d.ended \/ h.d.pos # 0
    BY <1>5 DEF StopPosition, Real
  <1> QED BY <1>4, <1>5

LEMMA StopTells ==
    ASSUME TypeOK, WInv, NEW h \in busy,
           h.d.ev = "stop" \/ (h.d.ev = "library" /\ ~Plexy(h.d)),
           Scrobble(h, h.d.m, StopPosition(h))
    PROVE  Tells(h)
  <1>1. StopPosition(h) = 2 => Real(h.d, h.d.m)
    BY StopReal DEF Real
  <1> QED BY <1>1 DEF Scrobble, Heard, Tells

LEMMA StopSettles ==
    ASSUME TypeOK, WInv, NEW h \in busy,
           h.d.ev = "stop" \/ (h.d.ev = "library" /\ ~Plexy(h.d)), StopSession(h)
    PROVE  Settles(h)
  <1>1. h.d.m \in Media /\ h.d.ev # "played"
    BY HandlerType
  <1>2. Tells(h)
    BY StopTells DEF StopSession
  <1>3. Spends(h)
    BY <1>1, SpendsWatch DEF StopSession
  <1> QED BY <1>2, <1>3 DEF Settles, StopSession

LEMMA QuietSettles ==
    ASSUME TypeOK, NEW h \in busy, Quietly
    PROVE  Settles(h)
  <1>1. h.d.m \in Media
    BY HandlerType
  <1> QED BY <1>1 DEF Quietly, Settles, Tells, Spends

LEMMA OpeningSettles ==
    ASSUME TypeOK, NEW h \in busy, NEW moves,
           \/ StartSession(h, moves) \/ ProgressSession(h, moves)
           \/ KnownPosition(h) \/ PauseFound(h) \/ Ignored(h)
    PROVE  Settles(h)
  <1>1. Quietly
    BY DEF StartSession, ProgressSession, KnownPosition, PauseFound, Ignored
  <1> QED BY <1>1, QuietSettles

LEMMA PlaybackSettles ==
    ASSUME TypeOK, WInv, NEW h \in busy,
           \/ JellyfinPlayback(h) \/ EmbyPlayback(h) \/ SidePlayback(h)
           \/ PlexPlay(h) \/ PlexPause(h) \/ KodiSession(h) \/ KodiStop(h)
    PROVE  Settles(h)
  <1> DEFINE opening(moves) ==
               \/ StartSession(h, moves) \/ ProgressSession(h, moves)
               \/ KnownPosition(h) \/ PauseFound(h) \/ Ignored(h)
             ends == (h.d.ev = "stop" \/ (h.d.ev = "library" /\ ~Plexy(h.d))) /\ StopSession(h)
  <1>1. JellyfinPlayback(h) => opening(TRUE) \/ ends
    BY DEF JellyfinPlayback, Is
  <1>2. EmbyPlayback(h) => opening(FALSE) \/ ends
    BY DEF EmbyPlayback, Is
  <1>3. SidePlayback(h) => opening(FALSE) \/ ends
    BY DEF SidePlayback, Is
  <1>4. PlexPlay(h) \/ PlexPause(h) \/ KodiSession(h) => opening(FALSE)
    BY DEF PlexPlay, PlexPause, KodiSession
  <1>5. KodiStop(h) => opening(FALSE) \/ ends
    <2>1. KodiStop(h) => ~Plexy(h.d) /\ h.d.ev \in {"stop", "library"}
      BY DEF KodiStop, Is, Plexy
    <2>2. KodiStop(h) => Ignored(h) \/ StopSession(h)
      BY DEF KodiStop
    <2> QED BY <2>1, <2>2
  <1> HIDE DEF opening, ends
  <1>6. opening(TRUE) \/ opening(FALSE) \/ ends
    BY <1>1, <1>2, <1>3, <1>4, <1>5
  <1> USE DEF opening, ends
  <1>7. CASE opening(TRUE) \/ opening(FALSE)
    BY <1>7, OpeningSettles
  <1>8. CASE ends
    BY <1>8, StopSettles
  <1> QED BY <1>6, <1>7, <1>8

LEMMA TogglesSettle ==
    ASSUME TypeOK, NEW h \in busy, JellyfinToggles(h) \/ EmbyToggles(h) \/ SideToggles(h)
    PROVE  Settles(h)
  <1>1. h.d.m \in Media
    BY HandlerType
  <1>2. ~Plexy(h.d)
    BY DEF JellyfinToggles, EmbyToggles, SideToggles, Is, Plexy
  <1>3. CASE \E but : UnwatchToggle(h, but)
    <2>1. CASE KeepsWatched(h) /\ events[h.d.m] # {}
      BY <1>3, <2>1 DEF UnwatchToggle, Settles
    <2>2. CASE ~(KeepsWatched(h) /\ events[h.d.m] # {})
      <3>1. Quietly
        BY <1>3, <2>2 DEF UnwatchToggle, Quietly, NoWrite, NoPush
      <3> QED BY <3>1, QuietSettles
    <2> QED BY <2>1, <2>2
  <1>4. CASE Ignored(h)
    BY <1>4, QuietSettles DEF Ignored
  <1>5. CASE /\ h.d.ev = "played" /\ MarkedPlayed(h)
             /\ Kind[h.d.conn[1]] = "emby" \/ KeepsWatched(h)
    <2>1. CASE KeepsWatched(h)
      BY <1>2, <1>5, <2>1 DEF Settles
    <2>2. CASE ~KeepsWatched(h)
      <3>1. NoWrite /\ NoPush /\ Scrobble(h, h.d.m, 2)
        BY <1>5, <2>2 DEF MarkedPlayed
      <3>2. Real(h.d, h.d.m)
        BY <1>5, <2>2 DEF Real, KeepsWatched
      <3> QED BY <1>1, <3>1, <3>2 DEF Scrobble, Heard, Tells, Spends, Settles
    <2> QED BY <2>1, <2>2
  <1>6. JellyfinToggles(h) => \/ \E but : UnwatchToggle(h, but)
                              \/ Ignored(h)
                              \/ h.d.ev = "played" /\ MarkedPlayed(h) /\ KeepsWatched(h)
    BY DEF JellyfinToggles, Is
  <1>7. EmbyToggles(h) => \/ \E but : UnwatchToggle(h, but)
                          \/ h.d.ev = "played" /\ MarkedPlayed(h) /\ Kind[h.d.conn[1]] = "emby"
    BY DEF EmbyToggles, Is
  <1>8. SideToggles(h) => \/ \E but : UnwatchToggle(h, but)
                          \/ Ignored(h)
                          \/ /\ h.d.ev = "played" /\ MarkedPlayed(h)
                             /\ Kind[h.d.conn[1]] = "emby" \/ KeepsWatched(h)
    BY DEF SideToggles, Is
  <1> QED BY <1>3, <1>4, <1>5, <1>6, <1>7, <1>8

LEMMA PlexSettles ==
    ASSUME TypeOK, WInv, NEW h \in busy, PlexStop(h) \/ PlexScrobble(h) \/ PlexSide(h)
    PROVE  Settles(h)
  <1>1. h.d.m \in Media /\ (h.row # None => h.row.m \in Media)
    BY HandlerType
  <1>2. CASE PlexStop(h)
    <2> DEFINE m == IF h.row # None THEN h.row.m ELSE h.d.m
    <2>1. m \in Media
      BY <1>1
    <2>2. h.d.ev = "stop" /\ NoPush /\ Scrobble(h, h.d.m, StopPosition(h))
          /\ (WriteWatch(h, m, StopPosition(h)) \/ NoWrite)
      BY <1>2 DEF PlexStop, Is
    <2> HIDE DEF m
    <2>3. Tells(h)
      BY <2>2, StopTells
    <2>4. Spends(h)
      BY <2>1, <2>2, SpendsWatch
    <2> QED BY <2>2, <2>3, <2>4 DEF Settles
  <1>3. CASE PlexScrobble(h)
    <2>1. h.d.ev = "scrobble" /\ NoPush /\ sent' = sent /\ (WriteCompleted(h, h.d.m) \/ NoWrite)
      BY <1>3 DEF PlexScrobble, Is
    <2>2. Spends(h)
      BY <1>1, <2>1, SpendsWatch
    <2> QED BY <2>1, <2>2 DEF Settles, Tells
  <1>4. CASE PlexSide(h)
    <2>1. CASE KnownPosition(h) \/ ProgressSession(h, FALSE) \/ PauseFound(h)
      BY <2>1, OpeningSettles
    <2>2. CASE /\ h.d.ev = "stop" /\ NoPush /\ Scrobble(h, h.d.m, StopPosition(h))
               /\ WriteWatch(h, h.d.m, StopPosition(h)) \/ NoWrite
      <3>1. Tells(h)
        BY <2>2, StopTells
      <3>2. Spends(h)
        BY <1>1, <2>2, SpendsWatch
      <3> QED BY <2>2, <3>1, <3>2 DEF Settles
    <2>3. CASE h.d.ev = "scrobble" /\ NoPush /\ sent' = sent /\ (WriteCompleted(h, h.d.m) \/ NoWrite)
      <3>1. Spends(h)
        BY <1>1, <2>3, SpendsWatch
      <3> QED BY <2>3, <3>1 DEF Settles, Tells
    <2> QED BY <1>4, <2>1, <2>2, <2>3 DEF PlexSide, Is
  <1> QED BY <1>2, <1>3, <1>4

LEMMA FinishSettles ==
    ASSUME TypeOK, WInv, NEW h \in busy, Finish(h)
    PROVE  Settles(h)
  BY PlaybackSettles, TogglesSettle, PlexSettles DEF Finish

(* A token that a report of a play spends ran out, or hid that play.        *)
LEMMA SpentTokens ==
    ASSUME TypeOK, NEW h, NEW y \in Media, NEW x \in Media,
           NoWrite \/ WriteProgress(y) \/ (h.d.ev # "played" /\ WriteCompleted(h, y))
    PROVE  /\ expired[x] <= expired'[x] /\ eaten[x] <= eaten'[x]
           /\ expired'[x] + eaten'[x] + Len(tokens'[x]) = expired[x] + eaten[x] + Len(tokens[x])
  <1>1. expired \in Counts /\ eaten \in Counts /\ tokens \in [Media -> Seq(Time)]
    BY HistoryType
  <1>2. expired[x] \in Nat /\ eaten[x] \in Nat /\ Len(tokens[x]) \in Nat
    <2>1. tokens[x] \in Seq(Time)
      BY <1>1
    <2> QED BY <1>1, <2>1 DEF Counts
  <1>3. CASE NoWrite \/ WriteProgress(y)
    <2>1. UNCHANGED <<tokens, expired, eaten>>
      BY <1>3 DEF NoWrite, WriteProgress
    <2> QED BY <1>2, <2>1
  <1>4. CASE h.d.ev # "played" /\ WriteCompleted(h, y)
    <2>1. /\ tokens' = Consume(y)
          /\ expired' = IF tokens[y] # <<>> /\ ~IsEcho(y) THEN Bump(expired, y, 1) ELSE expired
          /\ eaten' = IF IsEcho(y) THEN Bump(eaten, y, 1) ELSE eaten
          /\ IsEcho(y) => tokens[y] # <<>>
      BY <1>4 DEF WriteCompleted, IsEcho
    <2>2. CASE x # y
      <3>1. tokens'[x] = tokens[x]
        BY <1>1, <2>1, <2>2, ConsumeType
      <3>2. expired'[x] = expired[x] /\ eaten'[x] = eaten[x]
        BY <1>1, <2>1, <2>2, Counting
      <3> QED BY <1>2, <3>1, <3>2
    <2>3. CASE x = y /\ tokens[y] = <<>>
      <3>1. tokens' = tokens
        BY <2>1, <2>3 DEF Consume
      <3> QED BY <1>2, <2>1, <2>3, <3>1
    <2>4. CASE x = y /\ tokens[y] # <<>>
      <3>1. Len(tokens'[x]) + 1 = Len(tokens[x])
        BY <1>1, <2>1, <2>4, ConsumeType
      <3>2. Len(tokens'[x]) \in Nat
        BY <1>1, <2>1, <2>4, ConsumeType
      <3>3. \/ expired'[x] = expired[x] + 1 /\ eaten'[x] = eaten[x]
            \/ expired'[x] = expired[x] /\ eaten'[x] = eaten[x] + 1
        BY <1>1, <2>1, <2>4, Counting
      <3> QED BY <1>2, <3>1, <3>2, <3>3
    <2> QED BY <2>2, <2>3, <2>4
  <1> QED BY <1>3, <1>4

(* A handler has done: what it owed is told.                               *)
LEMMA FinishFair ==
    ASSUME TypeOK, TypeOK', IsFiniteSet(calls), IsFiniteSet(calls'), WInv,
           NEW x \in Media, Fair(x), NEW h \in busy, Finish(h)
    PROVE  Fair(x)'
  <1>1. Settles(h) /\ Done(h)
    BY FinishSettles, FinishEffect DEF Effect
  <1>2. UNCHANGED <<now, recent, inbox, watching, again, crashes, genuine>> /\ busy' = busy \ {h}
    BY <1>1 DEF Done, server, bounds
  <1>3. Past90(x)' = Past90(x) /\ RealIn(x)' = RealIn(x) /\ ToldIn(x)' = ToldIn(x)
    BY <1>2 DEF Past90, RealIn, ToldIn, Marked
  <1>4. RealAt(x)' = RealAt(x) \ {h} /\ ToldAt(x)' = ToldAt(x) \ {h}
    BY <1>2 DEF RealAt, ToldAt
  <1>5. h.d.m \in Media
    BY HandlerType
  <1>6. Called(x)' \subseteq Called(x) /\ (calls' = calls => Called(x)' = Called(x))
    <2>1. CASE NoPush
      BY <2>1 DEF NoPush, Called
    <2>2. CASE \E but : PushWatchState(h.d.m, FALSE, but)
      <3> DEFINE no == FALSE
      <3>1. PICK but : PushWatchState(h.d.m, no, but)
        BY <2>2
      <3> HIDE DEF no
      <3>2. \A c \in calls' : c \in calls \/ c.w = no
        BY <3>1, PushCalls
      <3> QED BY <3>2 DEF Called, no
    <2>3. CASE MarkedPlayed(h)
      BY <2>3 DEF MarkedPlayed, NoPush, Called
    <2> QED BY <1>1, <2>1, <2>2, <2>3 DEF Settles
  <1> DEFINE a == Cardinality(RealAt(x))
             b == Cardinality(RealAt(x)')
             o == Cardinality(ToldAt(x))
             q == Cardinality(ToldAt(x)')
             c == Cardinality(Called(x))
             d == Cardinality(Called(x)')
             s == sent[x]
             z == sent'[x]
             e == expired[x] + eaten[x]
             f == expired'[x] + eaten'[x]
             t == Len(tokens[x])
             u == Len(tokens'[x])
             r == Cardinality(Past90(x)) + Cardinality(RealIn(x))
             i == Cardinality(ToldIn(x))
             y == genuine[x] + again
             k == crashes * Cardinality(Conn)
  <1>7. /\ a \in Nat /\ b \in Nat /\ b <= a
        /\ o \in Nat /\ q \in Nat /\ q <= o
        /\ c \in Nat /\ d \in Nat /\ d <= c
    BY <1>4, <1>6, Finite, Fewer
  <1>8. (h \in RealAt(x) => b + 1 <= a) /\ (h \in ToldAt(x) => q + 1 <= o)
    BY <1>4, Finite, OneLess
  <1>9. s \in Nat /\ e \in Nat /\ t \in Nat /\ r \in Nat /\ i \in Nat /\ y \in Nat /\ k \in Nat
    <2>1. /\ expired[x] \in Nat /\ eaten[x] \in Nat /\ genuine[x] \in Nat /\ again \in Nat
          /\ Cardinality(Past90(x)) \in Nat /\ Cardinality(RealIn(x)) \in Nat
      BY Numbers
    <2>2. e \in Nat /\ r \in Nat /\ y \in Nat
      BY <2>1
    <2>3. s \in Nat /\ t \in Nat /\ i \in Nat /\ k \in Nat
      BY Numbers
    <2> QED BY <2>2, <2>3
  <1>10. z \in Nat /\ f \in Nat /\ u \in Nat
    <2>1. sent' \in Counts /\ expired' \in Counts /\ eaten' \in Counts
      BY DEF TypeOK, Counts
    <2>2. expired'[x] \in Nat /\ eaten'[x] \in Nat /\ sent'[x] \in Nat
      BY <2>1 DEF Counts
    <2>3. u \in Nat
      BY NumbersNext
    <2> QED BY <2>2, <2>3
  <1>11. Owed(x) = s + r + a /\ Owed(x)' = z + r + b
    <2>1. /\ s \in Nat /\ Cardinality(Past90(x)) \in Nat /\ Cardinality(RealIn(x)) \in Nat
      BY Numbers
    <2>2. Owed(x) = s + Cardinality(Past90(x)) + Cardinality(RealIn(x)) + a
      BY DEF Owed
    <2>3. Owed(x)' = z + Cardinality(Past90(x)) + Cardinality(RealIn(x)) + b
      BY <1>3 DEF Owed
    <2> HIDE DEF s, z, a, b
    <2> QED BY <1>7, <1>10, <2>1, <2>2, <2>3
  <1>12. MayEcho(x) = i + o + c /\ MayEcho(x)' = i + q + d
    BY <1>3 DEF MayEcho
  <1>13. Due(x) = y + e + k /\ Due(x)' = y + f + k
    <2>1. /\ genuine[x] \in Nat /\ again \in Nat /\ expired[x] \in Nat /\ eaten[x] \in Nat /\ k \in Nat
      BY Numbers
    <2>2. expired'[x] \in Nat /\ eaten'[x] \in Nat
      BY DEF TypeOK
    <2>3. Due(x) = genuine[x] + expired[x] + eaten[x] + again + k
      BY DEF Due
    <2>4. Due(x)' = genuine[x] + expired'[x] + eaten'[x] + again + k
      BY <1>2 DEF Due
    <2> HIDE DEF k
    <2> QED BY <2>1, <2>2, <2>3, <2>4
  <1>14. sent \in Counts
    BY HistoryType
  <1>15. CASE Tells(h) /\ Spends(h) /\ NoPush
    <2>1. e <= f /\ f + u = e + t
      <3>1. PICK w \in Media : NoWrite \/ WriteProgress(w) \/ (h.d.ev # "played" /\ WriteCompleted(h, w))
        BY <1>15 DEF Spends
      <3>2. /\ expired[x] <= expired'[x] /\ eaten[x] <= eaten'[x]
            /\ expired'[x] + eaten'[x] + Len(tokens'[x]) = expired[x] + eaten[x] + Len(tokens[x])
        BY <3>1, SpentTokens
      <3>3. expired[x] \in Nat /\ eaten[x] \in Nat /\ expired'[x] \in Nat /\ eaten'[x] \in Nat
        BY DEF TypeOK
      <3> QED BY <3>2, <3>3
    <2>2. z + b <= s + a
      <3>1. CASE z = s
        <4> HIDE DEF z, s, a, b
        <4> QED BY <1>7, <1>9, <3>1
      <3>2. CASE z # s
        <4>1. Real(h.d, h.d.m) /\ sent' = Bump(sent, h.d.m, 1)
          BY <1>15, <3>2 DEF Tells
        <4>2. x = h.d.m /\ z = s + 1
          BY <1>5, <1>14, <3>2, <4>1, Counting
        <4>3. h \in RealAt(x)
          BY <4>1, <4>2 DEF RealAt
        <4> HIDE DEF z, s, a, b
        <4> QED BY <1>7, <1>8, <1>9, <4>2, <4>3
      <3> QED BY <3>1, <3>2
    <2> HIDE DEF a, b, o, q, c, d, s, z, e, f, t, u, r, i, y, k
    <2>3. Owed(x)' + Due(x) <= Owed(x) + Due(x)'
      BY <1>7, <1>9, <1>10, <1>11, <1>13, <2>1, <2>2
    <2>4. Owed(x)' + MayEcho(x)' + Due(x) + t <= Owed(x) + MayEcho(x) + Due(x)' + u
      BY <1>7, <1>9, <1>10, <1>11, <1>12, <1>13, <2>1, <2>2
    <2> QED BY <2>3, <2>4, FairKept DEF t, u
  <1>16. CASE sent' = sent /\ \E but : PushWatchState(h.d.m, FALSE, but) /\ UNCHANGED <<expired, eaten>>
    <2>1. z = s /\ e = f
      BY <1>16
    <2>2. u = t
      BY <1>16, PushesUnwatch
    <2> HIDE DEF a, b, o, q, c, d, s, z, e, f, t, u, r, i, y, k
    <2>3. Owed(x)' + Due(x) <= Owed(x) + Due(x)'
      BY <1>7, <1>9, <1>10, <1>11, <1>13, <2>1
    <2>4. Owed(x)' + MayEcho(x)' + Due(x) + t <= Owed(x) + MayEcho(x) + Due(x)' + u
      BY <1>7, <1>9, <1>10, <1>11, <1>12, <1>13, <2>1, <2>2
    <2> QED BY <2>3, <2>4, FairKept DEF t, u
  <1>17. CASE h.d.ev = "played" /\ ~Plexy(h.d) /\ KeepsWatched(h) /\ MarkedPlayed(h)
    <2> DEFINE m == h.d.m
    <2>1. /\ WriteCompleted(h, m)
          /\ sent' = sent \/ (~IsEcho(m) /\ sent' = Bump(sent, m, 1))
      BY <1>17 DEF MarkedPlayed, Scrobble, Heard
    <2>2. /\ tokens' = Consume(m) /\ eaten' = eaten
          /\ expired' = IF tokens[m] # <<>> /\ ~IsEcho(m) THEN Bump(expired, m, 1) ELSE expired
          /\ IsEcho(m) => tokens[m] # <<>>
      BY <1>17, <2>1 DEF WriteCompleted, IsEcho
    <2>3. tokens \in [Media -> Seq(Time)] /\ expired \in Counts
      BY HistoryType
    <2>4. CASE x # m
      <3>1. z = s
        BY <1>5, <1>14, <2>1, <2>4, Counting
      <3>2. t = u
        BY <1>5, <2>2, <2>3, <2>4, ConsumeType
      <3>3. e = f
        BY <1>5, <2>2, <2>3, <2>4, Counting
      <3> HIDE DEF a, b, o, q, c, d, s, z, e, f, t, u, r, i, y, k
      <3>4. Owed(x)' + Due(x) <= Owed(x) + Due(x)'
        BY <1>7, <1>9, <1>10, <1>11, <1>13, <3>1, <3>3
      <3>5. Owed(x)' + MayEcho(x)' + Due(x) + t <= Owed(x) + MayEcho(x) + Due(x)' + u
        BY <1>7, <1>9, <1>10, <1>11, <1>12, <1>13, <3>1, <3>2, <3>3
      <3> QED BY <3>4, <3>5, FairKept DEF t, u
    <2>5. CASE x = m
      <3>1. h \in ToldAt(x)
        BY <1>17, <2>5 DEF ToldAt, Told, KeepsWatched
      <3>2. q + 1 <= o
        BY <1>8, <3>1
      <3>3. z = s \/ (z = s + 1 /\ ~IsEcho(x))
        BY <1>5, <1>14, <2>1, <2>5, Counting
      <3>4. CASE tokens[x] = <<>>
        <4>1. u = t /\ t = 0
          BY <2>2, <2>5, <3>4 DEF Consume
        <4>2. f = e
          BY <2>2, <2>5, <3>4
        <4> DEFINE g == Owed(x)
                   l == Owed(x)'
                   v == MayEcho(x)
                   w == MayEcho(x)'
                   n == Due(x)
                   p == Due(x)'
        <4>3. g <= n /\ g + v <= n + t
          BY DEF Fair
        <4>4. g = s + r + a /\ l = z + r + b /\ v = i + o + c /\ w = i + q + d /\ n = y + e + k /\ p = y + f + k
          BY <1>11, <1>12, <1>13
        <4>5. l <= p /\ l + w <= p + u
          <5> HIDE DEF a, b, o, q, c, d, s, z, e, f, t, u, r, i, y, k, g, l, v, w, n, p
          <5>1. z <= s + 1
            BY <1>9, <3>3
          <5> QED BY <1>7, <1>9, <1>10, <3>2, <4>1, <4>2, <4>3, <4>4, <5>1
        <4> QED BY <4>5 DEF Fair
      <3>5. CASE tokens[x] # <<>>
        <4>1. u + 1 = t
          BY <1>5, <2>2, <2>3, <2>5, <3>5, ConsumeType
        <4>2. CASE IsEcho(x)
          <5>1. z = s
            BY <3>3, <4>2
          <5>2. e = f
            BY <2>2, <2>5, <4>2
          <5> HIDE DEF a, b, o, q, c, d, s, z, e, f, t, u, r, i, y, k
          <5>3. Owed(x)' + Due(x) <= Owed(x) + Due(x)'
            BY <1>7, <1>9, <1>10, <1>11, <1>13, <5>1, <5>2
          <5>4. Owed(x)' + MayEcho(x)' + Due(x) + t <= Owed(x) + MayEcho(x) + Due(x)' + u
            BY <1>7, <1>9, <1>10, <1>11, <1>12, <1>13, <3>2, <4>1, <5>1, <5>2
          <5> QED BY <5>3, <5>4, FairKept DEF t, u
        <4>3. CASE ~IsEcho(x)
          <5>1. f = e + 1
            <6>1. expired' = Bump(expired, x, 1)
              BY <2>2, <2>5, <3>5, <4>3
            <6>2. expired'[x] = expired[x] + 1 /\ eaten'[x] = eaten[x]
              BY <2>2, <2>3, <6>1, Counting
            <6>3. expired[x] \in Nat /\ eaten[x] \in Nat
              BY Numbers
            <6> QED BY <6>2, <6>3
          <5> HIDE DEF a, b, o, q, c, d, s, z, e, f, t, u, r, i, y, k
          <5>2. z <= s + 1
            BY <1>9, <3>3
          <5>3. Owed(x)' + Due(x) <= Owed(x) + Due(x)'
            BY <1>7, <1>9, <1>10, <1>11, <1>13, <5>1, <5>2
          <5>4. Owed(x)' + MayEcho(x)' + Due(x) + t <= Owed(x) + MayEcho(x) + Due(x)' + u
            BY <1>7, <1>9, <1>10, <1>11, <1>12, <1>13, <3>2, <4>1, <5>1, <5>2
          <5> QED BY <5>3, <5>4, FairKept DEF t, u
        <4> QED BY <4>2, <4>3
      <3> QED BY <3>4, <3>5
    <2> QED BY <2>4, <2>5
  <1> QED BY <1>1, <1>15, <1>16, <1>17 DEF Settles

(* A crash loses tokens and what handlers had to tell.  It also forgets the *)
(* stops of Plex that were taken up, one for each connection at the most.   *)
LEMMA CrashFair ==
    ASSUME TypeOK, TypeOK', IsFiniteSet(calls), IsFiniteSet(calls'), WInv,
           NEW x \in Media, Fair(x), Crash
    PROVE  Fair(x)'
  <1>1. /\ UNCHANGED <<sent, watching, genuine, eaten, again>>
        /\ crashes' = crashes + 1 /\ expired'[x] = expired[x] + Len(tokens[x]) /\ tokens'[x] = <<>>
        /\ recent' = {} /\ busy' = {} /\ calls' = {} /\ (inbox' = inbox \/ inbox' = {})
    BY DEF Crash, server
  <1> DEFINE N == {d \in inbox : d.ev = "stop"}
             K == Cardinality(Conn)
  <1>2. K \in Nat /\ IsFiniteSet(N) /\ Cardinality(N) \in Nat /\ Cardinality(N) <= K
    <2>1. IsFiniteSet(Conn) /\ K \in Nat
      BY ConnFinite, FS_CardinalityType
    <2> DEFINE f == [d \in N |-> d.conn]
    <2>2. \A d \in N : d.conn \in Conn
      BY DEF TypeOK, Report
    <2>3. \A d, e \in N : d.conn = e.conn => d = e
      BY <2>2 DEF WInv, OneStop
    <2>4. f \in Injection(N, Conn)
      BY <2>2, <2>3 DEF Injection, IsInjective
    <2>5. IsFiniteSet(N) /\ Cardinality(N) <= K
      <3> HIDE DEF f, N
      <3> QED BY <2>1, <2>4, FS_Injection
    <2> HIDE DEF N
    <2> QED BY <2>1, <2>5, FS_CardinalityType
  <1>3. /\ Past90(x)' = Past90(x) /\ RealAt(x)' = {} /\ ToldAt(x)' = {} /\ Called(x)' = {}
        /\ ToldIn(x)' \subseteq ToldIn(x)
    BY <1>1 DEF Past90, RealAt, ToldAt, Called, ToldIn
  <1>4. RealIn(x)' \subseteq RealIn(x) \cup N
    <2>1. \A d \in inbox : Real(d, x) /\ d \notin RealIn(x) => d \in N
      BY DEF RealIn, Marked, Real, Plexy
    <2> QED BY <1>1, <2>1 DEF RealIn
  <1> DEFINE j == Cardinality(RealIn(x)')
             i == Cardinality(RealIn(x))
             a == Cardinality(RealAt(x))
             o == Cardinality(ToldAt(x))
             c == Cardinality(Called(x))
             t == Cardinality(ToldIn(x))
             u == Cardinality(ToldIn(x)')
             s == sent[x] + Cardinality(Past90(x))
             y == genuine[x] + expired[x] + eaten[x] + again
             k == crashes * K
             l == crashes' * K
             n == Len(tokens[x])
  <1>5. j \in Nat /\ i \in Nat /\ j <= i + K
    <2>1. IsFiniteSet(RealIn(x)) /\ i \in Nat
      BY Finite, FS_CardinalityType
    <2> DEFINE A == RealIn(x)
               B == RealIn(x)'
    <2>2. B \subseteq A \cup N
      BY <1>4
    <2> HIDE DEF A, B, N
    <2>3. /\ IsFiniteSet(A \cup N) /\ IsFiniteSet(A \cap N)
          /\ Cardinality(A \cup N) = Cardinality(A) + Cardinality(N) - Cardinality(A \cap N)
      BY <1>2, <2>1, FS_Union, FS_Intersection DEF A
    <2>4. Cardinality(A \cap N) \in Nat
      BY <2>3, FS_CardinalityType
    <2>5. Cardinality(B) \in Nat /\ Cardinality(B) <= Cardinality(A \cup N)
      BY <2>2, <2>3, Fewer
    <2>6. Cardinality(A) \in Nat
      BY <2>1 DEF A
    <2>7. Cardinality(B) <= Cardinality(A) + K
      <3> HIDE DEF K
      <3> QED BY <1>2, <2>3, <2>4, <2>5, <2>6
    <2> QED BY <2>5, <2>6, <2>7 DEF A, B
  <1>6. u \in Nat /\ t \in Nat /\ u <= t
    BY <1>3, Finite, Fewer
  <1>7. /\ a \in Nat /\ o \in Nat /\ c \in Nat /\ n \in Nat
        /\ sent[x] \in Nat /\ Cardinality(Past90(x)) \in Nat
        /\ genuine[x] \in Nat /\ expired[x] \in Nat /\ eaten[x] \in Nat /\ again \in Nat
    <2>1. a \in Nat /\ o \in Nat /\ c \in Nat /\ n \in Nat
      BY Numbers
    <2>2. sent[x] \in Nat /\ Cardinality(Past90(x)) \in Nat
      BY Numbers
    <2>3. genuine[x] \in Nat /\ expired[x] \in Nat /\ eaten[x] \in Nat /\ again \in Nat
      BY Numbers
    <2> QED BY <2>1, <2>2, <2>3
  <1>8. s \in Nat /\ y \in Nat
    <2> HIDE DEF a, o, c, n
    <2>1. s \in Nat
      BY <1>7
    <2>2. y \in Nat
      BY <1>7
    <2> QED BY <2>1, <2>2
  <1>9. k \in Nat /\ l \in Nat /\ l = k + K
    <2>1. crashes \in Nat /\ crashes' = crashes + 1
      BY <1>1, HistoryType
    <2> HIDE DEF K
    <2>2. k \in Nat
      BY <1>2, <2>1
    <2>3. l = (crashes + 1) * K
      BY <2>1
    <2>4. l = k + K
      BY <1>2, <2>1, <2>3
    <2> HIDE DEF k, l
    <2> QED BY <1>2, <2>2, <2>4
  <1>10. Owed(x) = s + i + a /\ Owed(x)' = s + j
    <2>1. Cardinality(RealAt(x)') = 0
      BY <1>3, FS_EmptySet
    <2>2. Owed(x)' = sent[x] + Cardinality(Past90(x)) + j + Cardinality(RealAt(x)')
      BY <1>1, <1>3 DEF Owed
    <2>3. Owed(x) = sent[x] + Cardinality(Past90(x)) + i + a
      BY DEF Owed
    <2> HIDE DEF i, j, a
    <2> QED BY <1>5, <1>7, <2>1, <2>2, <2>3
  <1>11. MayEcho(x) = t + o + c /\ MayEcho(x)' = u
    <2>1. Cardinality(ToldAt(x)') = 0 /\ Cardinality(Called(x)') = 0
      BY <1>3, FS_EmptySet
    <2>2. MayEcho(x)' = u + Cardinality(ToldAt(x)') + Cardinality(Called(x)')
      BY DEF MayEcho
    <2> HIDE DEF u
    <2>3. MayEcho(x)' = u
      BY <1>6, <2>1, <2>2
    <2> QED BY <2>3 DEF MayEcho
  <1>12. Due(x) = y + k /\ Due(x)' = y + n + l
    <2>1. Due(x) = genuine[x] + expired[x] + eaten[x] + again + k
      BY DEF Due
    <2>2. Due(x)' = genuine[x] + (expired[x] + n) + eaten[x] + again + l
      BY <1>1 DEF Due
    <2> HIDE DEF k, l, n
    <2> QED BY <1>7, <1>9, <2>1, <2>2
  <1>13. Len(tokens'[x]) = 0
    BY <1>1
  <1> HIDE DEF N, K, j, i, a, o, c, t, u, s, y, k, l, n
  <1>14. Owed(x)' + Due(x) <= Owed(x) + Due(x)'
    BY <1>2, <1>5, <1>7, <1>8, <1>9, <1>10, <1>12
  <1>15. Owed(x)' + MayEcho(x)' + Due(x) + n <= Owed(x) + MayEcho(x) + Due(x)' + Len(tokens'[x])
    BY <1>2, <1>5, <1>6, <1>7, <1>8, <1>9, <1>10, <1>11, <1>12, <1>13
  <1> QED BY <1>14, <1>15, FairKept DEF n

-----------------------------------------------------------------------------
(* Nothing leaves for an echo.                                             *)

EInv == BInv /\ WInv /\ \A m \in Media : Fair(m)

LEMMA EInvStart == Init => EInv
  <1> SUFFICES ASSUME Init PROVE EInv
    OBVIOUS
  <1>1. BInv /\ WInv
    BY BInvInit, WayStart
  <1>2. ASSUME NEW m \in Media PROVE Fair(m)
    <2>1. /\ Past90(m) = {} /\ RealIn(m) = {} /\ RealAt(m) = {}
          /\ ToldIn(m) = {} /\ ToldAt(m) = {} /\ Called(m) = {}
      BY DEF Init, Past90, RealIn, RealAt, ToldIn, ToldAt, Called
    <2>2. /\ sent[m] = 0 /\ genuine[m] = 0 /\ expired[m] = 0 /\ eaten[m] = 0
          /\ again = 0 /\ crashes = 0 /\ Len(tokens[m]) = 0
      BY DEF Init, Zero
    <2>3. Cardinality({}) = 0 /\ 0 * Cardinality(Conn) = 0
      BY ConnFinite, FS_EmptySet, FS_CardinalityType
    <2>4. Owed(m) = 0 /\ MayEcho(m) = 0
      BY <2>1, <2>2, <2>3 DEF Owed, MayEcho
    <2>5. Due(m) = 0
      BY <2>2, <2>3 DEF Due
    <2> QED BY <2>2, <2>4, <2>5 DEF Fair
  <1> QED BY <1>1, <1>2 DEF EInv

LEMMA FairStep ==
    ASSUME InTurn, OneConnection, EchoesKept, AnsweredInTime, EInv, [Next]_vars, BInv', WInv',
           NEW x \in Media
    PROVE  Fair(x)'
  <1>1. TypeOK /\ TypeOK' /\ WInv /\ Fair(x) /\ Timely
    BY DEF EInv, BInv, HInv, WInv
  <1>2. IsFiniteSet(calls) /\ IsFiniteSet(calls')
    BY DEF EInv, WInv
  <1>3. ASSUME NEW s \in Server, NEW m \in Media, Play(s, m) PROVE Fair(x)'
    BY <1>1, <1>2, <1>3, PlayFair
  <1>4. ASSUME NEW s \in Server, NEW m \in Media, NEW w \in BOOLEAN, Toggle(s, m, w) PROVE Fair(x)'
    BY <1>1, <1>2, <1>4, ToggleFair
  <1>5. ASSUME NEW s \in Server, NEW m \in Media, PushWatchedForNewItem(s, m) PROVE Fair(x)'
    BY <1>1, <1>2, <1>5, MarksFair
  <1>6. ASSUME NEW s \in Server, Advance(s) PROVE Fair(x)'
    BY <1>1, <1>2, <1>6, AdvanceFair
  <1>7. ASSUME NEW s \in Server, Pause(s) \/ Resume(s) PROVE Fair(x)'
    BY <1>1, <1>2, <1>7, PausesFair
  <1>8. ASSUME NEW s \in Server, StopPlaying(s) PROVE Fair(x)'
    BY <1>1, <1>2, <1>8, StopPlayingFair
  <1>9. ASSUME NEW m \in Media, UnwatchItem(m) \/ \E force \in BOOLEAN : MarkAsWatched(m, force)
        PROVE  Fair(x)'
    BY <1>1, <1>2, <1>9, MarksFair
  <1>10. CASE UNCHANGED <<inbox, busy, recent, calls, watching, tokens, sent, expired, eaten, genuine,
                          again, crashes>>
    <2>1. /\ Past90(x)' = Past90(x) /\ RealIn(x)' = RealIn(x)
          /\ ToldIn(x)' = ToldIn(x) /\ Called(x)' = Called(x)
      BY <1>10 DEF Past90, RealIn, ToldIn, Called, Marked
    <2> QED BY <1>1, <1>2, <1>10, <2>1, FairQuiet
  <1>11. CASE ClearSessions \/ Tick \/ (\E s \in Server : EmbyPoll(s)) \/ UNCHANGED vars
    <2>1. UNCHANGED <<inbox, busy, recent, calls, watching, tokens, sent, expired, eaten, genuine,
                      again, crashes>>
      BY <1>11 DEF ClearSessions, Tick, EmbyPoll, vars, server, bounds, history
    <2> QED BY <1>10, <2>1
  <1>12. CASE UserActs
    BY <1>3, <1>4, <1>5, <1>6, <1>7, <1>8, <1>9, <1>11, <1>12 DEF UserActs
  <1>13. CASE Answer
    <2>1. ASSUME NEW c \in calls, ServerCall(c) PROVE Fair(x)'
      BY <1>1, <1>2, <2>1, ServerCallFair
    <2>2. ASSUME NEW d \in inbox, Begin(d) PROVE Fair(x)'
      BY <1>1, <1>2, <2>2, BeginFair
    <2>3. ASSUME NEW h \in busy, Finish(h) PROVE Fair(x)'
      BY <1>1, <1>2, <2>3, FinishFair
    <2> QED BY <1>13, <2>1, <2>2, <2>3 DEF Answer
  <1>14. CASE Crash
    BY <1>1, <1>2, <1>14, CrashFair
  <1> QED BY <1>11, <1>12, <1>13, <1>14 DEF Next

LEMMA EInvStep ==
    ASSUME InTurn, OneConnection, EchoesKept, AnsweredInTime
    PROVE  EInv /\ [Next]_vars => EInv'
  <1> SUFFICES ASSUME EInv, [Next]_vars PROVE EInv'
    OBVIOUS
  <1>1. BInv'
    BY BInvStep DEF EInv
  <1>2. WInv'
    BY WayStep DEF EInv, BInv, HInv
  <1> QED BY <1>1, <1>2, FairStep DEF EInv

(* No outbound scrobble is made of an echo of Scrob's own push: the        *)
(* services hear of no more plays of an item than there were, save for      *)
(* tokens that ran out, were lost or went to the report of another play,    *)
(* and for reports a server made twice (the MarkPlayed branches of the      *)
(* webhooks, _consume_recently_pushed_watched).  Asked of the servers: a    *)
(* server but Plex waits for each answer, none has both a full and a       *)
(* scrobble-only connection, an Emby that is pushed to keeps sync_watched   *)
(* on, and reports are taken up before Plex makes them again for good.      *)
THEOREM NoScrobbleOfEcho ==
    ASSUME InTurn, OneConnection, EchoesKept, AnsweredInTime
    PROVE  Spec => []NothingLeavesForEcho
  <1>1. EInv => NothingLeavesForEcho
    <2> SUFFICES ASSUME EInv, NEW m \in Media
                 PROVE  sent[m] <= genuine[m] + expired[m] + eaten[m]
                                      + again + crashes * Cardinality(Conn)
      BY DEF NothingLeavesForEcho
    <2>1. TypeOK /\ IsFiniteSet(calls) /\ Fair(m)
      BY DEF EInv, BInv, HInv, WInv
    <2>2. /\ sent[m] \in Nat /\ Cardinality(Past90(m)) \in Nat /\ Cardinality(RealIn(m)) \in Nat
          /\ Cardinality(RealAt(m)) \in Nat /\ Due(m) \in Nat
      BY <2>1, Numbers
    <2>3. sent[m] + Cardinality(Past90(m)) + Cardinality(RealIn(m)) + Cardinality(RealAt(m)) <= Due(m)
      BY <2>1 DEF Fair, Owed
    <2>4. sent[m] <= Due(m)
      BY <2>2, <2>3
    <2> QED BY <2>4 DEF Due
  <1> QED BY <1>1, EInvStart, EInvStep, PTL DEF Spec

-----------------------------------------------------------------------------
(* Tokens: what is hidden, and the tokens left, are owed to echoes.        *)

Coming(m) == Echoes(inbox, busy, calls, m)
Sent(m) == {d \in inbox : Echo(d, m)}
Taken(m) == {h \in busy : Echo(h.d, m)}
Awaited(m) == {c \in calls : Echoed(c, m)}

(* Plex has no marks of its own.                                           *)
MarksKnown == \A d \in inbox : d.ev = "played" => ~Plexy(d)

TInv == TokensOwed /\ CopiesApart /\ MarksKnown

Tallied ==
    TypeOK => \A m \in Media :
                /\ hidden[m] \in Nat /\ astray[m] \in Nat
                /\ tokens[m] \in Seq(Time) /\ Len(tokens[m]) \in Nat
                /\ Coming(m) \in Nat
                /\ IsFiniteSet(Sent(m)) /\ Cardinality(Sent(m)) \in Nat
                /\ IsFiniteSet(Taken(m)) /\ Cardinality(Taken(m)) \in Nat
                /\ IsFiniteSet(Awaited(m)) /\ Cardinality(Awaited(m)) \in Nat
                /\ Coming(m) = Cardinality(Sent(m)) + Cardinality(Taken(m))
                                 + Cardinality(Awaited(m))

LEMMA TallyHolds == Tallied
  <1> SUFFICES ASSUME TypeOK, NEW m \in Media
               PROVE  /\ hidden[m] \in Nat /\ astray[m] \in Nat
                      /\ tokens[m] \in Seq(Time) /\ Len(tokens[m]) \in Nat
                      /\ Coming(m) \in Nat
                      /\ IsFiniteSet(Sent(m)) /\ Cardinality(Sent(m)) \in Nat
                      /\ IsFiniteSet(Taken(m)) /\ Cardinality(Taken(m)) \in Nat
                      /\ IsFiniteSet(Awaited(m)) /\ Cardinality(Awaited(m)) \in Nat
                      /\ Coming(m) = Cardinality(Sent(m)) + Cardinality(Taken(m))
                                       + Cardinality(Awaited(m))
    BY DEF Tallied
  <1>1. hidden[m] \in Nat /\ astray[m] \in Nat /\ tokens[m] \in Seq(Time)
    BY HistoryType DEF Counts
  <1>2. IsFiniteSet(Sent(m)) /\ IsFiniteSet(Taken(m)) /\ IsFiniteSet(Awaited(m))
    <2>1. IsFiniteSet(inbox) /\ IsFiniteSet(busy) /\ IsFiniteSet(calls)
      BY DEF TypeOK
    <2> QED BY <2>1, FS_Subset DEF Sent, Taken, Awaited
  <1>3. Cardinality(Sent(m)) \in Nat /\ Cardinality(Taken(m)) \in Nat /\ Cardinality(Awaited(m)) \in Nat
    BY <1>2, FS_CardinalityType
  <1>4. Coming(m) = Cardinality(Sent(m)) + Cardinality(Taken(m)) + Cardinality(Awaited(m))
    BY DEF Coming, Echoes, Sent, Taken, Awaited
  <1> QED BY <1>1, <1>2, <1>3, <1>4

LEMMA TallyPrimed == Tallied'
  BY TallyHolds, PTL

(* What is owed moves with what is due.                                    *)
LEMMA OwedKept ==
    ASSUME TypeOK, TypeOK', TokensOwed,
           \A m \in Media : hidden'[m] + Len(tokens'[m]) + astray[m] + Coming(m)
                              <= hidden[m] + Len(tokens[m]) + astray'[m] + Coming(m)'
    PROVE  TokensOwed'
  <1> SUFFICES ASSUME NEW m \in Media
               PROVE  hidden'[m] + Len(tokens'[m]) <= astray'[m] + Coming(m)'
    BY DEF TokensOwed, Coming
  <1> DEFINE h == hidden[m]
             i == hidden'[m]
             t == Len(tokens[m])
             u == Len(tokens'[m])
             a == astray[m]
             b == astray'[m]
             e == Coming(m)
             f == Coming(m)'
  <1>1. h \in Nat /\ t \in Nat /\ a \in Nat /\ e \in Nat
    BY TallyHolds DEF Tallied
  <1>2. i \in Nat /\ u \in Nat /\ b \in Nat /\ f \in Nat
    BY TallyPrimed DEF Tallied
  <1>3. i + u + a + e <= h + t + b + f
    OBVIOUS
  <1>4. h + t <= a + e
    BY DEF TokensOwed, Coming
  <1> HIDE DEF h, i, t, u, a, b, e, f
  <1>5. i + u <= b + f
    BY <1>1, <1>2, <1>3, <1>4
  <1> QED BY <1>5 DEF i, u, b, f

(* The more is on its way, the more echoes are to come.                    *)
LEMMA EchoesMore ==
    ASSUME TypeOK, TypeOK', inbox \subseteq inbox', busy \subseteq busy', NEW m \in Media,
           Cardinality(Awaited(m)) <= Cardinality(Awaited(m)')
    PROVE  Coming(m) <= Coming(m)'
  <1> DEFINE i == Cardinality(Sent(m))
             j == Cardinality(Sent(m)')
             o == Cardinality(Taken(m))
             q == Cardinality(Taken(m)')
             k == Cardinality(Awaited(m))
             l == Cardinality(Awaited(m)')
  <1>1. i \in Nat /\ o \in Nat /\ k \in Nat /\ Coming(m) = i + o + k
    BY TallyHolds DEF Tallied
  <1>2. j \in Nat /\ q \in Nat /\ l \in Nat /\ Coming(m)' = j + q + l
        /\ IsFiniteSet(Sent(m)') /\ IsFiniteSet(Taken(m)')
    BY TallyPrimed DEF Tallied
  <1>3. i <= j
    <2>1. Sent(m) \subseteq Sent(m)'
      BY DEF Sent
    <2> QED BY <1>2, <2>1, Fewer
  <1>4. o <= q
    <2>1. Taken(m) \subseteq Taken(m)'
      BY DEF Taken
    <2> QED BY <1>2, <2>1, Fewer
  <1>5. k <= l
    OBVIOUS
  <1> HIDE DEF i, j, o, q, k, l
  <1> QED BY <1>1, <1>2, <1>3, <1>4, <1>5

(* A report made is new: no handler is at work on it.                      *)
LEMMA ApartEmits ==
    ASSUME TypeOK, TInv, UNCHANGED <<busy, again>>,
           \/ inbox' = inbox
           \/ \E s, ev, m, pos, ended :
                 Emit(s, ev, m, pos, ended) /\ (ev = "played" => Kind[s] # "plex")
    PROVE  CopiesApart' /\ MarksKnown'
  <1>1. CopiesApart /\ MarksKnown
    BY DEF TInv
  <1>2. CASE inbox' = inbox
    BY <1>1, <1>2 DEF CopiesApart, MarksKnown, Plexy
  <1>3. CASE inbox' # inbox
    <2>1. PICK s, ev, m, pos, ended :
             Emit(s, ev, m, pos, ended) /\ (ev = "played" => Kind[s] # "plex")
      BY <1>3
    <2>2. \A d \in inbox' : d \in inbox \/ (d.n = Fresh /\ d.ev = ev /\ d.conn[1] = s)
      BY <2>1, Saying DEF Says
    <2>3. \A h \in busy : h.d.n < Fresh /\ h.d.n \in Nat /\ Fresh \in Nat
      BY FreshNumber, HandlerType
    <2>4. \A h \in busy : h.d \in inbox' => h.d \in inbox
      BY <2>2, <2>3
    <2>5. CopiesApart'
      BY <1>1, <2>4 DEF CopiesApart
    <2>6. MarksKnown'
      BY <1>1, <2>1, <2>2 DEF MarksKnown, Plexy
    <2> QED BY <2>5, <2>6
  <1> QED BY <1>2, <1>3

(* Nothing happens to tokens, and no call is made or ends that matters.    *)
LEMMA TokensStay ==
    ASSUME TypeOK, TypeOK', TInv, UNCHANGED <<busy, again, tokens, hidden, astray>>,
           \/ inbox' = inbox
           \/ \E s, ev, m, pos, ended :
                 Emit(s, ev, m, pos, ended) /\ (ev = "played" => Kind[s] # "plex"),
           \A m \in Media : Awaited(m) \subseteq Awaited(m)'
    PROVE  TInv'
  <1>1. inbox \subseteq inbox'
    BY Saying
  <1>2. \A m \in Media : hidden'[m] + Len(tokens'[m]) + astray[m] + Coming(m)
                           <= hidden[m] + Len(tokens[m]) + astray'[m] + Coming(m)'
    <2> SUFFICES ASSUME NEW m \in Media
                 PROVE  hidden'[m] + Len(tokens'[m]) + astray[m] + Coming(m)
                           <= hidden[m] + Len(tokens[m]) + astray'[m] + Coming(m)'
      OBVIOUS
    <2>1. IsFiniteSet(Awaited(m)')
      BY FS_Subset DEF TypeOK, Awaited
    <2>2. Cardinality(Awaited(m)) <= Cardinality(Awaited(m)')
      BY <2>1, Fewer
    <2>3. Coming(m) <= Coming(m)'
      BY <1>1, <2>2, EchoesMore
    <2>4. hidden[m] \in Nat /\ astray[m] \in Nat /\ Len(tokens[m]) \in Nat /\ Coming(m) \in Nat
      BY TallyHolds DEF Tallied
    <2>5. Coming(m)' \in Nat
      BY TallyPrimed DEF Tallied
    <2> QED BY <2>3, <2>4, <2>5
  <1>3. TokensOwed'
    BY <1>2, OwedKept DEF TInv
  <1> QED BY <1>3, ApartEmits DEF TInv

(* A server carries out a call: its echo is on its way, or went astray.     *)
LEMMA ServerCallOwed ==
    ASSUME TypeOK, TypeOK', TInv, NEW c \in calls, ServerCall(c)
    PROVE  TInv'
  <1> DEFINE no == FALSE
             ev == IF c.w THEN "played" ELSE "unplayed"
             pos == IF c.w THEN 2 ELSE 0
  <1>1. /\ calls' = calls \ {c} /\ UNCHANGED <<busy, again, tokens, hidden>>
        /\ \/ c.s \in Echoing /\ Emit(c.s, ev, c.m, pos, no) /\ UNCHANGED astray
           \/ /\ UNCHANGED inbox
              /\ astray' = IF Echoed(c, c.m) THEN Bump(astray, c.m, 1) ELSE astray
    BY DEF ServerCall, bounds
  <1>2. c.m \in Media /\ c.w \in BOOLEAN /\ c.s \in Pushing /\ c.s \in Server
    BY CallDoes
  <1>3. c.s \in Echoing => Kind[c.s] # "plex"
    BY DEF Echoing
  <1>4. \A m \in Media : Awaited(m)' = Awaited(m) \ {c}
    BY <1>1 DEF Awaited
  <1>5. inbox' = inbox \/ Emit(c.s, ev, c.m, pos, no)
    BY <1>1
  <1>6. CopiesApart' /\ MarksKnown'
    <2> HIDE DEF ev, pos, no
    <2> QED BY <1>1, <1>3, ApartEmits
  <1>7. inbox \subseteq inbox' /\ busy \subseteq busy'
    <2> HIDE DEF ev, pos, no
    <2> QED BY <1>1, <1>5, Saying
  <1>8. ASSUME NEW m \in Media
        PROVE  hidden'[m] + Len(tokens'[m]) + astray[m] + Coming(m)
                 <= hidden[m] + Len(tokens[m]) + astray'[m] + Coming(m)'
    <2>1. /\ hidden[m] \in Nat /\ astray[m] \in Nat /\ Len(tokens[m]) \in Nat
          /\ Coming(m) \in Nat /\ IsFiniteSet(Awaited(m))
      BY TallyHolds DEF Tallied
    <2>2. Coming(m)' \in Nat /\ astray'[m] \in Nat
      BY TallyPrimed DEF Tallied
    <2>3. CASE ~Echoed(c, m)
      <3>1. Awaited(m)' = Awaited(m)
        BY <1>4, <2>3 DEF Awaited
      <3>2. Coming(m) <= Coming(m)'
        <4>1. Cardinality(Awaited(m)) <= Cardinality(Awaited(m)')
          BY <2>1, <3>1, Fewer
        <4> QED BY <1>7, <4>1, EchoesMore
      <3>3. astray'[m] = astray[m]
        <4>1. astray' = astray \/ (c.m # m /\ astray' = Bump(astray, c.m, 1))
          BY <1>1, <2>3
        <4>2. astray \in Counts
          BY HistoryType
        <4> QED BY <1>2, <4>1, <4>2, Counting
      <3> QED BY <1>1, <2>1, <2>2, <3>2, <3>3
    <2>4. CASE Echoed(c, m)
      <3> DEFINE i == Cardinality(Sent(m))
                 j == Cardinality(Sent(m)')
                 o == Cardinality(Taken(m))
                 q == Cardinality(Taken(m)')
                 k == Cardinality(Awaited(m))
                 l == Cardinality(Awaited(m)')
      <3>1. i \in Nat /\ o \in Nat /\ k \in Nat /\ Coming(m) = i + o + k
        BY TallyHolds DEF Tallied
      <3>2. j \in Nat /\ q \in Nat /\ l \in Nat /\ Coming(m)' = j + q + l
            /\ IsFiniteSet(Sent(m)')
        BY TallyPrimed DEF Tallied
      <3>a. hidden'[m] = hidden[m] /\ Len(tokens'[m]) = Len(tokens[m])
        BY <1>1
      <3>b. hidden[m] \in Nat /\ Len(tokens[m]) \in Nat /\ astray[m] \in Nat
        BY <2>1
      <3>3. l + 1 = k
        <4> DEFINE A == Awaited(m)
                   B == Awaited(m)'
        <4>1. c \in A
          BY <2>4 DEF Awaited
        <4>2. B = A \ {c} /\ IsFiniteSet(A) /\ Cardinality(A) \in Nat
          BY <1>4, <2>1, FS_CardinalityType
        <4> HIDE DEF A, B
        <4>3. Cardinality(A \ {c}) = Cardinality(A) - 1
          BY <4>1, <4>2, FS_RemoveElement
        <4>4. Cardinality(B) + 1 = Cardinality(A)
          BY <4>2, <4>3
        <4> QED BY <4>4 DEF A, B
      <3>4. q = o
        BY <1>1 DEF Taken
      <3>5. CASE c.s \in Echoing /\ Emit(c.s, ev, c.m, pos, no) /\ UNCHANGED astray
        <4>1. c.w /\ c.m = m
          BY <2>4 DEF Echoed
        <4>2. Emit(c.s, "played", m, 2, FALSE)
          BY <3>5, <4>1
        <4>3. \E d \in inbox' : d \notin inbox /\ Echo(d, m)
          <5> DEFINE r == [conn |-> <<c.s, "full">>, ev |-> "played", m |-> m, pos |-> 2,
                           ended |-> FALSE, at |-> now, n |-> Fresh]
          <5>1. <<c.s, "full">> \in Conn
            BY <1>2, ConstantsAssumption DEF Conn
          <5>2. r \in inbox'
            BY <4>2, <5>1 DEF Emit, Reports
          <5>3. r \notin inbox
            <6>1. \A d \in inbox : d.n < Fresh /\ d.n \in Nat /\ Fresh \in Nat
              BY FreshNumber DEF TypeOK, Report
            <6> QED BY <6>1
          <5> QED BY <5>2, <5>3 DEF Echo
        <4>4. PICK d \in inbox' : d \notin inbox /\ Echo(d, m)
          BY <4>3
        <4>5. Sent(m) \subseteq Sent(m)' \ {d} /\ d \in Sent(m)'
          BY <1>7, <4>4 DEF Sent
        <4>6. i + 1 <= j
          BY <3>2, <4>5, OneLess
        <4>7. astray' = astray
          BY <3>5
        <4> HIDE DEF i, j, o, q, k, l
        <4>8. Coming(m) <= Coming(m)' /\ Coming(m) \in Nat /\ Coming(m)' \in Nat
          BY <3>1, <3>2, <3>3, <3>4, <4>6
        <4> QED BY <3>a, <3>b, <4>7, <4>8
      <3>6. CASE UNCHANGED inbox /\ astray' = Bump(astray, c.m, 1)
        <4>1. c.m = m
          BY <2>4 DEF Echoed
        <4>2. astray'[m] = astray[m] + 1
          <5>1. astray \in Counts
            BY HistoryType
          <5> QED BY <1>2, <3>6, <4>1, <5>1, Counting
        <4>3. i = j
          BY <3>6 DEF Sent
        <4> HIDE DEF i, j, o, q, k, l
        <4>4. Coming(m) <= Coming(m)' + 1 /\ Coming(m) \in Nat /\ Coming(m)' \in Nat
          BY <3>1, <3>2, <3>3, <3>4, <4>3
        <4> QED BY <3>a, <3>b, <4>2, <4>4
      <3>7. Echoed(c, c.m)
        BY <2>4 DEF Echoed
      <3> HIDE DEF ev, pos, no, i, j, o, q, k, l
      <3> QED BY <1>1, <3>5, <3>6, <3>7
    <2> QED BY <2>3, <2>4
  <1>9. TokensOwed'
    BY <1>8, OwedKept DEF TInv
  <1> QED BY <1>6, <1>9 DEF TInv

(* What a push leaves: a token for each call that is not made already, and  *)
(* for each that is an echo that does not come.                            *)
LEMMA PushOwed ==
    ASSUME TypeOK, TypeOK', TInv, NEW m \in Media, NEW but, PushWatchState(m, TRUE, but),
           astray' = Bump(astray, m, Cardinality(Joined(m, but))),
           UNCHANGED <<inbox, busy, again, hidden>>
    PROVE  TInv'
  <1> DEFINE some == Echoing \cap (Pushing \ but)
             call(s) == [s |-> s, m |-> m, w |-> TRUE, at |-> now]
             T == {call(s) : s \in some}
             J == Joined(m, but)
             k == Cardinality(some)
             left == [i \in 1..k |-> now]
  <1>1. IsFiniteSet(some) /\ k \in Nat
    <2>1. IsFiniteSet(Pushing) /\ some \in SUBSET Pushing
      BY ConstantsAssumption, FS_Subset
    <2> HIDE DEF some
    <2> QED BY <2>1, FS_Subset, FS_CardinalityType
  <1>2. J = {s \in some : call(s) \in calls} /\ IsFiniteSet(J) /\ Cardinality(J) \in Nat
    BY JoinedFinite DEF Joined
  <1>3. /\ calls' = calls \cup Calls(m, TRUE, but)
        /\ tokens' = [tokens EXCEPT ![m] = tokens[m] \o left]
    BY DEF PushWatchState, Mark
  <1>4. \A s : call(s).s = s /\ call(s).m = m /\ call(s).w = TRUE
    OBVIOUS
  <1>5. Awaited(m)' = Awaited(m) \cup T
    <2>1. Calls(m, TRUE, but) = {call(s) : s \in Pushing \ but}
      BY DEF Calls
    <2>2. \A s \in Pushing \ but : Echoed(call(s), m) <=> s \in some
      BY <1>4 DEF Echoed
    <2>3. \A c \in T : c \in calls' /\ Echoed(c, m)
      BY <1>3, <1>4, <2>1, <2>2
    <2>4. \A c \in calls' : Echoed(c, m) => c \in calls \/ c \in T
      BY <1>3, <2>1, <2>2
    <2> HIDE DEF T, call, some
    <2> QED BY <1>3, <2>3, <2>4 DEF Awaited
  <1>6. Awaited(m) \cap T = {call(s) : s \in J}
    <2>1. \A s \in some : Echoed(call(s), m)
      BY <1>4 DEF Echoed
    <2> HIDE DEF call, some, J
    <2> QED BY <1>2, <2>1 DEF Awaited
  <1>7. \A x \in Media : x # m => Awaited(x) \subseteq Awaited(x)'
    BY <1>3 DEF Awaited
  <1>8. IsFiniteSet(T) /\ Cardinality(T) = k
    <2> DEFINE f == [s \in some |-> call(s)]
    <2>1. f \in Surjection(some, T)
      BY DEF Surjection
    <2>2. f \in Injection(some, T)
      <3>1. \A a, b \in some : f[a] = f[b] => a = b
        BY <1>4
      <3> QED BY <3>1 DEF Injection, IsInjective
    <2> HIDE DEF f, T, some
    <2> QED BY <1>1, <2>1, <2>2, FS_Surjection DEF k
  <1>9. /\ IsFiniteSet(Awaited(m) \cap T) /\ Cardinality(Awaited(m) \cap T) \in Nat
        /\ Cardinality(Awaited(m) \cap T) <= Cardinality(J)
    <2> DEFINE U == {call(s) : s \in J}
               f == [s \in J |-> call(s)]
    <2>1. f \in Surjection(J, U)
      BY DEF Surjection
    <2>2. U = Awaited(m) \cap T
      BY <1>6
    <2> HIDE DEF f, U, J
    <2>3. IsFiniteSet(U) /\ Cardinality(U) <= Cardinality(J) /\ Cardinality(U) \in Nat
      BY <1>2, <2>1, FS_Surjection, FS_CardinalityType
    <2> QED BY <2>2, <2>3
  <1>10. ASSUME NEW x \in Media
         PROVE  hidden'[x] + Len(tokens'[x]) + astray[x] + Coming(x)
                 <= hidden[x] + Len(tokens[x]) + astray'[x] + Coming(x)'
    <2>1. /\ hidden[x] \in Nat /\ astray[x] \in Nat /\ Len(tokens[x]) \in Nat
          /\ Coming(x) \in Nat /\ IsFiniteSet(Awaited(x))
          /\ tokens[x] \in Seq(Time) /\ now \in Time
      BY TallyHolds, HistoryType DEF Tallied
    <2>2. Coming(x)' \in Nat /\ astray'[x] \in Nat /\ IsFiniteSet(Awaited(x)')
      BY TallyPrimed DEF Tallied
    <2>3. astray \in Counts /\ tokens \in [Media -> Seq(Time)]
      BY HistoryType
    <2>4. CASE x # m
      <3>1. Cardinality(Awaited(x)) <= Cardinality(Awaited(x)')
        BY <1>7, <2>2, <2>4, Fewer
      <3>2. Coming(x) <= Coming(x)'
        BY <3>1, EchoesMore
      <3>3. astray'[x] = astray[x] /\ tokens'[x] = tokens[x]
        BY <1>3, <2>3, <2>4 DEF Bump, Counts
      <3> QED BY <2>1, <2>2, <3>2, <3>3
    <2>5. CASE x = m
      <3> DEFINE i == Cardinality(Sent(m))
                 o == Cardinality(Taken(m))
                 a == Cardinality(Awaited(m))
                 b == Cardinality(Awaited(m)')
                 u == Cardinality(Awaited(m) \cap T)
                 n == Cardinality(J)
      <3>1. i \in Nat /\ o \in Nat /\ a \in Nat /\ Coming(m) = i + o + a
        BY TallyHolds DEF Tallied
      <3>2. Sent(m)' = Sent(m) /\ Taken(m)' = Taken(m)
        BY DEF Sent, Taken
      <3>3. b \in Nat /\ Coming(m)' = i + o + b
        BY <3>2, TallyPrimed DEF Tallied
      <3>4. b = a + k - u
        <4> HIDE DEF T, k
        <4> QED BY <1>5, <1>8, <2>1, <2>5, FS_Union
      <3>5. u \in Nat /\ n \in Nat /\ u <= n
        BY <1>2, <1>9
      <3>6. astray'[m] = astray[m] + n
        BY <2>3, <3>5 DEF Bump, Counts
      <3>7. Len(tokens'[m]) = Len(tokens[m]) + k
        <4>1. tokens'[m] = tokens[m] \o left
          BY <1>3, <2>3
        <4>2. left \in Seq(Time) /\ Len(left) = k
          <5> HIDE DEF k
          <5> QED BY <1>1, <2>1
        <4> HIDE DEF left, k
        <4>3. tokens[m] \in Seq(Time)
          BY <2>1, <2>5
        <4>4. Len(tokens[m] \o left) = Len(tokens[m]) + Len(left)
          BY <4>2, <4>3, Appended
        <4> QED BY <4>1, <4>2, <4>4
      <3>8. k \in Nat
        BY <1>1
      <3>9. hidden'[m] = hidden[m]
        OBVIOUS
      <3> HIDE DEF i, o, a, b, u, n, k
      <3>10. hidden[m] \in Nat /\ astray[m] \in Nat /\ Len(tokens[m]) \in Nat
        BY <2>1, <2>5
      <3>11. hidden'[m] + Len(tokens'[m]) + astray[m] + Coming(m)
               <= hidden[m] + Len(tokens[m]) + astray'[m] + Coming(m)'
        <4> DEFINE s == hidden[m]
                   t == Len(tokens[m])
                   g == astray[m]
        <4>1. s \in Nat /\ t \in Nat /\ g \in Nat
          BY <3>10
        <4> HIDE DEF s, t, g
        <4>2. s + (t + k) + g + (i + o + a) <= s + t + (g + n) + (i + o + b)
          BY <3>1, <3>3, <3>4, <3>5, <3>8, <4>1
        <4> QED BY <3>1, <3>3, <3>6, <3>7, <3>9, <4>2 DEF s, t, g
      <3> QED BY <2>5, <3>11
    <2> QED BY <2>4, <2>5
  <1>11. TokensOwed'
    BY <1>10, OwedKept DEF TInv
  <1>12. CopiesApart' /\ MarksKnown'
    BY ApartEmits
  <1> QED BY <1>11, <1>12 DEF TInv

(* A report is taken up: an echo is a handler's from now on.               *)
LEMMA BeginOwed ==
    ASSUME TypeOK, TypeOK', TInv, NEW d \in inbox, Begin(d)
    PROVE  TInv'
  <1>1. /\ UNCHANGED <<tokens, hidden, astray, calls>>
        /\ busy' = IF SeenBefore(d) THEN busy ELSE busy \cup {Made(d)}
        /\ \/ inbox' = inbox \ {d} /\ again' = again
           \/ inbox' = inbox /\ Plexy(d) /\ again' = again
           \/ inbox' = inbox /\ ~Plexy(d) /\ again' = again + 1
    BY DEF Begin, Made, history
  <1>2. CopiesApart /\ MarksKnown
    BY DEF TInv
  <1>3. again \in Nat /\ Made(d).d = d /\ Made(d).k = again
    BY HistoryType DEF Made
  <1>4. CopiesApart'
    <2> SUFFICES ASSUME NEW h \in busy', Kind[h.d.conn[1]] # "plex", h.d \in inbox'
                 PROVE  h.k < again'
      BY DEF CopiesApart
    <2>1. h.d \in inbox
      BY <1>1
    <2>2. CASE h \in busy
      <3>1. h.k < again
        BY <1>2, <2>1, <2>2 DEF CopiesApart
      <3>2. h.k \in Nat
        BY <2>2 DEF TypeOK, Handler
      <3> QED BY <1>1, <1>3, <3>1, <3>2
    <2>3. CASE h \notin busy
      <3>1. h = Made(d)
        BY <1>1, <2>3
      <3>2. again' = again + 1
        BY <1>1, <1>3, <3>1 DEF Plexy
      <3> QED BY <1>3, <3>1, <3>2
    <2> QED BY <2>2, <2>3
  <1>5. MarksKnown'
    BY <1>1, <1>2 DEF MarksKnown, Plexy
  <1>6. busy \subseteq busy'
    BY <1>1
  <1>7. ASSUME NEW m \in Media
        PROVE  Coming(m) <= Coming(m)'
    <2>1. Awaited(m)' = Awaited(m)
      BY <1>1 DEF Awaited
    <2> DEFINE i == Cardinality(Sent(m))
               j == Cardinality(Sent(m)')
               o == Cardinality(Taken(m))
               q == Cardinality(Taken(m)')
               k == Cardinality(Awaited(m))
    <2>2. i \in Nat /\ o \in Nat /\ k \in Nat /\ Coming(m) = i + o + k
          /\ IsFiniteSet(Sent(m)) /\ IsFiniteSet(Taken(m))
      BY TallyHolds DEF Tallied
    <2>3. j \in Nat /\ q \in Nat /\ Coming(m)' = j + q + k
          /\ IsFiniteSet(Taken(m)')
      BY <2>1, TallyPrimed DEF Tallied
    <2>4. o <= q
      <3>1. Taken(m) \subseteq Taken(m)'
        BY <1>6 DEF Taken
      <3> QED BY <2>3, <3>1, Fewer
    <2>5. CASE Sent(m)' = Sent(m)
      <3> HIDE DEF i, j, o, q, k
      <3>1. i = j
        BY <2>5 DEF i, j
      <3> QED BY <2>2, <2>3, <2>4, <3>1
    <2>6. CASE Sent(m)' # Sent(m)
      <3>1. inbox' = inbox \ {d} /\ again' = again /\ Echo(d, m)
        BY <1>1, <2>6 DEF Sent
      <3>2. ~Plexy(d)
        BY <1>2, <3>1 DEF MarksKnown, Echo
      <3>3. busy' = busy \cup {Made(d)}
        BY <1>1, <3>2 DEF SeenBefore
      <3>4. Made(d) \notin busy
        <4> SUFFICES ASSUME Made(d) \in busy PROVE FALSE
          OBVIOUS
        <4>1. Made(d).k < again
          BY <1>2, <1>3, <3>2 DEF CopiesApart, Plexy
        <4> QED BY <1>3, <4>1
      <3>5. Sent(m)' = Sent(m) \ {d} /\ d \in Sent(m)
        BY <3>1 DEF Sent
      <3>6. Taken(m)' = Taken(m) \cup {Made(d)} /\ Made(d) \notin Taken(m)
        BY <1>3, <3>1, <3>3, <3>4 DEF Taken
      <3>7. j = i - 1
        <4> DEFINE A == Sent(m)
        <4>1. IsFiniteSet(A) /\ d \in A
          BY <2>2, <3>5
        <4> HIDE DEF A
        <4>2. Cardinality(A \ {d}) = Cardinality(A) - 1
          BY <4>1, FS_RemoveElement
        <4> QED BY <3>5, <4>2 DEF A
      <3>8. q = o + 1
        <4> DEFINE A == Taken(m)
        <4>1. IsFiniteSet(A) /\ Made(d) \notin A
          BY <2>2, <3>6
        <4> HIDE DEF A
        <4>2. Cardinality(A \cup {Made(d)}) = Cardinality(A) + 1
          BY <4>1, FS_AddElement
        <4> QED BY <3>6, <4>2 DEF A
      <3> HIDE DEF i, j, o, q, k
      <3> QED BY <2>2, <2>3, <3>7, <3>8
    <2> QED BY <2>5, <2>6
  <1>8. ASSUME NEW m \in Media
        PROVE  hidden'[m] + Len(tokens'[m]) + astray[m] + Coming(m)
                 <= hidden[m] + Len(tokens[m]) + astray'[m] + Coming(m)'
    <2>1. /\ hidden[m] \in Nat /\ astray[m] \in Nat /\ Len(tokens[m]) \in Nat
          /\ Coming(m) \in Nat
      BY TallyHolds DEF Tallied
    <2>2. Coming(m)' \in Nat
      BY TallyPrimed DEF Tallied
    <2> QED BY <1>1, <1>7, <2>1, <2>2
  <1>9. TokensOwed'
    BY <1>8, OwedKept DEF TInv
  <1> QED BY <1>4, <1>5, <1>9 DEF TInv

(* An echo whose token is there to be read is written as what it is.        *)
LEMMA EchoWritten ==
    ASSUME NEW h \in busy, Finish(h), h.d.ev = "played", KeepsWatched(h)
    PROVE  WriteCompleted(h, h.d.m) /\ NoPush
  <1>1. JellyfinToggles(h) \/ EmbyToggles(h) \/ SideToggles(h)
    <2>1. ~JellyfinPlayback(h) /\ ~EmbyPlayback(h) /\ ~SidePlayback(h)
      BY DEF JellyfinPlayback, EmbyPlayback, SidePlayback, Is
    <2>2. ~PlexPlay(h) /\ ~PlexPause(h) /\ ~PlexStop(h) /\ ~PlexScrobble(h)
      BY DEF PlexPlay, PlexPause, PlexStop, PlexScrobble, Is
    <2>3. ~PlexSide(h) /\ ~KodiSession(h) /\ ~KodiStop(h)
      BY DEF PlexSide, KodiSession, KodiStop, Is
    <2> QED BY <2>1, <2>2, <2>3 DEF Finish
  <1>2. MarkedPlayed(h)
    BY <1>1 DEF JellyfinToggles, EmbyToggles, SideToggles, Is
  <1> QED BY <1>2 DEF MarkedPlayed

(* A token spent hides no more than it was there for.                      *)
LEMMA WrittenOwed ==
    ASSUME TypeOK, NEW h \in busy, NEW y \in Media, WriteCompleted(h, y)
    PROVE  /\ \A x \in Media : x # y => hidden'[x] = hidden[x] /\ tokens'[x] = tokens[x]
           /\ hidden'[y] + Len(tokens'[y]) <= hidden[y] + Len(tokens[y])
           /\ IsEcho(y) /\ Echo(h.d, y) =>
                 hidden'[y] + Len(tokens'[y]) + 1 <= hidden[y] + Len(tokens[y])
  <1>1. hidden \in Counts /\ tokens \in [Media -> Seq(Time)]
    BY HistoryType
  <1>2. tokens' = Consume(y)
        /\ \/ IsEcho(y) /\ ~Echo(h.d, y) /\ hidden' = Bump(hidden, y, 1)
           \/ ~(IsEcho(y) /\ ~Echo(h.d, y)) /\ hidden' = hidden
    <2>1. CASE IsEcho(y) /\ ~Echo(h.d, y)
      BY <2>1 DEF WriteCompleted
    <2>2. CASE ~(IsEcho(y) /\ ~Echo(h.d, y))
      BY <2>2 DEF WriteCompleted
    <2> QED BY <2>1, <2>2
  <1>3. /\ \A x \in Media : x # y => Consume(y)[x] = tokens[x]
        /\ tokens[y] = <<>> => Consume(y)[y] = <<>>
        /\ tokens[y] # <<>> => Len(Consume(y)[y]) + 1 = Len(tokens[y])
        /\ Consume(y) \in [Media -> Seq(Time)]
    BY <1>1, ConsumeType
  <1>4. /\ Bump(hidden, y, 1)[y] = hidden[y] + 1
        /\ \A x \in Media : x # y => Bump(hidden, y, 1)[x] = hidden[x]
    BY <1>1, Counting
  <1>5. hidden[y] \in Nat /\ Len(tokens[y]) \in Nat /\ Len(Consume(y)[y]) \in Nat
    BY <1>1, <1>3 DEF Counts
  <1>6. IsEcho(y) => tokens[y] # <<>>
    BY DEF IsEcho
  <1>7. \A x \in Media : x # y => hidden'[x] = hidden[x] /\ tokens'[x] = tokens[x]
    BY <1>2, <1>3, <1>4
  <1>8. CASE IsEcho(y) /\ ~Echo(h.d, y) /\ hidden' = Bump(hidden, y, 1)
    BY <1>2, <1>3, <1>4, <1>5, <1>6, <1>7, <1>8
  <1>9. CASE ~(IsEcho(y) /\ ~Echo(h.d, y)) /\ hidden' = hidden
    <2>1. Len(tokens'[y]) <= Len(tokens[y])
      BY <1>2, <1>3, <1>5
    <2>2. hidden'[y] + Len(tokens'[y]) <= hidden[y] + Len(tokens[y])
      BY <1>2, <1>5, <1>9, <2>1
    <2>3. CASE IsEcho(y)
      BY <1>2, <1>3, <1>5, <1>6, <1>7, <1>9, <2>2, <2>3
    <2>4. CASE ~IsEcho(y)
      BY <1>7, <2>2, <2>4
    <2> QED BY <2>3, <2>4
  <1> QED BY <1>2, <1>8, <1>9

(* A handler ends: an echo takes its token, or went astray.                *)
LEMMA FinishOwed ==
    ASSUME TypeOK, TypeOK', TInv, NEW h \in busy, Finish(h)
    PROVE  TInv'
  <1>1. Effect(h)
    BY FinishEffect
  <1>2. /\ busy' = busy \ {h} /\ inbox' = inbox /\ again' = again
        /\ astray' = IF Echo(h.d, h.d.m) /\ ~(KeepsWatched(h) /\ IsEcho(h.d.m))
                     THEN Bump(astray, h.d.m, 1) ELSE astray
    BY <1>1 DEF Effect, Done, bounds
  <1>3. h.d.m \in Media /\ astray \in Counts
    BY HandlerType, HistoryType
  <1>4. CopiesApart' /\ MarksKnown'
    BY <1>2 DEF TInv, CopiesApart, MarksKnown, Plexy
  <1>5. \A x \in Media : Awaited(x) \subseteq Awaited(x)'
    <2>1. calls \subseteq calls'
      BY <1>1 DEF Effect, Writes, Unwatches, NoPush, PushWatchState
    <2> QED BY <2>1 DEF Awaited
  <1>6. \A x \in Media : hidden'[x] + Len(tokens'[x]) <= hidden[x] + Len(tokens[x])
    <2> SUFFICES ASSUME NEW x \in Media
                 PROVE  hidden'[x] + Len(tokens'[x]) <= hidden[x] + Len(tokens[x])
      OBVIOUS
    <2>1. hidden[x] \in Nat /\ Len(tokens[x]) \in Nat
      BY TallyHolds DEF Tallied
    <2>2. CASE hidden' = hidden /\ tokens' = tokens
      BY <2>1, <2>2
    <2>3. CASE \E y \in Media : WriteCompleted(h, y)
      <3>1. PICK y \in Media : WriteCompleted(h, y)
        BY <2>3
      <3>2. CASE x = y
        BY <3>1, <3>2, WrittenOwed
      <3>3. CASE x # y
        BY <2>1, <3>1, <3>3, WrittenOwed
      <3> QED BY <3>2, <3>3
    <2>4. CASE Unwatches(h)
      BY <2>2, <2>4 DEF Unwatches, PushWatchState
    <2>5. CASE Writes(h)
      BY <2>2, <2>3, <2>5 DEF Writes, NoWrite, WriteProgress
    <2> QED BY <1>1, <2>4, <2>5 DEF Effect
  <1>7. ASSUME NEW x \in Media
        PROVE  hidden'[x] + Len(tokens'[x]) + astray[x] + Coming(x)
                 <= hidden[x] + Len(tokens[x]) + astray'[x] + Coming(x)'
    <2> DEFINE i == Cardinality(Sent(x))
               j == Cardinality(Sent(x)')
               o == Cardinality(Taken(x))
               q == Cardinality(Taken(x)')
               k == Cardinality(Awaited(x))
               l == Cardinality(Awaited(x)')
               s == hidden[x]
               r == hidden'[x]
               t == Len(tokens[x])
               u == Len(tokens'[x])
               a == astray[x]
               b == astray'[x]
    <2>1. /\ i \in Nat /\ o \in Nat /\ k \in Nat /\ Coming(x) = i + o + k
          /\ s \in Nat /\ t \in Nat /\ a \in Nat /\ IsFiniteSet(Taken(x))
      BY TallyHolds DEF Tallied
    <2>2. /\ j \in Nat /\ q \in Nat /\ l \in Nat /\ Coming(x)' = j + q + l
          /\ r \in Nat /\ u \in Nat /\ b \in Nat /\ IsFiniteSet(Awaited(x)')
      BY TallyPrimed DEF Tallied
    <2>3. k <= l
      BY <1>5, <2>2, Fewer
    <2>4. j = i
      BY <1>2 DEF Sent
    <2>5. r + u <= s + t
      BY <1>6
    <2>6. CASE ~Echo(h.d, x)
      <3>1. q = o
        <4>1. Taken(x)' = Taken(x)
          BY <1>2, <2>6 DEF Taken
        <4> QED BY <4>1
      <3>2. b = a
        <4>1. astray' = astray \/ (h.d.m # x /\ astray' = Bump(astray, h.d.m, 1))
          BY <1>2, <2>6
        <4> QED BY <1>3, <4>1, Counting
      <3> HIDE DEF i, j, o, q, k, l, s, r, t, u, a, b
      <3>3. r + u + a + (i + o + k) <= s + t + b + (j + q + l)
        BY <2>1, <2>2, <2>3, <2>4, <2>5, <3>1, <3>2
      <3> QED BY <2>1, <2>2, <3>3 DEF s, r, t, u, a, b
    <2>7. CASE Echo(h.d, x)
      <3>1. h.d.m = x /\ h.d.ev = "played"
        BY <2>7 DEF Echo
      <3>2. q = o - 1
        <4> DEFINE A == Taken(x)
        <4>1. h \in A /\ Taken(x)' = A \ {h} /\ IsFiniteSet(A)
          BY <1>2, <2>1, <2>7 DEF Taken
        <4> HIDE DEF A
        <4>2. Cardinality(A \ {h}) = Cardinality(A) - 1
          BY <4>1, FS_RemoveElement
        <4> QED BY <4>1, <4>2 DEF A
      <3>3. CASE KeepsWatched(h) /\ IsEcho(x)
        <4>1. WriteCompleted(h, x)
          BY <3>1, <3>3, EchoWritten
        <4>2. r + u + 1 <= s + t
          BY <2>7, <3>3, <4>1, WrittenOwed
        <4>3. b = a
          BY <1>2, <3>1, <3>3
        <4> HIDE DEF i, j, o, q, k, l, s, r, t, u, a, b
        <4>4. r + u + a + (i + o + k) <= s + t + b + (j + q + l)
          BY <2>1, <2>2, <2>3, <2>4, <3>2, <4>2, <4>3
        <4> QED BY <2>1, <2>2, <4>4 DEF s, r, t, u, a, b
      <3>4. CASE ~(KeepsWatched(h) /\ IsEcho(x))
        <4>1. b = a + 1
          <5>1. astray' = Bump(astray, x, 1)
            BY <1>2, <2>7, <3>1, <3>4
          <5> QED BY <1>3, <5>1, Counting
        <4> HIDE DEF i, j, o, q, k, l, s, r, t, u, a, b
        <4>2. r + u + a + (i + o + k) <= s + t + b + (j + q + l)
          BY <2>1, <2>2, <2>3, <2>4, <2>5, <3>2, <4>1
        <4> QED BY <2>1, <2>2, <4>2 DEF s, r, t, u, a, b
      <3> QED BY <3>3, <3>4
    <2> QED BY <2>6, <2>7
  <1>8. TokensOwed'
    BY <1>7, OwedKept DEF TInv
  <1> QED BY <1>4, <1>8 DEF TInv

(* A crash loses tokens and echoes alike: those are astray.                *)
LEMMA CrashOwed ==
    ASSUME TypeOK, TypeOK', TInv, Crash
    PROVE  TInv'
  <1>1. /\ inbox' = inbox \/ inbox' = {}
        /\ busy' = {} /\ calls' = {} /\ hidden' = hidden
        /\ tokens' = [m \in Media |-> <<>>]
        /\ astray' = [m \in Media |-> astray[m] + Echoes(inbox \ inbox', busy, calls, m)]
    BY DEF Crash
  <1>2. CopiesApart' /\ MarksKnown'
    BY <1>1 DEF TInv, CopiesApart, MarksKnown, Plexy
  <1>3. ASSUME NEW m \in Media
        PROVE  hidden'[m] + Len(tokens'[m]) + astray[m] + Coming(m)
                 <= hidden[m] + Len(tokens[m]) + astray'[m] + Coming(m)'
    <2> DEFINE i == Cardinality(Sent(m))
               j == Cardinality(Sent(m)')
               o == Cardinality(Taken(m))
               q == Cardinality(Taken(m)')
               k == Cardinality(Awaited(m))
               l == Cardinality(Awaited(m)')
               g == Cardinality({d \in inbox \ inbox' : Echo(d, m)})
    <2>1. /\ i \in Nat /\ o \in Nat /\ k \in Nat /\ Coming(m) = i + o + k
          /\ hidden[m] \in Nat /\ astray[m] \in Nat /\ Len(tokens[m]) \in Nat
      BY TallyHolds DEF Tallied
    <2>2. j \in Nat /\ q \in Nat /\ l \in Nat /\ Coming(m)' = j + q + l
      BY TallyPrimed DEF Tallied
    <2>3. Len(tokens'[m]) = 0
      BY <1>1
    <2>4. g \in Nat /\ i <= g + j
      <3>1. CASE inbox' = inbox
        <4>1. {d \in inbox \ inbox' : Echo(d, m)} = {}
          BY <3>1
        <4>2. g = 0
          BY <4>1, FS_EmptySet
        <4>3. i = j
          BY <3>1 DEF Sent
        <4> HIDE DEF g, i, j
        <4> QED BY <2>2, <4>2, <4>3
      <3>2. CASE inbox' = {}
        <4>1. {d \in inbox \ inbox' : Echo(d, m)} = Sent(m)
          BY <3>2 DEF Sent
        <4>2. g = i
          BY <4>1
        <4> HIDE DEF g, i, j
        <4> QED BY <2>1, <2>2, <4>2
      <3> QED BY <1>1, <3>1, <3>2
    <2>5. astray'[m] = astray[m] + (g + o + k)
      <3>1. Echoes(inbox \ inbox', busy, calls, m) = g + o + k
        BY DEF Echoes, Taken, Awaited
      <3> HIDE DEF g, o, k
      <3> QED BY <1>1, <3>1
    <2> HIDE DEF i, j, o, q, k, l, g
    <2> QED BY <1>1, <2>1, <2>2, <2>3, <2>4, <2>5
  <1>4. TokensOwed'
    BY <1>3, OwedKept DEF TInv
  <1> QED BY <1>2, <1>4 DEF TInv

(* A user acts.                                                            *)
LEMMA UserActsOwed ==
    ASSUME TypeOK, TypeOK', TInv, UserActs
    PROVE  TInv'
  <1> DEFINE Reporting == \E s, ev, m, pos, ended :
                         Emit(s, ev, m, pos, ended) /\ (ev = "played" => Kind[s] # "plex")
  <1>1. ASSUME UNCHANGED <<busy, again, tokens, hidden, astray, calls>>, inbox' = inbox \/ Reporting
        PROVE  TInv'
    <2>1. \A m \in Media : Awaited(m) \subseteq Awaited(m)'
      BY <1>1 DEF Awaited
    <2> QED BY <1>1, <2>1, TokensStay
  <1>2. ASSUME Rest PROVE UNCHANGED <<busy, again, tokens, hidden, astray, calls>>
    BY <1>2 DEF Rest
  <1> HIDE DEF Reporting
  <1>3. ASSUME NEW s, NEW ev, NEW m, NEW pos, NEW ended, Emit(s, ev, m, pos, ended),
               ev = "played" => Kind[s] # "plex"
        PROVE  Reporting
    BY <1>3 DEF Reporting
  <1>4. ASSUME NEW s \in Server, NEW m \in Media, Play(s, m) PROVE TInv'
    BY <1>1, <1>2, <1>3, <1>4 DEF Play
  <1>5. ASSUME NEW s \in Server, Advance(s) PROVE TInv'
    <2>1. inbox' = inbox \/ Emit(s, "scrobble", watching[s].m, 2, FALSE)
            \/ Emit(s, "progress", watching[s].m, watching[s].pos + 1, FALSE)
      BY <1>5 DEF Advance
    <2>2. inbox' = inbox \/ Reporting
      BY <1>3, <2>1
    <2> QED BY <1>1, <1>2, <1>5, <2>2 DEF Advance
  <1>6. ASSUME NEW s \in Server, Pause(s) PROVE TInv'
    <2>1. Emit(s, "pause", watching[s].m, 1, FALSE) \/ Emit(s, "progress", watching[s].m, 1, FALSE)
      BY <1>6 DEF Pause
    <2>2. Reporting
      BY <1>3, <2>1
    <2> QED BY <1>1, <1>2, <1>6, <2>2 DEF Pause
  <1>7. ASSUME NEW s \in Server, Resume(s) PROVE TInv'
    <2>1. PICK pos \in {0, 1} : Emit(s, "resume", watching[s].m, pos, FALSE)
      BY <1>7 DEF Resume
    <2>2. Reporting
      BY <1>3, <2>1
    <2> QED BY <1>1, <1>2, <1>7, <2>2 DEF Resume
  <1>8. ASSUME NEW s \in Server, StopPlaying(s) PROVE TInv'
    <2> DEFINE e == watching[s].pos = 2 /\ Kind[s] # "plex"
    <2>1. PICK pos \in {0, watching[s].pos} : Emit(s, "stop", watching[s].m, pos, e)
      BY <1>8 DEF StopPlaying
    <2> HIDE DEF e
    <2>2. Reporting
      BY <1>3, <2>1
    <2> QED BY <1>1, <1>2, <1>8, <2>2 DEF StopPlaying
  <1>9. ASSUME NEW s \in Server, NEW m \in Media, NEW w \in BOOLEAN, Toggle(s, m, w) PROVE TInv'
    <2>1. PICK ev \in {"library", "played", "unplayed"}, pos \in {0, 2} : Emit(s, ev, m, pos, w)
      BY <1>9, ToggleDoes
    <2>2. Reporting
      BY <1>3, <1>9, <2>1, ToggleDoes
    <2> QED BY <1>1, <1>2, <1>9, <2>2 DEF Toggle
  <1>10. ASSUME NEW s \in Server, NEW m \in Media, PushWatchedForNewItem(s, m) PROVE TInv'
    BY <1>10, PushOwed DEF PushWatchedForNewItem
  <1>11. ASSUME NEW m \in Media, NEW force \in BOOLEAN, MarkAsWatched(m, force) PROVE TInv'
    BY <1>11, PushOwed DEF MarkAsWatched
  <1>12. ASSUME NEW m \in Media, UnwatchItem(m) PROVE TInv'
    <2>1. /\ UNCHANGED <<inbox, busy, again, tokens, hidden, astray>> /\ calls \subseteq calls'
      BY <1>12 DEF UnwatchItem, PushWatchState
    <2>2. \A x \in Media : Awaited(x) \subseteq Awaited(x)'
      BY <2>1 DEF Awaited
    <2> QED BY <2>1, <2>2, TokensStay
  <1>13. ASSUME ClearSessions PROVE TInv'
    BY <1>1, <1>13 DEF ClearSessions, history
  <1> QED BY <1>4, <1>5, <1>6, <1>7, <1>8, <1>9, <1>10, <1>11, <1>12, <1>13 DEF UserActs

LEMMA OwedStep ==
    ASSUME BInv, BInv', TInv, [Next]_vars
    PROVE  TInv'
  <1>1. TypeOK /\ TypeOK'
    BY DEF BInv, HInv
  <1>2. ASSUME UNCHANGED <<inbox, busy, again, tokens, hidden, astray, calls>> PROVE TInv'
    <2>1. \A m \in Media : Awaited(m) \subseteq Awaited(m)'
      BY <1>2 DEF Awaited
    <2> QED BY <1>1, <1>2, <2>1, TokensStay
  <1>3. CASE UserActs
    BY <1>1, <1>3, UserActsOwed
  <1>4. CASE Answer
    BY <1>1, <1>4, ServerCallOwed, BeginOwed, FinishOwed DEF Answer
  <1>5. CASE \E s \in Server : EmbyPoll(s)
    BY <1>2, <1>5 DEF EmbyPoll, bounds, history
  <1>6. CASE Crash
    BY <1>1, <1>6, CrashOwed
  <1>7. CASE Tick
    BY <1>2, <1>7 DEF Tick, bounds, history
  <1>8. CASE UNCHANGED vars
    BY <1>2, <1>8 DEF vars, bounds, history
  <1> QED BY <1>3, <1>4, <1>5, <1>6, <1>7, <1>8 DEF Next

LEMMA OwedStart == Init => TInv
  <1> SUFFICES ASSUME Init PROVE TInv
    OBVIOUS
  <1>1. TypeOK
    BY BInvInit DEF BInv, HInv
  <1>2. inbox = {} /\ busy = {} /\ hidden = Zero /\ tokens = [m \in Media |-> <<>>]
    BY DEF Init
  <1>3. CopiesApart /\ MarksKnown
    BY <1>2 DEF CopiesApart, MarksKnown
  <1>4. TokensOwed
    <2> SUFFICES ASSUME NEW m \in Media
                 PROVE  hidden[m] + Len(tokens[m]) <= astray[m] + Coming(m)
      BY DEF TokensOwed, Coming
    <2>1. hidden[m] = 0 /\ Len(tokens[m]) = 0
      BY <1>2 DEF Zero
    <2>2. astray[m] \in Nat /\ Coming(m) \in Nat
      BY <1>1, TallyHolds DEF Tallied
    <2> QED BY <2>1, <2>2
  <1> QED BY <1>3, <1>4 DEF TInv

(* A user's play is taken for the echo of a push only in place of one: for  *)
(* each that is hidden there is an echo that went astray or is to come,     *)
(* whatever calls fail, reports are repeated or out of order, and crashes.  *)
THEOREM PushHidesOne == Spec => []HiddenForEcho
  <1>1. BInv /\ TInv => HiddenForEcho
    <2> SUFFICES ASSUME BInv, TInv, NEW m \in Media
                 PROVE  hidden[m] <= astray[m] + Coming(m)
      BY DEF HiddenForEcho, Coming
    <2>1. hidden[m] \in Nat /\ Len(tokens[m]) \in Nat /\ astray[m] \in Nat /\ Coming(m) \in Nat
      BY TallyHolds DEF Tallied, BInv, HInv
    <2>2. hidden[m] + Len(tokens[m]) <= astray[m] + Coming(m)
      BY DEF TInv, TokensOwed, Coming
    <2> QED BY <2>1, <2>2
  <1>2. BInv /\ BInv' /\ TInv /\ [Next]_vars => TInv'
    BY OwedStep
  <1>3. Spec => []BInv
    BY PlaybackInvariant
  <1> QED BY <1>1, <1>2, <1>3, OwedStart, PTL DEF Spec
=============================================================================
