--------------------------- MODULE LibraryProofs ---------------------------
(***************************************************************************)
(* Proofs, for any servers, media and bounds, that a collection without a  *)
(* file is left only where two removals overlapped (EmptyOnlyCrossed), and *)
(* that an undisturbed pull makes the collection what the server has, but  *)
(* for ids that had files of two media, for as long as neither the server  *)
(* nor the user changes (PullMirrors).                                     *)
(***************************************************************************)
EXTENDS Library, FiniteSetTheorems, WellFoundedInduction, TLAPS

-----------------------------------------------------------------------------
(* Ids.                                                                    *)

\* A set of naturals that is not empty has a least element.
LEMMA MinIs ==
    ASSUME NEW S \in SUBSET Nat, S # {}
    PROVE  Min(S) \in S
<1>1. PICK d \in S : \A y \in S : ~ (<<y, d>> \in OpToRel(<, Nat))
  BY NatLessThanWellFounded, WFMin
<1>2. ASSUME NEW y \in S PROVE d <= y
  <2>1. d \in Nat /\ y \in Nat
    OBVIOUS
  <2>2. ~ (y < d)
    BY <1>1, <2>1 DEF OpToRel
  <2> QED
    BY <2>1, <2>2
<1> DEFINE P(x) == x \in S /\ \A y \in S : x <= y
<1>3. P(d)
  BY <1>2
<1>4. P(CHOOSE x : P(x))
  <2> HIDE DEF P
  <2> QED
    BY <1>3, Zenon
<1>5. Min(S) = CHOOSE x : P(x)
  BY DEF Min
<1> QED
  BY <1>4, <1>5

\* Of one number more than a finite set has elements, one is not in it.
LEMMA Smallest ==
    ASSUME NEW H \in SUBSET Nat, IsFiniteSet(H)
    PROVE  LET n == Min((1..(Cardinality(H) + 1)) \ H) IN n \in Nat /\ n # 0 /\ n \notin H
<1> DEFINE c == Cardinality(H) + 1
           S == (1..c) \ H
<1>1. c \in Nat /\ c = Cardinality(H) + 1
  BY FS_CardinalityType
<1>2. IsFiniteSet(1..c) /\ Cardinality(1..c) = c
  BY <1>1, FS_Interval
<1>3. S # {}
  <2>1. SUFFICES ASSUME 1..c \subseteq H PROVE FALSE
    OBVIOUS
  <2>2. Cardinality(1..c) <= Cardinality(H)
    BY <2>1, FS_Subset
  <2> QED
    BY <1>1, <1>2, <2>2, FS_CardinalityType
<1>4. S \in SUBSET Nat
  BY <1>1
<1>5. Min(S) \in S
  BY <1>3, <1>4, MinIs
<1> QED
  BY <1>1, <1>5

\* The values of a function on a finite set are finitely many.
LEMMA FiniteImage ==
    ASSUME NEW S, IsFiniteSet(S), NEW f, f = [x \in S |-> f[x]]
    PROVE  IsFiniteSet({f[x] : x \in S})
<1> DEFINE T == {f[x] : x \in S}
<1>1. f \in Surjection(S, T)
  BY DEF Surjection
<1> HIDE DEF T
<1>2. IsFiniteSet(T)
  BY <1>1, FS_Surjection
<1> QED
  BY <1>2 DEF T

\* The ids of finitely many rows, the media and ids of collections they name.
LEMMA FiniteIds ==
    ASSUME NEW F, IsFiniteSet(F)
    PROVE  /\ IsFiniteSet({f.id : f \in F})
           /\ IsFiniteSet({f.cid : f \in F})
           /\ IsFiniteSet({f.last : f \in F})
           /\ IsFiniteSet({f[2] : f \in F})
<1>1. IsFiniteSet({f.id : f \in F})
  <2> DEFINE g == [f \in F |-> f.id]
  <2>1. IsFiniteSet({g[f] : f \in F})
    BY FiniteImage
  <2>2. {g[f] : f \in F} = {f.id : f \in F}
    OBVIOUS
  <2> QED
    BY <2>1, <2>2
<1>2. IsFiniteSet({f.cid : f \in F})
  <2> DEFINE g == [f \in F |-> f.cid]
  <2>1. IsFiniteSet({g[f] : f \in F})
    BY FiniteImage
  <2>2. {g[f] : f \in F} = {f.cid : f \in F}
    OBVIOUS
  <2> QED
    BY <2>1, <2>2
<1>3. IsFiniteSet({f.last : f \in F})
  <2> DEFINE g == [f \in F |-> f.last]
  <2>1. IsFiniteSet({g[f] : f \in F})
    BY FiniteImage
  <2>2. {g[f] : f \in F} = {f.last : f \in F}
    OBVIOUS
  <2> QED
    BY <2>1, <2>2
<1>4. IsFiniteSet({f[2] : f \in F})
  <2> DEFINE g == [f \in F |-> f[2]]
  <2>1. IsFiniteSet({g[f] : f \in F})
    BY FiniteImage
  <2>2. {g[f] : f \in F} = {f[2] : f \in F}
    OBVIOUS
  <2> QED
    BY <2>1, <2>2
<1> QED
  BY <1>1, <1>2, <1>3, <1>4

\* A pull at work is a record.
LEMMA AtWork ==
    ASSUME ConstantsAssumption, TypeInv
    PROVE  /\ Idle <=> pull.c = None
           /\ ~Idle <=> pull \in PullRec
           /\ ~Idle => pull.c \in Conn /\ pull \in PullRec
<1>1. NoPull.c = None
  BY DEF NoPull
<1>2. \A p \in PullRec : p.c \in Conn
  BY DEF PullRec
<1>3. None \notin Conn
  BY DEF ConstantsAssumption
<1> HIDE DEF PullRec, NoPull
<1> QED
  BY <1>1, <1>2, <1>3 DEF TypeInv, Idle

\* A new file gets an id that nobody has or remembers.
LEMMA NewFileIs ==
    ASSUME ConstantsAssumption, TypeInv
    PROVE  /\ NewFile \in Nat
           /\ \A f \in files : f.id # NewFile
           /\ ~Idle => \A f \in pull.files : f.id # NewFile
<1> DEFINE A == {f.id : f \in files}
           B == IF Idle THEN {} ELSE {f.id : f \in pull.files}
           held == A \cup B
<1>1. IsFiniteSet(A) /\ A \subseteq Nat
  <2>1. IsFiniteSet(A)
    BY FiniteIds DEF TypeInv
  <2>2. \A f \in files : f.id \in Nat
    BY DEF TypeInv, TypeOK, FileRow
  <2> QED
    BY <2>1, <2>2
<1>2. IsFiniteSet(B) /\ B \subseteq Nat
  <2>1. CASE Idle
    BY <2>1, FS_EmptySet
  <2>2. CASE ~Idle
    <3>1. IsFiniteSet(pull.files) /\ pull.files \subseteq FileRow
      BY <2>2, AtWork DEF TypeInv, PullRec
    <3>2. IsFiniteSet({f.id : f \in pull.files})
      BY <3>1, FiniteIds
    <3> QED
      BY <2>2, <3>1, <3>2 DEF FileRow
  <2> QED
    BY <2>1, <2>2
<1>3. IsFiniteSet(held) /\ held \in SUBSET Nat
  <2> HIDE DEF A, B
  <2> QED
    BY <1>1, <1>2, FS_Union
<1>4. NewFile = Min((1..(Cardinality(held) + 1)) \ held)
  BY DEF NewFile
<1>5. NewFile \in Nat /\ NewFile \notin held
  <2> HIDE DEF held
  <2> QED
    BY <1>3, <1>4, Smallest
<1> QED
  BY <1>5

\* And so does a new collection.
LEMMA NewCollIs ==
    ASSUME ConstantsAssumption, TypeInv, NEW m \in Media
    PROVE  NewColl(m) \in Nat /\ NewColl(m) # 0
<1> DEFINE H == {g \in busy : g.r.m = m}
           A == {coll[m]}
           B == {h.cid : h \in H}
           D == {k \in Doomed : k[1] = m}
           C == {l[2] : l \in D}
           E == IF Idle THEN {} ELSE {pull.coll[m]}
           held == A \cup B \cup C \cup E
<1>1. IsFiniteSet(A) /\ A \subseteq Nat
  <2>1. coll[m] \in Nat
    BY DEF TypeInv, TypeOK
  <2> QED
    BY <2>1, FS_Singleton
<1>2. IsFiniteSet(B) /\ B \subseteq Nat
  <2>1. IsFiniteSet(H) /\ H \subseteq busy
    BY FS_Subset DEF TypeInv
  <2>2. IsFiniteSet(B)
    <3> HIDE DEF H
    <3> QED
      BY <2>1, FiniteIds
  <2>3. \A h \in H : h.cid \in Nat
    BY DEF TypeInv, Handler
  <2> QED
    BY <2>2, <2>3
<1>3. IsFiniteSet(Doomed) /\ \A l \in Doomed : l[2] \in Nat
  <2> DEFINE L == {h.last : h \in busy}
             P == IF Idle THEN {} ELSE pull.last
  <2>1. IsFiniteSet(L) /\ \A T \in L : IsFiniteSet(T)
    BY FiniteIds DEF TypeInv
  <2>2. IsFiniteSet(UNION L)
    <3> HIDE DEF L
    <3> QED
      BY <2>1, FS_UNION
  <2>3. IsFiniteSet(P)
    BY FS_EmptySet DEF TypeInv
  <2>4. IsFiniteSet((UNION L) \cup P)
    <3> HIDE DEF L, P
    <3> QED
      BY <2>2, <2>3, FS_Union
  <2>5. \A T \in L : T \subseteq Media \X Nat
    BY DEF TypeInv, Handler
  <2>6. P \subseteq Media \X Nat
    <3>1. CASE Idle
      BY <3>1
    <3>2. CASE ~Idle
      <4>1. pull.last \in SUBSET (Media \X Nat)
        BY <3>2, AtWork DEF PullRec
      <4> QED
        BY <3>2, <4>1
    <3> QED
      BY <3>1, <3>2
  <2>7. Doomed = (UNION L) \cup P
    BY DEF Doomed
  <2>8. Doomed \subseteq Media \X Nat
    <3> HIDE DEF L, P
    <3> QED
      BY <2>5, <2>6, <2>7
  <2> QED
    BY <2>4, <2>7, <2>8
<1>4. IsFiniteSet(C) /\ C \subseteq Nat
  <2>1. IsFiniteSet(D) /\ D \subseteq Doomed
    BY <1>3, FS_Subset
  <2>2. IsFiniteSet(C)
    <3> HIDE DEF D
    <3> QED
      BY <2>1, FiniteIds
  <2> QED
    BY <1>3, <2>2
<1>5. IsFiniteSet(E) /\ E \subseteq Nat
  <2>1. CASE Idle
    BY <2>1, FS_EmptySet
  <2>2. CASE ~Idle
    <3>1. pull.coll[m] \in Nat
      BY <2>2, AtWork DEF PullRec
    <3> QED
      BY <2>2, <3>1, FS_Singleton
  <2> QED
    BY <2>1, <2>2
<1>6. IsFiniteSet(held) /\ held \in SUBSET Nat
  <2> HIDE DEF A, B, C, E
  <2>1. IsFiniteSet(A \cup B)
    BY <1>1, <1>2, FS_Union
  <2>2. IsFiniteSet(A \cup B \cup C)
    BY <1>4, <2>1, FS_Union
  <2>3. IsFiniteSet(held)
    BY <1>5, <2>2, FS_Union
  <2> QED
    BY <1>1, <1>2, <1>4, <1>5, <2>3
<1>7. NewColl(m) = Min((1..(Cardinality(held) + 1)) \ held)
  BY DEF NewColl
<1> HIDE DEF held
<1> QED
  BY <1>6, <1>7, Smallest

-----------------------------------------------------------------------------
(* Tables.                                                                 *)

\* What collections and files are in every state: the constraints of both tables.
Good(F, C) ==
    /\ F \subseteq FileRow /\ IsFiniteSet(F)
    /\ C \in [Media -> Nat]
    /\ \A f, g \in F : f.id = g.id \/ <<f.m, f.src, f.sid>> = <<g.m, g.src, g.sid>> => f = g
    /\ \A f \in F : C[f.m] # 0

LEMMA TablesGood ==
    ASSUME TypeInv
    PROVE  Good(files, coll)
BY DEF TypeInv, TypeOK, Good

\* Rows of one file: what an update does not change.
Same(f, g) == f.id = g.id /\ f.m = g.m /\ f.src = g.src
\* Every row is new or one of files, updated.
Kept(F) == \A f \in F : f.id = NewFile \/ \E g \in files : Same(f, g)

\* The row a step adds.
NewRow(m, src, s, c) == [id |-> NewFile, m |-> m, src |-> src, sid |-> s, conn |-> c]

LEMMA NewRowIs ==
    ASSUME ConstantsAssumption, TypeInv, NEW m \in Media, NEW src \in Source, NEW s \in Sid,
           NEW c \in Conn \cup {None}
    PROVE  NewRow(m, src, s, c) \in FileRow /\ NewRow(m, src, s, c) \notin files
BY NewFileIs DEF NewRow, FileRow

\* A file is added to tables.
LEMMA AddedIs ==
    ASSUME ConstantsAssumption, TypeInv, NEW t, Good(t.files, t.coll), t.files \subseteq files,
           NEW m \in Media, NEW src \in Source, NEW s \in Sid, NEW c \in Conn \cup {None},
           \A f \in t.files : <<f.m, f.src, f.sid>> # <<m, src, s>>
    PROVE  LET u == Added(t, m, src, s, c) IN
           /\ Good(u.files, u.coll)
           /\ u.files = t.files \cup {NewRow(m, src, s, c)}
           /\ \A x \in Media : x # m \/ t.coll[x] # 0 => u.coll[x] = t.coll[x]
           /\ u.coll[m] # 0
<1> DEFINE u == Added(t, m, src, s, c)
           r == NewRow(m, src, s, c)
<1>1. /\ u.files = t.files \cup {r}
      /\ u.coll = [t.coll EXCEPT ![m] = IF @ = 0 THEN NewColl(m) ELSE @]
  BY DEF Added, NewRow
<1>2. NewColl(m) \in Nat /\ NewColl(m) # 0
  BY NewCollIs
<1>3. r \in FileRow /\ r \notin files /\ r.id = NewFile /\ r.m = m /\ r.src = src /\ r.sid = s
  BY NewRowIs DEF NewRow
<1>4. \A f \in files : f.id # NewFile
  BY NewFileIs
<1> HIDE DEF r, u
<1>5. u.coll \in [Media -> Nat] /\ u.coll[m] # 0
  BY <1>1, <1>2 DEF Good
<1>6. \A x \in Media : x # m \/ t.coll[x] # 0 => u.coll[x] = t.coll[x]
  BY <1>1 DEF Good
<1>7. u.files \subseteq FileRow
  BY <1>1, <1>3 DEF Good
<1>8. IsFiniteSet(u.files)
  BY <1>1, FS_AddElement DEF Good
<1>9. ASSUME NEW f \in u.files, NEW g \in u.files,
             f.id = g.id \/ <<f.m, f.src, f.sid>> = <<g.m, g.src, g.sid>>
      PROVE  f = g
  <2>1. f \in t.files \/ f = r
    BY <1>1
  <2>2. g \in t.files \/ g = r
    BY <1>1
  <2>3. CASE f \in t.files /\ g \in t.files
    BY <1>9, <2>3 DEF Good
  <2>4. CASE f \in t.files /\ g = r
    BY <1>3, <1>4, <1>9, <2>4
  <2>5. CASE f = r /\ g \in t.files
    BY <1>3, <1>4, <1>9, <2>5
  <2> QED
    BY <2>1, <2>2, <2>3, <2>4, <2>5
<1>10. ASSUME NEW f \in u.files PROVE u.coll[f.m] # 0
  <2>1. f \in t.files \/ f = r
    BY <1>1
  <2>2. ASSUME f \in t.files PROVE u.coll[f.m] # 0
    <3>1. f.m \in Media /\ t.coll[f.m] # 0
      BY <2>2 DEF Good, FileRow
    <3> QED
      BY <3>1, <1>6
  <2> QED
    BY <1>3, <1>5, <2>1, <2>2
<1>11. Good(u.files, u.coll)
  BY <1>5, <1>7, <1>8, <1>9, <1>10 DEF Good
<1> QED
  BY <1>1, <1>5, <1>6, <1>11 DEF u, r

\* Rows go, and collections without a file left.
LEMMA DroppedIs ==
    ASSUME TypeInv, NEW rows
    PROVE  LET t == Dropped(rows) IN
           /\ Good(t.files, t.coll) /\ t.files = files \ rows
           /\ \A m \in Media :
                 /\ t.coll[m] # 0 => t.coll[m] = coll[m]
                 /\ t.coll[m] # 0 /\ (\A f \in t.files : f.m # m) => \A f \in rows : f.m # m
<1> DEFINE t == Dropped(rows)
           left == files \ rows
           gone == {m \in {f.m : f \in rows} : \A f \in left : f.m # m}
<1>1. t.files = left /\ t.coll = [m \in Media |-> IF m \in gone THEN 0 ELSE coll[m]]
  BY DEF Dropped
<1>2. Good(files, coll)
  BY TablesGood
<1> HIDE DEF t
<1>3. t.coll \in [Media -> Nat]
  BY <1>1, <1>2 DEF Good
<1>4. IsFiniteSet(t.files)
  BY <1>1, <1>2, FS_Subset DEF Good
<1>5. \A f \in t.files : t.coll[f.m] # 0
  <2>1. ASSUME NEW f \in t.files PROVE t.coll[f.m] # 0
    <3>1. f \in left /\ f.m \notin gone /\ f.m \in Media /\ coll[f.m] # 0
      BY <1>1, <1>2 DEF Good, FileRow
    <3> QED
      BY <3>1, <1>1
  <2> QED
    BY <2>1
<1>6. Good(t.files, t.coll)
  BY <1>1, <1>2, <1>3, <1>4, <1>5 DEF Good
<1>7. ASSUME NEW m \in Media
      PROVE  /\ t.coll[m] # 0 => t.coll[m] = coll[m]
             /\ t.coll[m] # 0 /\ (\A f \in t.files : f.m # m) => \A f \in rows : f.m # m
  BY <1>1
<1> QED
  BY <1>1, <1>6, <1>7 DEF t

\* A transaction's removals: rows, and collections it found to have no others.
LEMMA RemovedIs ==
    ASSUME TypeInv, NEW rows, NEW last \in SUBSET (Media \X Nat)
    PROVE  LET t == Removed(rows, last) IN
           /\ Good(t.files, t.coll) /\ t.files \subseteq files \ rows
           /\ \A m \in Media :
                 /\ t.coll[m] # 0 => t.coll[m] = coll[m] /\ <<m, coll[m]>> \notin last
                 /\ <<m, coll[m]>> \notin last =>
                        t.coll[m] = coll[m] /\ \A f \in files \ rows : f.m = m => f \in t.files
                 /\ <<m, coll[m]>> \in last => \A f \in t.files : f.m # m
<1> DEFINE t == Removed(rows, last)
           dead == {l[1] : l \in {k \in last : coll[k[1]] = k[2]}}
<1>1. /\ t.files = {f \in files \ rows : f.m \notin dead}
      /\ t.coll = [m \in Media |-> IF m \in dead THEN 0 ELSE coll[m]]
  BY DEF Removed
<1>2. \A m \in Media : m \in dead <=> <<m, coll[m]>> \in last
  <2>1. ASSUME NEW m \in Media, m \in dead PROVE <<m, coll[m]>> \in last
    <3>1. PICK l \in last : m = l[1] /\ coll[l[1]] = l[2]
      BY <2>1
    <3>2. l = <<l[1], l[2]>>
      OBVIOUS
    <3> QED
      BY <3>1, <3>2
  <2>2. ASSUME NEW m \in Media, <<m, coll[m]>> \in last PROVE m \in dead
    BY <2>2
  <2> QED
    BY <2>1, <2>2
<1>3. Good(files, coll)
  BY TablesGood
<1> HIDE DEF t, dead
<1>4. t.coll \in [Media -> Nat]
  BY <1>1, <1>3 DEF Good
<1>5. t.files \subseteq files
  BY <1>1
<1>6. IsFiniteSet(t.files)
  BY <1>3, <1>5, FS_Subset DEF Good
<1>7. \A f \in t.files : t.coll[f.m] # 0
  BY <1>1, <1>3 DEF Good, FileRow
<1>8. Good(t.files, t.coll)
  BY <1>3, <1>4, <1>5, <1>6, <1>7 DEF Good
<1>9. ASSUME NEW m \in Media
      PROVE  /\ t.coll[m] # 0 => t.coll[m] = coll[m] /\ <<m, coll[m]>> \notin last
             /\ <<m, coll[m]>> \notin last =>
                    t.coll[m] = coll[m] /\ \A f \in files \ rows : f.m = m => f \in t.files
             /\ <<m, coll[m]>> \in last => \A f \in t.files : f.m # m
  BY <1>1, <1>2
<1>10. t.files \subseteq files \ rows
  BY <1>1
<1> QED
  BY <1>8, <1>9, <1>10 DEF t

\* What every step makes of the tables: they are good; a row is new or was there, and
\* the collection of a row that stays is the one it was.
Tab(F, C) ==
    /\ Good(F, C) /\ Kept(F)
    /\ \A f \in files : \A k \in F : f.id = k.id => Same(k, f) /\ C[f.m] = coll[f.m]

LEMMA TabOfPart ==
    ASSUME TypeInv, NEW t, Good(t.files, t.coll), t.files \subseteq files,
           \A m \in Media : t.coll[m] # 0 => t.coll[m] = coll[m]
    PROVE  Tab(t.files, t.coll)
<1>1. Good(files, coll)
  BY TablesGood
<1>2. Kept(t.files)
  BY DEF Kept, Same
<1>3. ASSUME NEW f \in files, NEW k \in t.files, f.id = k.id
      PROVE  Same(k, f) /\ t.coll[f.m] = coll[f.m]
  <2>1. f = k
    BY <1>1, <1>3 DEF Good
  <2>2. t.coll[k.m] # 0 /\ k.m \in Media
    BY DEF Good, FileRow
  <2> QED
    BY <2>1, <2>2 DEF Same
<1> QED
  BY <1>2, <1>3 DEF Tab

LEMMA TabUnchanged ==
    ASSUME TypeInv
    PROVE  Tab(files, coll)
<1>1. Good(files, coll)
  BY TablesGood
<1> DEFINE t == [files |-> files, coll |-> coll]
<1>2. t.files = files /\ t.coll = coll
  OBVIOUS
<1> HIDE DEF t
<1> QED
  BY <1>1, <1>2, TabOfPart

LEMMA TabAdded ==
    ASSUME ConstantsAssumption, TypeInv, NEW t, Tab(t.files, t.coll), t.files \subseteq files,
           NEW m \in Media, NEW src \in Source, NEW s \in Sid, NEW c \in Conn \cup {None},
           \A f \in t.files : <<f.m, f.src, f.sid>> # <<m, src, s>>
    PROVE  Tab(Added(t, m, src, s, c).files, Added(t, m, src, s, c).coll)
<1> DEFINE u == Added(t, m, src, s, c)
           r == NewRow(m, src, s, c)
<1>1. /\ Good(u.files, u.coll)
      /\ u.files = t.files \cup {r}
      /\ \A x \in Media : x # m \/ t.coll[x] # 0 => u.coll[x] = t.coll[x]
  BY AddedIs DEF Tab
<1>2. r.id = NewFile /\ \A f \in files : f.id # NewFile
  BY NewFileIs DEF NewRow
<1> HIDE DEF u, r
<1>3. Kept(u.files)
  BY <1>1, <1>2 DEF Kept, Tab
<1>4. ASSUME NEW f \in files, NEW k \in u.files, f.id = k.id
      PROVE  Same(k, f) /\ u.coll[f.m] = coll[f.m]
  <2>1. k \in t.files
    BY <1>1, <1>2, <1>4
  <2>2. Same(k, f) /\ t.coll[f.m] = coll[f.m]
    BY <1>4, <2>1 DEF Tab
  <2>3. f.m \in Media /\ coll[f.m] # 0
    BY TablesGood DEF Good, FileRow
  <2> QED
    BY <1>1, <2>2, <2>3
<1> QED
  BY <1>1, <1>3, <1>4 DEF Tab, u

\* Rows are updated, each keeping its id, media and source.
Renewal(e, F) ==
    /\ e = [f \in F |-> e[f]]
    /\ \A f \in F : e[f] \in FileRow /\ Same(e[f], f)
    /\ \A f, g \in F : e[f].m = e[g].m /\ e[f].src = e[g].src /\ e[f].sid = e[g].sid => f = g
Renewed(e, F) == {e[f] : f \in F}

LEMMA TabRenewed ==
    ASSUME TypeInv, NEW F, NEW C, Tab(F, C), NEW e, Renewal(e, F)
    PROVE  Tab(Renewed(e, F), C)
<1> DEFINE N == Renewed(e, F)
<1>1. N \subseteq FileRow
  BY DEF Renewal, Renewed
<1>2. IsFiniteSet(N)
  BY FiniteImage DEF Renewal, Renewed, Tab, Good
<1>3. ASSUME NEW f \in N, NEW g \in N,
             f.id = g.id \/ <<f.m, f.src, f.sid>> = <<g.m, g.src, g.sid>>
      PROVE  f = g
  <2>1. PICK a \in F : f = e[a]
    BY DEF Renewed
  <2>2. PICK b \in F : g = e[b]
    BY DEF Renewed
  <2>3. CASE f.id = g.id
    <3>1. a.id = b.id
      BY <2>1, <2>2, <2>3 DEF Renewal, Same
    <3> QED
      BY <2>1, <2>2, <3>1 DEF Tab, Good
  <2>4. CASE <<f.m, f.src, f.sid>> = <<g.m, g.src, g.sid>>
    <3>1. f.m = g.m /\ f.src = g.src /\ f.sid = g.sid
      BY <2>4
    <3> QED
      BY <2>1, <2>2, <3>1 DEF Renewal
  <2> QED
    BY <1>3, <2>3, <2>4
<1>4. ASSUME NEW f \in N
      PROVE  /\ C[f.m] # 0
             /\ f.id = NewFile \/ \E g \in files : Same(f, g)
             /\ \A g \in files : g.id = f.id => Same(f, g) /\ C[g.m] = coll[g.m]
  <2>1. PICK a \in F : f = e[a] /\ Same(f, a)
    BY DEF Renewed, Renewal
  <2>2. C[a.m] # 0 /\ (a.id = NewFile \/ \E g \in files : Same(a, g))
    BY DEF Tab, Good, Kept
  <2>3. \A g \in files : g.id = a.id => Same(a, g) /\ C[g.m] = coll[g.m]
    BY DEF Tab
  <2> QED
    BY <2>1, <2>2, <2>3 DEF Same
<1>5. Good(N, C)
  BY <1>1, <1>2, <1>3, <1>4 DEF Good, Tab
<1>6. Kept(N)
  BY <1>4 DEF Kept
<1> QED
  BY <1>4, <1>5, <1>6 DEF Tab

\* Updates of the connection alone.
Reassign(F, S, c) == [f \in F |-> IF f \in S THEN [f EXCEPT !.conn = c] ELSE f]

LEMMA Reassigned ==
    ASSUME NEW F, NEW C, Good(F, C), NEW S, NEW c \in Conn \cup {None}
    PROVE  LET e == Reassign(F, S, c) IN
           /\ Renewal(e, F)
           /\ Renewed(e, F) = (F \ S) \cup {[f EXCEPT !.conn = c] : f \in S \cap F}
           /\ \A f \in F : e[f].sid = f.sid /\ e[f].conn = IF f \in S THEN c ELSE f.conn
<1> DEFINE e == Reassign(F, S, c)
<1> USE DEF Reassign
<1>1. ASSUME NEW f \in F
      PROVE  /\ e[f] \in FileRow /\ Same(e[f], f) /\ e[f].sid = f.sid
             /\ e[f].conn = IF f \in S THEN c ELSE f.conn
  <2>1. f \in FileRow
    BY DEF Good
  <2> QED
    BY <2>1 DEF FileRow, Same
<1>2. e = [f \in F |-> e[f]]
  OBVIOUS
<1>3. Renewed(e, F) = (F \ S) \cup {[f EXCEPT !.conn = c] : f \in S \cap F}
  BY DEF Renewed
<1> HIDE DEF e
<1>4. ASSUME NEW f \in F, NEW g \in F,
             e[f].m = e[g].m /\ e[f].src = e[g].src /\ e[f].sid = e[g].sid
      PROVE  f = g
  <2>1. <<f.m, f.src, f.sid>> = <<g.m, g.src, g.sid>>
    BY <1>1, <1>4 DEF Same
  <2> QED
    BY <2>1 DEF Good
<1>5. Renewal(e, F)
  BY <1>1, <1>2, <1>4 DEF Renewal
<1> QED
  BY <1>1, <1>3, <1>5 DEF e

\* A webhook's file: it is added, or given the connection.
Ensures(F, C, r, U, D) ==
    /\ Tab(U, D)
    /\ \A x \in Media : C[x] # 0 => D[x] = C[x]
    /\ \A x \in Media : (\A f \in U : f.m # x) => D[x] = C[x] /\ \A f \in F : f.m # x
    /\ \A f \in F : f \in U \/ (f.m = r.m /\ f.src = Type[r.c] /\ \E g \in U : Same(g, f))
    /\ \A f \in U : \/ f \in F
                    \/ f.conn = r.c /\ f.src = Type[r.c] /\ f.m = r.m /\ f.sid = r.sid
    /\ \A f \in U : f.id = NewFile \/ \E g \in F : Same(f, g)

LEMMA EnsuredIs ==
    ASSUME ConstantsAssumption, TypeInv, NEW F, NEW C, Tab(F, C), F \subseteq files,
           NEW r \in Report
    PROVE  LET u == Ensured([files |-> F, coll |-> C], r) IN Ensures(F, C, r, u.files, u.coll)
<1> DEFINE t == [files |-> F, coll |-> C]
           same == {f \in t.files : f.m = r.m /\ f.src = Type[r.c] /\ f.sid = r.sid}
           u == Ensured(t, r)
<1>1. r.c \in Conn /\ r.sid \in Sid /\ r.m \in Media /\ Type[r.c] \in Source
  BY DEF Report, Source
<1>2. CASE same = {}
  <2>1. u = Added(t, r.m, Type[r.c], r.sid, r.c)
    BY <1>2 DEF Ensured
  <2>2. \A f \in t.files : <<f.m, f.src, f.sid>> # <<r.m, Type[r.c], r.sid>>
    BY <1>2
  <2>3. Tab(u.files, u.coll)
    <3>1. Tab(t.files, t.coll) /\ t.files \subseteq files
      OBVIOUS
    <3> HIDE DEF t
    <3> QED
      BY <1>1, <2>1, <2>2, <3>1, TabAdded
  <2>4. /\ u.files = t.files \cup {NewRow(r.m, Type[r.c], r.sid, r.c)}
        /\ \A x \in Media : x # r.m \/ t.coll[x] # 0 => u.coll[x] = t.coll[x]
    <3>1. Good(t.files, t.coll) /\ t.files \subseteq files
      BY DEF Tab
    <3> HIDE DEF t
    <3> QED
      BY <1>1, <2>1, <2>2, <3>1, AddedIs
  <2>5. /\ NewRow(r.m, Type[r.c], r.sid, r.c).m = r.m
        /\ NewRow(r.m, Type[r.c], r.sid, r.c).src = Type[r.c]
        /\ NewRow(r.m, Type[r.c], r.sid, r.c).sid = r.sid
        /\ NewRow(r.m, Type[r.c], r.sid, r.c).conn = r.c
        /\ NewRow(r.m, Type[r.c], r.sid, r.c).id = NewFile
    BY DEF NewRow
  <2> QED
    BY <1>1, <2>3, <2>4, <2>5 DEF Same, Ensures
<1>3. CASE same # {}
  <2> DEFINE e == Reassign(F, same, r.c)
             N == (F \ same) \cup {[f EXCEPT !.conn = r.c] : f \in same}
  <2>1. u = [t EXCEPT !.files = N]
    BY <1>3 DEF Ensured
  <2>2. Tab(F, C) /\ Good(F, C)
    BY DEF Tab
  <2>3. u.files = N /\ u.coll = C
    BY <2>1
  <2>4. /\ Renewal(e, F)
        /\ Renewed(e, F) = (F \ same) \cup {[f EXCEPT !.conn = r.c] : f \in same \cap F}
        /\ \A f \in F : e[f].sid = f.sid /\ e[f].conn = IF f \in same THEN r.c ELSE f.conn
    <3>1. r.c \in Conn \cup {None}
      BY <1>1
    <3> HIDE DEF same
    <3> QED
      BY <2>2, <3>1, Reassigned
  <2>5. same \cap F = same
    OBVIOUS
  <2>6. u.files = Renewed(e, F)
    <3> HIDE DEF e, same
    <3> QED
      BY <2>3, <2>4, <2>5
  <2>7. Tab(u.files, u.coll)
    <3> HIDE DEF e, u
    <3>1. Tab(Renewed(e, F), C)
      BY <2>2, <2>4, TabRenewed
    <3> QED
      BY <2>3, <2>6, <3>1
  <2>8. ASSUME NEW f \in t.files
        PROVE  \/ f \in u.files
               \/ f.m = r.m /\ f.src = Type[r.c] /\ \E g \in u.files : Same(g, f)
    <3>1. CASE f \in same
      <4>1. e[f] \in u.files /\ Same(e[f], f)
        BY <2>4, <2>6 DEF Renewal, Renewed
      <4> QED
        BY <3>1, <4>1
    <3>2. CASE f \notin same
      BY <2>3, <3>2
    <3> QED
      BY <3>1, <3>2
  <2>9. ASSUME NEW f \in u.files
        PROVE  \/ f \in t.files
               \/ f.conn = r.c /\ f.src = Type[r.c] /\ f.m = r.m /\ f.sid = r.sid
    <3>1. PICK g \in t.files : f = e[g]
      BY <2>6 DEF Renewed
    <3>2. CASE g \in same
      <4>1. Same(f, g) /\ f.sid = g.sid /\ f.conn = r.c
        BY <2>4, <3>1, <3>2 DEF Renewal
      <4> QED
        BY <3>2, <4>1 DEF Same
    <3>3. CASE g \notin same
      <4>1. \A h \in F : h \notin same => e[h] = h
        BY DEF Reassign
      <4>2. g \in F /\ f = g
        BY <3>1, <3>3, <4>1
      <4> QED
        BY <4>2
    <3> QED
      BY <3>2, <3>3
  <2>10. \A x \in Media : (\A f \in u.files : f.m # x) => \A f \in t.files : f.m # x
    BY <2>8 DEF Same
  <2>11. \A f \in u.files : \E g \in t.files : Same(f, g)
    BY <2>4, <2>6 DEF Renewed, Renewal
  <2> QED
    BY <2>3, <2>7, <2>8, <2>9, <2>10, <2>11 DEF Ensures
<1> QED
  BY <1>2, <1>3

-----------------------------------------------------------------------------
(* One item of a pull.                                                     *)

\* What an item does to a row that stays: it may take the item's id if it is of the
\* item's media, and it takes the connection only then or if it was cached under the id.
Upd(k, g, i) ==
    /\ Same(k, g)
    /\ k.sid = g.sid \/ (k.sid = i[1] /\ k.m = i[2])
    /\ \/ k.conn = g.conn
       \/ /\ k.conn = pull.c /\ k.src = Type[pull.c] /\ k.m = i[2]
          /\ k.sid = i[1] \/ \E f \in Cached(i[1]) : f.id = g.id /\ f.m = i[2]

\* What it does to the pull: p is the pull after the eviction of a re-match.
Advanced(p, i) ==
    /\ pull' \in PullRec /\ IsFiniteSet(pull'.files)
    /\ pull'.c = p.c /\ pull'.phase = p.phase /\ pull'.seen = p.seen /\ pull'.limited = p.limited
    /\ pull'.stale = p.stale /\ pull'.last = p.last /\ pull'.slip = p.slip /\ pull'.by = p.by
    /\ pull'.todo = p.todo \ {i}
    /\ pull'.clean => p.clean
    /\ p.files \subseteq pull'.files
    /\ \A f \in pull'.files : f \in p.files \/ (f.sid = i[1] /\ \E g \in p.files : Same(f, g))

\* The row that shows the item: it has the item's id, or the one to which a row that
\* was cached under the item's id has moved.
Witness(i) ==
    \E k \in files' :
        /\ k.m = i[2] /\ k.conn = pull.c
        /\ k.sid = i[1] \/ \E f \in Cached(i[1]) : \E g \in Row(f) : k.sid = g.sid /\ g.m = i[2]

\* And to tables of files F and collections C.
Placed(F, C, p, i) ==
    /\ \A g \in F : \E k \in files' : Upd(k, g, i)
    /\ \A g \in F : g \in files' \/ \E f \in pull.files : f.id = g.id /\ f.m = i[2]
    /\ \A k \in files' : \/ \E g \in F : Upd(k, g, i)
                         \/ k = NewRow(i[2], Type[pull.c], i[1], pull.c)
    /\ \A m \in Media : (\A k \in files' : k.m # m) => coll'[m] = C[m] /\ \A g \in F : g.m # m
    /\ pull'.clean /\ (\A f \in p.files : \E g \in F : Same(g, f)) => Witness(i)
\* An item that fails.
Undone == files' = files /\ coll' = coll /\ ~pull'.clean

LEMMA DoneIs ==
    ASSUME NEW p \in PullRec, IsFiniteSet(p.files), NEW q \in PullRec, NEW i, ItemDone(q, i),
           q.c = p.c, q.phase = p.phase, q.seen = p.seen, q.limited = p.limited, q.todo = p.todo,
           q.stale = p.stale, q.last = p.last, q.slip = p.slip, q.by = p.by, q.clean => p.clean,
           IsFiniteSet(q.files), p.files \subseteq q.files,
           \A f \in q.files : f \in p.files \/ (f.sid = i[1] /\ \E g \in p.files : Same(f, g))
    PROVE  /\ Advanced(p, i) /\ pull'.clean = q.clean /\ pull'.coll = q.coll
           /\ pull'.files = q.files
<1>1. pull' = [q EXCEPT !.todo = @ \ {i}]
  BY DEF ItemDone
<1>2. /\ pull' \in PullRec
      /\ pull'.c = q.c /\ pull'.phase = q.phase /\ pull'.seen = q.seen /\ pull'.limited = q.limited
      /\ pull'.stale = q.stale /\ pull'.last = q.last /\ pull'.slip = q.slip /\ pull'.by = q.by
      /\ pull'.todo = q.todo \ {i} /\ pull'.clean = q.clean /\ pull'.files = q.files
      /\ pull'.coll = q.coll
  BY <1>1 DEF PullRec
<1> HIDE DEF PullRec
<1> QED
  BY <1>2 DEF Advanced

\* The setting of both ways of placing an item.
Setting(F, C, p, i) ==
    /\ Tab(F, C) /\ F \subseteq files
    /\ p \in PullRec /\ IsFiniteSet(p.files)
    /\ p.c = pull.c /\ p.c \in Conn
    /\ p.files \subseteq pull.files /\ p.by \subseteq p.files
    /\ \A f \in pull.files : f.src = Type[pull.c] /\ \A g \in files : f.id = g.id => Same(f, g)
    /\ i[1] \in Sid /\ i[2] \in Media

LEMMA NewIs ==
    ASSUME ConstantsAssumption, TypeInv, NEW F, NEW C, NEW p, NEW i, Setting(F, C, p, i),
           New([files |-> F, coll |-> C], p, i)
    PROVE  /\ Tab(files', coll') /\ Advanced(p, i)
           /\ Undone \/ Placed(F, C, p, i)
<1> DEFINE t == [files |-> F, coll |-> C]
           m == i[2]
           src == Type[p.c]
           twin == {f \in F : f.m = m /\ f.src = src /\ f.sid = i[1]}
           u == Added(t, m, src, i[1], p.c)
<1>1. /\ m \in Media /\ i[1] \in Sid /\ src \in Source /\ p.c \in Conn \cup {None} /\ p.c = pull.c
      /\ p \in PullRec /\ IsFiniteSet(p.files) /\ p.coll \in [Media -> Nat]
  BY DEF Setting, Source, PullRec
<1>2. \/ /\ ItemDone([p EXCEPT !.clean = FALSE], i) /\ files' = files /\ coll' = coll
      \/ /\ twin = {} /\ files' = u.files /\ coll' = u.coll
         /\ ItemDone([p EXCEPT !.coll[m] = u.coll[m]], i)
  BY DEF New, Write
<1>3. CASE ItemDone([p EXCEPT !.clean = FALSE], i) /\ files' = files /\ coll' = coll
  <2> DEFINE q == [p EXCEPT !.clean = FALSE]
  <2>1. /\ q \in PullRec /\ q.c = p.c /\ q.phase = p.phase /\ q.seen = p.seen
        /\ q.limited = p.limited /\ q.todo = p.todo /\ q.stale = p.stale /\ q.last = p.last
        /\ q.slip = p.slip /\ q.by = p.by /\ q.clean = FALSE /\ q.files = p.files
    BY <1>1 DEF PullRec
  <2>2. ItemDone(q, i)
    BY <1>3
  <2> HIDE DEF q
  <2>3. Advanced(p, i) /\ pull'.clean = FALSE
    BY <1>1, <2>1, <2>2, DoneIs
  <2> QED
    BY <1>3, <2>3, TabUnchanged DEF Undone
<1>4. CASE twin = {} /\ files' = u.files /\ coll' = u.coll /\ ItemDone([p EXCEPT !.coll[m] = u.coll[m]], i)
  <2>1. /\ \A f \in F : <<f.m, f.src, f.sid>> # <<m, src, i[1]>>
        /\ Tab(t.files, t.coll) /\ Good(t.files, t.coll) /\ t.files \subseteq files
        /\ t.files = F /\ t.coll = C
    BY <1>4 DEF Setting, Tab
  <2>2. /\ Good(u.files, u.coll)
        /\ u.files = F \cup {NewRow(m, src, i[1], p.c)}
        /\ \A x \in Media : x # m \/ C[x] # 0 => u.coll[x] = C[x]
    <3> HIDE DEF t
    <3> QED
      BY <1>1, <2>1, AddedIs
  <2>3. Tab(u.files, u.coll)
    <3> HIDE DEF t
    <3> QED
      BY <1>1, <2>1, TabAdded
  <2> DEFINE q == [p EXCEPT !.coll[m] = u.coll[m]]
  <2>4. u.coll[m] \in Nat
    BY <1>1, <2>2 DEF Good
  <2> HIDE DEF u
  <2>5. /\ q \in PullRec /\ q.c = p.c /\ q.phase = p.phase /\ q.seen = p.seen
        /\ q.limited = p.limited /\ q.todo = p.todo /\ q.stale = p.stale /\ q.last = p.last
        /\ q.slip = p.slip /\ q.by = p.by /\ q.clean = p.clean /\ q.files = p.files
    BY <1>1, <2>4 DEF PullRec
  <2>6. ItemDone(q, i)
    BY <1>4
  <2> HIDE DEF q
  <2>7. Advanced(p, i)
    BY <1>1, <2>5, <2>6, DoneIs
  <2> DEFINE r == NewRow(m, src, i[1], p.c)
  <2>8. r.m = m /\ r.conn = pull.c /\ r.sid = i[1] /\ r = NewRow(i[2], Type[pull.c], i[1], pull.c)
    BY <1>1 DEF NewRow
  <2> HIDE DEF r
  <2>9. files' = F \cup {r} /\ coll' = u.coll
    BY <1>4, <2>2 DEF r
  <2>10. \A g \in F : Upd(g, g, i)
    BY DEF Upd, Same
  <2>11. \A x \in Media : (\A k \in files' : k.m # x) => coll'[x] = C[x] /\ \A g \in F : g.m # x
    BY <2>2, <2>8, <2>9
  <2>12. Placed(F, C, p, i)
    BY <2>8, <2>9, <2>10, <2>11 DEF Placed, Witness
  <2> QED
    BY <1>4, <2>3, <2>7, <2>12
<1> QED
  BY <1>2, <1>3, <1>4

LEMMA MovedIs ==
    ASSUME ConstantsAssumption, TypeInv, NEW F, NEW C, NEW p, NEW i, Setting(F, C, p, i),
           NEW f \in p.by, Moved([files |-> F, coll |-> C], p, i, f)
    PROVE  /\ Tab(files', coll') /\ Advanced(p, i)
           /\ Undone \/ Placed(F, C, p, i)
<1> DEFINE taken == \E g \in F : g.m = i[2] /\ g.src = f.src /\ g.sid = i[1] /\ g.id # f.id
           t == [files |-> F, coll |-> C]
           N == {IF g.id = f.id THEN [g EXCEPT !.sid = i[1], !.conn = p.c] ELSE g : g \in F}
           q == [p EXCEPT !.files = @ \cup {[f EXCEPT !.sid = i[1]]}, !.clean = @ /\ ~taken]
           n == [f EXCEPT !.sid = i[1]]
<1>1. /\ i[2] \in Media /\ i[1] \in Sid /\ p.c = pull.c /\ p.c \in Conn
      /\ p \in PullRec /\ IsFiniteSet(p.files) /\ f \in p.files /\ f \in pull.files /\ f.m = i[2]
      /\ f.src = Type[pull.c] /\ f \in FileRow
      /\ \A g \in F : f.id = g.id => Same(f, g)
      /\ F \subseteq FileRow
  BY DEF Setting, PullRec, Moved, Tab, Good
<1>2. ItemDone(q, i)
  BY DEF Moved
<1>3. n \in FileRow /\ n.sid = i[1] /\ Same(n, f)
  BY <1>1 DEF FileRow, Same
<1>4. /\ q \in PullRec /\ q.c = p.c /\ q.phase = p.phase /\ q.seen = p.seen
      /\ q.limited = p.limited /\ q.todo = p.todo /\ q.stale = p.stale /\ q.last = p.last
      /\ q.slip = p.slip /\ q.by = p.by /\ q.files = p.files \cup {n}
      /\ q.clean = (p.clean /\ ~taken)
  <2> HIDE DEF n, taken
  <2>1. q = [p EXCEPT !.files = p.files \cup {n}, !.clean = p.clean /\ ~taken]
    BY DEF n
  <2>2. p.files \cup {n} \subseteq FileRow /\ (p.clean /\ ~taken) \in BOOLEAN
    BY <1>1, <1>3 DEF PullRec
  <2> HIDE DEF q
  <2> QED
    BY <1>1, <2>1, <2>2 DEF PullRec
<1> HIDE DEF q, n
<1>5. IsFiniteSet(q.files)
  BY <1>1, <1>4, FS_AddElement
<1>6. Advanced(p, i) /\ pull'.clean = q.clean
  BY <1>1, <1>2, <1>3, <1>4, <1>5, DoneIs
<1>7. CASE taken
  <2>1. files' = files /\ coll' = coll
    BY <1>7 DEF Moved
  <2>2. ~pull'.clean
    BY <1>4, <1>6, <1>7
  <2> QED
    BY <1>6, <2>1, <2>2, TabUnchanged DEF Undone
<1>8. CASE ~taken
  <2>1. files' = N /\ coll' = C
    BY <1>8 DEF Moved, Write
  <2> DEFINE e == [g \in F |-> IF g.id = f.id THEN [g EXCEPT !.sid = i[1], !.conn = p.c] ELSE g]
  <2>2. N = Renewed(e, F)
    BY DEF Renewed
  <2>3. ASSUME NEW g \in F
        PROVE  /\ e[g] \in FileRow /\ Same(e[g], g)
               /\ g.id # f.id => e[g] = g
               /\ g.id = f.id => e[g].sid = i[1] /\ e[g].conn = p.c /\ g.m = i[2] /\ g.src = f.src
    BY <1>1 DEF FileRow, Same
  <2>4. e = [g \in F |-> e[g]]
    OBVIOUS
  <2> HIDE DEF e, N
  <2>5. ASSUME NEW g \in F, NEW h \in F,
               e[g].m = e[h].m /\ e[g].src = e[h].src /\ e[g].sid = e[h].sid
        PROVE  g = h
    <3>1. Same(e[g], g) /\ Same(e[h], h)
      BY <2>3
    <3>2. g.m = h.m /\ g.src = h.src
      BY <2>5, <3>1 DEF Same
    <3>3. CASE g.id = f.id /\ h.id = f.id
      BY <3>3 DEF Setting, Tab, Good
    <3>4. CASE g.id # f.id /\ h.id # f.id
      <4>1. <<g.m, g.src, g.sid>> = <<h.m, h.src, h.sid>>
        BY <2>3, <2>5, <3>2, <3>4
      <4> QED
        BY <4>1 DEF Setting, Tab, Good
    <3>5. CASE g.id = f.id /\ h.id # f.id
      <4>1. h.m = i[2] /\ h.src = f.src /\ h.sid = i[1]
        BY <2>3, <2>5, <3>2, <3>5
      <4> QED
        BY <1>8, <3>5, <4>1
    <3>6. CASE g.id # f.id /\ h.id = f.id
      <4>1. g.m = i[2] /\ g.src = f.src /\ g.sid = i[1]
        BY <2>3, <2>5, <3>2, <3>6
      <4> QED
        BY <1>8, <3>6, <4>1
    <3> QED
      BY <3>3, <3>4, <3>5, <3>6
  <2>6. Renewal(e, F)
    BY <2>3, <2>4, <2>5 DEF Renewal
  <2>7. Tab(files', coll')
    <3>1. Tab(F, C)
      BY DEF Setting
    <3>2. Tab(Renewed(e, F), C)
      BY <2>6, <3>1, TabRenewed
    <3> QED
      BY <2>1, <2>2, <3>2
  <2>8. ASSUME NEW g \in F
        PROVE  e[g] \in files' /\ Upd(e[g], g, i)
    <3>1. e[g] \in files'
      BY <2>1, <2>2 DEF Renewed
    <3>2. CASE g.id = f.id
      BY <1>1, <2>3, <3>1, <3>2 DEF Upd, Same
    <3>3. CASE g.id # f.id
      BY <2>3, <3>1, <3>3 DEF Upd
    <3> QED
      BY <3>2, <3>3
  <2>9. \A g \in F : g \in files' \/ \E h \in pull.files : h.id = g.id /\ h.m = i[2]
    BY <1>1, <2>3, <2>8
  <2>10. \A k \in files' : \E g \in F : Upd(k, g, i)
    BY <2>1, <2>2, <2>8 DEF Renewed
  <2>11. \A x \in Media : (\A k \in files' : k.m # x) => coll'[x] = C[x] /\ \A g \in F : g.m # x
    BY <2>1, <2>8 DEF Upd, Same
  <2>12. ASSUME \A h \in p.files : \E g \in F : Same(g, h)
         PROVE  Witness(i)
    <3>1. PICK g \in F : Same(g, f)
      BY <1>1, <2>12
    <3>2. g.id = f.id
      BY <3>1 DEF Same
    <3>3. e[g].sid = i[1] /\ e[g].conn = p.c /\ e[g].m = i[2] /\ e[g] \in files'
      BY <2>3, <2>8, <3>2 DEF Same
    <3> QED
      BY <1>1, <3>3 DEF Witness
  <2>13. Placed(F, C, p, i)
    BY <2>8, <2>9, <2>10, <2>11, <2>12 DEF Placed
  <2> QED
    BY <1>6, <2>7, <2>13
<1> QED
  BY <1>7, <1>8

LEMMA KnownIs ==
    ASSUME TypeInv, NEW i, NEW f, Setting(files, coll, pull, i), Known(i, f)
    PROVE  /\ Tab(files', coll') /\ Advanced(pull, i)
           /\ Placed(files, coll, pull, i)
<1> DEFINE e == Reassign(files, Row(f), pull.c)
<1>1. /\ f \in pull.files /\ f.sid = i[1] /\ f.m = i[2] /\ f \in Cached(i[1])
      /\ pull \in PullRec /\ IsFiniteSet(pull.files) /\ pull.c \in Conn
      /\ f.src = Type[pull.c] /\ \A g \in Row(f) : Same(f, g)
  BY DEF Known, Cached, Setting, Row
<1>2. Tab(files, coll) /\ Good(files, coll)
  BY DEF Setting, Tab
<1>3. /\ Renewal(e, files)
      /\ Renewed(e, files) = (files \ Row(f)) \cup {[g EXCEPT !.conn = pull.c] : g \in Row(f) \cap files}
      /\ \A g \in files : e[g].sid = g.sid /\ e[g].conn = IF g \in Row(f) THEN pull.c ELSE g.conn
  BY <1>1, <1>2, Reassigned
<1>4. Row(f) \cap files = Row(f)
  BY DEF Row
<1>5. \A g \in files : g \notin Row(f) => e[g] = g
  BY DEF Reassign
<1> HIDE DEF e
<1>6. files' = Renewed(e, files) /\ coll' = coll
  BY <1>3, <1>4 DEF Known
<1>7. Tab(files', coll')
  BY <1>2, <1>3, <1>6, TabRenewed
<1>8. Advanced(pull, i)
  BY <1>1, DoneIs DEF Known
<1>9. ASSUME NEW g \in files
      PROVE  /\ e[g] \in files' /\ Upd(e[g], g, i)
             /\ g \notin Row(f) => g \in files'
  <2>1. Same(e[g], g) /\ e[g] \in files'
    BY <1>3, <1>6 DEF Renewal, Renewed
  <2>2. CASE g \in Row(f)
    <3>1. /\ e[g].sid = g.sid /\ e[g].conn = pull.c /\ g.id = f.id /\ e[g].src = Type[pull.c]
          /\ e[g].m = i[2]
      BY <1>1, <1>3, <2>1, <2>2 DEF Row, Same
    <3> QED
      BY <1>1, <2>1, <2>2, <3>1 DEF Upd
  <2>3. CASE g \notin Row(f)
    BY <1>3, <1>5, <2>1, <2>3 DEF Upd
  <2> QED
    BY <2>1, <2>2, <2>3
<1>10. \A g \in files : g \in files' \/ \E h \in pull.files : h.id = g.id /\ h.m = i[2]
  BY <1>1, <1>9 DEF Row
<1>11. \A k \in files' : \E g \in files : Upd(k, g, i)
  BY <1>6, <1>9 DEF Renewed
<1>12. \A m \in Media : (\A k \in files' : k.m # m) => coll'[m] = coll[m] /\ \A g \in files : g.m # m
  BY <1>6, <1>9 DEF Upd, Same
<1>13. ASSUME \A h \in pull.files : \E g \in files : Same(g, h)
       PROVE  Witness(i)
  <2>1. PICK g \in files : Same(g, f)
    BY <1>1, <1>13
  <2>2. g \in Row(f) /\ g.m = i[2]
    BY <1>1, <2>1 DEF Row, Same
  <2>3. e[g] \in files' /\ e[g].conn = pull.c /\ e[g].sid = g.sid /\ e[g].m = g.m
    BY <1>3, <1>9, <2>2 DEF Upd, Same
  <2> QED
    BY <1>1, <2>2, <2>3 DEF Witness
<1> QED
  BY <1>7, <1>8, <1>9, <1>10, <1>11, <1>12, <1>13 DEF Placed

LEMMA PlacedIs ==
    ASSUME ConstantsAssumption, TypeInv, NEW t, NEW p, NEW i, Setting(t.files, t.coll, p, i),
           t = [files |-> t.files, coll |-> t.coll], Place(t, p, i)
    PROVE  /\ Tab(files', coll') /\ Advanced(p, i)
           /\ Undone \/ Placed(t.files, t.coll, p, i)
BY NewIs, MovedIs DEF Place

\* The eviction of a re-match: the pull forgets the file f.
Evicted(p, f) ==
    /\ p \in PullRec
    /\ p.c = pull.c /\ p.phase = pull.phase /\ p.seen = pull.seen /\ p.limited = pull.limited
    /\ p.todo = pull.todo /\ p.stale = pull.stale /\ p.last = pull.last /\ p.clean = pull.clean
    /\ p.files = pull.files \ {f} /\ p.by \subseteq p.files
    /\ p.slip <=> \/ pull.slip
                  \/ \E g \in Row(f) : g.sid # f.sid \/ g.id \in {h.id : h \in pull.files \ {f}}

LEMMA EvictedIs ==
    ASSUME ConstantsAssumption, TypeInv, CacheTrue, ~Idle, NEW i, NEW f, Rematched(i, f)
    PROVE  \E p : /\ Evicted(p, f) /\ IsFiniteSet(p.files)
                  /\ Place(Dropped(Row(f)), p, i)
<1> DEFINE t == Dropped(Row(f))
           slip == pull.slip \/ \E g \in Row(f) : g.sid # f.sid \/ g.id \in {h.id : h \in pull.files \ {f}}
           by == {g \in pull.by : g.m # f.m}
           q == Forget(f)
           p == [q EXCEPT !.coll[f.m] = IF t.coll[f.m] = 0 THEN 0 ELSE @]
<1>1. pull \in PullRec /\ IsFiniteSet(pull.files) /\ pull.by \subseteq pull.files
  BY AtWork DEF TypeInv, CacheTrue
<1>2. q = [pull EXCEPT !.files = pull.files \ {f}, !.by = by, !.slip = slip]
  BY DEF Forget
<1>3. slip \in BOOLEAN /\ by \subseteq FileRow /\ pull.files \ {f} \subseteq FileRow
      /\ by \subseteq pull.files \ {f}
  BY <1>1 DEF PullRec
<1> HIDE DEF slip, by, q
<1>4. /\ q \in PullRec
      /\ q.c = pull.c /\ q.phase = pull.phase /\ q.seen = pull.seen /\ q.limited = pull.limited
      /\ q.todo = pull.todo /\ q.stale = pull.stale /\ q.last = pull.last /\ q.clean = pull.clean
      /\ q.files = pull.files \ {f} /\ q.by = by /\ q.slip = slip
  BY <1>1, <1>2, <1>3 DEF PullRec
<1>5. \E n \in Nat : p = [q EXCEPT !.coll[f.m] = n]
  <2>1. f \in pull.files /\ f.m \in Media /\ q.coll[f.m] \in Nat
    BY <1>1, <1>4 DEF Rematched, Cached, PullRec, FileRow
  <2> DEFINE n == IF t.coll[f.m] = 0 THEN 0 ELSE q.coll[f.m]
  <2>2. n \in Nat
    BY <2>1
  <2>3. p = [q EXCEPT !.coll[f.m] = n]
    BY <2>1
  <2> QED
    BY <2>2, <2>3
<1> HIDE DEF p
<1>6. /\ p \in PullRec
      /\ p.c = q.c /\ p.phase = q.phase /\ p.seen = q.seen /\ p.limited = q.limited
      /\ p.todo = q.todo /\ p.stale = q.stale /\ p.last = q.last /\ p.clean = q.clean
      /\ p.files = q.files /\ p.by = q.by /\ p.slip = q.slip
  BY <1>4, <1>5 DEF PullRec
<1>7. Evicted(p, f)
  BY <1>3, <1>4, <1>6 DEF Evicted, slip
<1>8. Place(t, p, i)
  BY DEF Rematched, p, q
<1>9. IsFiniteSet(p.files)
  BY <1>1, <1>4, <1>6, FS_Subset
<1> QED
  BY <1>7, <1>8, <1>9

\* What an item changes: nothing if it fails; otherwise its file is updated, moved or
\* made, in the tables as they are or as the eviction of f leaves them.
Fitting(i) == Cached(i[1]) = {} \/ \E f \in Cached(i[1]) : f.m = i[2]
Plain(i) == Advanced(pull, i) /\ (Undone \/ (Fitting(i) /\ Placed(files, coll, pull, i)))
Evicting(i, p, f) ==
    /\ f \in Cached(i[1]) /\ f.m # i[2] /\ Evicted(p, f) /\ Advanced(p, i)
    /\ Undone \/ Placed(Dropped(Row(f)).files, Dropped(Row(f)).coll, p, i)

LEMMA ItemIs ==
    ASSUME ConstantsAssumption, TypeInv, CacheTrue, NEW i, SyncItem(i)
    PROVE  /\ Tab(files', coll')
           /\ Plain(i) \/ \E p, f : Evicting(i, p, f)
<1>1. /\ ~Idle /\ pull \in PullRec /\ pull.c \in Conn /\ IsFiniteSet(pull.files)
      /\ pull.by \subseteq pull.files /\ i[1] \in Sid /\ i[2] \in Media
      /\ \A f \in pull.files : f.src = Type[pull.c] /\ \A g \in files : f.id = g.id => Same(f, g)
  <2>1. ~Idle /\ i \in pull.todo
    BY DEF SyncItem
  <2>2. pull \in PullRec /\ pull.c \in Conn /\ IsFiniteSet(pull.files)
    BY <2>1, AtWork DEF TypeInv
  <2>3. i \in Sid \X Media
    BY <2>1, <2>2 DEF PullRec
  <2> QED
    BY <2>1, <2>2, <2>3 DEF CacheTrue, Same
<1>2. Tab(files, coll)
  BY TabUnchanged
<1>3. Setting(files, coll, pull, i)
  BY <1>1, <1>2 DEF Setting
<1>4. CASE \E f \in pull.files : Known(i, f)
  <2>1. PICK f \in pull.files : Known(i, f)
    BY <1>4
  <2>2. Fitting(i)
    BY <2>1 DEF Known, Fitting
  <2> QED
    BY <1>3, <2>1, <2>2, KnownIs DEF Plain
<1>5. CASE \E f \in pull.files : Rematched(i, f)
  <2>1. PICK f \in pull.files : Rematched(i, f)
    BY <1>5
  <2>2. PICK p : Evicted(p, f) /\ IsFiniteSet(p.files) /\ Place(Dropped(Row(f)), p, i)
    BY <1>1, <2>1, EvictedIs
  <2> DEFINE t == Dropped(Row(f))
  <2>3. /\ Good(t.files, t.coll) /\ t.files = files \ Row(f)
        /\ \A m \in Media : t.coll[m] # 0 => t.coll[m] = coll[m]
    BY DroppedIs
  <2>4. t = [files |-> t.files, coll |-> t.coll]
    BY DEF Dropped
  <2>5. f \in Cached(i[1]) /\ f.m # i[2]
    BY <2>1 DEF Rematched
  <2>6. Place(t, p, i)
    BY <2>2
  <2> HIDE DEF t
  <2>7. Tab(t.files, t.coll)
    BY <2>3, TabOfPart
  <2>8. Setting(t.files, t.coll, p, i)
    BY <1>1, <2>2, <2>3, <2>7 DEF Setting, Evicted
  <2>9. Tab(files', coll') /\ Advanced(p, i) /\ (Undone \/ Placed(t.files, t.coll, p, i))
    BY <2>4, <2>6, <2>8, PlacedIs
  <2> QED
    BY <2>2, <2>5, <2>9 DEF Evicting, t
<1>6. CASE Cached(i[1]) = {} /\ Place(Tables, pull, i)
  <2>1. /\ Tables.files = files /\ Tables.coll = coll
        /\ Tables = [files |-> Tables.files, coll |-> Tables.coll]
    BY DEF Tables
  <2>2. Tab(files', coll') /\ Advanced(pull, i) /\ (Undone \/ Placed(files, coll, pull, i))
    BY <1>3, <1>6, <2>1, PlacedIs
  <2> QED
    BY <1>6, <2>2 DEF Plain, Fitting
<1>7. CASE ItemDone([pull EXCEPT !.clean = FALSE], i) /\ UNCHANGED <<files, coll>>
  <2> DEFINE q == [pull EXCEPT !.clean = FALSE]
  <2>1. /\ q \in PullRec /\ q.c = pull.c /\ q.phase = pull.phase /\ q.seen = pull.seen
        /\ q.limited = pull.limited /\ q.todo = pull.todo /\ q.stale = pull.stale
        /\ q.last = pull.last /\ q.slip = pull.slip /\ q.by = pull.by /\ q.clean = FALSE
        /\ q.files = pull.files
    BY <1>1 DEF PullRec
  <2>2. ItemDone(q, i)
    BY <1>7
  <2> HIDE DEF q
  <2>3. Advanced(pull, i) /\ pull'.clean = FALSE
    BY <1>1, <2>1, <2>2, DoneIs
  <2> QED
    BY <1>2, <1>7, <2>3 DEF Plain, Undone
<1> QED
  BY <1>4, <1>5, <1>6, <1>7 DEF SyncItem

\* An item touches no row that another transaction has deleted, and empties no
\* collection without saying so.
LEMMA ItemSpares ==
    ASSUME ConstantsAssumption, TypeInv, CacheTrue, EmptyOnlyCrossed, NEW i, SyncItem(i)
    PROVE  /\ \A g \in files : g \in Locked => g \in files'
           /\ EmptyOnlyCrossed'
<1> DEFINE own == {f \in files : \E g \in pull.files : g.id = f.id /\ (g.sid = i[1] \/ g.m = i[2])}
<1>1. \A g \in own : g \notin Locked
  BY DEF SyncItem, Unlocked
<1>2. crossed \subseteq crossed'
  BY DEF SyncItem
<1>3. CASE Undone
  <2>1. files' = files /\ coll' = coll
    BY <1>3 DEF Undone
  <2> QED
    BY <1>2, <2>1 DEF EmptyOnlyCrossed, FilesOf
<1>4. CASE Placed(files, coll, pull, i)
  <2>1. \A g \in files : g \in Locked => g \in files'
    BY <1>1, <1>4 DEF Placed
  <2>2. ASSUME NEW m \in Media, coll'[m] # 0, \A k \in files' : k.m # m
        PROVE  m \in crossed'
    <3>1. coll[m] # 0 /\ \A g \in files : g.m # m
      BY <1>4, <2>2 DEF Placed
    <3> QED
      BY <1>2, <3>1 DEF EmptyOnlyCrossed, FilesOf
  <2> QED
    BY <2>1, <2>2 DEF EmptyOnlyCrossed, FilesOf
<1>5. ASSUME NEW p, NEW f, f \in Cached(i[1]),
             Placed(Dropped(Row(f)).files, Dropped(Row(f)).coll, p, i)
      PROVE  (\A g \in files : g \in Locked => g \in files') /\ EmptyOnlyCrossed'
  <2> DEFINE t == Dropped(Row(f))
  <2>1. /\ t.files = files \ Row(f)
        /\ \A m \in Media :
              /\ t.coll[m] # 0 => t.coll[m] = coll[m]
              /\ t.coll[m] # 0 /\ (\A g \in t.files : g.m # m) => \A g \in Row(f) : g.m # m
    BY DroppedIs
  <2>2. Placed(t.files, t.coll, p, i)
    BY <1>5
  <2> HIDE DEF t
  <2>3. ASSUME NEW g \in files, g \in Locked PROVE g \in files'
    <3>1. g \notin Row(f)
      BY <1>1, <1>5, <2>3 DEF Row, Cached
    <3> QED
      BY <1>1, <2>1, <2>2, <2>3, <3>1 DEF Placed
  <2>4. ASSUME NEW m \in Media, coll'[m] # 0, \A k \in files' : k.m # m
        PROVE  m \in crossed'
    <3>1. t.coll[m] # 0 /\ \A g \in t.files : g.m # m
      BY <2>2, <2>4 DEF Placed
    <3>2. coll[m] # 0 /\ \A g \in files : g.m # m
      BY <2>1, <3>1
    <3> QED
      BY <1>2, <3>2 DEF EmptyOnlyCrossed, FilesOf
  <2> QED
    BY <2>3, <2>4 DEF EmptyOnlyCrossed, FilesOf
<1> QED
  BY <1>3, <1>4, <1>5, ItemIs DEF Plain, Evicting

-----------------------------------------------------------------------------
(* Steps that begin no transaction.                                        *)

\* The pull is over or goes on: what it has cached are rows of the same files.
Carried ==
    /\ pull' \in PullRec \cup {NoPull}
    /\ ~Idle' => /\ ~Idle
                 /\ pull'.c = pull.c /\ pull'.phase = pull.phase
                 /\ pull'.stale = pull.stale /\ pull'.last = pull.last
                 /\ IsFiniteSet(pull'.files) /\ pull'.by \subseteq pull'.files
                 /\ \A f \in pull'.files : \E g \in pull.files : Same(f, g)

\* The rows of a transaction stay, and if others of their media go that is known.
Safe(rows) ==
    /\ rows \subseteq files'
    /\ \A g \in files : (\A k \in files' : k.id # g.id) /\ (\E f \in rows : f.m = g.m) => g.m \in crossed'

LEMMA KnowsStays ==
    ASSUME TypeInv, Tab(files', coll'), crossed \subseteq crossed',
           NEW rows \in SUBSET files, NEW last, Knows(rows, last), Safe(rows)
    PROVE  Knows(rows, last)'
<1> SUFFICES ASSUME NEW m \in Media, NEW f \in files', f.m = m,
                    \A g \in files' : g.m = m => g \in rows,
                    m \notin crossed'
             PROVE  <<m, coll'[m]>> \in last
  BY DEF Knows, FilesOf
<1>1. f \in rows /\ f \in files /\ coll'[m] = coll[m]
  BY DEF Tab
<1>2. ASSUME NEW g \in files, g.m = m PROVE g \in rows
  <2>1. PICK k \in files' : k.id = g.id
    BY <1>1, <1>2 DEF Safe
  <2>2. k.m = m
    BY <1>2, <2>1 DEF Tab, Same
  <2>3. k \in rows /\ k \in files
    BY <2>2
  <2>4. k = g
    BY <2>1, <2>3, TablesGood DEF Good
  <2> QED
    BY <2>3, <2>4
<1> QED
  BY <1>1, <1>2 DEF Knows, FilesOf

LEMMA CacheStays ==
    ASSUME ConstantsAssumption, TypeInv, CacheTrue, Tab(files', coll'), Carried
    PROVE  CacheTrue'
<1> SUFFICES ASSUME ~Idle' PROVE CacheTrue'
  BY DEF CacheTrue
<1>1. ~Idle /\ pull'.by \subseteq pull'.files /\ (pull'.phase = "items" => pull'.stale = {})
      /\ pull'.c = pull.c
  BY DEF Carried, CacheTrue
<1>2. ASSUME NEW f \in pull'.files
      PROVE  /\ f.src = Type[pull'.c]
             /\ \A g \in files' : f.id = g.id => f.m = g.m /\ f.src = g.src
  <2>1. PICK h \in pull.files : Same(f, h)
    BY DEF Carried
  <2>2. h.src = Type[pull.c] /\ \A g \in files : h.id = g.id => h.m = g.m /\ h.src = g.src
    BY <1>1 DEF CacheTrue
  <2>3. ASSUME NEW g \in files', f.id = g.id PROVE f.m = g.m /\ f.src = g.src
    <3>1. g.id # NewFile
      BY <1>1, <2>1, <2>3, NewFileIs DEF Same
    <3>2. PICK k \in files : Same(g, k)
      BY <3>1 DEF Tab, Kept
    <3> QED
      BY <2>1, <2>2, <2>3, <3>2 DEF Same
  <2> QED
    BY <1>1, <2>1, <2>2, <2>3 DEF Same
<1> QED
  BY <1>1, <1>2 DEF CacheTrue

LEMMA StepKeeps ==
    ASSUME ConstantsAssumption, LInv, Tab(files', coll'), Carried, busy' \subseteq busy,
           crossed \subseteq crossed', crossed' \subseteq Media, EmptyOnlyCrossed',
           lib' \in [Conn -> [Sid -> Media \cup {None}]], reports' \subseteq Report,
           mirrored' \subseteq Conn, slipped' \subseteq Conn,
           \A h \in busy' : Safe(h.rows), ~Idle' => Safe(pull.stale)
    PROVE  LInv'
<1> USE DEF LInv
<1>1. TypeOK'
  BY DEF TypeOK, Tab, Good
<1>2. TypeInv'
  <2>1. IsFiniteSet(files') /\ IsFiniteSet(busy')
    BY FS_Subset DEF Tab, Good, TypeInv
  <2>2. busy' \subseteq Handler /\ \A h \in busy' : IsFiniteSet(h.last)
    BY DEF TypeInv
  <2>3. ~Idle' => IsFiniteSet(pull'.files) /\ IsFiniteSet(pull'.last)
    BY DEF TypeInv, Carried
  <2> HIDE DEF Idle
  <2> QED
    BY <1>1, <2>1, <2>2, <2>3 DEF TypeInv, Carried
<1>3. Held'
  <2>1. ASSUME NEW h \in busy' PROVE h.rows \subseteq files' /\ Knows(h.rows, h.last)'
    <3>1. h.rows \in SUBSET files /\ Knows(h.rows, h.last) /\ Safe(h.rows)
      BY DEF Held
    <3> QED
      BY <3>1, KnowsStays DEF Safe
  <2>2. ASSUME NEW h \in busy', NEW k \in busy', h # k PROVE Apart(h.rows, k.rows)'
    BY <2>2 DEF Held, Apart
  <2>3. ASSUME ~Idle'
        PROVE  /\ pull'.stale \subseteq files' /\ Knows(pull.stale, pull.last)'
               /\ \A h \in busy' : Apart(h.rows, pull.stale)'
    <3>1. ~Idle /\ pull'.stale = pull.stale /\ pull'.last = pull.last
      BY <2>3 DEF Carried
    <3>2. /\ pull.stale \in SUBSET files /\ Knows(pull.stale, pull.last) /\ Safe(pull.stale)
          /\ \A h \in busy : Apart(h.rows, pull.stale)
      BY <2>3, <3>1 DEF Held
    <3>3. PICK rows, last : rows = pull.stale /\ last = pull.last
      OBVIOUS
    <3>4. pull'.stale = rows /\ pull'.last = last /\ rows \subseteq files'
      BY <3>1, <3>2, <3>3 DEF Safe
    <3>5. Knows(rows, last)'
      BY <3>2, <3>3, KnowsStays
    <3> QED
      BY <3>1, <3>2, <3>4, <3>5 DEF Knows, Apart
  <2> HIDE DEF Idle
  <2> QED
    BY <2>1, <2>2, <2>3 DEF Held
<1>4. CacheTrue'
  BY CacheStays
<1> QED
  BY <1>2, <1>3, <1>4

\* What others do to a pull at work: it is no longer undisturbed, or it is over.
Jolted == \/ pull' = pull
          \/ pull' = NoPull
          \/ ~Idle /\ pull' = [pull EXCEPT !.clean = FALSE]

LEMMA JoltedIs ==
    ASSUME ConstantsAssumption, TypeInv, CacheTrue, Jolted
    PROVE  /\ Carried
           /\ ~Idle' => /\ ~Idle /\ pull'.c = pull.c /\ pull'.phase = pull.phase
                        /\ pull'.todo = pull.todo /\ pull'.seen = pull.seen
                        /\ pull'.limited = pull.limited /\ pull'.files = pull.files
                        /\ pull'.by = pull.by /\ pull'.stale = pull.stale
                        /\ pull'.last = pull.last /\ pull'.slip = pull.slip
                        /\ pull'.clean => pull.clean
<1>1. CASE pull' = pull
  <2>1. Carried
    BY <1>1 DEF Carried, TypeInv, CacheTrue, Idle, Same
  <2> QED
    BY <1>1, <2>1 DEF Idle
<1>2. CASE pull' = NoPull
  BY <1>2 DEF Carried, Idle
<1>3. CASE ~Idle /\ pull' = [pull EXCEPT !.clean = FALSE]
  <2>1. pull \in PullRec /\ IsFiniteSet(pull.files) /\ pull.by \subseteq pull.files
    BY <1>3, AtWork DEF TypeInv, CacheTrue
  <2>2. /\ pull' \in PullRec
        /\ pull'.c = pull.c /\ pull'.phase = pull.phase /\ pull'.todo = pull.todo
        /\ pull'.seen = pull.seen /\ pull'.limited = pull.limited /\ pull'.files = pull.files
        /\ pull'.by = pull.by /\ pull'.stale = pull.stale /\ pull'.last = pull.last
        /\ pull'.slip = pull.slip /\ pull'.clean = FALSE
    BY <1>3, <2>1 DEF PullRec
  <2> HIDE DEF PullRec
  <2>3. Carried
    BY <1>3, <2>1, <2>2 DEF Carried, Same
  <2> QED
    BY <1>3, <2>2, <2>3
<1> QED
  BY <1>1, <1>2, <1>3 DEF Jolted

\* Steps that leave the tables alone.
LEMMA QuietKeeps ==
    ASSUME ConstantsAssumption, LInv, files' = files, coll' = coll, Jolted,
           busy' \subseteq busy, crossed' = crossed,
           lib' \in [Conn -> [Sid -> Media \cup {None}]], reports' \subseteq Report,
           mirrored' \subseteq Conn, slipped' \subseteq Conn
    PROVE  LInv'
<1>1. TypeInv /\ CacheTrue /\ Held /\ EmptyOnlyCrossed
  BY DEF LInv
<1>2. Tab(files', coll')
  BY <1>1, TabUnchanged
<1>3. Carried /\ (~Idle' => ~Idle)
  BY <1>1, JoltedIs
<1>4. EmptyOnlyCrossed' /\ crossed' \subseteq Media
  BY <1>1 DEF EmptyOnlyCrossed, FilesOf, TypeInv, TypeOK
<1>5. \A h \in busy' : Safe(h.rows)
  BY <1>1 DEF Safe, Held
<1>6. ~Idle' => Safe(pull.stale)
  BY <1>1, <1>3 DEF Safe, Held
<1> QED
  BY <1>2, <1>3, <1>4, <1>5, <1>6, StepKeeps

\* The pull of a connection that is touched.
LEMMA TouchIs ==
    ASSUME ConstantsAssumption, TypeInv, NEW c \in Conn, Touch(c)
    PROVE  Jolted /\ mirrored' = mirrored \ {c}
<1>1. pull.c = c => ~Idle
  BY AtWork DEF ConstantsAssumption
<1> QED
  BY <1>1 DEF Touch, Jolted

LEMMA ChangeKeeps ==
    ASSUME ConstantsAssumption, LInv, NEW c \in Conn, NEW s \in Sid, NEW m \in Media \cup {None},
           Changed(c, s, m), reports' \subseteq Report
    PROVE  LInv'
<1>1. TypeInv
  BY DEF LInv
<1>2. Jolted /\ mirrored' = mirrored \ {c}
  BY <1>1, TouchIs DEF Changed
<1>3. lib' \in [Conn -> [Sid -> Media \cup {None}]]
  BY <1>1 DEF Changed, TypeInv, TypeOK
<1>4. mirrored' \subseteq Conn /\ slipped' \subseteq Conn
  BY <1>1, <1>2 DEF Changed, TypeInv, TypeOK
<1> QED
  BY <1>2, <1>3, <1>4, QuietKeeps DEF Changed

LEMMA ServerKeeps ==
    ASSUME ConstantsAssumption, LInv, NEW c \in Conn, NEW s \in Sid,
           Vanish(c, s) \/ \E m \in Media : Appear(c, s, m) \/ Fix(c, s, m)
    PROVE  LInv'
<1>1. lib \in [Conn -> [Sid -> Media \cup {None}]] /\ reports \subseteq Report
  BY DEF LInv, TypeInv, TypeOK
<1>2. \A k \in {"added", "removed", "updated"} : \A m \in Media :
         Tell(c, k, s, m) => reports' \subseteq Report
  BY <1>1 DEF Tell, Report
<1>3. CASE Vanish(c, s)
  <2>1. lib[c][s] \in Media
    BY <1>1, <1>3 DEF Vanish
  <2>2. reports' \subseteq Report
    BY <1>1, <1>2, <1>3, <2>1 DEF Vanish
  <2> QED
    BY <1>3, <2>2, ChangeKeeps DEF Vanish
<1>4. ASSUME NEW m \in Media, Appear(c, s, m) PROVE LInv'
  BY <1>2, <1>4, ChangeKeeps DEF Appear
<1>5. ASSUME NEW m \in Media, Fix(c, s, m) PROVE LInv'
  <2>1. reports' \subseteq Report
    BY <1>1, <1>2, <1>5 DEF Fix
  <2> QED
    BY <1>5, <2>1, ChangeKeeps DEF Fix
<1> QED
  BY <1>3, <1>4, <1>5

\* Reports are lost; pulls break off; everything stops.
LEMMA LossKeeps ==
    ASSUME ConstantsAssumption, LInv, (\E r \in reports : Lose(r)) \/ BreakOff \/ Crash
    PROVE  LInv'
<1>1. /\ lib \in [Conn -> [Sid -> Media \cup {None}]] /\ reports \subseteq Report
      /\ mirrored \subseteq Conn /\ slipped \subseteq Conn
  BY DEF LInv, TypeInv, TypeOK
<1>2. CASE \E r \in reports : Lose(r)
  BY <1>1, <1>2, QuietKeeps DEF Lose, Jolted
<1>3. CASE BreakOff
  BY <1>1, <1>3, QuietKeeps DEF BreakOff, Jolted
<1>4. CASE Crash
  BY <1>1, <1>4, QuietKeeps DEF Crash, Jolted
<1> QED
  BY <1>2, <1>3, <1>4

LEMMA SyncItemKeeps ==
    ASSUME ConstantsAssumption, LInv, NEW i, SyncItem(i)
    PROVE  LInv'
<1>1. TypeInv /\ CacheTrue /\ Held /\ EmptyOnlyCrossed
  BY DEF LInv
<1>2. Tab(files', coll') /\ (Plain(i) \/ \E p, f : Evicting(i, p, f))
  BY <1>1, ItemIs
<1>3. (\A g \in files : g \in Locked => g \in files') /\ EmptyOnlyCrossed'
  BY <1>1, ItemSpares
<1>4. ~Idle /\ pull \in PullRec /\ pull.by \subseteq pull.files
  BY <1>1, AtWork DEF SyncItem, CacheTrue
<1>5. Carried
  <2>1. CASE Plain(i)
    BY <1>4, <2>1 DEF Plain, Advanced, Carried, Same
  <2>2. ASSUME NEW p, NEW f, Evicting(i, p, f) PROVE Carried
    <3>1. Advanced(p, i) /\ Evicted(p, f)
      BY <2>2 DEF Evicting
    <3>2. /\ pull' \in PullRec /\ pull'.c = pull.c /\ pull'.phase = pull.phase
          /\ pull'.stale = pull.stale /\ pull'.last = pull.last
          /\ IsFiniteSet(pull'.files) /\ pull'.by \subseteq pull'.files
      BY <3>1 DEF Advanced, Evicted
    <3>3. \A h \in pull'.files : \E g \in pull.files : Same(h, g)
      BY <3>1 DEF Advanced, Evicted, Same
    <3> HIDE DEF PullRec
    <3> QED
      BY <1>4, <3>2, <3>3 DEF Carried
  <2> QED
    BY <1>2, <2>1, <2>2
<1>6. crossed \subseteq crossed' /\ crossed' \subseteq Media
  BY <1>1 DEF SyncItem, TypeInv, TypeOK, FileRow
<1>7. ASSUME NEW rows \in SUBSET files, rows \subseteq Locked PROVE Safe(rows)
  <2>1. rows \subseteq files'
    BY <1>3, <1>7
  <2>2. ASSUME NEW g \in files, \A k \in files' : k.id # g.id, NEW f \in rows, f.m = g.m
        PROVE  g.m \in crossed'
    <3>1. f \in Locked /\ \A k \in files' : k.id # g.id
      BY <1>7, <2>2
    <3> QED
      BY <2>2, <3>1 DEF SyncItem
  <2> QED
    BY <2>1, <2>2 DEF Safe
<1>8. \A h \in busy' : Safe(h.rows)
  BY <1>1, <1>7 DEF SyncItem, Held, Locked
<1>9. Safe(pull.stale)
  BY <1>1, <1>4, <1>7 DEF Held, Locked
<1>10. slipped' \subseteq Conn
  BY <1>1, <1>4, AtWork DEF SyncItem, TypeInv
<1>11. lib' \in [Conn -> [Sid -> Media \cup {None}]] /\ reports' \subseteq Report
       /\ mirrored' \subseteq Conn /\ busy' \subseteq busy
  BY <1>1 DEF SyncItem, TypeInv, TypeOK
<1> QED
  BY <1>2, <1>3, <1>5, <1>6, <1>8, <1>9, <1>10, <1>11, StepKeeps

\* A pull that starts.
Started(c, got, limited) ==
    LET rows == {f \in files : f.src = Type[c]} IN
    /\ Idle /\ got \subseteq Items(c) /\ limited \in BOOLEAN
    /\ pull' = [c |-> c, phase |-> "items", todo |-> {<<s, lib[c][s]>> : s \in got}, seen |-> got,
                limited |-> limited, files |-> rows, by |-> rows, coll |-> coll,
                stale |-> {}, last |-> {},
                clean |-> (got = Items(c) /\ ~limited) /\ busy = {}, slip |-> FALSE]
    /\ UNCHANGED <<lib, coll, files, reports, busy, changes, fixes, mirrored, slipped, crossed, doubled>>

LEMMA StartIs ==
    ASSUME NEW c, StartPull(c)
    PROVE  \E got, limited : Started(c, got, limited)
BY DEF StartPull, Preloaded, Started

LEMMA PullKeeps ==
    ASSUME ConstantsAssumption, LInv, NEW c \in Conn, StartPull(c)
    PROVE  LInv'
<1>1. TypeInv /\ CacheTrue /\ Held /\ EmptyOnlyCrossed
  BY DEF LInv
<1>2. PICK got, limited : Started(c, got, limited)
  BY StartIs
<1>3. /\ Idle /\ got \subseteq Items(c) /\ limited \in BOOLEAN
      /\ UNCHANGED <<lib, coll, files, reports, busy, changes, fixes, mirrored, slipped, crossed>>
  BY <1>2 DEF Started
<1> DEFINE rows == {f \in files : f.src = Type[c]}
           todo == {<<s, lib[c][s]>> : s \in got}
           clean == (got = Items(c) /\ ~limited) /\ busy = {}
<1>4. pull' = [c |-> c, phase |-> "items", todo |-> todo, seen |-> got, limited |-> limited,
               files |-> rows, by |-> rows, coll |-> coll, stale |-> {}, last |-> {},
               clean |-> clean, slip |-> FALSE]
  BY <1>2 DEF Started
<1>5. /\ pull'.c = c /\ pull'.files = rows /\ pull'.by = rows
      /\ pull'.stale = {} /\ pull'.last = {}
  BY <1>4
<1>6. /\ todo \subseteq Sid \X Media /\ got \subseteq Sid /\ rows \subseteq FileRow
      /\ coll \in [Media -> Nat] /\ clean \in BOOLEAN /\ rows \subseteq files
  BY <1>1, <1>3 DEF TypeInv, TypeOK, Items
<1> HIDE DEF rows, todo, clean
<1>7. pull' \in PullRec
  BY <1>3, <1>4, <1>6 DEF PullRec
<1>8. IsFiniteSet(pull'.files) /\ IsFiniteSet(pull'.last)
  BY <1>1, <1>5, <1>6, FS_Subset, FS_EmptySet DEF TypeInv
<1>9. TypeInv'
  BY <1>1, <1>3, <1>7, <1>8 DEF TypeInv, TypeOK
<1>10. EmptyOnlyCrossed'
  BY <1>1, <1>3 DEF EmptyOnlyCrossed, FilesOf
<1>11. Held'
  BY <1>1, <1>3, <1>5 DEF Held, Apart, Knows, FilesOf
<1>12. CacheTrue'
  <2>1. \A f \in rows : \A g \in files : f.id = g.id => f = g
    BY <1>1, <1>6, TablesGood DEF Good
  <2> QED
    BY <1>3, <1>5, <2>1 DEF CacheTrue, rows
<1> QED
  BY <1>9, <1>10, <1>11, <1>12 DEF LInv

\* What a transaction has found to be the last files of their media it knows.
LEMMA LastKnown ==
    ASSUME TypeInv, NEW rows \in SUBSET files
    PROVE  Knows(rows, Last(rows)) /\ IsFiniteSet(Last(rows)) /\ Last(rows) \in SUBSET (Media \X Nat)
<1> DEFINE L == {g \in rows : FilesOf(g.m) \subseteq rows}
           e == [f \in L |-> <<f.m, coll[f.m]>>]
<1>1. Knows(rows, Last(rows))
  BY DEF Knows, Last, FilesOf
<1>2. IsFiniteSet(L)
  <2>1. L \subseteq files
    OBVIOUS
  <2> QED
    BY <2>1, FS_Subset DEF TypeInv
<1>3. IsFiniteSet({e[f] : f \in L})
  <2>1. e = [f \in L |-> e[f]]
    OBVIOUS
  <2> HIDE DEF L, e
  <2> QED
    BY <1>2, <2>1, FiniteImage
<1>4. Last(rows) = {e[f] : f \in L}
  BY DEF Last
<1>5. Last(rows) \in SUBSET (Media \X Nat)
  BY DEF Last, TypeInv, TypeOK, FileRow
<1> QED
  BY <1>1, <1>3, <1>4, <1>5

LEMMA PruneKeeps ==
    ASSUME ConstantsAssumption, LInv, Prune
    PROVE  LInv'
<1>1. TypeInv /\ CacheTrue /\ Held /\ EmptyOnlyCrossed
  BY DEF LInv
<1> DEFINE rows == {f \in files : f.conn = pull.c}
           stale == {f \in rows : f.sid \notin pull.seen}
           refused == Refused(rows, pull.seen)
<1>2. PICK out : out = IF refused \/ pull.limited THEN {} ELSE stale
  OBVIOUS
<1>3. /\ ~Idle /\ pull.phase = "items" /\ Unlocked(out)
      /\ pull' = [pull EXCEPT !.phase = "prune", !.stale = out, !.last = Last(out),
                              !.clean = @ /\ ~refused]
      /\ crossed' = crossed \cup {f.m : f \in {g \in out : \E h \in busy : \E k \in h.rows : k.m = g.m}}
      /\ mirrored' \subseteq mirrored
      /\ UNCHANGED <<lib, coll, files, reports, busy, bounds, slipped>>
  BY <1>2 DEF Prune
<1>4. out \in SUBSET files
  BY <1>2
<1> HIDE DEF refused
<1>5. Knows(out, Last(out)) /\ IsFiniteSet(Last(out)) /\ Last(out) \in SUBSET (Media \X Nat)
  BY <1>1, <1>4, LastKnown
<1>6. pull \in PullRec
  BY <1>1, <1>3, AtWork
<1>7. /\ pull' \in PullRec /\ pull'.c = pull.c /\ pull'.files = pull.files /\ pull'.by = pull.by
      /\ pull'.stale = out /\ pull'.last = Last(out) /\ pull'.phase = "prune"
  <2>1. out \in SUBSET FileRow
    BY <1>1, <1>4 DEF TypeInv, TypeOK
  <2> QED
    BY <1>3, <1>5, <1>6, <2>1 DEF PullRec
<1>8. TypeInv'
  <2>1. crossed' \subseteq Media
    BY <1>1, <1>3, <1>4 DEF TypeInv, TypeOK, FileRow
  <2>2. IsFiniteSet(pull'.files) /\ IsFiniteSet(pull'.last)
    BY <1>1, <1>3, <1>5, <1>7 DEF TypeInv
  <2> HIDE DEF PullRec
  <2> QED
    BY <1>1, <1>3, <1>7, <2>1, <2>2 DEF TypeInv, TypeOK
<1>9. EmptyOnlyCrossed'
  BY <1>1, <1>3 DEF EmptyOnlyCrossed, FilesOf
<1>10. Held'
  <2>1. ASSUME NEW r \in SUBSET files, NEW l, Knows(r, l) PROVE Knows(r, l)'
    BY <1>3, <2>1 DEF Knows, FilesOf
  <2>2. \A h \in busy' : h.rows \subseteq files' /\ Knows(h.rows, h.last)'
    BY <1>1, <1>3, <2>1 DEF Held
  <2>3. \A h, k \in busy' : h # k => Apart(h.rows, k.rows)'
    BY <1>1, <1>3 DEF Held, Apart
  <2>4. PICK l : l = Last(out)
    OBVIOUS
  <2>5. Knows(out, l)'
    BY <1>4, <1>5, <2>1, <2>4
  <2>6. ASSUME NEW h \in busy PROVE h.rows \cap out = {} /\ \A f \in h.rows, g \in out : f.m = g.m => f.m \in crossed'
    <3>1. h.rows \cap out = {}
      BY <1>3 DEF Unlocked, Locked
    <3>2. ASSUME NEW f \in h.rows, NEW g \in out, f.m = g.m PROVE f.m \in crossed'
      BY <1>3, <3>2
    <3> QED
      BY <3>1, <3>2
  <2> QED
    BY <1>3, <1>4, <1>7, <2>2, <2>3, <2>4, <2>5, <2>6 DEF Held, Knows, Apart
<1>11. CacheTrue'
  BY <1>1, <1>3, <1>7 DEF CacheTrue
<1> QED
  BY <1>8, <1>9, <1>10, <1>11 DEF LInv

\* What the removals of a transaction leave: no collection without a file, and none of
\* the media of other transactions' rows, but where removals overlap.
Removal(rows, F, C) ==
    /\ Tab(F, C) /\ F \subseteq files
    /\ \A m \in Media : C[m] # 0 /\ (\A f \in F : f.m # m) => m \in crossed
    /\ \A g \in files \ F : \A f \in F : f.m = g.m => g \in rows

LEMMA RemovalIs ==
    ASSUME TypeInv, EmptyOnlyCrossed, NEW rows \in SUBSET files, NEW last \in SUBSET (Media \X Nat),
           Knows(rows, last)
    PROVE  Removal(rows, Removed(rows, last).files, Removed(rows, last).coll)
<1> DEFINE t == Removed(rows, last)
<1>1. /\ Good(t.files, t.coll) /\ t.files \subseteq files \ rows
      /\ \A m \in Media :
            /\ t.coll[m] # 0 => t.coll[m] = coll[m] /\ <<m, coll[m]>> \notin last
            /\ <<m, coll[m]>> \notin last =>
                   t.coll[m] = coll[m] /\ \A f \in files \ rows : f.m = m => f \in t.files
            /\ <<m, coll[m]>> \in last => \A f \in t.files : f.m # m
  BY RemovedIs
<1> HIDE DEF t
<1>2. Tab(t.files, t.coll)
  BY <1>1, TabOfPart
<1>3. ASSUME NEW m \in Media, t.coll[m] # 0, \A f \in t.files : f.m # m
      PROVE  m \in crossed
  <2>1. coll[m] # 0 /\ <<m, coll[m]>> \notin last /\ \A f \in files : f.m = m => f \in rows
    BY <1>1, <1>3
  <2>2. CASE FilesOf(m) = {}
    BY <2>1, <2>2 DEF EmptyOnlyCrossed
  <2>3. CASE FilesOf(m) # {}
    BY <2>1, <2>3 DEF Knows, FilesOf
  <2> QED
    BY <2>2, <2>3
<1>4. ASSUME NEW g \in files \ t.files, NEW f \in t.files, f.m = g.m
      PROVE  g \in rows
  <2>1. g.m \in Media
    BY DEF TypeInv, TypeOK, FileRow
  <2>2. <<g.m, coll[g.m]>> \notin last
    BY <1>1, <1>4, <2>1
  <2> QED
    BY <1>1, <2>1, <2>2
<1> QED
  BY <1>1, <1>2, <1>3, <1>4 DEF Removal, t

LEMMA FinishKeeps ==
    ASSUME ConstantsAssumption, LInv, Finish
    PROVE  LInv'
<1>1. TypeInv /\ CacheTrue /\ Held /\ EmptyOnlyCrossed
  BY DEF LInv
<1>2. ~Idle /\ pull \in PullRec /\ pull.c \in Conn
  BY <1>1, AtWork DEF Finish
<1>3. PICK rows, last, t : rows = pull.stale /\ last = pull.last /\ t = Removed(rows, last)
  OBVIOUS
<1>4. rows \in SUBSET files /\ last \in SUBSET (Media \X Nat) /\ Knows(rows, last)
  BY <1>1, <1>2, <1>3 DEF Held, PullRec
<1>5. /\ Tab(t.files, t.coll) /\ t.files \subseteq files
      /\ \A m \in Media : t.coll[m] # 0 /\ (\A f \in t.files : f.m # m) => m \in crossed
      /\ \A g \in files \ t.files : \A f \in t.files : f.m = g.m => g \in rows
  BY <1>1, <1>3, <1>4, RemovalIs DEF Removal
<1>6. /\ files' = t.files /\ coll' = t.coll /\ pull' = NoPull
      /\ (files \ t.files) \cap UNION {h.rows : h \in busy} = {}
      /\ UNCHANGED <<lib, reports, busy, bounds, crossed>>
  BY <1>3 DEF Finish, Write
<1>7. Tab(files', coll') /\ Carried
  BY <1>5, <1>6 DEF Carried, Idle
<1>8. EmptyOnlyCrossed'
  BY <1>5, <1>6 DEF EmptyOnlyCrossed, FilesOf
<1>9. ASSUME NEW h \in busy' PROVE Safe(h.rows)
  <2>1. h \in busy /\ h.rows \subseteq files
    BY <1>1, <1>6, <1>9 DEF Held
  <2>2. h.rows \subseteq t.files
    BY <1>6, <2>1
  <2>3. ASSUME NEW g \in files, \A k \in files' : k.id # g.id, NEW f \in h.rows, f.m = g.m
        PROVE  g.m \in crossed
    <3>1. g \in rows
      BY <1>5, <1>6, <2>2, <2>3
    <3> QED
      BY <1>1, <1>2, <1>3, <2>1, <2>3, <3>1 DEF Held, Apart
  <2> QED
    BY <1>6, <2>2, <2>3 DEF Safe
<1>10. Idle'
  BY <1>6 DEF Idle
<1>11. mirrored' \subseteq Conn /\ slipped' \subseteq Conn
  BY <1>1, <1>2 DEF Finish, TypeInv, TypeOK
<1>12. /\ lib' \in [Conn -> [Sid -> Media \cup {None}]] /\ reports' \subseteq Report
       /\ busy' \subseteq busy /\ crossed \subseteq crossed' /\ crossed' \subseteq Media
  BY <1>1, <1>6 DEF TypeInv, TypeOK
<1> QED
  BY <1>7, <1>8, <1>9, <1>10, <1>11, <1>12, StepKeeps

\* What a handler's commit makes of the tables: nothing, or its removals and its file.
LEMMA CommitIs ==
    ASSUME ConstantsAssumption, TypeInv, Held, EmptyOnlyCrossed, NEW h \in busy, Commit(h)
    PROVE  LET t == Removed(h.rows, h.last) IN
           /\ Tab(files', coll')
           /\ t.files \subseteq files /\ Tab(t.files, t.coll)
           /\ \/ files' = files /\ coll' = coll
              \/ files' = t.files /\ coll' = t.coll
              \/ Ensures(t.files, t.coll, h.r, files', coll')
           /\ EmptyOnlyCrossed'
           /\ \A k \in busy : k # h => Safe(k.rows)
           /\ ~Idle => Safe(pull.stale)
<1>1. PICK t : t = Removed(h.rows, h.last)
  OBVIOUS
<1>2. /\ h.rows \in SUBSET files /\ h.last \in SUBSET (Media \X Nat) /\ Knows(h.rows, h.last)
      /\ h.r \in Report
  BY DEF Held, TypeInv, Handler
<1>3. /\ Tab(t.files, t.coll) /\ t.files \subseteq files
      /\ \A m \in Media : t.coll[m] # 0 /\ (\A f \in t.files : f.m # m) => m \in crossed
      /\ \A g \in files \ t.files : \A f \in t.files : f.m = g.m => g \in h.rows
  BY <1>1, <1>2, RemovalIs DEF Removal
<1>4. t = [files |-> t.files, coll |-> t.coll]
  BY <1>1 DEF Removed
<1>5. PICK u : u = Ensured(t, h.r)
  OBVIOUS
<1>6. /\ Tab(u.files, u.coll)
      /\ \A x \in Media : (\A f \in u.files : f.m # x) =>
               u.coll[x] = t.coll[x] /\ \A f \in t.files : f.m # x
      /\ \A f \in t.files : \E g \in u.files : Same(g, f)
      /\ \A f \in u.files : f.id = NewFile \/ \E g \in t.files : Same(f, g)
      /\ Ensures(t.files, t.coll, h.r, u.files, u.coll)
  <2> DEFINE F == t.files
             C == t.coll
             v == Ensured([files |-> F, coll |-> C], h.r)
  <2>1. Tab(F, C) /\ F \subseteq files
    BY <1>3
  <2>2. u = v /\ [files |-> F, coll |-> C].files = t.files /\ [files |-> F, coll |-> C].coll = t.coll
    BY <1>4, <1>5
  <2> HIDE DEF F, C
  <2>3. Ensures(F, C, h.r, v.files, v.coll)
    BY <1>2, <2>1, EnsuredIs
  <2> QED
    BY <2>2, <2>3 DEF Ensures, Same, F, C
<1>7. /\ \/ files' = files /\ coll' = coll
         \/ files' = t.files /\ coll' = t.coll
         \/ files' = u.files /\ coll' = u.coll
      /\ (Locked \ h.rows) \cap (files \ files') = {}
      /\ crossed' = crossed
  BY <1>1, <1>5 DEF Commit, Write
<1>8. Tab(files', coll')
  BY <1>3, <1>6, <1>7, TabUnchanged
<1>9. EmptyOnlyCrossed'
  <2> SUFFICES ASSUME NEW m \in Media, coll'[m] # 0, \A f \in files' : f.m # m
               PROVE  m \in crossed
    BY <1>7 DEF EmptyOnlyCrossed, FilesOf
  <2>1. CASE files' = files /\ coll' = coll
    BY <2>1 DEF EmptyOnlyCrossed, FilesOf
  <2>2. CASE files' = t.files /\ coll' = t.coll
    BY <1>3, <2>2
  <2>3. CASE files' = u.files /\ coll' = u.coll
    BY <1>3, <1>6, <2>3
  <2> QED
    BY <1>7, <2>1, <2>2, <2>3
<1>10. ASSUME NEW rows \in SUBSET files, rows \subseteq Locked, rows \cap h.rows = {},
              \A f \in h.rows, g \in rows : f.m = g.m => f.m \in crossed
       PROVE  Safe(rows)
  <2>1. rows \subseteq files'
    BY <1>7, <1>10
  <2>2. ASSUME NEW g \in files, \A k \in files' : k.id # g.id, NEW f \in rows, f.m = g.m
        PROVE  g.m \in crossed
    <3>1. files' # files
      BY <2>2
    <3>2. g \notin t.files
      BY <1>6, <1>7, <2>2, <3>1 DEF Same
    <3>3. f \in t.files
      <4>1. CASE files' = t.files
        BY <2>1, <2>2, <4>1
      <4>2. CASE files' = u.files
        <5>1. f \in u.files /\ f \in files
          BY <2>1, <4>2
        <5>2. f.id # NewFile
          BY <5>1, NewFileIs
        <5>3. PICK k \in t.files : Same(f, k)
          BY <1>6, <5>1, <5>2
        <5>4. k \in files /\ k.id = f.id
          BY <1>3, <5>3 DEF Same
        <5>5. k = f
          BY <5>1, <5>4, TablesGood DEF Good
        <5> QED
          BY <5>3, <5>5
      <4> QED
        BY <1>7, <3>1, <4>1, <4>2
    <3>4. g \in h.rows
      BY <1>3, <2>2, <3>2, <3>3
    <3> QED
      BY <1>10, <2>2, <3>4
  <2> QED
    BY <1>7, <2>1, <2>2 DEF Safe
<1>11. ASSUME NEW k \in busy, k # h PROVE Safe(k.rows)
  <2>1. k.rows \in SUBSET files /\ k.rows \subseteq Locked /\ Apart(h.rows, k.rows)
    BY <1>11 DEF Held, Locked
  <2> QED
    BY <1>10, <2>1 DEF Apart
<1>12. ASSUME ~Idle PROVE Safe(pull.stale)
  <2>1. pull.stale \in SUBSET files /\ pull.stale \subseteq Locked /\ Apart(h.rows, pull.stale)
    BY <1>12 DEF Held, Locked
  <2> QED
    BY <1>10, <2>1 DEF Apart
<1> QED
  BY <1>1, <1>3, <1>6, <1>7, <1>8, <1>9, <1>11, <1>12

LEMMA CommitKeeps ==
    ASSUME ConstantsAssumption, LInv, NEW h \in busy, Commit(h)
    PROVE  LInv'
<1>1. TypeInv /\ CacheTrue /\ Held /\ EmptyOnlyCrossed
  BY DEF LInv
<1>2. /\ Tab(files', coll') /\ EmptyOnlyCrossed'
      /\ \A k \in busy : k # h => Safe(k.rows)
      /\ ~Idle => Safe(pull.stale)
  BY <1>1, CommitIs
<1>3. /\ busy' = busy \ {h} /\ mirrored' = mirrored \ {h.r.c}
      /\ UNCHANGED <<lib, reports, bounds, slipped, crossed>>
      /\ pull' = IF Idle THEN pull ELSE [pull EXCEPT !.clean = FALSE]
  BY DEF Commit
<1>4. Jolted
  BY <1>3 DEF Jolted
<1>5. Carried /\ (~Idle' => ~Idle)
  BY <1>1, <1>4, JoltedIs
<1>6. /\ lib' \in [Conn -> [Sid -> Media \cup {None}]] /\ reports' \subseteq Report
      /\ busy' \subseteq busy /\ crossed \subseteq crossed' /\ crossed' \subseteq Media
      /\ mirrored' \subseteq Conn /\ slipped' \subseteq Conn
  BY <1>1, <1>3 DEF TypeInv, TypeOK
<1>7. \A k \in busy' : Safe(k.rows)
  BY <1>2, <1>3
<1> QED
  BY <1>2, <1>5, <1>6, <1>7, StepKeeps

LEMMA TakeKeeps ==
    ASSUME ConstantsAssumption, LInv, NEW r \in reports, NEW rows \in SUBSET files, Take(r, rows)
    PROVE  LInv'
<1>1. TypeInv /\ CacheTrue /\ Held /\ EmptyOnlyCrossed
  BY DEF LInv
<1> DEFINE new == [r |-> r, cid |-> coll[r.m], rows |-> rows, last |-> Last(rows)]
           with == {h \in busy : \E f \in h.rows : \E g \in rows : f.m = g.m}
           stale == IF Idle THEN {} ELSE {f.m : f \in pull.stale}
<1>2. /\ Unlocked(rows) /\ reports' = reports \ {r} /\ busy' = busy \cup {new}
      /\ pull' = IF Idle THEN pull ELSE [pull EXCEPT !.clean = FALSE]
      /\ crossed' = crossed \cup {f.m : f \in UNION {h.rows : h \in with}}
                            \cup ({f.m : f \in rows} \cap stale)
      /\ UNCHANGED <<lib, coll, files, bounds, mirrored, slipped>>
  BY DEF Take
<1>3. Jolted
  BY <1>2 DEF Jolted
<1>4. /\ Carried
      /\ ~Idle' => ~Idle /\ pull'.stale = pull.stale /\ pull'.last = pull.last
  BY <1>1, <1>3, JoltedIs
<1>5. Tab(files', coll')
  BY <1>1, <1>2, TabUnchanged
<1>6. CacheTrue'
  BY <1>1, <1>4, <1>5, CacheStays
<1>7. Knows(rows, Last(rows)) /\ IsFiniteSet(Last(rows)) /\ Last(rows) \in SUBSET (Media \X Nat)
  BY <1>1, LastKnown
<1>8. /\ new \in Handler /\ new.rows = rows /\ new.last = Last(rows)
      /\ \A h \in busy : h.rows \subseteq files
  <2>1. r \in Report /\ coll[r.m] \in Nat /\ rows \in SUBSET FileRow
    BY <1>1 DEF TypeInv, TypeOK, Report
  <2> QED
    BY <1>1, <1>7, <2>1 DEF Handler, Held
<1> HIDE DEF new
<1>9. TypeInv'
  <2>1. crossed' \subseteq Media
    <3>1. \A f \in files : f.m \in Media
      BY <1>1 DEF TypeInv, TypeOK, FileRow
    <3> QED
      BY <1>1, <1>2, <1>8, <3>1 DEF TypeInv, TypeOK
  <2>2. TypeOK'
    BY <1>1, <1>2, <2>1 DEF TypeInv, TypeOK
  <2>3. IsFiniteSet(files') /\ IsFiniteSet(busy')
    BY <1>1, <1>2, FS_AddElement DEF TypeInv
  <2>4. busy' \subseteq Handler /\ \A h \in busy' : IsFiniteSet(h.last)
    BY <1>1, <1>2, <1>7, <1>8 DEF TypeInv
  <2>5. pull' \in PullRec \cup {NoPull}
    BY <1>4 DEF Carried
  <2>6. ~Idle' => IsFiniteSet(pull'.files) /\ IsFiniteSet(pull'.last)
    BY <1>1, <1>4 DEF TypeInv, Carried
  <2> HIDE DEF Idle, PullRec
  <2> QED
    BY <1>1, <1>2, <2>2, <2>3, <2>4, <2>5, <2>6 DEF TypeInv
<1>10. EmptyOnlyCrossed'
  BY <1>1, <1>2 DEF EmptyOnlyCrossed, FilesOf
<1>11. Held'
  <2>1. ASSUME NEW s \in SUBSET files, NEW l, Knows(s, l) PROVE Knows(s, l)'
    BY <1>2, <2>1 DEF Knows, FilesOf
  <2>2. PICK l : l = Last(rows)
    OBVIOUS
  <2>3. Knows(rows, l)'
    BY <1>7, <2>1, <2>2
  <2>4. ASSUME NEW h \in busy' PROVE h.rows \subseteq files' /\ Knows(h.rows, h.last)'
    <3>1. CASE h \in busy
      BY <1>1, <1>2, <2>1, <3>1 DEF Held
    <3>2. CASE h = new
      BY <1>2, <1>8, <2>2, <2>3, <3>2 DEF Knows
    <3> QED
      BY <1>2, <3>1, <3>2
  <2>5. ASSUME NEW h \in busy
        PROVE  /\ h.rows \cap rows = {}
               /\ \A f \in h.rows, g \in rows : f.m = g.m => f.m \in crossed'
    <3>1. h.rows \cap rows = {}
      BY <1>2 DEF Unlocked, Locked
    <3>2. ASSUME NEW f \in h.rows, NEW g \in rows, f.m = g.m PROVE f.m \in crossed'
      <4>1. h \in with
        BY <3>2
      <4> QED
        BY <1>2, <4>1
    <3> QED
      BY <3>1, <3>2
  <2>6. ASSUME NEW h \in busy', NEW k \in busy', h # k PROVE Apart(h.rows, k.rows)'
    <3>1. CASE h \in busy /\ k \in busy
      BY <1>1, <1>2, <2>6, <3>1 DEF Held, Apart
    <3>2. CASE h \in busy /\ k = new
      BY <1>8, <2>5, <3>2 DEF Apart
    <3>3. CASE h = new /\ k \in busy
      BY <1>8, <2>5, <3>3 DEF Apart
    <3> QED
      BY <1>2, <2>6, <3>1, <3>2, <3>3
  <2>7. ASSUME ~Idle'
        PROVE  /\ pull'.stale \subseteq files' /\ Knows(pull.stale, pull.last)'
               /\ \A h \in busy' : Apart(h.rows, pull.stale)'
    <3>1. ~Idle /\ pull'.stale = pull.stale /\ pull'.last = pull.last
      BY <1>4, <2>7
    <3>2. PICK s, k : s = pull.stale /\ k = pull.last
      OBVIOUS
    <3>3. s \in SUBSET files /\ Knows(s, k) /\ \A h \in busy : Apart(h.rows, s)
      BY <1>1, <3>1, <3>2 DEF Held
    <3>4. Knows(s, k)'
      BY <2>1, <3>3
    <3>5. ASSUME NEW h \in busy' PROVE Apart(h.rows, pull.stale)'
      <4>1. CASE h \in busy
        BY <1>2, <3>1, <3>2, <3>3, <4>1 DEF Apart
      <4>2. CASE h = new
        <5>1. rows \cap s = {}
          BY <1>2, <3>1, <3>2 DEF Unlocked, Locked
        <5>2. ASSUME NEW f \in rows, NEW g \in s, f.m = g.m PROVE f.m \in crossed'
          <6>1. f.m \in stale
            BY <3>1, <3>2, <5>2
          <6> QED
            BY <1>2, <6>1
        <5> QED
          BY <1>8, <3>1, <3>2, <4>2, <5>1, <5>2 DEF Apart
      <4> QED
        BY <1>2, <4>1, <4>2
    <3> QED
      BY <1>2, <3>1, <3>2, <3>3, <3>4, <3>5 DEF Knows
  <2> HIDE DEF Idle
  <2> QED
    BY <2>4, <2>6, <2>7 DEF Held
<1> QED
  BY <1>6, <1>9, <1>10, <1>11 DEF LInv

\* The rows a report is about.
LEMMA HandleIs ==
    ASSUME ConstantsAssumption, NEW r \in Report, Handle(r)
    PROVE  \E rows \in SUBSET Reported(r) :
              /\ Take(r, rows)
              /\ \/ r.kind = "removed" /\ Type[r.c] # "plex" /\ \A f \in rows : f.m = r.m
                 \/ rows = {}
                 \/ r.kind = "updated" /\ Type[r.c] = "plex" /\ \A f \in rows : f.m # r.m
<1>1. Type[r.c] \in {"jellyfin", "emby", "plex"}
  BY DEF ConstantsAssumption, Report
<1>2. CASE Type[r.c] = "jellyfin"
  BY <1>2 DEF Handle, JellyfinReport
<1>3. CASE Type[r.c] = "emby"
  BY <1>3 DEF Handle, EmbyReport
<1>4. CASE Type[r.c] = "plex"
  BY <1>4 DEF Handle, PlexReport
<1> QED
  BY <1>1, <1>2, <1>3, <1>4

\* The user's changes.
LEMMA CollectKeeps ==
    ASSUME ConstantsAssumption, LInv, NEW m \in Media, Collect(m)
    PROVE  LInv'
<1>1. TypeInv /\ CacheTrue /\ Held /\ EmptyOnlyCrossed
  BY DEF LInv
<1> DEFINE u == Added(Tables, m, "manual", AnyId, None)
           t == Tables
<1>2. /\ coll[m] = 0 /\ files' = u.files /\ coll' = u.coll
      /\ pull' = Disturb(pull)
      /\ UNCHANGED <<lib, reports, busy, changes, fixes, mirrored, slipped, crossed>>
  BY DEF Collect, Write, Edited
<1>3. \A f \in files : f.m # m
  BY <1>1, <1>2 DEF TypeInv, TypeOK
<1>4. AnyId \in Sid /\ "manual" \in Source
  BY DEF AnyId, ConstantsAssumption, Source
<1>5. t.files = files /\ t.coll = coll
  BY DEF Tables
<1>6. /\ Tab(t.files, t.coll) /\ Good(t.files, t.coll) /\ t.files \subseteq files
      /\ \A f \in t.files : <<f.m, f.src, f.sid>> # <<m, "manual", AnyId>>
  BY <1>1, <1>3, <1>5, TabUnchanged DEF Tab
<1> HIDE DEF t
<1>7. /\ Tab(u.files, u.coll)
      /\ u.files = t.files \cup {NewRow(m, "manual", AnyId, None)}
      /\ \A x \in Media : x # m \/ t.coll[x] # 0 => u.coll[x] = t.coll[x]
  <2>1. u = Added(t, m, "manual", AnyId, None)
    BY DEF t
  <2> HIDE DEF u
  <2>2. None \in Conn \cup {None}
    OBVIOUS
  <2>3. Tab(u.files, u.coll)
    BY <1>1, <1>4, <1>6, <2>1, <2>2, TabAdded
  <2> QED
    BY <1>1, <1>4, <1>6, <2>1, <2>2, <2>3, AddedIs
<1>8. files \subseteq files' /\ Tab(files', coll')
      /\ \A x \in Media : x # m => coll'[x] = coll[x]
  BY <1>2, <1>5, <1>7
<1> HIDE DEF u
<1>9. \E f \in files' : f.m = m
  <2>1. NewRow(m, "manual", AnyId, None).m = m
    BY DEF NewRow
  <2> QED
    BY <1>2, <1>7, <2>1
<1>10. EmptyOnlyCrossed'
  BY <1>1, <1>2, <1>8, <1>9 DEF EmptyOnlyCrossed, FilesOf
<1>11. Jolted
  BY <1>2 DEF Jolted, Disturb, Idle
<1>12. Carried /\ (~Idle' => ~Idle)
  BY <1>1, <1>11, JoltedIs
<1>13. \A rows \in SUBSET files : Safe(rows)
  BY <1>8 DEF Safe
<1>14. (\A h \in busy' : Safe(h.rows)) /\ (~Idle' => Safe(pull.stale))
  BY <1>1, <1>2, <1>12, <1>13 DEF Held
<1>15. /\ lib' \in [Conn -> [Sid -> Media \cup {None}]] /\ reports' \subseteq Report
       /\ busy' \subseteq busy /\ crossed \subseteq crossed' /\ crossed' \subseteq Media
       /\ mirrored' \subseteq Conn /\ slipped' \subseteq Conn
  BY <1>1, <1>2 DEF TypeInv, TypeOK
<1> QED
  BY <1>8, <1>10, <1>12, <1>14, <1>15, StepKeeps

LEMMA UncollectKeeps ==
    ASSUME ConstantsAssumption, LInv, NEW ms \in SUBSET Media, Uncollect(ms)
    PROVE  LInv'
<1>1. TypeInv /\ CacheTrue /\ Held /\ EmptyOnlyCrossed
  BY DEF LInv
<1>2. /\ Unlocked(UNION {FilesOf(m) : m \in ms})
      /\ files' = {f \in files : f.m \notin ms}
      /\ coll' = [m \in Media |-> IF m \in ms THEN 0 ELSE coll[m]]
      /\ mirrored' = {} /\ pull' = Disturb(pull)
      /\ UNCHANGED <<lib, reports, busy, changes, fixes, slipped, crossed>>
  BY DEF Uncollect, Edited
<1>3. Good(files, coll)
  BY <1>1, TablesGood
<1>4. Tab(files', coll')
  <2>1. files' \subseteq files
    BY <1>2
  <2>2. coll' \in [Media -> Nat] /\ \A m \in Media : coll'[m] # 0 => coll'[m] = coll[m]
    BY <1>2, <1>3 DEF Good
  <2>3. \A f \in files' : coll'[f.m] # 0 /\ coll'[f.m] = coll[f.m]
    BY <1>2, <1>3 DEF Good, FileRow
  <2>4. Good(files', coll')
    BY <1>3, <2>1, <2>2, <2>3, FS_Subset DEF Good
  <2>5. Kept(files')
    BY <2>1 DEF Kept, Same
  <2> QED
    BY <1>3, <2>1, <2>3, <2>4, <2>5 DEF Tab, Same, Good
<1>5. EmptyOnlyCrossed'
  BY <1>1, <1>2 DEF EmptyOnlyCrossed, FilesOf
<1>6. Jolted
  BY <1>2 DEF Jolted, Disturb, Idle
<1>7. Carried /\ (~Idle' => ~Idle)
  BY <1>1, <1>6, JoltedIs
<1>8. ASSUME NEW rows \in SUBSET files, rows \subseteq Locked PROVE Safe(rows)
  <2>1. \A f \in rows : f.m \notin ms
    BY <1>2, <1>8 DEF Unlocked, FilesOf
  <2>2. rows \subseteq files'
    BY <1>2, <2>1
  <2>3. ASSUME NEW g \in files, \A k \in files' : k.id # g.id, NEW f \in rows, f.m = g.m
        PROVE  FALSE
    <3>1. g \notin files'
      BY <2>3
    <3> QED
      BY <1>2, <2>1, <2>3, <3>1
  <2> QED
    BY <2>2, <2>3 DEF Safe
<1>9. (\A h \in busy' : Safe(h.rows)) /\ (~Idle' => Safe(pull.stale))
  BY <1>1, <1>2, <1>7, <1>8 DEF Held, Locked
<1>10. /\ lib' \in [Conn -> [Sid -> Media \cup {None}]] /\ reports' \subseteq Report
       /\ busy' \subseteq busy /\ crossed \subseteq crossed' /\ crossed' \subseteq Media
       /\ mirrored' \subseteq Conn /\ slipped' \subseteq Conn
  BY <1>1, <1>2 DEF TypeInv, TypeOK
<1> QED
  BY <1>4, <1>5, <1>7, <1>9, <1>10, StepKeeps

\* The rows of a connection that is deleted and added again.
LEMMA ReconnectIs ==
    ASSUME ConstantsAssumption, TypeInv, NEW c \in Conn, Reconnect(c)
    PROVE  /\ Tab(files', coll') /\ coll' = coll
           /\ \A g \in files : \E k \in files' : Same(k, g) /\ k.sid = g.sid /\ (g.conn # c => k = g)
           /\ \A k \in files' : \E g \in files : Same(k, g) /\ k.sid = g.sid
                                                 /\ k.conn = IF g.conn = c THEN None ELSE g.conn
<1> DEFINE S == {f \in files : f.conn = c}
           e == Reassign(files, S, None)
<1>1. Tab(files, coll) /\ Good(files, coll)
  BY TabUnchanged DEF Tab
<1>2. files' = {IF f.conn = c THEN [f EXCEPT !.conn = None] ELSE f : f \in files} /\ coll' = coll
  BY DEF Reconnect
<1>3. files' = Renewed(e, files)
  BY <1>2 DEF Renewed, Reassign
<1>4. /\ Renewal(e, files)
      /\ \A f \in files : e[f].sid = f.sid /\ e[f].conn = IF f \in S THEN None ELSE f.conn
  <2>1. None \in Conn \cup {None}
    OBVIOUS
  <2> HIDE DEF S
  <2> QED
    BY <1>1, <2>1, Reassigned
<1>5. \A g \in files : g.conn # c => e[g] = g
  BY DEF Reassign
<1> HIDE DEF e
<1>6. Tab(files', coll')
  <2>1. Tab(Renewed(e, files), coll)
    BY <1>1, <1>4, TabRenewed
  <2> QED
    BY <1>2, <1>3, <2>1
<1>7. \A g \in files : Same(e[g], g) /\ e[g] \in files'
  BY <1>3, <1>4 DEF Renewal, Renewed
<1>8. \A g \in files : \E k \in files' : Same(k, g) /\ k.sid = g.sid /\ (g.conn # c => k = g)
  BY <1>4, <1>5, <1>7
<1>9. \A k \in files' : \E g \in files : Same(k, g) /\ k.sid = g.sid
                                         /\ k.conn = IF g.conn = c THEN None ELSE g.conn
  BY <1>3, <1>4, <1>7 DEF Renewed
<1> QED
  BY <1>2, <1>6, <1>8, <1>9

LEMMA ReconnectKeeps ==
    ASSUME ConstantsAssumption, LInv, NEW c \in Conn, Reconnect(c)
    PROVE  LInv'
<1>1. TypeInv /\ CacheTrue /\ Held /\ EmptyOnlyCrossed
  BY DEF LInv
<1>2. /\ Tab(files', coll') /\ coll' = coll
      /\ \A g \in files : \E k \in files' : Same(k, g) /\ k.sid = g.sid /\ (g.conn # c => k = g)
  BY <1>1, ReconnectIs
<1>3. /\ Unlocked(files) /\ mirrored' = mirrored \ {c}
      /\ UNCHANGED <<lib, reports, busy, pull, changes, fixes, slipped, crossed>>
  BY DEF Reconnect
<1>4. EmptyOnlyCrossed'
  BY <1>1, <1>2, <1>3 DEF EmptyOnlyCrossed, FilesOf, Same
<1>5. Jolted
  BY <1>3 DEF Jolted
<1>6. Carried /\ (~Idle' => ~Idle)
  BY <1>1, <1>5, JoltedIs
<1>7. Safe({})
  BY DEF Safe
<1>8. (\A h \in busy : h.rows = {}) /\ (~Idle => pull.stale = {})
  BY <1>1, <1>3 DEF Held, Unlocked, Locked
<1>9. (\A h \in busy' : Safe(h.rows)) /\ (~Idle' => Safe(pull.stale))
  BY <1>3, <1>6, <1>7, <1>8
<1>10. /\ lib' \in [Conn -> [Sid -> Media \cup {None}]] /\ reports' \subseteq Report
       /\ busy' \subseteq busy /\ crossed \subseteq crossed' /\ crossed' \subseteq Media
       /\ mirrored' \subseteq Conn /\ slipped' \subseteq Conn
  BY <1>1, <1>3 DEF TypeInv, TypeOK
<1> QED
  BY <1>2, <1>4, <1>6, <1>9, <1>10, StepKeeps

-----------------------------------------------------------------------------
(* The invariant.                                                          *)

LEMMA InitTrue ==
    ASSUME ConstantsAssumption, Init
    PROVE  LInv
<1>1. Idle
  BY DEF Init, Idle
<1>2. TypeInv
  BY <1>1, FS_EmptySet DEF Init, TypeInv, TypeOK
<1>3. EmptyOnlyCrossed /\ Held /\ CacheTrue
  BY <1>1 DEF Init, EmptyOnlyCrossed, Held, CacheTrue
<1> QED
  BY <1>2, <1>3 DEF LInv

LEMMA NextKeeps ==
    ASSUME ConstantsAssumption, LInv, [Next]_vars
    PROVE  LInv'
<1>1. CASE UNCHANGED vars
  <2>1. /\ reports \subseteq Report /\ mirrored \subseteq Conn /\ slipped \subseteq Conn
        /\ lib \in [Conn -> [Sid -> Media \cup {None}]]
    BY DEF LInv, TypeInv, TypeOK
  <2> QED
    BY <1>1, <2>1, QuietKeeps DEF vars, Jolted
<1>2. CASE Change
  BY <1>2, ServerKeeps DEF Change
<1>3. ASSUME NEW r \in reports, Handle(r) PROVE LInv'
  <2>1. r \in Report
    BY DEF LInv, TypeInv
  <2>2. PICK rows \in SUBSET Reported(r) : Take(r, rows)
    BY <1>3, <2>1, HandleIs
  <2>3. rows \in SUBSET files
    BY DEF Reported
  <2> QED
    BY <2>2, <2>3, TakeKeeps
<1>4. CASE \E h \in busy : Commit(h)
  BY <1>4, CommitKeeps
<1>5. ASSUME NEW c \in Conn, Pull(c) PROVE LInv'
  <2>1. StartPull(c)
    BY <1>5 DEF Pull, JellyfinPull, EmbyPull, PlexPull, ConstantsAssumption
  <2> QED
    BY <2>1, PullKeeps
<1>6. CASE PullStep
  <2>1. CASE Prune
    BY <2>1, PruneKeeps
  <2>2. CASE Finish
    BY <2>2, FinishKeeps
  <2>3. CASE \E i \in (IF Idle THEN {} ELSE pull.todo) : SyncItem(i)
    BY <2>3, SyncItemKeeps
  <2> QED
    BY <1>6, <2>1, <2>2, <2>3 DEF PullStep
<1>7. CASE \E m \in Media : Collect(m) \/ Uncollect({m})
  BY <1>7, CollectKeeps, UncollectKeeps
<1>8. CASE Uncollect(Media)
  BY <1>8, UncollectKeeps
<1>9. CASE \E c \in Conn : Reconnect(c)
  BY <1>9, ReconnectKeeps
<1>10. CASE (\E r \in reports : Lose(r)) \/ BreakOff \/ Crash
  BY <1>10, LossKeeps
<1> QED
  BY <1>1, <1>2, <1>3, <1>4, <1>5, <1>6, <1>7, <1>8, <1>9, <1>10 DEF Next

LEMMA Invariant == Spec => []LInv
<1>1. Init => LInv
  BY InitTrue, ConstantsAssumption
<1>2. LInv /\ [Next]_vars => LInv'
  BY NextKeeps, ConstantsAssumption
<1> QED
  BY <1>1, <1>2, PTL DEF Spec

\* A collection without a file is left only where two removals overlapped: removals of
\* one transaction at a time always leave none (EmptyOnlyCrossed), and the tables keep
\* their constraints (TypeOK).
THEOREM EmptyWhereRemovalsCross == Spec => []EmptyOnlyCrossed
<1>1. LInv => EmptyOnlyCrossed
  BY DEF LInv
<1> QED
  BY <1>1, Invariant, PTL

THEOREM TablesKeepConstraints == Spec => []TypeOK
<1>1. LInv => TypeOK
  BY DEF LInv, TypeInv
<1> QED
  BY <1>1, Invariant, PTL

-----------------------------------------------------------------------------
(* What an item does to the rows and to the pull.                          *)

\* A row goes only if another id's file turns out to be of other media than the item.
Evicts(i, g) ==
    \E f \in Cached(i[1]) :
        /\ g \in Row(f) /\ f.m # i[2] /\ g.m = f.m
        /\ g.sid # f.sid => pull'.slip
        /\ g.id \in {h.id : h \in pull.files \ {f}} => pull'.slip

\* What an item does to the rows,
ItemRows(i) ==
    /\ \A k \in files' : k = NewRow(i[2], Type[pull.c], i[1], pull.c) \/ \E g \in files : Upd(k, g, i)
    /\ \A g \in files : Evicts(i, g) \/ \E k \in files' : Upd(k, g, i)
    /\ \A g \in files : g \in files' \/ g.src = Type[pull.c]
\* to the pull,
ItemPull(i) ==
    /\ pull'.c = pull.c /\ pull'.phase = pull.phase /\ pull'.seen = pull.seen
    /\ pull'.limited = pull.limited /\ pull'.stale = pull.stale /\ pull'.last = pull.last
    /\ pull'.todo = pull.todo \ {i}
    /\ pull'.clean => pull.clean
    /\ pull.slip => pull'.slip
    /\ \A f \in pull.files : f.sid = i[1] \/ f \in pull'.files
    /\ \A f \in pull'.files : f \in pull.files \/ (f.sid = i[1] /\ \E g \in pull.files : Same(f, g))
\* and what it achieves where nothing is in the way.
ItemShows(i) ==
    pull'.clean /\ ~pull'.slip /\ (\A f \in pull.files : \E g \in files : g.id = f.id) =>
        Witness(i) /\ \A f \in pull'.files : \E k \in files' : k.id = f.id

LEMMA ItemDoes ==
    ASSUME ConstantsAssumption, TypeInv, CacheTrue, NEW i, SyncItem(i)
    PROVE  ItemRows(i) /\ ItemPull(i) /\ ItemShows(i)
<1>1. ~Idle
  BY DEF SyncItem
<1>2. \A f \in pull.files : f.src = Type[pull.c] /\ \A g \in files : f.id = g.id => Same(g, f)
  BY <1>1 DEF CacheTrue, Same
<1>3. CASE Plain(i)
  <2>1. Advanced(pull, i) /\ (Undone \/ Placed(files, coll, pull, i))
    BY <1>3 DEF Plain
  <2>2. ItemPull(i)
    BY <2>1 DEF Advanced, ItemPull
  <2>3. CASE Undone
    <3>1. files' = files /\ \A g \in files : Upd(g, g, i)
      BY <2>3 DEF Undone, Upd, Same
    <3> QED
      BY <2>2, <2>3, <3>1 DEF ItemRows, ItemShows, Undone
  <2>4. CASE Placed(files, coll, pull, i)
    <3>1. ItemRows(i)
      BY <1>2, <2>4 DEF Placed, ItemRows, Same
    <3>2. ASSUME pull'.clean, \A f \in pull.files : \E g \in files : g.id = f.id
          PROVE  Witness(i) /\ \A f \in pull'.files : \E k \in files' : k.id = f.id
      <4>1. \A f \in pull.files : \E g \in files : Same(g, f)
        BY <1>2, <3>2
      <4>2. Witness(i)
        BY <2>4, <3>2, <4>1 DEF Placed
      <4>3. \A f \in pull.files : \E k \in files' : k.id = f.id
        BY <2>4, <3>2 DEF Placed, Upd, Same
      <4> QED
        BY <2>2, <4>2, <4>3 DEF ItemPull, Same
    <3> QED
      BY <2>2, <3>1, <3>2 DEF ItemShows
  <2> QED
    BY <2>1, <2>3, <2>4
<1>4. ASSUME NEW p, NEW f, Evicting(i, p, f)
      PROVE  ItemRows(i) /\ ItemPull(i) /\ ItemShows(i)
  <2>1. PICK F, C : F = Dropped(Row(f)).files /\ C = Dropped(Row(f)).coll
    OBVIOUS
  <2>2. F = files \ Row(f)
    BY <2>1 DEF Dropped
  <2>3. /\ f \in Cached(i[1]) /\ f.m # i[2] /\ f \in pull.files /\ Evicted(p, f) /\ Advanced(p, i)
        /\ Undone \/ Placed(F, C, p, i)
    BY <1>4, <2>1 DEF Evicting, Cached
  <2>4. /\ pull'.slip <=> \/ pull.slip
                          \/ \E g \in Row(f) : g.sid # f.sid \/ g.id \in {h.id : h \in pull.files \ {f}}
        /\ p.files = pull.files \ {f}
        /\ \A h \in pull'.files : h \in p.files \/ (h.sid = i[1] /\ \E g \in p.files : Same(h, g))
    BY <2>3 DEF Evicted, Advanced
  <2>5. ItemPull(i)
    BY <2>3, <2>4 DEF Evicted, Advanced, ItemPull, Cached
  <2>6. \A g \in Row(f) : g \in files /\ Same(g, f) /\ g.src = Type[pull.c]
    BY <1>2, <2>3 DEF Row, Same
  <2>7. \A g \in Row(f) : Evicts(i, g)
    BY <2>3, <2>4, <2>6 DEF Evicts, Same
  <2>8. CASE Undone
    <3>1. files' = files /\ \A g \in files : Upd(g, g, i)
      BY <2>8 DEF Undone, Upd, Same
    <3> QED
      BY <2>5, <2>8, <3>1 DEF ItemRows, ItemShows, Undone
  <2>9. CASE Placed(F, C, p, i)
    <3>1. ItemRows(i)
      <4>1. \A k \in files' : k = NewRow(i[2], Type[pull.c], i[1], pull.c) \/ \E g \in files : Upd(k, g, i)
        BY <2>2, <2>9 DEF Placed
      <4>2. \A g \in files : Evicts(i, g) \/ \E k \in files' : Upd(k, g, i)
        BY <2>2, <2>7, <2>9 DEF Placed
      <4>3. \A g \in files : g \in files' \/ g.src = Type[pull.c]
        <5>1. \A g \in F : g \in files' \/ \E h \in pull.files : h.id = g.id
          BY <2>9 DEF Placed
        <5> QED
          BY <1>2, <2>2, <2>6, <5>1 DEF Same
      <4> QED
        BY <4>1, <4>2, <4>3 DEF ItemRows
    <3>2. ASSUME pull'.clean, ~pull'.slip, \A h \in pull.files : \E g \in files : g.id = h.id
          PROVE  Witness(i) /\ \A h \in pull'.files : \E k \in files' : k.id = h.id
      <4>1. ASSUME NEW h \in p.files PROVE \E g \in F : Same(g, h)
        <5>1. PICK g \in files : g.id = h.id /\ Same(g, h)
          BY <1>2, <2>4, <3>2
        <5>2. g \notin Row(f)
          BY <2>4, <3>2, <5>1
        <5> QED
          BY <2>2, <5>1, <5>2
      <4>2. Witness(i)
        BY <2>9, <3>2, <4>1 DEF Placed
      <4>3. \A h \in p.files : \E k \in files' : k.id = h.id
        BY <2>9, <4>1 DEF Placed, Upd, Same
      <4> QED
        BY <2>4, <4>2, <4>3 DEF Same
    <3> QED
      BY <2>5, <3>1, <3>2 DEF ItemShows
  <2> QED
    BY <2>3, <2>8, <2>9
<1> QED
  BY <1>3, <1>4, ItemIs

\* Of the rows under the item's id those of other media are older ones, and where one
\* stays it is not the only row that was cached under the id.
LEMMA ItemClears ==
    ASSUME ConstantsAssumption, TypeInv, CacheTrue, NEW i, SyncItem(i), ~Undone,
           NEW k \in files', k.sid = i[1], k.m # i[2]
    PROVE  /\ \E g \in files : Same(k, g) /\ g.sid = i[1]
           /\ Cached(i[1]) = {} \/ \E f \in Cached(i[1]) : f.id # k.id
<1>1. NewRow(i[2], Type[pull.c], i[1], pull.c).m = i[2]
  BY DEF NewRow
<1>2. PICK g \in files : Upd(k, g, i)
  BY <1>1, ItemDoes DEF ItemRows
<1>3. Same(k, g) /\ g.sid = i[1]
  BY <1>2 DEF Upd
<1>4. ASSUME NEW f \in Cached(i[1]), f.id = k.id PROVE f.m = k.m
  <2>1. ~Idle /\ f \in pull.files
    BY DEF SyncItem, Cached
  <2> QED
    BY <1>3, <1>4, <2>1 DEF CacheTrue, Same
<1>5. CASE Plain(i)
  <2>1. Fitting(i)
    BY <1>5 DEF Plain
  <2> QED
    BY <1>3, <1>4, <2>1 DEF Fitting
<1>6. ASSUME NEW p, NEW f, Evicting(i, p, f) PROVE f \in Cached(i[1]) /\ f.id # k.id
  <2>1. PICK F, C : F = Dropped(Row(f)).files /\ C = Dropped(Row(f)).coll
    OBVIOUS
  <2>2. f \in Cached(i[1]) /\ Placed(F, C, p, i)
    BY <1>6, <2>1 DEF Evicting
  <2>3. F = files \ Row(f)
    BY <2>1 DEF Dropped
  <2>4. PICK h \in F : Upd(k, h, i)
    BY <1>1, <2>2 DEF Placed
  <2>5. h \in files /\ h \notin Row(f) /\ h.id = k.id
    BY <2>3, <2>4 DEF Upd, Same
  <2> QED
    BY <2>2, <2>5 DEF Row
<1> QED
  BY <1>3, <1>5, <1>6, ItemIs

-----------------------------------------------------------------------------
(* Ids with files of two media.                                            *)

\* Steps by which no server's file comes under an id.
LEMMA NoneDoubled ==
    ASSUME ConstantsAssumption, TypeInv, DInv, doubled' = doubled,
           \A k \in files' : k.src = "manual" \/ \E g \in files : Same(k, g) /\ k.sid = g.sid,
           ~Idle' => /\ ~Idle /\ pull'.c = pull.c /\ pull'.todo = pull.todo
                     /\ pull'.files = pull.files /\ (pull'.clean => pull.clean)
    PROVE  DInv'
<1>1. \A k, l \in files' : Doubled(k, l) => \E g, h \in files : Doubled(g, h) /\ g.src = k.src /\ g.sid = k.sid
  BY DEF Doubled, Same
<1>2. Doubles(files)' \subseteq Doubles(files)
  BY <1>1 DEF Doubles
<1>3. ASSUME ~Idle', pull'.clean, NEW i \in pull'.todo PROVE CacheWhole(i[1])'
  <2>1. ~Idle /\ pull'.c = pull.c /\ pull'.files = pull.files /\ CacheWhole(i[1])
    BY <1>3 DEF DInv
  <2>2. Type[pull.c] # "manual"
    <3>1. pull.c \in Conn
      BY <2>1, AtWork
    <3> QED
      BY <3>1 DEF ConstantsAssumption
  <2>3. \A g \in files' : g.src = Type[pull.c] /\ g.sid = i[1] => \E f \in Cached(i[1]) : f.id = g.id
    BY <2>1, <2>2 DEF CacheWhole, Same
  <2> QED
    BY <2>1, <2>3 DEF CacheWhole, Cached
<1> HIDE DEF Idle
<1> QED
  BY <1>2, <1>3 DEF DInv

LEMMA QuietDoubles ==
    ASSUME ConstantsAssumption, LInv, DInv, doubled' = doubled, files' \subseteq files, Jolted
    PROVE  DInv'
<1>1. TypeInv /\ CacheTrue
  BY DEF LInv
<1>2. \A k \in files' : \E g \in files : Same(k, g) /\ k.sid = g.sid
  BY DEF Same
<1> QED
  BY <1>1, <1>2, JoltedIs, NoneDoubled

LEMMA StartDoubles ==
    ASSUME ConstantsAssumption, LInv, DInv, NEW c \in Conn, StartPull(c)
    PROVE  DInv'
<1>1. TypeInv
  BY DEF LInv
<1>2. PICK got, limited : Started(c, got, limited)
  BY StartIs
<1>3. /\ files' = files /\ doubled' = doubled
      /\ pull'.c = c /\ pull'.todo = {<<s, lib[c][s]>> : s \in got}
      /\ pull'.files = {f \in files : f.src = Type[c]}
  BY <1>2 DEF Started
<1>4. \A i, j \in pull'.todo : i[1] = j[1] => i = j
  BY <1>3
<1>5. ASSUME NEW s PROVE CacheWhole(s)'
  <2>1. \A g \in files : g.src = Type[c] /\ g.sid = s => g \in Cached(s)'
    BY <1>3 DEF Cached
  <2>2. ASSUME NEW f \in Cached(s)', NEW h \in Cached(s)', f # h PROVE <<Type[c], s>> \in doubled
    <3>1. f \in files /\ h \in files /\ f.src = Type[c] /\ h.src = Type[c] /\ f.sid = s /\ h.sid = s
      BY <1>3 DEF Cached
    <3>2. f.m # h.m
      BY <1>1, <2>2, <3>1 DEF TypeInv, TypeOK
    <3>3. Doubled(f, h)
      BY <3>1, <3>2 DEF Doubled, ConstantsAssumption
    <3> QED
      BY <3>1, <3>3 DEF DInv, Doubles
  <2> QED
    BY <1>3, <2>1, <2>2 DEF CacheWhole
<1> QED
  BY <1>3, <1>4, <1>5 DEF DInv, Doubles

LEMMA TypedDoubles ==
    ASSUME NEW F, F \subseteq FileRow PROVE Doubles(F) \subseteq Source \X Sid
BY DEF Doubles, FileRow

LEMMA CommitDoubles ==
    ASSUME ConstantsAssumption, LInv, LInv', DInv, NEW h \in busy, Commit(h)
    PROVE  DInv'
<1>1. TypeInv /\ CacheTrue /\ TypeOK'
  BY DEF LInv, TypeInv
<1>2. doubled' = doubled \cup Doubles(files') /\ pull' = IF Idle THEN pull ELSE [pull EXCEPT !.clean = FALSE]
  BY DEF Commit
<1>3. Doubles(files') \subseteq Source \X Sid
  BY <1>1, TypedDoubles DEF TypeOK
<1>4. ASSUME ~Idle' PROVE pull'.clean = FALSE /\ pull'.todo = pull.todo /\ ~Idle
  <2>1. ~Idle
    BY <1>2, <1>4 DEF Idle
  <2>2. pull \in PullRec
    BY <1>1, <2>1, AtWork
  <2> QED
    BY <1>2, <2>1, <2>2 DEF PullRec
<1> HIDE DEF Idle
<1> QED
  BY <1>2, <1>3, <1>4 DEF DInv

LEMMA ItemDoubles ==
    ASSUME ConstantsAssumption, LInv, LInv', DInv, NEW i, SyncItem(i)
    PROVE  DInv'
<1>1. TypeInv /\ CacheTrue /\ TypeOK'
  BY DEF LInv, TypeInv
<1>2. ItemRows(i) /\ ItemPull(i) /\ Tab(files', coll')
  BY <1>1, ItemDoes, ItemIs
<1>3. /\ ~Idle /\ i \in pull.todo
      /\ doubled' = IF pull.clean THEN doubled ELSE doubled \cup Doubles(files')
  BY DEF SyncItem
<1>4. /\ pull'.c = pull.c /\ pull'.todo = pull.todo \ {i} /\ (pull'.clean => pull.clean)
      /\ \A f \in pull.files : f.sid = i[1] \/ f \in pull'.files
      /\ \A f \in pull'.files : f \in pull.files \/ f.sid = i[1]
  BY <1>2 DEF ItemPull
<1>5. /\ Doubles(files) \subseteq doubled /\ doubled \subseteq Source \X Sid
      /\ \A h, j \in pull.todo : h[1] = j[1] => h = j
      /\ pull.clean => \A j \in pull.todo : CacheWhole(j[1])
  BY <1>3 DEF DInv
<1>6. ASSUME NEW k \in files'
      PROVE  \/ k.sid = i[1] /\ k.m = i[2] /\ k.src = Type[pull.c]
             \/ \E g \in files : Same(k, g) /\ g.sid = k.sid
  <2>1. CASE k = NewRow(i[2], Type[pull.c], i[1], pull.c)
    BY <2>1 DEF NewRow
  <2>2. ASSUME NEW g \in files, Upd(k, g, i), k.sid # g.sid PROVE k.src = Type[pull.c]
    <3>1. Same(k, g) /\ g \notin files'
      BY <1>2, <2>2 DEF Tab, Good, Upd, Same
    <3> QED
      BY <1>2, <3>1 DEF ItemRows, Same
  <2> QED
    BY <1>2, <2>1, <2>2 DEF ItemRows, Upd
<1>7. ASSUME pull.clean, ~Undone, NEW k \in files', k.sid = i[1], k.src = Type[pull.c], k.m # i[2]
      PROVE  <<k.src, k.sid>> \in doubled
  <2>1. /\ \E g \in files : Same(k, g) /\ g.sid = i[1]
        /\ Cached(i[1]) = {} \/ \E f \in Cached(i[1]) : f.id # k.id
    BY <1>1, <1>7, ItemClears
  <2>2. CacheWhole(i[1])
    BY <1>3, <1>5, <1>7
  <2>3. PICK f \in Cached(i[1]) : f.id = k.id
    BY <1>7, <2>1, <2>2 DEF CacheWhole, Same
  <2> QED
    BY <1>7, <2>1, <2>2, <2>3 DEF CacheWhole
<1>8. Doubles(files)' \subseteq doubled'
  <2>1. CASE ~pull.clean
    BY <1>3, <2>1
  <2>2. CASE Undone
    BY <1>3, <1>5, <2>2 DEF Undone
  <2>3. CASE pull.clean /\ ~Undone
    <3> SUFFICES ASSUME NEW k \in files', NEW l \in files', Doubled(k, l)
                 PROVE  <<k.src, k.sid>> \in doubled
      BY <1>3, <2>3 DEF Doubles
    <3>1. k.src = l.src /\ k.sid = l.sid /\ k.m # l.m
      BY DEF Doubled
    <3>2. CASE k.sid = i[1] /\ k.src = Type[pull.c]
      BY <1>7, <2>3, <3>1, <3>2
    <3>3. CASE ~(k.sid = i[1] /\ k.src = Type[pull.c])
      <4>1. PICK g \in files : Same(k, g) /\ g.sid = k.sid
        BY <1>6, <3>3
      <4>2. PICK h \in files : Same(l, h) /\ h.sid = l.sid
        BY <1>6, <3>1, <3>3
      <4>3. Doubled(g, h)
        BY <4>1, <4>2 DEF Doubled, Same
      <4>4. <<g.src, g.sid>> \in doubled
        BY <1>5, <4>3 DEF Doubles
      <4> QED
        BY <4>1, <4>4 DEF Same
    <3> QED
      BY <3>2, <3>3
  <2> QED
    BY <2>1, <2>2, <2>3
<1>9. doubled' \subseteq Source \X Sid
  <2>1. Doubles(files') \subseteq Source \X Sid
    BY <1>1, TypedDoubles DEF TypeOK
  <2> QED
    BY <1>3, <1>5, <2>1
<1>10. ASSUME pull'.clean, NEW j \in pull'.todo PROVE CacheWhole(j[1])'
  <2>1. pull.clean /\ doubled' = doubled /\ j[1] # i[1] /\ CacheWhole(j[1])
    BY <1>3, <1>4, <1>5, <1>10
  <2>2. Cached(j[1])' = Cached(j[1])
    BY <1>4, <2>1 DEF Cached
  <2>3. ASSUME NEW k \in files', k.src = Type[pull.c], k.sid = j[1] PROVE \E f \in Cached(j[1]) : f.id = k.id
    <3>1. PICK g \in files : Same(k, g) /\ g.sid = k.sid
      BY <1>6, <2>1, <2>3
    <3> QED
      BY <2>1, <2>3, <3>1 DEF CacheWhole, Same
  <2> QED
    BY <1>4, <2>1, <2>2, <2>3 DEF CacheWhole
<1> QED
  BY <1>4, <1>5, <1>8, <1>9, <1>10 DEF DInv

LEMMA NextDoubles ==
    ASSUME ConstantsAssumption, LInv, LInv', DInv, [Next]_vars
    PROVE  DInv'
<1>1. TypeInv /\ CacheTrue /\ Held
  BY DEF LInv
<1>2. CASE UNCHANGED vars \/ (\E r \in reports : Lose(r)) \/ BreakOff \/ Crash
  <2>1. files' = files /\ doubled' = doubled /\ Jolted
    BY <1>2 DEF Lose, BreakOff, Crash, vars, bounds, Jolted
  <2> QED
    BY <2>1, QuietDoubles
<1>3. CASE Change
  <2>1. PICK c \in Conn, s \in Sid, m \in Media \cup {None} : Changed(c, s, m)
    BY <1>3 DEF Change, Vanish, Appear, Fix
  <2>2. files' = files /\ doubled' = doubled /\ Jolted
    BY <1>1, <2>1, TouchIs DEF Changed
  <2> QED
    BY <2>2, QuietDoubles
<1>4. ASSUME NEW r \in reports, Handle(r) PROVE DInv'
  <2>1. r \in Report
    BY <1>1 DEF TypeInv
  <2>2. PICK rows \in SUBSET Reported(r) : Take(r, rows)
    BY <1>4, <2>1, HandleIs
  <2>3. files' = files /\ doubled' = doubled /\ Jolted
    BY <2>2 DEF Take, Jolted
  <2> QED
    BY <2>3, QuietDoubles
<1>5. CASE \E h \in busy : Commit(h)
  BY <1>5, CommitDoubles
<1>6. ASSUME NEW c \in Conn, Pull(c) PROVE DInv'
  <2>1. StartPull(c)
    BY <1>6 DEF Pull, JellyfinPull, EmbyPull, PlexPull, ConstantsAssumption
  <2> QED
    BY <2>1, StartDoubles
<1>7. CASE Prune
  <2>1. ~Idle /\ pull \in PullRec /\ files' = files /\ doubled' = doubled
    BY <1>1, <1>7, AtWork DEF Prune
  <2>2. pull'.c = pull.c /\ pull'.todo = pull.todo /\ pull'.files = pull.files /\ (pull'.clean => pull.clean)
    BY <1>7, <2>1 DEF Prune, PullRec
  <2>3. \A k \in files' : \E g \in files : Same(k, g) /\ k.sid = g.sid
    BY <2>1 DEF Same
  <2> QED
    BY <1>1, <2>1, <2>2, <2>3, NoneDoubled
<1>8. CASE Finish
  <2>1. PICK t : t = Removed(pull.stale, pull.last)
    OBVIOUS
  <2>2. files' = t.files /\ t.files \subseteq files /\ doubled' = doubled /\ pull' = NoPull
    BY <1>8, <2>1 DEF Finish, Write, Removed
  <2> QED
    BY <2>2, QuietDoubles DEF Jolted
<1>9. CASE \E i \in (IF Idle THEN {} ELSE pull.todo) : SyncItem(i)
  BY <1>9, ItemDoubles
<1>10. ASSUME NEW m \in Media, Collect(m) PROVE DInv'
  <2> DEFINE new == [id |-> NewFile, m |-> m, src |-> "manual", sid |-> AnyId, conn |-> None]
  <2>1. files' = files \cup {new} /\ pull' = Disturb(pull) /\ doubled' = doubled
    BY <1>10 DEF Collect, Write, Edited, Added, Tables
  <2>2. new.src = "manual"
    OBVIOUS
  <2> HIDE DEF new
  <2>3. \A k \in files' : k.src = "manual" \/ \E g \in files : Same(k, g) /\ k.sid = g.sid
    BY <2>1, <2>2 DEF Same
  <2>4. Jolted
    BY <2>1 DEF Jolted, Disturb, Idle
  <2> QED
    BY <1>1, <2>1, <2>3, <2>4, JoltedIs, NoneDoubled
<1>11. ASSUME NEW ms, Uncollect(ms) PROVE DInv'
  <2>1. files' \subseteq files /\ doubled' = doubled /\ Jolted
    BY <1>11 DEF Uncollect, Edited, Jolted, Disturb, Idle
  <2> QED
    BY <2>1, QuietDoubles
<1>12. ASSUME NEW c \in Conn, Reconnect(c) PROVE DInv'
  <2>1. \A k \in files' : \E g \in files : Same(k, g) /\ k.sid = g.sid
    BY <1>1, <1>12, ReconnectIs
  <2>2. pull' = pull /\ doubled' = doubled
    BY <1>12 DEF Reconnect
  <2> QED
    BY <1>1, <2>1, <2>2, NoneDoubled DEF Idle
<1> QED
  BY <1>2, <1>3, <1>4, <1>5, <1>6, <1>7, <1>8, <1>9, <1>10, <1>11, <1>12 DEF Next, PullStep

LEMMA DoublesKnown == Spec => []DInv
<1>1. Init => DInv
  BY DEF Init, DInv, Doubles, Idle
<1>2. LInv /\ LInv' /\ DInv /\ [Next]_vars => DInv'
  BY NextDoubles, ConstantsAssumption
<1> QED
  BY <1>1, <1>2, Invariant, PTL DEF Spec

-----------------------------------------------------------------------------
(* What undisturbed pulls show, where no two servers are of a kind.        *)

\* Steps that leave the files alone, and the library of mirrored servers.
LEMMA QuietMirrors ==
    ASSUME ConstantsAssumption, LInv, MInv, files' = files, Jolted, busy' \subseteq busy,
           slipped' = slipped, doubled \subseteq doubled', mirrored' \subseteq mirrored,
           \A c \in mirrored' : lib'[c] = lib[c],
           ~Idle' => lib'[pull.c] = lib[pull.c] \/ (~pull'.clean /\ pull.c \notin mirrored')
    PROVE  MInv'
<1>1. TypeInv /\ CacheTrue
  BY DEF LInv
<1>2. PullMirrors /\ Sources /\ Spared /\ PullTrue /\ Progress
  BY DEF MInv
<1>3. ~Idle' => /\ ~Idle /\ pull'.c = pull.c /\ pull'.phase = pull.phase
                /\ pull'.todo = pull.todo /\ pull'.seen = pull.seen
                /\ pull'.limited = pull.limited /\ pull'.files = pull.files
                /\ pull'.by = pull.by /\ pull'.stale = pull.stale
                /\ pull'.last = pull.last /\ pull'.slip = pull.slip
                /\ (pull'.clean => pull.clean)
  BY <1>1, JoltedIs
<1> HIDE DEF Idle
<1>4. \A c \in mirrored' : Items(c)' = Items(c)
  BY DEF Items
<1>5. PullMirrors'
  <2>1. ASSUME NEW c \in mirrored' \ slipped' PROVE Mirror(c)'
    BY <1>2, <1>4, <2>1 DEF PullMirrors, Mirror, Items, Right
  <2> QED
    BY <2>1 DEF PullMirrors
<1>6. Sources'
  BY <1>2, <1>3 DEF Sources
<1>7. Spared'
  <2> SUFFICES ASSUME NEW c \in mirrored' \ slipped'
               PROVE  /\ \A h \in busy' : h.r.c # c => \A l \in h.last : ~Has(c, l[1])'
                      /\ ~Idle' /\ pull'.c # c => \A l \in pull'.last : ~Has(c, l[1])'
                      /\ ~Idle' /\ pull'.c = c /\ pull'.phase = "prune"
                            => pull'.stale = {} /\ pull'.last = {}
    BY DEF Spared
  <2>1. c \in mirrored \ slipped /\ lib'[c] = lib[c]
    OBVIOUS
  <2>2. \A m : Has(c, m)' <=> Has(c, m)
    BY <2>1 DEF Has, Items
  <2>3. \A h \in busy' : h.r.c # c => \A l \in h.last : ~Has(c, l[1])'
    BY <1>2, <2>1, <2>2 DEF Spared
  <2>4. ~Idle' /\ pull'.c # c => \A l \in pull'.last : ~Has(c, l[1])'
    <3> SUFFICES ASSUME ~Idle', pull'.c # c, NEW l \in pull'.last PROVE ~Has(c, l[1])'
      OBVIOUS
    <3>1. ~Has(c, l[1])
      BY <1>2, <1>3, <2>1 DEF Spared
    <3> QED
      BY <2>2, <3>1
  <2>5. ~Idle' /\ pull'.c = c /\ pull'.phase = "prune" => pull'.stale = {} /\ pull'.last = {}
    BY <1>2, <1>3, <2>1 DEF Spared
  <2> QED
    BY <2>3, <2>4, <2>5
<1>8. PullTrue'
  BY <1>2, <1>3 DEF PullTrue, Items, Cached, Row
<1>9. Progress'
  BY <1>2, <1>3 DEF Progress, Items, Shown, FilesOf, Right
<1> QED
  BY <1>5, <1>6, <1>7, <1>8, <1>9 DEF MInv

LEMMA ServerMirrors ==
    ASSUME ConstantsAssumption, LInv, MInv, NEW c \in Conn, NEW s \in Sid,
           Vanish(c, s) \/ \E m \in Media : Appear(c, s, m) \/ Fix(c, s, m)
    PROVE  MInv'
<1>1. PICK m : Changed(c, s, m)
  BY DEF Vanish, Appear, Fix
<1>2. TypeInv
  BY DEF LInv
<1>3. Jolted /\ mirrored' = mirrored \ {c}
  BY <1>1, <1>2, TouchIs DEF Changed
<1>4. /\ UNCHANGED <<coll, files, busy, troubles, slipped, crossed, doubled>>
      /\ \A d \in Conn : d # c => lib'[d] = lib[d]
  BY <1>1, <1>2 DEF Changed, TypeInv, TypeOK
<1>5. \A d \in mirrored' : d \in Conn /\ d # c
  BY <1>2, <1>3 DEF TypeInv, TypeOK
<1>6. ASSUME ~Idle' PROVE lib'[pull.c] = lib[pull.c] \/ (~pull'.clean /\ pull.c \notin mirrored')
  <2>1. ~Idle
    BY <1>1, <1>6 DEF Changed, Touch, Idle, NoPull, ConstantsAssumption
  <2>2. pull \in PullRec /\ pull.c \in Conn
    BY <1>2, <2>1, AtWork
  <2>3. CASE pull.c = c
    <3>1. pull'.clean = FALSE
      BY <1>1, <2>2, <2>3 DEF Changed, Touch, PullRec
    <3> QED
      BY <1>3, <2>3, <3>1
  <2>4. CASE pull.c # c
    BY <1>4, <2>2, <2>4
  <2> QED
    BY <2>3, <2>4
<1> QED
  BY <1>3, <1>4, <1>5, <1>6, QuietMirrors

LEMMA LossMirrors ==
    ASSUME ConstantsAssumption, LInv, MInv,
           (\E r \in reports : Lose(r)) \/ BreakOff \/ Crash \/ UNCHANGED vars
    PROVE  MInv'
<1>1. /\ files' = files /\ lib' = lib /\ slipped' = slipped /\ mirrored' = mirrored
      /\ doubled' = doubled /\ busy' \subseteq busy /\ Jolted
  BY DEF Lose, BreakOff, Crash, vars, bounds, Jolted
<1> QED
  BY <1>1, QuietMirrors

\* A removal leaves what another server shows.
LEMMA LastIsOwn ==
    ASSUME ConstantsAssumption, OneEach, LInv, MInv, NEW c \in mirrored \ slipped,
           NEW rows \in SUBSET files,
           \A f \in rows : f.conn # c \/ f.src # Type[c],
           NEW l \in Last(rows)
    PROVE  ~Has(c, l[1])
<1>1. PICK f \in rows : l = <<f.m, coll[f.m]>> /\ FilesOf(f.m) \subseteq rows
  BY DEF Last
<1>2. SUFFICES ASSUME Has(c, f.m) PROVE FALSE
  BY <1>1
<1>3. c \in Conn /\ None \notin Conn
  BY DEF LInv, TypeInv, TypeOK, ConstantsAssumption
<1>4. Mirror(c)
  BY DEF MInv, PullMirrors
<1>5. PICK k \in files : k.m = f.m /\ k.conn = c
  BY <1>2, <1>4 DEF Mirror, Has
<1>6. k \in rows
  BY <1>1, <1>5 DEF FilesOf
<1>7. k.src = Type[c]
  BY <1>3, <1>5 DEF MInv, Sources
<1> QED
  BY <1>5, <1>6, <1>7

LEMMA TakeMirrors ==
    ASSUME ConstantsAssumption, OneEach, LInv, MInv, NEW r \in reports,
           NEW rows \in SUBSET Reported(r), Take(r, rows)
    PROVE  MInv'
<1>1. TypeInv /\ CacheTrue /\ r \in Report /\ r.c \in Conn
  BY DEF LInv, TypeInv, Report
<1>2. PullMirrors /\ Sources /\ Spared /\ PullTrue
  BY DEF MInv
<1> DEFINE new == [r |-> r, cid |-> coll[r.m], rows |-> rows, last |-> Last(rows)]
<1>3. /\ busy' = busy \cup {new}
      /\ pull' = IF Idle THEN pull ELSE [pull EXCEPT !.clean = FALSE]
      /\ UNCHANGED <<lib, coll, files, bounds, mirrored, slipped, doubled>>
  BY DEF Take
<1>4. Jolted
  BY <1>3 DEF Jolted
<1>5. ~Idle' => /\ ~Idle /\ pull'.c = pull.c /\ pull'.phase = pull.phase
                /\ pull'.todo = pull.todo /\ pull'.seen = pull.seen
                /\ pull'.limited = pull.limited /\ pull'.files = pull.files
                /\ pull'.stale = pull.stale
                /\ pull'.last = pull.last /\ pull'.slip = pull.slip
  BY <1>1, <1>4, JoltedIs
<1>6. ~Idle' => pull'.clean = FALSE
  <2>1. ~Idle => pull \in PullRec
    BY <1>1, AtWork
  <2> QED
    BY <1>3, <2>1 DEF PullRec, Idle
<1>7. rows \in SUBSET files /\ \A f \in rows : f.src = Type[r.c]
  BY DEF Reported
<1>8. new.r = r /\ new.rows = rows /\ new.last = Last(rows)
  OBVIOUS
<1> HIDE DEF new, Idle
<1>9. PullMirrors'
  BY <1>2, <1>3 DEF PullMirrors, Mirror, Items, Right
<1>10. Sources'
  BY <1>2, <1>3, <1>5, <1>7, <1>8 DEF Sources
<1>11. Spared'
  <2> SUFFICES ASSUME NEW c \in mirrored \ slipped
               PROVE  /\ \A h \in busy' : h.r.c # c => \A l \in h.last : ~Has(c, l[1])
                      /\ ~Idle' /\ pull'.c # c => \A l \in pull'.last : ~Has(c, l[1])
                      /\ ~Idle' /\ pull'.c = c /\ pull'.phase = "prune"
                            => pull'.stale = {} /\ pull'.last = {}
    BY <1>3 DEF Spared, Has, Items
  <2>1. ASSUME r.c # c, NEW l \in Last(rows) PROVE ~Has(c, l[1])
    <3>1. c \in Conn
      BY <1>1 DEF TypeInv, TypeOK
    <3>2. Type[r.c] # Type[c]
      BY <1>1, <2>1, <3>1 DEF OneEach
    <3>3. \A f \in rows : f.conn # c \/ f.src # Type[c]
      BY <1>7, <3>2
    <3> QED
      BY <1>7, <2>1, <3>3, LastIsOwn
  <2> QED
    BY <1>2, <1>3, <1>5, <1>8, <2>1 DEF Spared
<1>12. PullTrue'
  BY <1>2, <1>3, <1>5, <1>6 DEF PullTrue, Cached, Row
<1>13. Progress'
  BY <1>6 DEF Progress
<1> QED
  BY <1>9, <1>10, <1>11, <1>12, <1>13 DEF MInv

LEMMA StartMirrors ==
    ASSUME ConstantsAssumption, LInv, MInv, NEW c \in Conn, StartPull(c)
    PROVE  MInv'
<1>1. TypeInv
  BY DEF LInv
<1>2. PullMirrors /\ Sources /\ Spared
  BY DEF MInv
<1>3. PICK got, limited : Started(c, got, limited)
  BY StartIs
<1>4. /\ Idle /\ got \subseteq Items(c) /\ limited \in BOOLEAN
      /\ UNCHANGED <<lib, coll, files, reports, busy, changes, fixes, mirrored, slipped, crossed, doubled>>
  BY <1>3 DEF Started
<1>5. /\ pull'.c = c /\ pull'.phase = "items" /\ pull'.todo = {<<s, lib[c][s]>> : s \in got}
      /\ pull'.seen = got /\ pull'.limited = limited
      /\ pull'.files = {f \in files : f.src = Type[c]}
      /\ pull'.stale = {} /\ pull'.last = {} /\ pull'.slip = FALSE
      /\ pull'.clean => got = Items(c) /\ ~limited /\ busy = {}
  BY <1>3 DEF Started
<1>6. PullMirrors'
  BY <1>2, <1>4 DEF PullMirrors, Mirror, Items, Right
<1>7. Sources'
  BY <1>2, <1>4, <1>5 DEF Sources
<1>8. Spared'
  BY <1>2, <1>4, <1>5 DEF Spared, Has, Items
<1>9. PullTrue'
  <2>1. ASSUME NEW i \in pull'.todo, NEW f \in pull'.files, f.sid = i[1],
               NEW g \in files, g.id = f.id
        PROVE  g.sid = i[1]
    <3>1. f \in files
      BY <1>5
    <3>2. f = g
      BY <1>1, <2>1, <3>1, TablesGood DEF Good
    <3> QED
      BY <2>1, <3>2
  <2>2. \A i \in pull'.todo : lib[c][i[1]] = i[2]
    BY <1>5
  <2> QED
    BY <1>4, <1>5, <2>1, <2>2 DEF PullTrue, Items, Cached, Row
<1>10. Progress'
  <2>1. \A f \in pull'.files : f \in files
    BY <1>5
  <2>2. \A s \in got : <<s, lib[c][s]>> \in pull'.todo
    BY <1>5
  <2> QED
    BY <1>4, <1>5, <2>1, <2>2 DEF Progress, Items
<1> QED
  BY <1>6, <1>7, <1>8, <1>9, <1>10 DEF MInv

LEMMA PruneMirrors ==
    ASSUME ConstantsAssumption, OneEach, LInv, MInv, Prune
    PROVE  MInv'
<1>1. TypeInv
  BY DEF LInv
<1>2. PullMirrors /\ Sources /\ Spared /\ PullTrue /\ Progress
  BY DEF MInv
<1> DEFINE rows == {f \in files : f.conn = pull.c}
           stale == {f \in rows : f.sid \notin pull.seen}
<1>3. PICK refused : refused = MostlyGone(rows, pull.seen)
  OBVIOUS
<1>4. PICK out : out = IF refused \/ pull.limited THEN {} ELSE stale
  OBVIOUS
<1>5. /\ ~Idle /\ pull.phase = "items" /\ pull.todo = {}
      /\ pull' = [pull EXCEPT !.phase = "prune", !.stale = out, !.last = Last(out),
                              !.clean = @ /\ ~refused]
      /\ mirrored' = IF pull.seen = Items(pull.c) \/ pull.limited \/ refused
                     THEN mirrored ELSE mirrored \ {pull.c}
      /\ UNCHANGED <<lib, coll, files, reports, busy, bounds, slipped, doubled>>
  BY <1>3, <1>4 DEF Prune, Refused
<1>6. pull \in PullRec /\ pull.c \in Conn /\ None \notin Conn
  BY <1>1, <1>5, AtWork DEF ConstantsAssumption
<1>7. /\ pull'.c = pull.c /\ pull'.phase = "prune" /\ pull'.todo = {} /\ pull'.seen = pull.seen
      /\ pull'.limited = pull.limited /\ pull'.files = pull.files
      /\ pull'.stale = out /\ pull'.last = Last(out) /\ pull'.slip = pull.slip
      /\ pull'.clean => pull.clean /\ ~refused
  BY <1>5, <1>6 DEF PullRec
<1>8. out \in SUBSET files /\ \A f \in out : f.conn = pull.c
  BY <1>4
<1>9. mirrored' \subseteq mirrored
  BY <1>5
<1>10. PullMirrors'
  <2>1. files' = files /\ lib' = lib /\ slipped' = slipped /\ doubled' = doubled
    BY <1>5
  <2>2. \A d \in mirrored' \ slipped' : Mirror(d)
    BY <1>2, <1>9, <2>1 DEF PullMirrors
  <2> QED
    BY <2>1, <2>2 DEF PullMirrors, Mirror, Items, Right
<1>11. Sources'
  BY <1>2, <1>5, <1>7, <1>8 DEF Sources
<1>12. Spared'
  <2> SUFFICES ASSUME NEW d \in mirrored' \ slipped
               PROVE  /\ \A h \in busy : h.r.c # d => \A l \in h.last : ~Has(d, l[1])
                      /\ pull.c # d => \A l \in Last(out) : ~Has(d, l[1])
                      /\ pull.c = d => out = {} /\ Last(out) = {}
    BY <1>5, <1>7 DEF Spared, Has, Items
  <2>1. d \in mirrored \ slipped
    BY <1>9
  <2>2. \A h \in busy : h.r.c # d => \A l \in h.last : ~Has(d, l[1])
    BY <1>2, <2>1 DEF Spared
  <2>3. ASSUME pull.c # d, NEW l \in Last(out) PROVE ~Has(d, l[1])
    <3>1. \A f \in out : f.conn # d \/ f.src # Type[d]
      BY <1>8, <2>3
    <3> QED
      BY <1>8, <2>1, <2>3, <3>1, LastIsOwn
  <2>4. ASSUME pull.c = d PROVE out = {}
    <3>1. CASE refused \/ pull.limited
      BY <1>4, <3>1
    <3>2. CASE pull.seen = Items(pull.c)
      <4>1. Mirror(d)
        BY <1>2, <2>1 DEF PullMirrors
      <4> QED
        BY <1>4, <2>4, <3>2, <4>1 DEF Mirror
    <3>3. refused \/ pull.limited \/ pull.seen = Items(pull.c)
      BY <1>5, <2>4
    <3> QED
      BY <3>1, <3>2, <3>3
  <2>5. Last({}) = {}
    BY DEF Last
  <2> QED
    BY <2>2, <2>3, <2>4, <2>5
<1>13. PullTrue'
  BY <1>2, <1>5, <1>7 DEF PullTrue, Items
<1>14. Progress'
  <2> SUFFICES ASSUME pull'.clean, ~pull.slip PROVE Progress'
    BY <1>7 DEF Progress
  <2>1. pull.clean /\ ~refused /\ ~pull.limited /\ pull.seen = Items(pull.c)
    BY <1>2, <1>5, <1>7 DEF PullTrue
  <2>2. out = {f \in files : f.conn = pull.c /\ f.sid \notin Items(pull.c)}
    BY <1>4, <2>1
  <2>3. \A l \in Last(out) : FilesOf(l[1]) \subseteq out
    BY DEF Last
  <2>4. \A f \in pull.files : \E g \in files : g.id = f.id
    BY <1>2, <1>5, <2>1 DEF Progress
  <2>5. \A s \in Items(pull.c) : Shown(pull.c, lib[pull.c][s])
    BY <1>2, <1>5, <2>1 DEF Progress
  <2>6. \A f \in files : f.conn = pull.c /\ f.sid \in Items(pull.c) => Right(pull.c, f)
    BY <1>2, <1>5, <2>1 DEF Progress
  <2> QED
    BY <1>5, <1>7, <2>2, <2>3, <2>4, <2>5, <2>6 DEF Progress, Items, Shown, FilesOf, Right
<1> QED
  BY <1>10, <1>11, <1>12, <1>13, <1>14 DEF MInv

LEMMA FinishMirrors ==
    ASSUME ConstantsAssumption, OneEach, LInv, MInv, Finish
    PROVE  MInv'
<1>1. TypeInv
  BY DEF LInv
<1>2. PullMirrors /\ Sources /\ Spared /\ PullTrue /\ Progress
  BY DEF MInv
<1>3. ~Idle /\ pull \in PullRec /\ pull.c \in Conn /\ pull.phase = "prune"
  BY <1>1, AtWork DEF Finish
<1>4. PICK rows, last, t : rows = pull.stale /\ last = pull.last /\ t = Removed(pull.stale, pull.last)
  OBVIOUS
<1>5. /\ files' = t.files /\ pull' = NoPull
      /\ mirrored' = IF pull.clean THEN mirrored \cup {pull.c} ELSE mirrored
      /\ slipped' = IF pull.clean /\ ~pull.slip THEN slipped \ {pull.c} ELSE slipped
      /\ UNCHANGED <<lib, reports, busy, bounds, crossed, doubled>>
  BY <1>4 DEF Finish, Write
<1>6. last \in SUBSET (Media \X Nat)
  BY <1>3, <1>4 DEF PullRec
<1>7. /\ t.files \subseteq files \ rows
      /\ \A m \in Media : <<m, coll[m]>> \notin last => \A f \in files \ rows : f.m = m => f \in t.files
  BY <1>1, <1>4, <1>6, RemovedIs
<1>8. Idle'
  BY <1>5 DEF Idle
<1>9. ASSUME NEW c \in Conn, Mirror(c), \A f \in rows : f.conn # c,
             \A m \in Media : Has(c, m) => <<m, coll[m]>> \notin last
      PROVE  Mirror(c)'
  <2>1. ASSUME NEW m \in {lib[c][s] : s \in Items(c)}
        PROVE  \E f \in files' : f.m = m /\ f.conn = c /\ lib[c][f.sid] = m
    <3>1. PICK f \in files : f.m = m /\ f.conn = c /\ lib[c][f.sid] = m
      BY <1>9 DEF Mirror
    <3>2. m \in Media /\ Has(c, m)
      BY <1>1, <3>1 DEF Has, TypeInv, TypeOK, FileRow
    <3>3. f \notin rows /\ <<m, coll[m]>> \notin last
      BY <1>9, <3>1, <3>2
    <3> QED
      BY <1>5, <1>7, <3>1, <3>2, <3>3
  <2>2. \A f \in files' : f.conn = c => f.sid \in Items(c) /\ Right(c, f)
    BY <1>5, <1>7, <1>9 DEF Mirror
  <2> QED
    BY <1>5, <2>1, <2>2 DEF Mirror, Items, Right
<1>10. ASSUME pull.clean, ~pull.slip, NEW c, c = pull.c PROVE Mirror(c)'
  <2>1. /\ \A s \in Items(c) : Shown(c, lib[c][s])
        /\ rows = {f \in files : f.conn = c /\ f.sid \notin Items(c)}
        /\ \A l \in last : FilesOf(l[1]) \subseteq rows
        /\ \A f \in files : f.conn = c /\ f.sid \in Items(c) => Right(c, f)
    BY <1>2, <1>3, <1>4, <1>10 DEF Progress
  <2>2. ASSUME NEW m \in {lib[c][s] : s \in Items(c)}
        PROVE  \E f \in files' : f.m = m /\ f.conn = c /\ lib[c][f.sid] = m
    <3>1. PICK f \in files : f.m = m /\ f.conn = c /\ lib[c][f.sid] = m
      BY <2>1 DEF Shown
    <3>2. m \in Media /\ f.sid \in Sid
      BY <1>1, <3>1 DEF TypeInv, TypeOK, FileRow
    <3>3. f.sid \in Items(c)
      BY <2>2, <3>1, <3>2 DEF Items
    <3>4. f \notin rows
      BY <2>1, <3>3
    <3>5. <<m, coll[m]>> \notin last
      BY <2>1, <3>1, <3>4 DEF FilesOf
    <3> QED
      BY <1>5, <1>7, <3>1, <3>2, <3>4, <3>5
  <2>3. \A f \in files' : f.conn = c => f.sid \in Items(c) /\ Right(c, f)
    BY <1>5, <1>7, <2>1
  <2> QED
    BY <1>5, <2>2, <2>3 DEF Mirror, Items, Right
<1>11. PullMirrors'
  <2>1. ASSUME NEW c \in mirrored' \ slipped' PROVE Mirror(c)'
    <3>1. c \in Conn
      BY <1>1, <1>3, <1>5, <2>1 DEF TypeInv, TypeOK
    <3>2. CASE c # pull.c
      <4>1. c \in mirrored \ slipped
        BY <1>5, <2>1, <3>2
      <4>2. Mirror(c)
        BY <1>2, <4>1 DEF PullMirrors
      <4>3. \A f \in rows : f.conn # c
        BY <1>2, <1>3, <1>4, <3>2 DEF Sources
      <4>4. \A l \in last : ~Has(c, l[1])
        BY <1>2, <1>3, <1>4, <3>2, <4>1 DEF Spared
      <4> QED
        BY <1>9, <3>1, <4>2, <4>3, <4>4
    <3>3. CASE c = pull.c /\ pull.clean
      <4>1. ~pull.slip
        BY <1>2, <1>3, <1>5, <2>1, <3>3 DEF PullTrue
      <4> QED
        BY <1>10, <3>3, <4>1
    <3>4. CASE c = pull.c /\ ~pull.clean
      <4>1. c \in mirrored \ slipped
        BY <1>5, <2>1, <3>4
      <4>2. Mirror(c)
        BY <1>2, <4>1 DEF PullMirrors
      <4>3. rows = {} /\ last = {}
        BY <1>2, <1>3, <1>4, <3>4, <4>1 DEF Spared
      <4> QED
        BY <1>9, <3>1, <4>2, <4>3
    <3> QED
      BY <3>2, <3>3, <3>4
  <2> QED
    BY <2>1 DEF PullMirrors
<1>12. Sources'
  BY <1>2, <1>5, <1>7, <1>8 DEF Sources
<1>13. Spared'
  <2> SUFFICES ASSUME NEW c \in mirrored' \ slipped', NEW h \in busy, h.r.c # c, NEW l \in h.last
               PROVE  ~Has(c, l[1])
    BY <1>5, <1>8 DEF Spared, Has, Items
  <2>1. CASE pull.clean
    BY <1>2, <1>3, <2>1 DEF PullTrue
  <2>2. CASE ~pull.clean
    <3>1. c \in mirrored \ slipped
      BY <1>5, <2>2
    <3> QED
      BY <1>2, <3>1 DEF Spared
  <2> QED
    BY <2>1, <2>2
<1>14. PullTrue' /\ Progress'
  BY <1>8 DEF PullTrue, Progress
<1> QED
  BY <1>11, <1>12, <1>13, <1>14 DEF MInv

LEMMA CommitMirrors ==
    ASSUME ConstantsAssumption, OneEach, LInv, MInv, NEW h \in busy, Commit(h)
    PROVE  MInv'
<1>1. TypeInv /\ CacheTrue /\ Held /\ EmptyOnlyCrossed
  BY DEF LInv
<1>2. PullMirrors /\ Sources /\ Spared /\ PullTrue
  BY DEF MInv
<1>3. h.r \in Report /\ h.r.c \in Conn /\ h.last \in SUBSET (Media \X Nat) /\ None \notin Conn
  BY <1>1 DEF TypeInv, Handler, Report, ConstantsAssumption
<1>4. PICK t : t = Removed(h.rows, h.last)
  OBVIOUS
<1>5. /\ t.files \subseteq files \ h.rows
      /\ \A m \in Media : <<m, coll[m]>> \notin h.last => \A f \in files \ h.rows : f.m = m => f \in t.files
  BY <1>1, <1>3, <1>4, RemovedIs
<1>6. /\ Tab(files', coll')
      /\ \/ files' = files
         \/ files' = t.files
         \/ Ensures(t.files, t.coll, h.r, files', coll')
  BY <1>1, <1>4, CommitIs
<1>7. \A f \in t.files : f \in files' \/ f.src = Type[h.r.c]
  BY <1>5, <1>6 DEF Ensures
<1>8. \A k \in files' : k \in files \/ (k.conn = h.r.c /\ k.src = Type[h.r.c])
  BY <1>5, <1>6 DEF Ensures
<1>9. /\ busy' = busy \ {h} /\ mirrored' = mirrored \ {h.r.c} /\ doubled \subseteq doubled'
      /\ UNCHANGED <<lib, reports, bounds, slipped, crossed>>
      /\ pull' = IF Idle THEN pull ELSE [pull EXCEPT !.clean = FALSE]
  BY DEF Commit
<1>10. Jolted
  BY <1>9 DEF Jolted
<1>11. ~Idle' => /\ ~Idle /\ pull'.c = pull.c /\ pull'.phase = pull.phase
                 /\ pull'.todo = pull.todo /\ pull'.files = pull.files
                 /\ pull'.stale = pull.stale
                 /\ pull'.last = pull.last /\ pull'.slip = pull.slip
  BY <1>1, <1>10, JoltedIs
<1>12. ~Idle' => pull'.clean = FALSE
  <2>1. ~Idle => pull \in PullRec
    BY <1>1, AtWork
  <2> QED
    BY <1>9, <2>1 DEF PullRec, Idle
<1> HIDE DEF Idle
<1>13. PullMirrors'
  <2>1. ASSUME NEW c \in mirrored' \ slipped' PROVE Mirror(c)'
    <3>1. c \in mirrored \ slipped /\ c # h.r.c /\ c \in Conn
      BY <1>1, <1>9 DEF TypeInv, TypeOK
    <3>2. Mirror(c) /\ Type[c] # Type[h.r.c]
      BY <1>2, <1>3, <3>1 DEF PullMirrors, OneEach
    <3>3. ASSUME NEW m \in {lib[c][s] : s \in Items(c)}
          PROVE  \E f \in files' : f.m = m /\ f.conn = c /\ lib[c][f.sid] = m
      <4>1. PICK f \in files : f.m = m /\ f.conn = c /\ lib[c][f.sid] = m
        BY <3>2 DEF Mirror
      <4>2. m \in Media /\ Has(c, m)
        BY <1>1, <4>1 DEF Has, TypeInv, TypeOK, FileRow
      <4>3. f.src = Type[c]
        BY <1>2, <1>3, <3>1, <4>1 DEF Sources
      <4>4. f \notin h.rows
        BY <1>2, <3>2, <4>3 DEF Sources
      <4>5. <<m, coll[m]>> \notin h.last
        BY <1>2, <3>1, <4>2 DEF Spared
      <4>6. f \in t.files
        BY <1>5, <4>1, <4>2, <4>4, <4>5
      <4> QED
        BY <1>7, <3>2, <4>1, <4>3, <4>6
    <3>4. \A f \in files' : f.conn = c => f.sid \in Items(c) /\ Right(c, f)
      BY <1>8, <3>1, <3>2 DEF Mirror
    <3> QED
      BY <1>9, <3>3, <3>4 DEF Mirror, Items, Right
  <2> QED
    BY <2>1 DEF PullMirrors
<1>14. Sources'
  BY <1>2, <1>8, <1>9, <1>11 DEF Sources
<1>15. Spared'
  BY <1>2, <1>9, <1>11 DEF Spared, Has, Items
<1>16. PullTrue'
  <2> SUFFICES ASSUME ~Idle', pull'.c \in mirrored', NEW i \in pull'.todo,
                      NEW f \in pull'.files, f.sid = i[1], NEW g \in files', g.id = f.id
               PROVE  g.sid = i[1] \/ lib[pull.c][g.sid] = g.m
    BY <1>2, <1>9, <1>11, <1>12 DEF PullTrue, Cached, Row
  <2>1. pull.c \in mirrored /\ pull.c # h.r.c /\ pull.c \in Conn
    BY <1>1, <1>9, <1>11, AtWork
  <2>2. f \in pull.files /\ i \in pull.todo /\ ~Idle
    BY <1>11
  <2>3. f.src = Type[pull.c] /\ f.id # NewFile
    BY <1>1, <2>2, NewFileIs DEF CacheTrue
  <2>4. Type[pull.c] # Type[h.r.c]
    BY <1>3, <2>1 DEF OneEach
  <2>5. g.src = f.src
    <3>1. PICK k \in files : Same(g, k)
      BY <1>6, <2>3 DEF Tab, Kept
    <3> QED
      BY <1>1, <2>2, <3>1 DEF CacheTrue, Same
  <2>6. g \in files
    BY <1>8, <2>3, <2>4, <2>5
  <2> QED
    BY <1>2, <2>1, <2>2, <2>6 DEF PullTrue, Cached, Row
<1>17. Progress'
  BY <1>12 DEF Progress
<1> QED
  BY <1>13, <1>14, <1>15, <1>16, <1>17 DEF MInv

LEMMA CollectMirrors ==
    ASSUME ConstantsAssumption, LInv, MInv, NEW m \in Media, Collect(m)
    PROVE  MInv'
<1>1. TypeInv /\ CacheTrue
  BY DEF LInv
<1>2. PullMirrors /\ Sources /\ Spared /\ PullTrue
  BY DEF MInv
<1> DEFINE new == [id |-> NewFile, m |-> m, src |-> "manual", sid |-> AnyId, conn |-> None]
<1>3. /\ files' = files \cup {new} /\ pull' = Disturb(pull)
      /\ UNCHANGED <<lib, reports, busy, changes, fixes, mirrored, slipped, crossed, doubled>>
  BY DEF Collect, Write, Edited, Added, Tables
<1>4. new.conn = None /\ new.id = NewFile
  OBVIOUS
<1>5. Jolted
  BY <1>3 DEF Jolted, Disturb, Idle
<1>6. ~Idle' => /\ ~Idle /\ pull'.c = pull.c /\ pull'.phase = pull.phase
                /\ pull'.todo = pull.todo /\ pull'.files = pull.files
                /\ pull'.stale = pull.stale
                /\ pull'.last = pull.last /\ pull'.slip = pull.slip
  BY <1>1, <1>5, JoltedIs
<1>7. ~Idle' => pull'.clean = FALSE
  <2>1. ~Idle => pull \in PullRec
    BY <1>1, AtWork
  <2> QED
    BY <1>3, <2>1 DEF PullRec, Idle, Disturb
<1> HIDE DEF new, Idle
<1>8. PullMirrors'
  <2>1. None \notin mirrored
    BY <1>1 DEF TypeInv, TypeOK, ConstantsAssumption
  <2>2. ASSUME NEW c \in mirrored \ slipped PROVE Mirror(c)'
    <3>1. Mirror(c) /\ c # None
      BY <1>2, <2>1 DEF PullMirrors
    <3> QED
      BY <1>3, <1>4, <3>1 DEF Mirror, Items, Right
  <2> QED
    BY <1>3, <2>2 DEF PullMirrors
<1>9. Sources'
  BY <1>2, <1>3, <1>4, <1>6 DEF Sources
<1>10. Spared'
  BY <1>2, <1>3, <1>6 DEF Spared, Has, Items
<1>11. PullTrue'
  <2>1. ~Idle => \A f \in pull.files : f.id # NewFile
    BY <1>1, NewFileIs
  <2> QED
    BY <1>2, <1>3, <1>4, <1>6, <1>7, <2>1 DEF PullTrue, Cached, Row
<1>12. Progress'
  BY <1>7 DEF Progress
<1> QED
  BY <1>8, <1>9, <1>10, <1>11, <1>12 DEF MInv

LEMMA UncollectMirrors ==
    ASSUME ConstantsAssumption, LInv, MInv, NEW ms \in SUBSET Media, Uncollect(ms)
    PROVE  MInv'
<1>1. TypeInv /\ CacheTrue
  BY DEF LInv
<1>2. Sources /\ PullTrue
  BY DEF MInv
<1>3. /\ files' \subseteq files /\ mirrored' = {} /\ pull' = Disturb(pull)
      /\ UNCHANGED <<lib, reports, busy, changes, fixes, slipped, crossed>>
  BY DEF Uncollect, Edited
<1>4. Jolted
  BY <1>3 DEF Jolted, Disturb, Idle
<1>5. ~Idle' => /\ ~Idle /\ pull'.c = pull.c /\ pull'.stale = pull.stale /\ pull'.slip = pull.slip
  BY <1>1, <1>4, JoltedIs
<1>6. ~Idle' => pull'.clean = FALSE
  <2>1. ~Idle => pull \in PullRec
    BY <1>1, AtWork
  <2> QED
    BY <1>3, <2>1 DEF PullRec, Idle, Disturb
<1> HIDE DEF Idle
<1>7. PullMirrors' /\ Spared'
  BY <1>3 DEF PullMirrors, Spared
<1>8. Sources'
  BY <1>2, <1>3, <1>5 DEF Sources
<1>9. PullTrue' /\ Progress'
  BY <1>2, <1>3, <1>5, <1>6 DEF PullTrue, Progress
<1> QED
  BY <1>7, <1>8, <1>9 DEF MInv

LEMMA ReconnectMirrors ==
    ASSUME ConstantsAssumption, LInv, MInv, NEW c \in Conn, Reconnect(c)
    PROVE  MInv'
<1>1. TypeInv /\ Held /\ None \notin Conn
  BY DEF LInv, ConstantsAssumption
<1>2. PullMirrors /\ Sources /\ Spared /\ PullTrue /\ Progress
  BY DEF MInv
<1>3. /\ Tab(files', coll') /\ coll' = coll
      /\ \A g \in files : \E k \in files' : Same(k, g) /\ k.sid = g.sid /\ (g.conn # c => k = g)
      /\ \A k \in files' : \E g \in files : Same(k, g) /\ k.sid = g.sid
                                            /\ k.conn = IF g.conn = c THEN None ELSE g.conn
  BY <1>1, ReconnectIs
<1>4. /\ pull.c # c /\ Unlocked(files) /\ mirrored' = mirrored \ {c}
      /\ UNCHANGED <<lib, coll, reports, busy, pull, changes, fixes, slipped, crossed, doubled>>
  BY DEF Reconnect
<1>5. Idle' <=> Idle
  BY <1>4 DEF Idle
<1>6. ~Idle => pull.c \in Conn /\ pull.stale = {}
  BY <1>1, <1>4, AtWork DEF Held, Unlocked, Locked
<1>7. \A g \in files : g.conn # c => g \in files'
  BY <1>3
<1>8. ASSUME NEW k \in files', NEW d \in Conn, k.conn = d PROVE k \in files /\ d # c
  <2>1. PICK g \in files : Same(k, g) /\ k.conn = IF g.conn = c THEN None ELSE g.conn
    BY <1>3
  <2>2. g.conn # c /\ d # c
    BY <1>1, <1>8, <2>1
  <2>3. g \in files' /\ g.id = k.id
    BY <1>7, <2>1, <2>2 DEF Same
  <2>4. g = k
    BY <1>3, <2>3 DEF Tab, Good
  <2> QED
    BY <2>2, <2>4
<1>9. \A d \in Conn : \A m : d # c /\ Shown(d, m) => \E f \in files' : f.m = m /\ f.conn = d /\ lib[d][f.sid] = m
  BY <1>7 DEF Shown
<1> HIDE DEF Idle
<1>10. PullMirrors'
  <2>1. ASSUME NEW d \in mirrored' \ slipped PROVE Mirror(d)'
    <3>1. d \in Conn /\ d # c /\ Mirror(d)
      BY <1>1, <1>2, <1>4, <2>1 DEF TypeInv, TypeOK, PullMirrors
    <3> QED
      BY <1>4, <1>7, <1>8, <3>1 DEF Mirror, Items, Right
  <2> QED
    BY <1>4, <2>1 DEF PullMirrors
<1>11. Sources'
  BY <1>2, <1>3, <1>4, <1>5 DEF Sources, Same
<1>12. Spared'
  BY <1>2, <1>4, <1>5 DEF Spared, Has, Items
<1>13. PullTrue'
  <2> SUFFICES ASSUME ~Idle, pull.clean \/ pull.c \in mirrored, NEW i \in pull.todo,
                      NEW f \in pull.files, f.sid = i[1], NEW k \in files', k.id = f.id
               PROVE  k.sid = i[1] \/ lib[pull.c][k.sid] = k.m
    BY <1>2, <1>4, <1>5 DEF PullTrue, Items, Cached, Row
  <2>1. PICK g \in files : Same(k, g) /\ k.sid = g.sid
    BY <1>3
  <2>2. f \in Cached(i[1]) /\ g \in Row(f)
    BY <2>1 DEF Cached, Row, Same
  <2>3. g.sid = i[1] \/ lib[pull.c][g.sid] = g.m
    BY <1>2, <2>2 DEF PullTrue
  <2> QED
    BY <2>1, <2>3 DEF Same
<1>14. Progress'
  <2> SUFFICES ASSUME ~Idle, pull.clean, ~pull.slip PROVE Progress'
    BY <1>4, <1>5 DEF Progress
  <2>1. \A f \in pull.files : \E g \in files' : g.id = f.id
    BY <1>2, <1>3 DEF Progress, Same
  <2>2. ASSUME NEW s \in Items(pull.c), <<s, lib[pull.c][s]>> \notin pull.todo
        PROVE  \E f \in files' : f.m = lib[pull.c][s] /\ f.conn = pull.c /\ lib[pull.c][f.sid] = lib[pull.c][s]
    BY <1>2, <1>4, <1>6, <1>9, <2>2 DEF Progress
  <2>3. ASSUME pull.phase = "prune"
        PROVE  /\ pull.todo = {}
               /\ pull.stale = {f \in files' : f.conn = pull.c /\ f.sid \notin Items(pull.c)}
               /\ \A l \in pull.last : \A f \in files' : f.m = l[1] => f \in pull.stale
    <3>1. /\ pull.todo = {}
          /\ pull.stale = {f \in files : f.conn = pull.c /\ f.sid \notin Items(pull.c)}
          /\ \A l \in pull.last : \A f \in files : f.m = l[1] => f \in pull.stale
      BY <1>2, <2>3 DEF Progress, FilesOf
    <3>2. ASSUME NEW f \in files', f.conn = pull.c, f.sid \notin Items(pull.c) PROVE FALSE
      BY <1>6, <1>8, <3>1, <3>2
    <3>3. ASSUME NEW l \in pull.last, NEW f \in files', f.m = l[1] PROVE FALSE
      BY <1>3, <1>6, <3>1, <3>3 DEF Same
    <3> QED
      BY <1>6, <3>1, <3>2, <3>3
  <2>4. ASSUME NEW f \in files', f.conn = pull.c, f.sid \in Items(pull.c)
        PROVE  Right(pull.c, f) \/ <<f.sid, lib[pull.c][f.sid]>> \in pull.todo
    BY <1>2, <1>6, <1>8, <2>4 DEF Progress
  <2> QED
    BY <1>4, <2>1, <2>2, <2>3, <2>4 DEF Progress, Items, Shown, FilesOf, Right
<1> QED
  BY <1>10, <1>11, <1>12, <1>13, <1>14 DEF MInv

\* What the pull's server shows goes on showing.
LEMMA ShownStays ==
    ASSUME TypeInv, PullTrue, ~Idle, pull \in PullRec, NEW i \in pull.todo, ItemRows(i), ~pull'.slip,
           pull.clean \/ pull.c \in mirrored, NEW m, Shown(pull.c, m)
    PROVE  \E k \in files' : k.m = m /\ k.conn = pull.c /\ lib[pull.c][k.sid] = m
<1>1. /\ lib[pull.c][i[1]] = i[2]
      /\ \A f \in Cached(i[1]) : \A g \in Row(f) : g.sid = i[1] \/ lib[pull.c][g.sid] = g.m
  BY DEF PullTrue
<1>2. PICK g \in files : g.m = m /\ g.conn = pull.c /\ lib[pull.c][g.sid] = m
  BY DEF Shown
<1>3. ~Evicts(i, g)
  <2> SUFFICES ASSUME NEW f \in Cached(i[1]), g \in Row(f), f.m # i[2], g.m = f.m, g.sid = f.sid
               PROVE  FALSE
    BY DEF Evicts
  <2>1. g.sid = i[1]
    BY DEF Cached
  <2> QED
    BY <1>1, <1>2, <2>1
<1>4. PICK k \in files' : Upd(k, g, i)
  BY <1>3 DEF ItemRows
<1>5. k.m = m /\ k.conn = pull.c /\ (k.sid = g.sid \/ (k.sid = i[1] /\ k.m = i[2]))
  BY <1>2, <1>4 DEF Upd, Same
<1> QED
  BY <1>1, <1>2, <1>4, <1>5

LEMMA ItemMirrors ==
    ASSUME ConstantsAssumption, OneEach, LInv, DInv, MInv, NEW i, SyncItem(i)
    PROVE  MInv'
<1>1. TypeInv /\ CacheTrue
  BY DEF LInv
<1>2. PullMirrors /\ Sources /\ Spared /\ PullTrue /\ Progress
  BY DEF MInv
<1>3. ItemRows(i) /\ ItemPull(i) /\ ItemShows(i) /\ Tab(files', coll')
  BY <1>1, ItemDoes, ItemIs
<1>4. /\ ~Idle /\ i \in pull.todo
      /\ slipped' = IF pull'.slip THEN slipped \cup {pull.c} ELSE slipped
      /\ doubled \subseteq doubled' /\ (pull.clean => doubled' = doubled)
      /\ UNCHANGED <<lib, reports, busy, changes, fixes, mirrored>>
  BY DEF SyncItem
<1>5. /\ pull \in PullRec /\ pull.c \in Conn /\ None \notin Conn
      /\ i[1] \in Sid /\ i[2] \in Media /\ i = <<i[1], i[2]>>
  <2>1. pull \in PullRec /\ pull.c \in Conn /\ None \notin Conn
    BY <1>1, <1>4, AtWork DEF ConstantsAssumption
  <2>2. i \in Sid \X Media
    BY <1>4, <2>1 DEF PullRec
  <2> QED
    BY <2>1, <2>2
<1>6. pull.clean \/ pull.c \in mirrored =>
         /\ lib[pull.c][i[1]] = i[2] /\ i[1] \in Items(pull.c)
         /\ \A f \in Cached(i[1]) : \A g \in Row(f) : g.sid = i[1] \/ lib[pull.c][g.sid] = g.m
  <2>1. None # i[2]
    BY <1>5 DEF ConstantsAssumption
  <2> QED
    BY <1>2, <1>4, <1>5, <2>1 DEF PullTrue, Items
<1>7. NewRow(i[2], Type[pull.c], i[1], pull.c).sid = i[1]
      /\ NewRow(i[2], Type[pull.c], i[1], pull.c).conn = pull.c
      /\ NewRow(i[2], Type[pull.c], i[1], pull.c).src = Type[pull.c]
      /\ NewRow(i[2], Type[pull.c], i[1], pull.c).id = NewFile
      /\ NewRow(i[2], Type[pull.c], i[1], pull.c).m = i[2]
  BY DEF NewRow
<1>8. \A g \in files : g.sid \in Sid /\ g.m \in Media /\ g.m # None
  BY <1>1 DEF TypeInv, TypeOK, FileRow, ConstantsAssumption
<1>9. ASSUME NEW d \in mirrored \ slipped, d # pull.c PROVE Mirror(d)'
  <2>1. d \in Conn /\ Mirror(d) /\ Type[d] # Type[pull.c]
    BY <1>1, <1>2, <1>5, <1>9 DEF TypeInv, TypeOK, PullMirrors, OneEach
  <2>2. \A g \in files : g.conn = d => g \in files'
    BY <1>2, <1>3, <1>5, <2>1 DEF Sources, ItemRows
  <2>3. ASSUME NEW k \in files', k.conn = d PROVE k \in files
    <3>1. PICK g \in files : Upd(k, g, i)
      BY <1>3, <1>7, <1>9, <2>3 DEF ItemRows
    <3>2. g.conn = d /\ k.id = g.id
      BY <1>9, <2>3, <3>1 DEF Upd, Same
    <3>3. g = k
      BY <1>3, <2>2, <3>2 DEF Tab, Good
    <3> QED
      BY <3>3
  <2> QED
    BY <1>4, <2>1, <2>2, <2>3 DEF Mirror, Items, Right
<1>10. ASSUME NEW c, c = pull.c, c \in mirrored \ slipped, ~pull'.slip PROVE Mirror(c)'
  <2>1. Mirror(c)
    BY <1>2, <1>10 DEF PullMirrors
  <2>2. ASSUME NEW m \in {lib[c][s] : s \in Items(c)}
        PROVE  \E k \in files' : k.m = m /\ k.conn = c /\ lib[c][k.sid] = m
    <3>1. Shown(pull.c, m)
      BY <1>10, <2>1 DEF Mirror, Shown
    <3> QED
      BY <1>1, <1>2, <1>3, <1>4, <1>5, <1>10, <3>1, ShownStays
  <2>3. ASSUME NEW k \in files', k.conn = c PROVE k.sid \in Items(c) /\ Right(c, k)
    <3>1. CASE k.sid = i[1] /\ k.m = i[2]
      BY <1>6, <1>10, <3>1 DEF Right
    <3>3. CASE k.sid = i[1] /\ k.m # i[2]
      <4>1. PICK g \in files : Upd(k, g, i)
        BY <1>3, <1>7, <3>3 DEF ItemRows
      <4>2. Same(k, g) /\ g.sid = i[1] /\ g.conn = c
        BY <2>3, <3>3, <4>1 DEF Upd
      <4> QED
        BY <2>1, <3>3, <4>2 DEF Mirror, Right, Same
    <3>2. CASE k.sid # i[1]
      <4>1. PICK g \in files : Upd(k, g, i)
        BY <1>3, <1>7, <3>2 DEF ItemRows
      <4>2. k.sid = g.sid
        BY <3>2, <4>1 DEF Upd
      <4>3. CASE g.conn = c
        BY <2>1, <4>1, <4>2, <4>3 DEF Mirror, Right, Upd, Same
      <4>4. CASE g.conn # c
        <5>1. PICK f \in Cached(i[1]) : f.id = g.id
          BY <2>3, <3>2, <4>1, <4>4 DEF Upd
        <5>2. lib[c][g.sid] = g.m
          BY <1>6, <1>10, <3>2, <4>2, <5>1 DEF Row
        <5>3. k.m = g.m
          BY <4>1 DEF Upd, Same
        <5> QED
          BY <1>8, <4>2, <5>2, <5>3 DEF Items, Right
      <4> QED
        BY <4>3, <4>4
    <3> QED
      BY <3>1, <3>2, <3>3
  <2> QED
    BY <1>4, <2>2, <2>3 DEF Mirror, Items, Right
<1>11. PullMirrors'
  BY <1>4, <1>9, <1>10 DEF PullMirrors
<1>12. Sources'
  <2>1. \A k \in files' : k.conn # None => k.src = Type[k.conn]
    BY <1>2, <1>3, <1>7 DEF ItemRows, Upd, Same, Sources
  <2> QED
    BY <1>2, <1>3, <1>4, <2>1 DEF Sources, ItemPull
<1>13. Spared'
  BY <1>2, <1>3, <1>4 DEF Spared, Has, Items, ItemPull
<1>14. PullTrue'
  <2>1. ASSUME pull.clean \/ pull.c \in mirrored, NEW j \in pull'.todo
        PROVE  /\ lib[pull.c][j[1]] = j[2]
               /\ \A f \in pull'.files : f.sid = j[1] => \A k \in files' : k.id = f.id =>
                     k.sid = j[1] \/ lib[pull.c][k.sid] = k.m
    <3>1. j \in pull.todo /\ j # i /\ j = <<j[1], j[2]>>
      BY <1>3, <1>5 DEF ItemPull, PullRec
    <3>2. /\ lib[pull.c][j[1]] = j[2]
          /\ \A f \in Cached(j[1]) : \A g \in Row(f) : g.sid = j[1] \/ lib[pull.c][g.sid] = g.m
      BY <1>2, <1>4, <2>1, <3>1 DEF PullTrue
    <3>3. j[1] # i[1]
      BY <1>5, <1>6, <2>1, <3>1, <3>2
    <3>4. ASSUME NEW f \in pull'.files, f.sid = j[1], NEW k \in files', k.id = f.id
          PROVE  k.sid = j[1] \/ lib[pull.c][k.sid] = k.m
      <4>1. f \in pull.files /\ f \in Cached(j[1])
        BY <1>3, <3>3, <3>4 DEF ItemPull, Cached
      <4>2. f.id # NewFile
        BY <1>1, <1>4, <4>1, NewFileIs
      <4>3. PICK g \in files : Upd(k, g, i)
        BY <1>3, <1>7, <3>4, <4>2 DEF ItemRows
      <4>4. g \in Row(f) /\ k.m = g.m
        BY <3>4, <4>3 DEF Row, Upd, Same
      <4>5. CASE k.sid = g.sid
        BY <3>2, <4>1, <4>4, <4>5
      <4>6. CASE k.sid = i[1] /\ k.m = i[2]
        BY <1>6, <2>1, <4>6
      <4> QED
        BY <4>3, <4>5, <4>6 DEF Upd
    <3> QED
      BY <3>2, <3>4
  <2>2. pull'.clean \/ pull'.c \in mirrored => pull.clean \/ pull.c \in mirrored
    BY <1>3 DEF ItemPull
  <2>3. pull'.clean => busy = {} /\ pull'.seen = Items(pull.c) /\ ~pull'.limited
    BY <1>2, <1>3, <1>4 DEF PullTrue, ItemPull
  <2>4. pull'.slip => pull.c \in slipped'
    BY <1>4
  <2>5. pull'.c = pull.c
    BY <1>3 DEF ItemPull
  <2> QED
    BY <1>4, <2>1, <2>2, <2>3, <2>4, <2>5 DEF PullTrue, Items, Cached, Row
<1>15. Progress'
  <2> SUFFICES ASSUME pull'.clean, ~pull'.slip PROVE Progress'
    BY DEF Progress
  <2>1. pull.clean /\ ~pull.slip /\ pull'.c = pull.c /\ pull'.todo = pull.todo \ {i}
        /\ pull'.phase = pull.phase
    BY <1>3 DEF ItemPull
  <2>2. /\ \A f \in pull.files : \E g \in files : g.id = f.id
        /\ \A s \in Items(pull.c) :
              <<s, lib[pull.c][s]>> \in pull.todo \/ Shown(pull.c, lib[pull.c][s])
        /\ \A f \in files : f.conn = pull.c /\ f.sid \in Items(pull.c) =>
              Right(pull.c, f) \/ <<f.sid, lib[pull.c][f.sid]>> \in pull.todo
        /\ pull.phase # "prune"
    BY <1>2, <1>4, <2>1 DEF Progress
  <2>3. Witness(i) /\ \A f \in pull'.files : \E k \in files' : k.id = f.id
    BY <1>3, <2>2 DEF ItemShows
  <2>4. PICK k \in files' : /\ k.m = i[2] /\ k.conn = pull.c
                            /\ \/ k.sid = i[1]
                               \/ \E f \in Cached(i[1]) : \E g \in Row(f) : k.sid = g.sid /\ g.m = i[2]
    BY <2>3 DEF Witness
  <2>5. lib[pull.c][k.sid] = i[2]
    BY <1>6, <2>1, <2>4
  <2>6. ASSUME NEW s \in Items(pull.c), <<s, lib[pull.c][s]>> \notin pull'.todo
        PROVE  \E h \in files' : h.m = lib[pull.c][s] /\ h.conn = pull.c
                                 /\ lib[pull.c][h.sid] = lib[pull.c][s]
    <3>1. CASE <<s, lib[pull.c][s]>> = i
      BY <2>4, <2>5, <3>1
    <3>2. CASE Shown(pull.c, lib[pull.c][s])
      BY <1>1, <1>2, <1>3, <1>4, <1>5, <2>1, <3>2, ShownStays
    <3> QED
      BY <2>1, <2>2, <2>6, <3>1, <3>2
  <2>7. ASSUME NEW h \in files', h.conn = pull.c, h.sid \in Items(pull.c)
        PROVE  Right(pull.c, h) \/ <<h.sid, lib[pull.c][h.sid]>> \in pull'.todo
    <3>1. CASE h.sid = i[1] /\ h.m = i[2]
      BY <1>6, <2>1, <3>1 DEF Right
    <3>2. CASE h.sid = i[1] /\ h.m # i[2]
      <4>1. ~Undone
        BY DEF Undone
      <4>2. h.src = Type[pull.c]
        BY <1>4, <1>5, <1>12, <2>1, <2>7 DEF Sources
      <4>3. /\ \E g \in files : Same(h, g) /\ g.sid = i[1]
            /\ Cached(i[1]) = {} \/ \E f \in Cached(i[1]) : f.id # h.id
        BY <1>1, <3>2, <4>1, ItemClears
      <4>4. CacheWhole(i[1])
        BY <1>4, <2>1 DEF DInv
      <4>5. PICK f \in Cached(i[1]) : f.id = h.id
        BY <4>2, <4>3, <4>4 DEF CacheWhole, Same
      <4> QED
        BY <3>2, <4>2, <4>3, <4>4, <4>5 DEF CacheWhole, Right
    <3>3. CASE h.sid # i[1]
      <4>1. PICK g \in files : Upd(h, g, i)
        BY <1>3, <1>7, <3>3 DEF ItemRows
      <4>2. h.sid = g.sid /\ h.m = g.m /\ h.src = g.src
        BY <3>3, <4>1 DEF Upd, Same
      <4>3. CASE g.conn = pull.c
        <5>1. Right(pull.c, g) \/ <<g.sid, lib[pull.c][g.sid]>> \in pull.todo
          BY <2>2, <2>7, <4>2, <4>3
        <5>2. <<g.sid, lib[pull.c][g.sid]>> # i
          BY <1>5, <3>3, <4>2
        <5> QED
          BY <2>1, <4>2, <5>1, <5>2 DEF Right
      <4>4. CASE g.conn # pull.c
        <5>1. PICK f \in Cached(i[1]) : f.id = g.id
          BY <2>7, <3>3, <4>1, <4>4 DEF Upd
        <5>2. lib[pull.c][g.sid] = g.m
          BY <1>6, <2>1, <3>3, <4>2, <5>1 DEF Row
        <5> QED
          BY <4>2, <5>2 DEF Right
      <4> QED
        BY <4>3, <4>4
    <3> QED
      BY <3>1, <3>2, <3>3
  <2> QED
    BY <1>4, <2>1, <2>2, <2>3, <2>6, <2>7 DEF Progress, Items, Shown, Right
<1> QED
  BY <1>11, <1>12, <1>13, <1>14, <1>15 DEF MInv

LEMMA NextMirrors ==
    ASSUME ConstantsAssumption, OneEach, LInv, DInv, MInv, [Next]_vars
    PROVE  MInv'
<1>1. CASE UNCHANGED vars \/ (\E r \in reports : Lose(r)) \/ BreakOff \/ Crash
  BY <1>1, LossMirrors
<1>2. CASE Change
  BY <1>2, ServerMirrors DEF Change
<1>3. ASSUME NEW r \in reports, Handle(r) PROVE MInv'
  <2>1. r \in Report
    BY DEF LInv, TypeInv
  <2>2. PICK rows \in SUBSET Reported(r) : Take(r, rows)
    BY <1>3, <2>1, HandleIs
  <2> QED
    BY <2>2, TakeMirrors
<1>4. CASE \E h \in busy : Commit(h)
  BY <1>4, CommitMirrors
<1>5. ASSUME NEW c \in Conn, Pull(c) PROVE MInv'
  <2>1. StartPull(c)
    BY <1>5 DEF Pull, JellyfinPull, EmbyPull, PlexPull, ConstantsAssumption
  <2> QED
    BY <2>1, StartMirrors
<1>6. CASE PullStep
  <2>1. CASE Prune
    BY <2>1, PruneMirrors
  <2>2. CASE Finish
    BY <2>2, FinishMirrors
  <2>3. CASE \E i \in (IF Idle THEN {} ELSE pull.todo) : SyncItem(i)
    BY <2>3, ItemMirrors
  <2> QED
    BY <1>6, <2>1, <2>2, <2>3 DEF PullStep
<1>7. CASE \E m \in Media : Collect(m) \/ Uncollect({m})
  BY <1>7, CollectMirrors, UncollectMirrors
<1>8. CASE Uncollect(Media)
  BY <1>8, UncollectMirrors
<1>9. CASE \E c \in Conn : Reconnect(c)
  BY <1>9, ReconnectMirrors
<1> QED
  BY <1>1, <1>2, <1>3, <1>4, <1>5, <1>6, <1>7, <1>8, <1>9 DEF Next

\* After a pull that nothing crossed and in which no item failed, every media of the
\* server has a file under an id it has there and every file is of what its id is of
\* there (or the id is one of those where a webhook left files of two media), until the
\* server or the user changes something and whatever other connections' pulls and
\* webhooks do (PullMirrors), where no two connections are to servers of a kind: the
\* files of those would be taken for one another's.
THEOREM PullsMirror == OneEach => (Spec => []PullMirrors)
<1> SUFFICES ASSUME OneEach PROVE Spec => []PullMirrors
  OBVIOUS
<1>1. Init => MInv
  BY DEF Init, Idle, MInv, PullMirrors, Sources, Spared, PullTrue, Progress
<1>2. LInv /\ DInv /\ MInv /\ [Next]_vars => MInv'
  BY NextMirrors, ConstantsAssumption
<1>3. MInv => PullMirrors
  BY DEF MInv
<1> QED
  BY <1>1, <1>2, <1>3, Invariant, DoublesKnown, PTL DEF Spec

\* So what a server has is in the collection once such a pull is done (ListedKept).
THEOREM ListedIsKept == OneEach => (Spec => []ListedKept)
<1> SUFFICES ASSUME OneEach PROVE Spec => []ListedKept
  OBVIOUS
<1>1. LInv /\ PullMirrors => ListedKept
  <2> SUFFICES ASSUME LInv, PullMirrors, NEW c \in mirrored \ slipped, NEW s \in Items(c)
               PROVE  coll[lib[c][s]] # 0
    BY DEF ListedKept
  <2>1. PICK f \in files : f.m = lib[c][s]
    BY DEF PullMirrors, Mirror
  <2> QED
    BY <2>1 DEF LInv, TypeInv, TypeOK
<1> QED
  BY <1>1, Invariant, PullsMirror, PTL
=============================================================================
