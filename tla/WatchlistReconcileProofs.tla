----------------------- MODULE WatchlistReconcileProofs -----------------------
(* What WatchlistReconcile keeps, for any number of keys, edits and faults.   *)
EXTENDS WatchlistReconcile, TLAPS

-----------------------------------------------------------------------------
(* The plan.                                                               *)

(* A plan adds what one side has and the other lacks, and removes from the *)
(* side that has it: no key is in two parts of it.                         *)
LEMMA PlanShape ==
    ASSUME NEW l, NEW r, NEW b, NEW on \in Flags
    PROVE  /\ AddLocal(l, r, b, on) \subseteq r \ l
           /\ RemoveRemote(l, r, b, on) \subseteq r \ l
           /\ RemoveLocal(l, r, b, on) \subseteq l \ r
           /\ AddRemote(l, r, b, on) \subseteq l \ r
           /\ AddLocal(l, r, b, on) \cap RemoveRemote(l, r, b, on) = {}
           /\ RemoveLocal(l, r, b, on) \cap AddRemote(l, r, b, on) = {}
  BY DEF AddLocal, RemoveRemote, RemoveLocal, AddRemote, Flags

(* A baseline that holds a key is not the one of a connection that was     *)
(* never reconciled.                                                       *)
LEMMA EverKeys ==
    ASSUME NEW b \in Baseline, b.keys # {}
    PROVE  b.ever = TRUE
  <1>1. b # Never
    BY DEF Never
  <1>2. b \in [ever : {TRUE}, keys : SUBSET Key]
    BY <1>1 DEF Baseline
  <1>3. b.ever \in {TRUE}
    BY <1>2
  <1> QED BY <1>3, Zenon

(* An undisturbed reconcile in both directions makes the two sides equal,  *)
(* and one that follows it has nothing left to do ("two consecutive runs   *)
(* settle"): nothing oscillates, whatever the baseline was.                *)
THEOREM UndisturbedRunSettles ==
    ASSUME NEW l \in SUBSET Key, NEW r \in SUBSET Key, NEW b \in Baseline,
           NEW on \in Flags, Both(on)
    PROVE  LET l2 == (l \cup AddLocal(l, r, b, on)) \ RemoveLocal(l, r, b, on)
               r2 == (r \cup AddRemote(l, r, b, on)) \ RemoveRemote(l, r, b, on)
               b2 == NewBaseline(l2, {}, {})
           IN  /\ l2 = r2
               /\ b2 \in Baseline /\ b2.keys = l2
               /\ AddLocal(l2, r2, b2, on) = {} /\ RemoveLocal(l2, r2, b2, on) = {}
               /\ AddRemote(l2, r2, b2, on) = {} /\ RemoveRemote(l2, r2, b2, on) = {}
  <1> DEFINE l2 == (l \cup AddLocal(l, r, b, on)) \ RemoveLocal(l, r, b, on)
             r2 == (r \cup AddRemote(l, r, b, on)) \ RemoveRemote(l, r, b, on)
             b2 == NewBaseline(l2, {}, {})
  <1>1. \A k \in Key : k \in b.keys => b.ever = TRUE
    BY EverKeys
  <1>2. l2 = r2
    <2>1. ASSUME NEW k \in Key PROVE k \in l2 <=> k \in r2
      BY <1>1 DEF AddLocal, RemoveLocal, AddRemote, RemoveRemote, Both
    <2>2. l2 \subseteq Key /\ r2 \subseteq Key
      BY PlanShape
    <2> QED BY <2>1, <2>2
  <1>3. b2 \in Baseline /\ b2.keys = l2
    <2>1. l2 \subseteq Key
      BY PlanShape
    <2>2. b2 = [ever |-> TRUE, keys |-> l2]
      BY DEF NewBaseline
    <2> HIDE DEF l2, b2
    <2> QED BY <2>1, <2>2 DEF Baseline
  <1> HIDE DEF l2, r2, b2
  <1>4. \A c : /\ AddLocal(l2, r2, c, on) = {} /\ RemoveLocal(l2, r2, c, on) = {}
               /\ AddRemote(l2, r2, c, on) = {} /\ RemoveRemote(l2, r2, c, on) = {}
    BY <1>2 DEF AddLocal, RemoveLocal, AddRemote, RemoveRemote
  <1> QED BY <1>2, <1>3, <1>4 DEF l2, r2, b2

-----------------------------------------------------------------------------
(* Types.                                                                  *)

(* A job that is not at work has a record as well.                         *)
LEMMA IdleType == Idle \in Rec
  BY DEF Idle, Rec, Flags, Baseline, Never

Stage == {"idle", "waiting", "fetched", "import", "push"}

(* One field of a record changes within its type.                          *)
LEMMA FieldType ==
    ASSUME NEW r \in Rec
    PROVE  /\ \A x \in Stage : [r EXCEPT !.stage = x] \in Rec
           /\ \A x \in Flags : [r EXCEPT !.on = x] \in Rec
           /\ \A x \in Baseline : [r EXCEPT !.base = x] \in Rec
           /\ \A x \in Nat : [r EXCEPT !.list = x] \in Rec
           /\ \A x \in SUBSET Key :
                /\ [r EXCEPT !.seen = x] \in Rec /\ [r EXCEPT !.applied = x] \in Rec
                /\ [r EXCEPT !.addL = x] \in Rec /\ [r EXCEPT !.remL = x] \in Rec
                /\ [r EXCEPT !.addR = x] \in Rec /\ [r EXCEPT !.remR = x] \in Rec
                /\ [r EXCEPT !.ins = x] \in Rec /\ [r EXCEPT !.del = x] \in Rec
                /\ [r EXCEPT !.failAdd = x] \in Rec /\ [r EXCEPT !.failRem = x] \in Rec
  <1> USE DEF Rec, Stage
  <1>1. \A x \in Stage : [r EXCEPT !.stage = x] \in Rec OBVIOUS
  <1>2. \A x \in Flags : [r EXCEPT !.on = x] \in Rec OBVIOUS
  <1>3. \A x \in Baseline : [r EXCEPT !.base = x] \in Rec OBVIOUS
  <1>4. \A x \in Nat : [r EXCEPT !.list = x] \in Rec OBVIOUS
  <1>5. \A x \in SUBSET Key : [r EXCEPT !.seen = x] \in Rec /\ [r EXCEPT !.applied = x] \in Rec OBVIOUS
  <1>6. \A x \in SUBSET Key : [r EXCEPT !.addL = x] \in Rec /\ [r EXCEPT !.remL = x] \in Rec OBVIOUS
  <1>7. \A x \in SUBSET Key : [r EXCEPT !.addR = x] \in Rec /\ [r EXCEPT !.remR = x] \in Rec OBVIOUS
  <1>8. \A x \in SUBSET Key : [r EXCEPT !.ins = x] \in Rec /\ [r EXCEPT !.del = x] \in Rec OBVIOUS
  <1>9. \A x \in SUBSET Key : [r EXCEPT !.failAdd = x] \in Rec /\ [r EXCEPT !.failRem = x] \in Rec OBVIOUS
  <1> HIDE DEF Rec, Stage
  <1> QED BY <1>1, <1>2, <1>3, <1>4, <1>5, <1>6, <1>7, <1>8, <1>9

(* What each step of a reconcile makes of its record: the fields it sets,  *)
(* and that the record keeps its type.                                     *)
LEMMA BeginRec ==
    ASSUME TypeOK, NEW j \in Job, Begin(j)
    PROVE  \E q \in Rec :
             /\ rec' = [rec EXCEPT ![j] = q]
             /\ q.stage = "waiting" /\ q.on = flags[j[1]]
             /\ q.ins = {} /\ q.del = {} /\ q.failRem = {} /\ q.failAdd = {}
  <1> DEFINE q1 == [Idle EXCEPT !.stage = "waiting"]
             q2 == [q1 EXCEPT !.on = flags[j[1]]]
  <1>1. flags[j[1]] \in Flags
    BY DEF TypeOK, Job
  <1>2. q1 \in Rec /\ q1.stage = "waiting" /\ q1.ins = {} /\ q1.del = {} /\ q1.failRem = {} /\ q1.failAdd = {}
    <2>1. q1 \in Rec
      BY IdleType, FieldType DEF Stage
    <2> QED BY <2>1 DEF Idle
  <1>3. /\ q2 \in Rec /\ q2.stage = "waiting" /\ q2.on = flags[j[1]]
        /\ q2.ins = {} /\ q2.del = {} /\ q2.failRem = {} /\ q2.failAdd = {}
    <2> HIDE DEF q1
    <2>1. q2 \in Rec
      BY <1>1, <1>2, FieldType
    <2> QED BY <1>2, <2>1 DEF Rec
  <1>4. rec' = [rec EXCEPT ![j] = q2]
    BY DEF Begin
  <1> QED BY <1>3, <1>4

(* What the fetch may lose is a fault, and is recorded as lost.            *)
LEMMA FetchRec ==
    ASSUME TypeOK, NEW j \in Job, Fetch(j)
    PROVE  \E q \in Rec, seen \in SUBSET remote[j[1]] :
             /\ rec' = [rec EXCEPT ![j] = q]
             /\ q.stage = "fetched" /\ q.on = rec[j].on /\ q.base = base[j[1]] /\ q.seen = seen
             /\ q.ins = rec[j].ins /\ q.del = rec[j].del /\ q.failRem = rec[j].failRem /\ q.failAdd = rec[j].failAdd
             /\ lost' = lost \cup (remote[j[1]] \ seen)
             /\ (seen = remote[j[1]] /\ UNCHANGED <<edits, faults>>) \/ Fault
             /\ dropped' = {d \in dropped : d[2] \notin remote[j[1]] \ seen}
  <1> DEFINE c == j[1]
  <1>1. PICK seen \in SUBSET remote[c] :
            /\ rec' = [rec EXCEPT ![j].stage = "fetched", ![j].base = base[c], ![j].seen = seen]
            /\ lost' = lost \cup (remote[c] \ seen)
            /\ (seen = remote[c] /\ UNCHANGED <<edits, faults>>) \/ Fault
            /\ dropped' = {d \in dropped : d[2] \notin remote[c] \ seen}
    BY DEF Fetch, NoFault
  <1> DEFINE q1 == [rec[j] EXCEPT !.stage = "fetched"]
             q2 == [q1 EXCEPT !.base = base[c]]
             q3 == [q2 EXCEPT !.seen = seen]
  <1>2. rec[j] \in Rec /\ base[c] \in Baseline /\ remote[c] \in SUBSET Key
    BY DEF TypeOK, Job
  <1>3. /\ q1 \in Rec /\ q1.stage = "fetched" /\ q1.on = rec[j].on
        /\ q1.ins = rec[j].ins /\ q1.del = rec[j].del /\ q1.failRem = rec[j].failRem /\ q1.failAdd = rec[j].failAdd
    <2>1. q1 \in Rec
      BY <1>2, FieldType DEF Stage
    <2> QED BY <1>2, <2>1 DEF Rec
  <1>4. /\ q2 \in Rec /\ q2.stage = "fetched" /\ q2.on = rec[j].on /\ q2.base = base[c]
        /\ q2.ins = rec[j].ins /\ q2.del = rec[j].del /\ q2.failRem = rec[j].failRem /\ q2.failAdd = rec[j].failAdd
    <2> HIDE DEF q1
    <2>1. q2 \in Rec
      BY <1>2, <1>3, FieldType
    <2> QED BY <1>3, <2>1 DEF Rec
  <1>5. /\ q3 \in Rec /\ q3.stage = "fetched" /\ q3.on = rec[j].on /\ q3.base = base[c] /\ q3.seen = seen
        /\ q3.ins = rec[j].ins /\ q3.del = rec[j].del /\ q3.failRem = rec[j].failRem /\ q3.failAdd = rec[j].failAdd
    <2> HIDE DEF q2
    <2>1. q3 \in Rec
      BY <1>1, <1>2, <1>4, FieldType
    <2> QED BY <1>4, <2>1 DEF Rec
  <1>6. rec' = [rec EXCEPT ![j] = q3]
    BY <1>1, <1>2 DEF TypeOK, Rec
  <1> HIDE DEF q3
  <1> QED BY <1>1, <1>5, <1>6

(* A loaded plan, or the end of the run.                                   *)
LEMMA LoadRec ==
    ASSUME TypeOK, NEW j \in Job, Load(j)
    PROVE  LET b == IF list = 0 THEN Never ELSE rec[j].base
               seen == rec[j].seen
               on == rec[j].on
           IN  \/ rec' = [rec EXCEPT ![j] = Idle]
               \/ \E q \in Rec :
                    /\ rec' = [rec EXCEPT ![j] = q]
                    /\ q.stage = "import" /\ q.on = on /\ q.base = rec[j].base /\ q.seen = seen
                    /\ q.list = list /\ q.applied = local
                    /\ q.addL = AddLocal(local, seen, b, on) /\ q.remL = RemoveLocal(local, seen, b, on)
                    /\ q.addR = AddRemote(local, seen, b, on) /\ q.remR = RemoveRemote(local, seen, b, on)
                    /\ q.ins = rec[j].ins /\ q.del = rec[j].del /\ q.failRem = rec[j].failRem /\ q.failAdd = rec[j].failAdd
  <1> DEFINE r == rec[j]
             b == IF list = 0 THEN Never ELSE r.base
             A == AddLocal(local, r.seen, b, r.on)
             B == RemoveLocal(local, r.seen, b, r.on)
             C == AddRemote(local, r.seen, b, r.on)
             D == RemoveRemote(local, r.seen, b, r.on)
             q1 == [r EXCEPT !.stage = "import", !.list = list, !.applied = local]
             q2 == [q1 EXCEPT !.addL = A, !.remL = B]
             q3 == [q2 EXCEPT !.addR = C, !.remR = D]
  <1>1. r \in Rec /\ local \in SUBSET Key /\ list \in Nat
    BY DEF TypeOK
  <1>2. r.seen \in SUBSET Key
    BY <1>1 DEF Rec
  <1>3. A \in SUBSET Key /\ B \in SUBSET Key /\ C \in SUBSET Key /\ D \in SUBSET Key
    BY <1>1, <1>2 DEF AddLocal, RemoveLocal, AddRemote, RemoveRemote
  <1>4. \/ rec' = [rec EXCEPT ![j] = Idle]
        \/ rec' = [rec EXCEPT ![j] = [r EXCEPT !.stage = "import", !.list = list, !.applied = local,
                                               !.addL = A, !.remL = B, !.addR = C, !.remR = D]]
    BY DEF Load
  <1> HIDE DEF r, b, A, B, C, D
  <1>5. [r EXCEPT !.stage = "import", !.list = list, !.applied = local,
                  !.addL = A, !.remL = B, !.addR = C, !.remR = D] = q3
    BY <1>1 DEF Rec
  <1>6. /\ q1 \in Rec /\ q1.stage = "import" /\ q1.list = list /\ q1.applied = local
        /\ q1.on = r.on /\ q1.base = r.base /\ q1.seen = r.seen
        /\ q1.ins = r.ins /\ q1.del = r.del /\ q1.failRem = r.failRem /\ q1.failAdd = r.failAdd
    BY <1>1 DEF Rec
  <1>7. /\ q2 \in Rec /\ q2.stage = "import" /\ q2.list = list /\ q2.applied = local
        /\ q2.on = r.on /\ q2.base = r.base /\ q2.seen = r.seen /\ q2.addL = A /\ q2.remL = B
        /\ q2.ins = r.ins /\ q2.del = r.del /\ q2.failRem = r.failRem /\ q2.failAdd = r.failAdd
    <2> HIDE DEF q1
    <2> QED BY <1>3, <1>6 DEF Rec
  <1>8. /\ q3 \in Rec /\ q3.stage = "import" /\ q3.list = list /\ q3.applied = local
        /\ q3.on = r.on /\ q3.base = r.base /\ q3.seen = r.seen /\ q3.addL = A /\ q3.remL = B
        /\ q3.addR = C /\ q3.remR = D
        /\ q3.ins = r.ins /\ q3.del = r.del /\ q3.failRem = r.failRem /\ q3.failAdd = r.failAdd
    <2> HIDE DEF q2
    <2> QED BY <1>3, <1>7 DEF Rec
  <1> HIDE DEF q3
  <1> QED BY <1>4, <1>5, <1>8 DEF r, b, A, B, C, D

(* What was imported is what was planned, or less.                         *)
LEMMA ImportRec ==
    ASSUME TypeOK, NEW j \in Job, Import(j)
    PROVE  \E q \in Rec, ins \in SUBSET rec[j].addL :
             /\ rec' = [rec EXCEPT ![j] = q]
             /\ rec[j].list # 0 /\ rec[j].list # list => ins = {}
             /\ NoFault \/ Fault
             /\ q.stage = "push" /\ q.on = rec[j].on /\ q.base = rec[j].base /\ q.seen = rec[j].seen
             /\ q.list = rec[j].list /\ q.applied = (rec[j].applied \cup ins) \ rec[j].remL
             /\ q.addL = rec[j].addL /\ q.remL = rec[j].remL /\ q.addR = rec[j].addR /\ q.remR = rec[j].remR
             /\ q.ins = ins
             /\ q.del = IF rec[j].list = list THEN rec[j].remL \cap local ELSE {}
             /\ q.failAdd = rec[j].failAdd /\ q.failRem = rec[j].failRem
  <1> DEFINE r == rec[j]
             D == IF r.list = list THEN r.remL \cap local ELSE {}
  <1>1. r \in Rec
    BY DEF TypeOK
  <1>2. PICK ins \in SUBSET r.addL :
          /\ rec' = [rec EXCEPT ![j] = [r EXCEPT !.stage = "push", !.ins = ins, !.del = D,
                                                 !.applied = (r.applied \cup ins) \ r.remL]]
          /\ r.list # 0 /\ r.list # list => ins = {}
          /\ NoFault \/ Fault
    BY <1>1 DEF Import, Rec
  <1> DEFINE A == (r.applied \cup ins) \ r.remL
             q1 == [r EXCEPT !.stage = "push", !.ins = ins]
             q2 == [q1 EXCEPT !.del = D, !.applied = A]
  <1>3. ins \in SUBSET Key /\ D \in SUBSET Key /\ A \in SUBSET Key /\ D \subseteq r.remL
    BY <1>1, <1>2 DEF Rec
  <1> HIDE DEF r, D, A
  <1>4. /\ q1 \in Rec /\ q1.stage = "push" /\ q1.ins = ins
        /\ q1.on = r.on /\ q1.base = r.base /\ q1.seen = r.seen /\ q1.list = r.list
        /\ q1.addL = r.addL /\ q1.remL = r.remL /\ q1.addR = r.addR /\ q1.remR = r.remR
        /\ q1.failAdd = r.failAdd /\ q1.failRem = r.failRem
    BY <1>1, <1>3 DEF Rec
  <1>5. /\ q2 \in Rec /\ q2.stage = "push" /\ q2.ins = ins /\ q2.del = D /\ q2.applied = A
        /\ q2.on = r.on /\ q2.base = r.base /\ q2.seen = r.seen /\ q2.list = r.list
        /\ q2.addL = r.addL /\ q2.remL = r.remL /\ q2.addR = r.addR /\ q2.remR = r.remR
        /\ q2.failAdd = r.failAdd /\ q2.failRem = r.failRem
    <2> HIDE DEF q1
    <2> QED BY <1>3, <1>4 DEF Rec
  <1>6. [r EXCEPT !.stage = "push", !.ins = ins, !.del = D, !.applied = A] = q2
    BY <1>1 DEF Rec
  <1>7. rec' = [rec EXCEPT ![j] = q2]
    BY <1>2, <1>6 DEF A
  <1> HIDE DEF q2
  <1> QED BY <1>2, <1>3, <1>5, <1>7 DEF r, A, D

(* A push: k leaves the pushes still to do, and counts as failed if it did. *)
LEMMA PushAddRec ==
    ASSUME TypeOK, NEW j \in Job, NEW k \in Key, PushAdd(j, k)
    PROVE  \E q \in Rec :
             /\ rec' = [rec EXCEPT ![j] = q]
             /\ q.stage = "push" /\ q.on = rec[j].on /\ q.base = rec[j].base /\ q.seen = rec[j].seen
             /\ q.list = rec[j].list /\ q.applied = rec[j].applied
             /\ q.addL = rec[j].addL /\ q.remL = rec[j].remL /\ q.remR = rec[j].remR
             /\ q.ins = rec[j].ins /\ q.del = rec[j].del /\ q.failRem = rec[j].failRem
             /\ q.addR = rec[j].addR \ {k}
             /\ \/ /\ remote' = [remote EXCEPT ![j[1]] = @ \cup {k}]
                   /\ q.failAdd = rec[j].failAdd /\ NoFault
                \/ /\ Fault /\ UNCHANGED remote
                   /\ q.failAdd = rec[j].failAdd \cup {k}
  <1> DEFINE r == rec[j]
             q1 == [r EXCEPT !.addR = r.addR \ {k}]
             q2 == [q1 EXCEPT !.failAdd = r.failAdd \cup {k}]
  <1>1. r \in Rec /\ r.stage = "push"
    BY DEF TypeOK, PushAdd
  <1>2. r.addR \ {k} \in SUBSET Key /\ r.failAdd \cup {k} \in SUBSET Key
    BY <1>1 DEF Rec
  <1>3. /\ q1 \in Rec /\ q1.stage = "push" /\ q1.on = r.on /\ q1.base = r.base /\ q1.seen = r.seen
        /\ q1.list = r.list /\ q1.applied = r.applied
        /\ q1.addL = r.addL /\ q1.remL = r.remL /\ q1.remR = r.remR
        /\ q1.ins = r.ins /\ q1.del = r.del /\ q1.failRem = r.failRem
        /\ q1.addR = r.addR \ {k} /\ q1.failAdd = r.failAdd
    <2> HIDE DEF r
    <2> QED BY <1>1, <1>2 DEF Rec
  <1>4. /\ q2 \in Rec /\ q2.stage = "push" /\ q2.on = r.on /\ q2.base = r.base /\ q2.seen = r.seen
        /\ q2.list = r.list /\ q2.applied = r.applied
        /\ q2.addL = r.addL /\ q2.remL = r.remL /\ q2.remR = r.remR
        /\ q2.ins = r.ins /\ q2.del = r.del /\ q2.failRem = r.failRem
        /\ q2.addR = r.addR \ {k} /\ q2.failAdd = r.failAdd \cup {k}
    <2> HIDE DEF r, q1
    <2> QED BY <1>2, <1>3 DEF Rec
  <1>5. \/ /\ remote' = [remote EXCEPT ![j[1]] = @ \cup {k}]
           /\ rec' = [rec EXCEPT ![j] = q1] /\ NoFault
        \/ /\ Fault /\ UNCHANGED remote
           /\ rec' = [rec EXCEPT ![j] = q2]
    BY <1>1 DEF PushAdd, TypeOK, Rec
  <1> HIDE DEF q1, q2
  <1>6. CASE /\ remote' = [remote EXCEPT ![j[1]] = @ \cup {k}]
             /\ rec' = [rec EXCEPT ![j] = q1] /\ NoFault
    BY <1>3, <1>6
  <1>7. CASE Fault /\ UNCHANGED remote /\ rec' = [rec EXCEPT ![j] = q2]
    BY <1>4, <1>7
  <1> QED BY <1>5, <1>6, <1>7

(* The same for a removal.                                                 *)
LEMMA PushRemoveRec ==
    ASSUME TypeOK, NEW j \in Job, NEW k \in Key, PushRemove(j, k)
    PROVE  \E q \in Rec :
             /\ rec' = [rec EXCEPT ![j] = q]
             /\ q.stage = "push" /\ q.on = rec[j].on /\ q.base = rec[j].base /\ q.seen = rec[j].seen
             /\ q.list = rec[j].list /\ q.applied = rec[j].applied
             /\ q.addL = rec[j].addL /\ q.remL = rec[j].remL /\ q.addR = rec[j].addR
             /\ q.ins = rec[j].ins /\ q.del = rec[j].del /\ q.failAdd = rec[j].failAdd
             /\ q.remR = rec[j].remR \ {k}
             /\ \/ /\ remote' = [remote EXCEPT ![j[1]] = @ \ {k}]
                   /\ q.failRem = rec[j].failRem /\ NoFault
                \/ /\ Fault /\ UNCHANGED remote
                   /\ q.failRem = rec[j].failRem \cup {k}
  <1> DEFINE r == rec[j]
             q1 == [r EXCEPT !.remR = r.remR \ {k}]
             q2 == [q1 EXCEPT !.failRem = r.failRem \cup {k}]
  <1>1. r \in Rec /\ r.stage = "push"
    BY DEF TypeOK, PushRemove
  <1>2. r.remR \ {k} \in SUBSET Key /\ r.failRem \cup {k} \in SUBSET Key
    BY <1>1 DEF Rec
  <1>3. /\ q1 \in Rec /\ q1.stage = "push" /\ q1.on = r.on /\ q1.base = r.base /\ q1.seen = r.seen
        /\ q1.list = r.list /\ q1.applied = r.applied
        /\ q1.addL = r.addL /\ q1.remL = r.remL /\ q1.addR = r.addR
        /\ q1.ins = r.ins /\ q1.del = r.del /\ q1.failAdd = r.failAdd
        /\ q1.remR = r.remR \ {k} /\ q1.failRem = r.failRem
    <2> HIDE DEF r
    <2> QED BY <1>1, <1>2 DEF Rec
  <1>4. /\ q2 \in Rec /\ q2.stage = "push" /\ q2.on = r.on /\ q2.base = r.base /\ q2.seen = r.seen
        /\ q2.list = r.list /\ q2.applied = r.applied
        /\ q2.addL = r.addL /\ q2.remL = r.remL /\ q2.addR = r.addR
        /\ q2.ins = r.ins /\ q2.del = r.del /\ q2.failAdd = r.failAdd
        /\ q2.remR = r.remR \ {k} /\ q2.failRem = r.failRem \cup {k}
    <2> HIDE DEF r, q1
    <2> QED BY <1>2, <1>3 DEF Rec
  <1>5. \/ /\ remote' = [remote EXCEPT ![j[1]] = @ \ {k}]
           /\ rec' = [rec EXCEPT ![j] = q1] /\ NoFault
        \/ /\ Fault /\ UNCHANGED remote
           /\ rec' = [rec EXCEPT ![j] = q2]
    BY <1>1 DEF PushRemove, TypeOK, Rec
  <1> HIDE DEF q1, q2
  <1>6. CASE /\ remote' = [remote EXCEPT ![j[1]] = @ \ {k}]
             /\ rec' = [rec EXCEPT ![j] = q1] /\ NoFault
    BY <1>3, <1>6
  <1>7. CASE Fault /\ UNCHANGED remote /\ rec' = [rec EXCEPT ![j] = q2]
    BY <1>4, <1>7
  <1> QED BY <1>5, <1>6, <1>7

(* A new baseline is a baseline.                                           *)
LEMMA BaselineType ==
    ASSUME NEW a \in SUBSET Key, NEW f \in SUBSET Key, NEW g \in SUBSET Key
    PROVE  NewBaseline(a, f, g) \in Baseline
  <1>1. (a \cup g) \ f \in SUBSET Key
    OBVIOUS
  <1> QED BY <1>1 DEF NewBaseline, Baseline

(* Counting an edit or a fault, or neither.                                *)
LEMMA Counting ==
    ASSUME TypeOK, Edit \/ Fault \/ NoFault \/ UNCHANGED <<edits, faults>>
    PROVE  edits' \in 0..MaxEdits /\ faults' \in 0..MaxFaults
  BY ConstantsAssumption DEF TypeOK, Edit, Fault, NoFault

(* The first state is well typed.                                          *)
LEMMA TypeInit == Init => TypeOK
  <1> SUFFICES ASSUME Init PROVE TypeOK
    OBVIOUS
  <1>1. base \in [Conn -> Baseline]
    BY DEF Init, Baseline
  <1>2. flags \in [Conn -> Flags]
    BY DEF Init, Flags
  <1>3. rec \in [Job -> Rec]
    BY IdleType DEF Init
  <1>4. twin \in BOOLEAN /\ raced \in BOOLEAN
    BY Zenon DEF Init
  <1>5. edits \in 0..MaxEdits /\ faults \in 0..MaxFaults
    BY ConstantsAssumption DEF Init
  <1>6. /\ local \in SUBSET Key /\ list \in Nat /\ made \in Nat /\ remote \in [Conn -> SUBSET Key]
        /\ live \in SUBSET (Conn \X Key \X BOOLEAN) /\ removed \in SUBSET Key /\ lost \in SUBSET Key
        /\ dropped \in SUBSET (Conn \X Key)
    BY DEF Init
  <1> QED BY <1>1, <1>2, <1>3, <1>4, <1>5, <1>6 DEF TypeOK

(* Every step keeps the types.                                             *)
LEMMA TypeStep == TypeOK /\ [Next]_vars => TypeOK'
  <1> SUFFICES ASSUME TypeOK, [Next]_vars PROVE TypeOK'
    OBVIOUS
  <1> USE DEF TypeOK
  <1>1. ASSUME NEW k \in Key, AddItem(k) \/ RemoveItem(k) PROVE TypeOK'
    <2>1. \A add \in BOOLEAN :
            live \cup {<<c, k, add>> : c \in {d \in Conn : flags[d].push}} \in SUBSET (Conn \X Key \X BOOLEAN)
      OBVIOUS
    <2>2. live' \in SUBSET (Conn \X Key \X BOOLEAN)
      BY <1>1, <2>1 DEF AddItem, RemoveItem
    <2>3. edits' \in 0..MaxEdits /\ faults' \in 0..MaxFaults
      BY <1>1, Counting DEF AddItem, RemoveItem
    <2>4. dropped' \in SUBSET (Conn \X Key)
      <3>1. {d \in dropped : d[2] # k} \in SUBSET (Conn \X Key)
        OBVIOUS
      <3>2. dropped \cup {<<c, k>> : c \in {d \in Conn : Settled(d, k)}} \in SUBSET (Conn \X Key)
        OBVIOUS
      <3> QED BY <1>1, <3>1, <3>2 DEF AddItem, RemoveItem
    <2>5. local' \in SUBSET Key /\ removed' \in SUBSET Key
      BY <1>1 DEF AddItem, RemoveItem
    <2>6. UNCHANGED <<list, made, twin, remote, base, flags, rec, lost, raced>>
      BY <1>1 DEF AddItem, RemoveItem
    <2> QED BY <2>2, <2>3, <2>4, <2>5, <2>6
  <1>2. ASSUME NEW c \in Conn, NEW k \in Key, RemoteAdd(c, k) \/ RemoteRemove(c, k) PROVE TypeOK'
    <2>1. edits' \in 0..MaxEdits /\ faults' \in 0..MaxFaults
      BY <1>2, Counting DEF RemoteAdd, RemoteRemove
    <2> QED BY <1>2, <2>1 DEF RemoteAdd, RemoteRemove
  <1>3. ASSUME NEW c \in Conn, NEW k \in Key, NEW add \in BOOLEAN, Live(c, k, add) PROVE TypeOK'
    <2>1. edits' \in 0..MaxEdits /\ faults' \in 0..MaxFaults
      BY <1>3, Counting DEF Live
    <2>2. remote' \in [Conn -> SUBSET Key]
      BY <1>3 DEF Live
    <2> QED BY <1>3, <2>1, <2>2 DEF Live
  <1>4. ASSUME NEW c \in Conn, NEW on \in Flags, SetFlags(c, on) PROVE TypeOK'
    <2>1. edits' \in 0..MaxEdits /\ faults' \in 0..MaxFaults
      BY <1>4, Counting DEF SetFlags
    <2>2. base' \in [Conn -> Baseline]
      BY <1>4 DEF SetFlags, Baseline
    <2>3. raced' \in BOOLEAN
      BY <1>4, Zenon DEF SetFlags
    <2>4. flags' \in [Conn -> Flags]
      BY <1>4 DEF SetFlags
    <2> QED BY <1>4, <2>1, <2>2, <2>3, <2>4 DEF SetFlags
  <1>5. ASSUME NEW j \in Job, Begin(j) PROVE TypeOK'
    BY ZenonT(40), <1>5, BeginRec DEF Begin, shared
  <1>6. ASSUME NEW j \in Job, Fetch(j) PROVE TypeOK'
    <2>1. PICK q \in Rec, seen \in SUBSET remote[j[1]] :
            /\ rec' = [rec EXCEPT ![j] = q]
            /\ lost' = lost \cup (remote[j[1]] \ seen)
            /\ (seen = remote[j[1]] /\ UNCHANGED <<edits, faults>>) \/ Fault
            /\ dropped' \subseteq dropped
      BY <1>6, FetchRec
    <2>2. edits' \in 0..MaxEdits /\ faults' \in 0..MaxFaults
      BY <2>1, Counting
    <2>3. remote[j[1]] \in SUBSET Key
      BY DEF Job
    <2> QED BY <1>6, <2>1, <2>2, <2>3 DEF Fetch, shared
  <1>7. ASSUME NEW j \in Job, Load(j) PROVE TypeOK'
    <2>1. \E q \in Rec : rec' = [rec EXCEPT ![j] = q]
      BY <1>7, LoadRec, IdleType
    <2> QED BY <1>7, <2>1 DEF Load, shared
  <1>8. ASSUME NEW j \in Job, Import(j) PROVE TypeOK'
    <2>1. PICK q \in Rec : rec' = [rec EXCEPT ![j] = q] /\ (NoFault \/ Fault)
      BY <1>8, ImportRec
    <2>2. edits' \in 0..MaxEdits /\ faults' \in 0..MaxFaults
      BY <2>1, Counting
    <2> QED BY <1>8, <2>1, <2>2 DEF Import, shared
  <1>9. ASSUME NEW j \in Job, NEW k \in Key, PushAdd(j, k) \/ PushRemove(j, k) PROVE TypeOK'
    <2>1. PICK q \in Rec : /\ rec' = [rec EXCEPT ![j] = q] /\ (NoFault \/ Fault)
                           /\ \/ remote' = [remote EXCEPT ![j[1]] = @ \cup {k}]
                              \/ remote' = [remote EXCEPT ![j[1]] = @ \ {k}]
                              \/ UNCHANGED remote
      <3>1. CASE PushAdd(j, k)
        BY <3>1, PushAddRec
      <3>2. CASE PushRemove(j, k)
        BY <3>2, PushRemoveRec
      <3> QED BY <1>9, <3>1, <3>2
    <2>2. edits' \in 0..MaxEdits /\ faults' \in 0..MaxFaults
      BY <2>1, Counting
    <2>3. remote' \in [Conn -> SUBSET Key]
      BY <2>1
    <2> QED BY <1>9, <2>1, <2>2, <2>3 DEF PushAdd, PushRemove
  <1>10. ASSUME NEW j \in Job, Commit(j) PROVE TypeOK'
    <2>1. rec[j] \in Rec
      OBVIOUS
    <2>2. NewBaseline(rec[j].applied, rec[j].failAdd, rec[j].failRem) \in Baseline
      BY <2>1, BaselineType DEF Rec
    <2>3. rec[j].ins \in SUBSET Key
      BY <2>1 DEF Rec
    <2>4. base' \in [Conn -> Baseline] /\ rec' \in [Job -> Rec]
      BY <1>10, <2>2, IdleType DEF Commit
    <2>5. local' \in SUBSET Key
      BY <1>10, <2>3 DEF Commit
    <2>6. list' \in Nat /\ made' \in Nat
      BY <1>10 DEF Commit
    <2>7. twin' \in BOOLEAN
      BY <1>10, Zenon DEF Commit
    <2> QED BY <1>10, <2>4, <2>5, <2>6, <2>7 DEF Commit
  <1>11. ASSUME NEW j \in Job, Fails(j) PROVE TypeOK'
    <2>1. edits' \in 0..MaxEdits /\ faults' \in 0..MaxFaults
      BY <1>11, Counting DEF Fails
    <2> QED BY <1>11, <2>1, IdleType DEF Fails, shared
  <1>12. CASE DeleteList
    <2>1. edits' \in 0..MaxEdits /\ faults' \in 0..MaxFaults
      BY <1>12, Counting DEF DeleteList
    <2> QED BY <1>12, <2>1 DEF DeleteList
  <1>13. CASE Crash
    <2>1. edits' \in 0..MaxEdits /\ faults' \in 0..MaxFaults
      BY <1>13, Counting DEF Crash
    <2> QED BY <1>13, <2>1, IdleType DEF Crash
  <1>14. CASE UNCHANGED vars
    BY <1>14 DEF vars
  <1> QED BY <1>1, <1>2, <1>3, <1>4, <1>5, <1>6, <1>7, <1>8, <1>9, <1>10, <1>11, <1>12, <1>13, <1>14
          DEF Next, Step

(* Every field of a reconcile, the two sides and the baselines stay within *)
(* their types: in particular a baseline is never left half-written.       *)
THEOREM WatchlistTypeCorrect == Spec => []TypeOK
  BY TypeInit, TypeStep, PTL DEF Spec

-----------------------------------------------------------------------------
(* One connection: only what a user removed is removed.                    *)

OneConn == \A c, d \in Conn : c = d

(* A job that is not at work has no changes pending.                       *)
LEMMA IdleFields ==
    /\ Idle.stage = "idle" /\ Idle.ins = {} /\ Idle.del = {} /\ Idle.failRem = {}
  BY DEF Idle

(* An idle job has nothing to be wrong about.                              *)
LEMMA IdleSound ==
    ASSUME NEW j, rec'[j] = Idle
    PROVE  ReadSound(j)' /\ PlanSound(j)'
  BY IdleFields DEF ReadSound, PlanSound, AtWork, Planned

(* Before the first reconcile nothing is claimed.                          *)
LEMMA RInvInit == Init => RInv
  <1> SUFFICES ASSUME Init PROVE RInv
    OBVIOUS
  <1>1. \A j \in Job : rec[j] = Idle
    BY DEF Init
  <1>2. \A j \in Job : ReadSound(j) /\ PlanSound(j)
    BY <1>1, IdleFields DEF ReadSound, PlanSound, AtWork, Planned
  <1>3. Exclusive
    BY <1>1, IdleFields DEF Exclusive, AtWork
  <1>4. LiveSound /\ BaseSound
    BY DEF Init, LiveSound, BaseSound, Never
  <1> QED BY <1>2, <1>3, <1>4 DEF Init, RInv

(* While no direction is switched, a change of either side that removes    *)
(* only keys it records, or drops the whole list, leaves what was read and *)
(* planned sound.                                                          *)
LEMMA SidesChange ==
    ASSUME TypeOK, RInv, LiveSound',
           UNCHANGED <<rec, raced, flags, base, lost>>,
           removed \subseteq removed',
           list' = list \/ list' = 0,
           list' = 0 => (list = 0 /\ local' \subseteq local) \/ local' = {},
           list' # 0 => local \subseteq local' \cup removed',
           \A c \in Conn : remote[c] \subseteq remote'[c] \cup removed'
    PROVE  RInv'
  <1>1. Exclusive'
    BY DEF RInv, Exclusive, AtWork
  <1>2. ASSUME ~raced PROVE (list = 0 => local = {})' /\ BaseSound'
    BY <1>2 DEF RInv, BaseSound, Gone
  <1>3. ASSUME ~raced, NEW j \in Job PROVE ReadSound(j)'
    <2>1. ReadSound(j) /\ j[1] \in Conn
      BY <1>3 DEF RInv, Job
    <2> QED BY <2>1 DEF ReadSound, AtWork, Planned, Gone
  <1>4. ASSUME ~raced, NEW j \in Job PROVE PlanSound(j)'
    <2>1. PlanSound(j) /\ j[1] \in Conn
      BY <1>4 DEF RInv, Job
    <2> QED BY <2>1 DEF PlanSound, Planned, Gone
  <1> QED BY <1>1, <1>2, <1>3, <1>4 DEF RInv

(* A step of one reconcile that changes nothing but its record.            *)
LEMMA OwnChange ==
    ASSUME TypeOK, RInv, NEW j \in Job, NEW q,
           rec' = [rec EXCEPT ![j] = q],
           UNCHANGED <<shared, removed, raced>>,
           lost \subseteq lost',
           Exclusive',
           ~raced => ReadSound(j)' /\ PlanSound(j)'
    PROVE  RInv'
  <1>1. \A i \in Job : i # j => rec'[i] = rec[i]
    BY DEF TypeOK
  <1>2. LiveSound'
    BY DEF RInv, LiveSound, shared
  <1>3. ASSUME ~raced PROVE (list = 0 => local = {})' /\ BaseSound'
    BY <1>3 DEF RInv, BaseSound, Gone, shared
  <1>4. ASSUME ~raced, NEW i \in Job, i # j PROVE ReadSound(i)' /\ PlanSound(i)'
    <2>1. ReadSound(i) /\ PlanSound(i) /\ rec'[i] = rec[i]
      BY <1>1, <1>4 DEF RInv
    <2>2. ReadSound(i)'
      BY <2>1 DEF ReadSound, AtWork, Planned, Gone, shared
    <2>3. PlanSound(i)'
      BY <2>1 DEF PlanSound, Planned, Gone, shared
    <2> QED BY <2>2, <2>3
  <1> QED BY <1>2, <1>3, <1>4 DEF RInv

(* A job that was at work, and is or is not now, still excludes the other. *)
LEMMA StillExclusive ==
    ASSUME TypeOK, RInv, NEW j \in Job, NEW q, rec' = [rec EXCEPT ![j] = q],
           q.stage \in {"idle", "waiting"} \/ AtWork(j)
    PROVE  Exclusive'
  <1>1. rec'[j] = q /\ \A i \in Job : i # j => rec'[i] = rec[i]
    BY DEF TypeOK
  <1>2. \A i \in Job : AtWork(i)' => AtWork(i)
    BY <1>1 DEF AtWork
  <1> QED BY <1>2 DEF RInv, Exclusive

(* The lock keeps other jobs out; what is read is what is there.           *)
LEMMA FetchSound == OneConn /\ TypeOK /\ RInv => \A j \in Job : Fetch(j) => RInv'
  <1> SUFFICES ASSUME OneConn, TypeOK, RInv, NEW j \in Job, Fetch(j) PROVE RInv'
    OBVIOUS
  <1> DEFINE r == rec[j]
             c == j[1]
  <1>1. PICK q \in Rec, seen \in SUBSET remote[c] :
          /\ rec' = [rec EXCEPT ![j] = q]
          /\ q.stage = "fetched" /\ q.on = r.on /\ q.base = base[c] /\ q.seen = seen
          /\ q.ins = r.ins /\ q.del = r.del /\ q.failRem = r.failRem
          /\ lost' = lost \cup (remote[c] \ seen)
    BY FetchRec
  <1>2. UNCHANGED <<shared, removed, raced>> /\ r.stage = "waiting" /\ c \in Conn
    BY DEF Fetch, Job
  <1>3. rec'[j] = q
    BY <1>1 DEF TypeOK
  <1>4. Exclusive'
    <2>1. \A i \in Job : i[1] = c
      BY DEF OneConn, Job
    <2>2. \A i \in Job : ~AtWork(i)
      BY <2>1 DEF Fetch, LockFree, AtWork
    <2>3. \A i \in Job : i # j => rec'[i] = rec[i]
      BY <1>1 DEF TypeOK
    <2>4. \A i \in Job : AtWork(i)' => i = j
      BY <2>2, <2>3 DEF AtWork
    <2> QED BY <2>4 DEF Exclusive
  <1>5. ASSUME ~raced PROVE ReadSound(j)' /\ PlanSound(j)'
    <2>1. r.on = flags[c] /\ r.ins \cup r.del \cup r.failRem = {}
      BY <1>2, <1>5 DEF RInv, ReadSound, Planned
    <2>2. Both(flags[c]) => base[c].keys \subseteq remote[c] \cup Gone
      BY <1>2, <1>5 DEF RInv, BaseSound
    <2>3. remote[c] \cup Gone \subseteq seen \cup Gone'
      BY <1>1, <1>2 DEF Gone
    <2>4. ReadSound(j)'
      BY <1>1, <1>2, <1>3, <2>1, <2>2, <2>3 DEF ReadSound, AtWork, Planned, shared
    <2>5. PlanSound(j)'
      BY <1>1, <1>3 DEF PlanSound, Planned
    <2> QED BY <2>4, <2>5
  <1> QED BY <1>1, <1>2, <1>4, <1>5, OwnChange

(* A plan made from sound reads removes only what is gone.                 *)
LEMMA LoadSound == TypeOK /\ RInv => \A j \in Job : Load(j) => RInv'
  <1> SUFFICES ASSUME TypeOK, RInv, NEW j \in Job, Load(j) PROVE RInv'
    OBVIOUS
  <1> DEFINE r == rec[j]
             c == j[1]
             b == IF list = 0 THEN Never ELSE r.base
  <1>1. UNCHANGED <<shared, removed, lost, raced>> /\ r.stage = "fetched" /\ AtWork(j) /\ c \in Conn
    BY DEF Load, AtWork, Job
  <1>2. CASE rec' = [rec EXCEPT ![j] = Idle]
    <2>1. rec'[j] = Idle
      BY <1>2 DEF TypeOK
    <2> QED BY <1>1, <1>2, <2>1, IdleSound, StillExclusive, OwnChange
  <1>3. ASSUME NEW q \in Rec,
               /\ rec' = [rec EXCEPT ![j] = q]
               /\ q.stage = "import" /\ q.on = r.on /\ q.base = r.base /\ q.seen = r.seen
               /\ q.list = list /\ q.applied = local
               /\ q.addL = AddLocal(local, r.seen, b, r.on) /\ q.remL = RemoveLocal(local, r.seen, b, r.on)
               /\ q.addR = AddRemote(local, r.seen, b, r.on) /\ q.remR = RemoveRemote(local, r.seen, b, r.on)
               /\ q.ins = r.ins /\ q.del = r.del /\ q.failRem = r.failRem
        PROVE  RInv'
    <2>1. rec'[j] = q
      BY <1>3 DEF TypeOK
    <2>2. ASSUME ~raced PROVE ReadSound(j)' /\ PlanSound(j)'
      <3>1. /\ r.on = flags[c] /\ r.base = base[c] /\ r.seen \subseteq remote[c] \cup Gone
            /\ r.ins = {} /\ r.del = {} /\ r.failRem = {}
            /\ Both(r.on) => r.base.keys \subseteq r.seen \cup Gone
        BY <1>1, <2>2 DEF RInv, ReadSound, AtWork, Planned
      <3>2. ReadSound(j)'
        BY <1>1, <1>3, <2>1, <3>1 DEF ReadSound, AtWork, Planned, Gone, shared
      <3>3. list # 0 => b = base[c] /\ base[c].keys \subseteq local \cup Gone
        BY <1>1, <2>2, <3>1 DEF RInv, BaseSound
      <3>4. list = 0 => b.keys = {} /\ local = {}
        BY <2>2 DEF Never, RInv
      <3>5. q.remR \subseteq Gone
        BY <1>3, <3>3, <3>4 DEF RemoveRemote
      <3>6. q.addL \subseteq q.seen
        BY <1>3 DEF AddLocal
      <3>7. ASSUME Both(r.on)
            PROVE  q.remL \subseteq Gone /\ local \subseteq remote[c] \cup q.addR \cup Gone
        BY <1>3, <3>1, <3>3, <3>4, <3>7 DEF RemoveLocal, AddRemote, Both
      <3> HIDE DEF b
      <3>8. PlanSound(j)'
        BY <1>1, <1>3, <2>1, <3>1, <3>4, <3>5, <3>6, <3>7 DEF PlanSound, Planned, Gone, shared
      <3> QED BY <3>2, <3>8
    <2> QED BY <1>1, <1>3, <2>2, StillExclusive, OwnChange
  <1> QED BY <1>2, <1>3, LoadRec

(* Imports and removals of the list, some or all of them.                  *)
LEMMA ImportSound == TypeOK /\ RInv => \A j \in Job : Import(j) => RInv'
  <1> SUFFICES ASSUME TypeOK, RInv, NEW j \in Job, Import(j) PROVE RInv'
    OBVIOUS
  <1> DEFINE r == rec[j]
             c == j[1]
  <1>1. /\ UNCHANGED <<shared, removed, lost, raced>>
        /\ r.stage = "import" /\ AtWork(j) /\ Planned(j) /\ c \in Conn
    BY DEF Import, AtWork, Planned, Job
  <1>2. PICK q \in Rec, ins \in SUBSET r.addL :
          /\ rec' = [rec EXCEPT ![j] = q]
          /\ q.stage = "push" /\ q.on = r.on /\ q.base = r.base /\ q.seen = r.seen
          /\ q.list = r.list /\ q.applied = (r.applied \cup ins) \ r.remL
          /\ q.addL = r.addL /\ q.remL = r.remL /\ q.addR = r.addR /\ q.remR = r.remR
          /\ q.ins = ins /\ q.del \subseteq r.remL
          /\ q.failAdd = r.failAdd /\ q.failRem = r.failRem
    BY ImportRec
  <1>3. rec'[j] = q
    BY <1>2 DEF TypeOK
  <1>4. ASSUME ~raced PROVE ReadSound(j)' /\ PlanSound(j)'
    <2>1. ReadSound(j) /\ PlanSound(j)
      BY <1>4 DEF RInv
    <2>2. ReadSound(j)'
      BY <1>1, <1>2, <1>3, <2>1 DEF ReadSound, AtWork, Planned, Gone, shared
    <2>3. PlanSound(j)'
      BY <1>1, <1>2, <1>3, <2>1 DEF ReadSound, PlanSound, AtWork, Planned, Gone, shared
    <2> QED BY <2>2, <2>3
  <1> QED BY <1>1, <1>2, <1>4, StillExclusive, OwnChange

(* A push changes Plex, but takes off it only what is gone.                *)
LEMMA PushSound ==
    OneConn /\ TypeOK /\ RInv =>
        \A j \in Job, k \in Key : PushAdd(j, k) \/ PushRemove(j, k) => RInv'
  <1> SUFFICES ASSUME OneConn, TypeOK, RInv, NEW j \in Job, NEW k \in Key,
                      PushAdd(j, k) \/ PushRemove(j, k)
               PROVE  RInv'
    OBVIOUS
  <1> DEFINE r == rec[j]
             c == j[1]
  <1>1. PICK q \in Rec :
          /\ rec' = [rec EXCEPT ![j] = q]
          /\ q.stage = "push" /\ q.on = r.on /\ q.base = r.base /\ q.seen = r.seen
          /\ q.list = r.list /\ q.applied = r.applied
          /\ q.addL = r.addL /\ q.remL = r.remL
          /\ q.ins = r.ins /\ q.del = r.del
          /\ q.remR \cup q.failRem \subseteq r.remR \cup r.failRem
          /\ remote'[c] \subseteq remote[c] \cup {k}
          /\ remote[c] \subseteq remote'[c] \cup r.remR
          /\ remote[c] \cup r.addR \cup r.failAdd \subseteq remote'[c] \cup q.addR \cup q.failAdd \cup r.remR
    <2>1. c \in Conn /\ remote \in [Conn -> SUBSET Key]
      BY DEF Job, TypeOK
    <2>2. CASE PushAdd(j, k)
      BY <2>1, <2>2, PushAddRec
    <2>3. CASE PushRemove(j, k)
      <3>1. k \in r.remR
        BY <2>3 DEF PushRemove
      <3> QED BY <2>1, <2>3, <3>1, PushRemoveRec
    <2> QED BY <2>2, <2>3
  <1>2. /\ UNCHANGED <<local, list, base, flags, live, removed, lost, raced>>
        /\ r.stage = "push" /\ AtWork(j) /\ Planned(j) /\ c \in Conn
    BY DEF PushAdd, PushRemove, AtWork, Planned, Job
  <1>3. rec'[j] = q /\ \A i \in Job : i # j => rec'[i] = rec[i]
    BY <1>1 DEF TypeOK
  <1>4. LiveSound'
    BY <1>2 DEF RInv, LiveSound
  <1>5. Exclusive'
    BY <1>1, <1>2, StillExclusive
  <1>6. \A i \in Job : i # j => ~AtWork(i) /\ ~Planned(i)
    BY <1>2 DEF RInv, Exclusive, AtWork, Planned
  <1>7. ASSUME ~raced PROVE RInv'
    <2>1. ReadSound(j) /\ PlanSound(j)
      BY <1>7 DEF RInv
    <2>2. r.remR \subseteq Gone /\ q.remR \cup q.failRem \subseteq Gone
      BY <1>1, <1>2, <2>1 DEF PlanSound
    <2>3. remote[c] \subseteq remote'[c] \cup Gone
      BY <1>1, <2>2
    <2>4. (list = 0 => local = {})' /\ BaseSound'
      <3>1. \A d \in Conn : d = c
        BY <1>2 DEF OneConn
      <3> QED BY <1>2, <1>7, <2>3, <3>1 DEF RInv, BaseSound, Gone
    <2>5. ReadSound(j)'
      BY <1>1, <1>2, <1>3, <2>1, <2>3 DEF ReadSound, AtWork, Planned, Gone
    <2>6. PlanSound(j)'
      BY <1>1, <1>2, <1>3, <2>1, <2>2, <2>3 DEF PlanSound, Planned, Gone
    <2>7. ASSUME NEW i \in Job, i # j PROVE ReadSound(i)' /\ PlanSound(i)'
      <3>1. ReadSound(i) /\ rec'[i] = rec[i] /\ ~AtWork(i) /\ ~Planned(i)
        BY <1>3, <1>6, <1>7, <2>7 DEF RInv
      <3>2. ReadSound(i)'
        BY <1>2, <3>1 DEF ReadSound, AtWork, Planned
      <3>3. PlanSound(i)'
        BY <3>1 DEF PlanSound, Planned
      <3> QED BY <3>2, <3>3
    <2> QED BY <1>4, <1>5, <2>4, <2>5, <2>6, <2>7 DEF RInv
  <1> QED BY <1>2, <1>4, <1>5, <1>7 DEF RInv

(* What is committed: the list holds every key of the new baseline, and so *)
(* does Plex if both directions are on, but for what is gone.              *)
LEMMA CommitBaseline ==
    ASSUME TypeOK, RInv, ~raced, NEW j \in Job, Commit(j)
    PROVE  LET r == rec[j]
               b == NewBaseline(r.applied, r.failAdd, r.failRem)
           IN  /\ list' = 0 => local' = {}
               /\ list' # 0 => b.keys \subseteq local' \cup Gone
               /\ Both(r.on) => b.keys \subseteq remote[j[1]] \cup Gone
               /\ Both(r.on) => local \subseteq local' \cup Gone
  <1> DEFINE r == rec[j]
  <1>1. /\ r.stage = "push" /\ r.addR = {} /\ Planned(j) /\ made \in Nat
        /\ PlanSound(j) /\ (list = 0 => local = {})
    BY DEF Commit, Planned, RInv, TypeOK
  <1>2. NewBaseline(r.applied, r.failAdd, r.failRem).keys = (r.applied \cup r.failRem) \ r.failAdd
    BY DEF NewBaseline
  <1>3. /\ IF r.list = 0 THEN list = 0 /\ r.applied \subseteq r.ins ELSE list \in {0, r.list}
        /\ r.del \subseteq r.remL /\ r.failRem \subseteq Gone /\ r.ins \subseteq r.addL
        /\ r.applied \cap r.del = {}
        /\ list # 0 => r.applied \subseteq r.ins \cup local \cup removed
        /\ Both(r.on) => /\ r.remL \subseteq Gone
                         /\ r.applied \subseteq remote[j[1]] \cup r.failAdd \cup Gone
    BY <1>1 DEF PlanSound
  <1>4. CASE r.list = 0 /\ r.addL # {}
    <2>1. list = 0 /\ local = {} /\ list' # 0 /\ local' = r.ins
      BY <1>1, <1>3, <1>4 DEF Commit
    <2> QED BY <1>2, <1>3, <1>4, <2>1 DEF Gone
  <1>5. CASE r.list = 0 /\ r.addL = {}
    <2>1. list' = 0 /\ local = {} /\ local' = {}
      BY <1>1, <1>3, <1>5 DEF Commit
    <2> QED BY <1>2, <1>3, <2>1
  <1>6. CASE r.list # 0
    <2>1. list' = list /\ local' = IF r.list = list THEN (local \cup r.ins) \ r.del ELSE local
      BY <1>6 DEF Commit
    <2> QED BY <1>1, <1>2, <1>3, <1>6, <2>1 DEF Gone
  <1> QED BY <1>4, <1>5, <1>6

(* The commit leaves a sound baseline.                                     *)
LEMMA CommitSound == OneConn /\ TypeOK /\ RInv => \A j \in Job : Commit(j) => RInv'
  <1> SUFFICES ASSUME OneConn, TypeOK, RInv, NEW j \in Job, Commit(j) PROVE RInv'
    OBVIOUS
  <1> DEFINE r == rec[j]
             c == j[1]
             b == NewBaseline(r.applied, r.failAdd, r.failRem)
  <1>1. /\ UNCHANGED <<remote, flags, live, removed, lost, raced>>
        /\ rec' = [rec EXCEPT ![j] = Idle] /\ base' = [base EXCEPT ![c] = b]
        /\ r.stage = "push" /\ AtWork(j) /\ c \in Conn
    BY DEF Commit, AtWork, Job
  <1>2. rec'[j] = Idle /\ (\A i \in Job : i # j => rec'[i] = rec[i]) /\ base'[c] = b
    BY <1>1 DEF TypeOK
  <1>3. LiveSound'
    BY <1>1 DEF RInv, LiveSound
  <1>4. Exclusive'
    BY <1>1, StillExclusive
  <1>5. \A i \in Job : i # j => ~AtWork(i) /\ ~Planned(i)
    BY <1>1 DEF RInv, Exclusive, AtWork, Planned
  <1>6. ASSUME ~raced PROVE RInv'
    <2>1. r.on = flags[c]
      BY <1>1, <1>6 DEF RInv, ReadSound
    <2>2. /\ list' = 0 => local' = {}
          /\ list' # 0 => b.keys \subseteq local' \cup Gone
          /\ Both(r.on) => b.keys \subseteq remote[c] \cup Gone
      BY <1>6, CommitBaseline
    <2>3. BaseSound'
      <3>1. \A d \in Conn : d = c
        BY <1>1 DEF OneConn
      <3> HIDE DEF b
      <3> QED BY <1>1, <1>2, <2>1, <2>2, <3>1 DEF BaseSound, Gone
    <2>4. ASSUME NEW i \in Job PROVE ReadSound(i)' /\ PlanSound(i)'
      <3>1. CASE i = j
        BY <1>2, <3>1, IdleSound
      <3>2. CASE i # j
        <4>1. ReadSound(i) /\ rec'[i] = rec[i] /\ ~AtWork(i) /\ ~Planned(i)
          BY <1>2, <1>5, <1>6, <3>2 DEF RInv
        <4>2. ReadSound(i)'
          BY <1>1, <4>1 DEF ReadSound, AtWork, Planned
        <4>3. PlanSound(i)'
          BY <4>1 DEF PlanSound, Planned
        <4> QED BY <4>2, <4>3
      <3> QED BY <3>1, <3>2
    <2> QED BY <1>3, <1>4, <2>2, <2>3, <2>4 DEF RInv
  <1> QED BY <1>1, <1>3, <1>4, <1>6 DEF RInv

(* Switching a direction on forgets the baseline; off, it no longer has to *)
(* match Plex.  A reconcile at work makes the run a raced one.             *)
LEMMA FlagsSound == OneConn /\ TypeOK /\ RInv => \A c \in Conn, on \in Flags : SetFlags(c, on) => RInv'
  <1> SUFFICES ASSUME OneConn, TypeOK, RInv, NEW c \in Conn, NEW on \in Flags, SetFlags(c, on)
               PROVE  RInv'
    OBVIOUS
  <1>1. /\ UNCHANGED <<local, list, remote, rec, live, removed, lost>>
        /\ flags' = [flags EXCEPT ![c] = on] /\ on # flags[c]
    BY DEF SetFlags
  <1>2. LiveSound' /\ Exclusive'
    BY <1>1 DEF RInv, LiveSound, Exclusive, AtWork
  <1>3. ASSUME ~raced' PROVE RInv'
    <2>1. ~raced /\ \A j \in Job : rec[j].stage = "idle"
      BY <1>3 DEF SetFlags, OneConn, Job
    <2>2. ASSUME NEW j \in Job PROVE ReadSound(j)' /\ PlanSound(j)'
      <3>1. ReadSound(j) /\ rec'[j].stage = "idle" /\ rec[j].stage = "idle"
        BY <1>1, <2>1 DEF RInv
      <3>2. ReadSound(j)'
        BY <1>1, <3>1 DEF ReadSound, AtWork, Planned
      <3>3. PlanSound(j)'
        BY <3>1 DEF PlanSound, Planned
      <3> QED BY <3>2, <3>3
    <2>3. BaseSound'
      <3>1. \A d \in Conn : d = c
        BY DEF OneConn
      <3>2. flags[c] \in Flags /\ flags'[c] = on
        BY <1>1 DEF TypeOK
      <3>3. CASE (on.pull /\ ~flags[c].pull) \/ (on.push /\ ~flags[c].push)
        <4>1. base'[c].keys = {}
          BY <3>3 DEF SetFlags, TypeOK, Never
        <4> QED BY <3>1, <4>1 DEF BaseSound
      <3>4. CASE ~((on.pull /\ ~flags[c].pull) \/ (on.push /\ ~flags[c].push))
        <4>1. base' = base
          BY <3>4 DEF SetFlags
        <4>2. Both(on) => on = flags[c]
          BY <3>2, <3>4 DEF Both, Flags
        <4> QED BY <1>1, <2>1, <3>1, <3>2, <4>1, <4>2 DEF RInv, BaseSound, Gone
      <3> QED BY <3>3, <3>4
    <2> QED BY <1>1, <1>2, <2>1, <2>2, <2>3 DEF RInv
  <1> QED BY <1>2, <1>3 DEF RInv

(* Every step keeps the invariant.                                         *)
LEMMA RInvStep == OneConn /\ TypeOK /\ RInv /\ [Next]_vars => RInv'
  <1> SUFFICES ASSUME OneConn, TypeOK, RInv, [Next]_vars PROVE RInv'
    OBVIOUS
  <1>1. ASSUME NEW k \in Key, AddItem(k) PROVE RInv'
    <2>1. LiveSound'
      BY <1>1 DEF AddItem, RInv, LiveSound
    <2> QED BY <1>1, <2>1, SidesChange DEF AddItem
  <1>2. ASSUME NEW k \in Key, RemoveItem(k) PROVE RInv'
    <2>1. LiveSound'
      BY <1>2 DEF RemoveItem, RInv, LiveSound
    <2>2. /\ UNCHANGED <<rec, raced, flags, base, lost, list, remote>>
          /\ removed \subseteq removed' /\ local \subseteq local' \cup removed'
          /\ local' \subseteq local
      BY <1>2 DEF RemoveItem
    <2> QED BY <2>1, <2>2, SidesChange
  <1>3. ASSUME NEW c \in Conn, NEW k \in Key, RemoteAdd(c, k) \/ RemoteRemove(c, k) PROVE RInv'
    <2>1. LiveSound'
      BY <1>3 DEF RemoteAdd, RemoteRemove, RInv, LiveSound
    <2>2. \A d \in Conn : remote[d] \subseteq remote'[d] \cup removed'
      BY <1>3 DEF RemoteAdd, RemoteRemove, TypeOK
    <2> QED BY <1>3, <2>1, <2>2, SidesChange DEF RemoteAdd, RemoteRemove
  <1>4. ASSUME NEW c \in Conn, NEW k \in Key, NEW add \in BOOLEAN, Live(c, k, add) PROVE RInv'
    <2>1. LiveSound'
      BY <1>4 DEF Live, RInv, LiveSound
    <2>2. ~add => k \in removed
      BY <1>4 DEF Live, RInv, LiveSound
    <2>3. \A d \in Conn : remote[d] \subseteq remote'[d] \cup removed'
      BY <1>4, <2>2 DEF Live, TypeOK
    <2> QED BY <1>4, <2>1, <2>3, SidesChange DEF Live
  <1>5. CASE DeleteList
    <2>1. LiveSound'
      BY <1>5 DEF DeleteList, RInv, LiveSound
    <2> QED BY <1>5, <2>1, SidesChange DEF DeleteList
  <1>6. ASSUME NEW j \in Job, Begin(j) PROVE RInv'
    <2>1. PICK q \in Rec :
            /\ rec' = [rec EXCEPT ![j] = q]
            /\ q.stage = "waiting" /\ q.on = flags[j[1]]
            /\ q.ins = {} /\ q.del = {} /\ q.failRem = {}
      BY <1>6, BeginRec
    <2>2. UNCHANGED <<shared, removed, lost, raced>> /\ rec'[j] = q
      BY <1>6, <2>1 DEF Begin, TypeOK
    <2>3. ReadSound(j)' /\ PlanSound(j)'
      BY <2>1, <2>2 DEF ReadSound, PlanSound, AtWork, Planned, shared
    <2>4. Exclusive'
      BY <2>1, StillExclusive
    <2> QED BY <2>1, <2>2, <2>3, <2>4, OwnChange
  <1>7. ASSUME NEW j \in Job, Fails(j) PROVE RInv'
    <2>1. /\ UNCHANGED <<shared, removed, lost, raced>>
          /\ rec' = [rec EXCEPT ![j] = Idle] /\ rec'[j] = Idle
      BY <1>7 DEF Fails, TypeOK
    <2>2. Exclusive'
      BY <2>1, IdleFields, StillExclusive
    <2> QED BY <2>1, <2>2, IdleSound, OwnChange
  <1>8. CASE Crash
    <2>1. /\ UNCHANGED <<local, list, remote, base, flags, removed, lost, raced>>
          /\ live' = {} /\ \A j \in Job : rec'[j] = Idle
      BY <1>8 DEF Crash
    <2>2. LiveSound' /\ Exclusive'
      BY <2>1, IdleFields DEF LiveSound, Exclusive, AtWork
    <2>3. \A j \in Job : ReadSound(j)' /\ PlanSound(j)'
      BY <2>1, IdleSound
    <2>4. ~raced => (list = 0 => local = {})' /\ BaseSound'
      BY <2>1 DEF RInv, BaseSound, Gone
    <2> QED BY <2>1, <2>2, <2>3, <2>4 DEF RInv
  <1>9. CASE UNCHANGED vars
    <2>1. LiveSound'
      BY <1>9 DEF vars, RInv, LiveSound
    <2> QED BY <1>9, <2>1, SidesChange DEF vars
  <1> QED BY <1>1, <1>2, <1>3, <1>4, <1>5, <1>6, <1>7, <1>8, <1>9,
             FetchSound, LoadSound, ImportSound, PushSound, CommitSound, FlagsSound
          DEF Next, Step

(* With one Plex connection, the baseline and every reconcile at work hold *)
(* as common only what both sides have, but for what was removed or lost.  *)
THEOREM ReconcileInvariant == OneConn => (Spec => []RInv)
  <1> SUFFICES ASSUME OneConn PROVE Spec => []RInv
    OBVIOUS
  <1>1. TypeOK /\ RInv /\ [Next]_vars => RInv'
    BY RInvStep
  <1> QED BY <1>1, RInvInit, WatchlistTypeCorrect, PTL DEF Spec

(* With one Plex connection, a reconcile in both directions removes from   *)
(* the list and from Plex only what a user removed or a fetch left out,    *)
(* however edits, pushes, failures, crashes and deletions of the list fall *)
(* in between, for any number of them.                                     *)
THEOREM OnlyRemovedIsRemoved == OneConn => (Spec => OnlyRemovedGoes)
  <1> SUFFICES ASSUME OneConn PROVE Spec => OnlyRemovedGoes
    OBVIOUS
  <1> DEFINE Only(j, k) ==
        /\ PushRemove(j, k) \/ Commit(j)
        /\ Both(rec[j].on) /\ ~raced
        => (local \ local') \cup (remote[j[1]] \ remote'[j[1]]) \subseteq Gone
  <1>1. TypeOK /\ RInv => \A j \in Job, k \in Key : Only(j, k)
    <2> SUFFICES ASSUME TypeOK, RInv, NEW j \in Job, NEW k \in Key, Both(rec[j].on), ~raced,
                        PushRemove(j, k) \/ Commit(j)
                 PROVE  (local \ local') \cup (remote[j[1]] \ remote'[j[1]]) \subseteq Gone
      OBVIOUS
    <2>1. CASE PushRemove(j, k)
      <3>1. Planned(j) /\ PlanSound(j) /\ k \in rec[j].remR
        BY <2>1 DEF PushRemove, Planned, RInv
      <3>2. k \in Gone
        BY <3>1 DEF PlanSound
      <3> QED BY <2>1, <3>2 DEF PushRemove, TypeOK, Job
    <2>2. CASE Commit(j)
      <3>1. local \subseteq local' \cup Gone
        BY <2>2, CommitBaseline
      <3> QED BY <2>2, <3>1 DEF Commit
    <2> QED BY <2>1, <2>2
  <1>2. TypeOK /\ RInv => [\A j \in Job, k \in Key : Only(j, k)]_vars
    BY <1>1
  <1> QED BY <1>2, WatchlistTypeCorrect, ReconcileInvariant, PTL DEF OnlyRemovedGoes

-----------------------------------------------------------------------------
(* One connection: what a user removed is not added back.                  *)

(* An idle reconcile has planned nothing.                                  *)
LEMMA IdleNew ==
    ASSUME NEW j \in Job, rec'[j] = Idle
    PROVE  PlanNew(j)' /\ \A k \in Key : JobDrop(j, k)'
  <1>1. Idle.stage = "idle" /\ Idle.ins = {} /\ Idle.failAdd = {}
    BY DEF Idle
  <1> QED BY <1>1 DEF PlanNew, JobDrop, Planned

(* At first no key was dropped and no plan is made.                        *)
LEMMA DInvInit == Init => DInv
  <1> SUFFICES ASSUME Init PROVE DInv
    OBVIOUS
  <1>1. \A j \in Job : rec[j] = Idle
    BY DEF Init
  <1>2. \A j \in Job : PlanNew(j)
    BY <1>1 DEF PlanNew, Planned, Idle
  <1>3. dropped = {}
    BY DEF Init
  <1> QED BY <1>2, <1>3 DEF DInv

(* A dropped key leaves another side, or stays where it is.                *)
LEMMA DropKept ==
    ASSUME NEW c \in Conn, NEW k \in Key, DropSound(c, k),
           UNCHANGED <<rec, list, flags, base>>,
           k \in local' => k \in local,
           k \in remote'[c] => k \in remote[c],
           <<c, k, TRUE>> \in live' => <<c, k, TRUE>> \in live
    PROVE  DropSound(c, k)'
  <1>1. ASSUME NEW j \in Job, j[1] = c PROVE JobDrop(j, k)'
    <2>1. JobDrop(j, k)
      BY <1>1 DEF DropSound
    <2> QED BY <1>1, <2>1 DEF JobDrop, Planned
  <1> QED BY <1>1 DEF DropSound

(* A settled key a user removes from a side is a dropped one.              *)
LEMMA DropMade ==
    ASSUME TypeOK, RInv, DInv, ~raced, NEW c \in Conn, NEW k \in Key, Settled(c, k),
           UNCHANGED <<rec, list, flags, base>>,
           k \notin local' \cap remote'[c],
           <<c, k, TRUE>> \in live' => <<c, k, TRUE>> \in live
    PROVE  DropSound(c, k)'
  <1>1. /\ list # 0 /\ Both(flags[c]) /\ k \in base[c].keys
        /\ k \in local /\ k \in remote[c] /\ <<c, k, TRUE>> \notin live
        /\ \A j \in Job : j[1] = c => Agrees(rec[j], k)
    BY DEF Settled
  <1>2. ASSUME NEW j \in Job, j[1] = c PROVE JobDrop(j, k)'
    <2>1. ReadSound(j) /\ PlanSound(j) /\ PlanNew(j) /\ Agrees(rec[j], k)
      BY <1>1, <1>2 DEF RInv, DInv
    <2>2. CASE rec[j].stage = "fetched"
      <3>1. rec[j].base = base[c] /\ k \in rec[j].seen
        BY <1>2, <2>1, <2>2 DEF ReadSound, AtWork, Agrees
      <3> QED BY <1>1, <1>2, <2>2, <3>1 DEF JobDrop, Planned
    <2>3. CASE Planned(j)
      <3>1. k \in rec[j].seen \cap rec[j].applied
        BY <2>1, <2>3 DEF Agrees, Planned
      <3>2. rec[j].base = base[c] /\ Both(rec[j].on) /\ rec[j].list # 0
        BY <1>1, <1>2, <2>1, <2>3 DEF ReadSound, PlanSound, AtWork, Planned
      <3>3. /\ k \notin rec[j].addL \cup rec[j].ins \cup rec[j].addR \cup rec[j].failAdd
            /\ k \notin rec[j].remL
        BY <1>1, <2>1, <2>3, <3>1, <3>2 DEF PlanNew
      <3> QED BY <2>3, <3>1, <3>3 DEF JobDrop, Planned
    <2>4. CASE rec[j].stage # "fetched" /\ ~Planned(j)
      BY <2>4 DEF JobDrop, Planned
    <2> QED BY <2>2, <2>3, <2>4
  <1> QED BY <1>1, <1>2 DEF DropSound

(* Plans stay what they are while their records do.                        *)
LEMMA PlanNewStays ==
    ASSUME DInv, UNCHANGED rec
    PROVE  \A j \in Job : PlanNew(j)'
  BY DEF DInv, PlanNew, Planned

(* What users and pushes do.                                               *)
LEMMA SidesKeepDrops ==
    ASSUME TypeOK, DInv, UNCHANGED <<rec, list, flags, base, raced>>,
           ~raced => \A d \in dropped' :
               DropSound(d[1], d[2])'
               \/ /\ d \in dropped
                  /\ d[2] \in local' => d[2] \in local
                  /\ d[2] \in remote'[d[1]] => d[2] \in remote[d[1]]
                  /\ <<d[1], d[2], TRUE>> \in live' => <<d[1], d[2], TRUE>> \in live
    PROVE  DInv'
  <1>1. ASSUME ~raced, NEW d \in dropped' PROVE DropSound(d[1], d[2])'
    <2>1. CASE DropSound(d[1], d[2])'
      BY <2>1
    <2>2. CASE /\ d \in dropped
               /\ d[2] \in local' => d[2] \in local
               /\ d[2] \in remote'[d[1]] => d[2] \in remote[d[1]]
               /\ <<d[1], d[2], TRUE>> \in live' => <<d[1], d[2], TRUE>> \in live
      <3>1. d[1] \in Conn /\ d[2] \in Key /\ DropSound(d[1], d[2])
        BY <1>1, <2>2 DEF TypeOK, DInv
      <3> QED BY <2>2, <3>1, DropKept
    <2> QED BY <1>1, <2>1, <2>2
  <1> QED BY <1>1, PlanNewStays DEF DInv

(* A step of one reconcile that leaves the list and the baselines.         *)
LEMMA OwnDrops ==
    ASSUME TypeOK, DInv, NEW j \in Job, NEW q, rec' = [rec EXCEPT ![j] = q],
           UNCHANGED <<local, list, base, flags, live, raced>>,
           dropped' \subseteq dropped,
           PlanNew(j)',
           ~raced => \A d \in dropped' :
               /\ d[2] \in remote'[d[1]] => d[2] \in remote[d[1]]
               /\ d[1] = j[1] => JobDrop(j, d[2])'
    PROVE  DInv'
  <1>1. \A i \in Job : i # j => rec'[i] = rec[i]
    BY DEF TypeOK
  <1>2. \A i \in Job : PlanNew(i)'
    <2>1. ASSUME NEW i \in Job, i # j PROVE PlanNew(i)'
      <3>1. PlanNew(i) /\ rec'[i] = rec[i]
        BY <1>1, <2>1 DEF DInv
      <3> QED BY <3>1 DEF PlanNew, Planned
    <2> QED BY <2>1
  <1>3. ASSUME ~raced, NEW d \in dropped' PROVE DropSound(d[1], d[2])'
    <2> DEFINE c == d[1]
               k == d[2]
    <2>1. DropSound(c, k)
      BY <1>3 DEF DInv
    <2>2. k \in remote'[c] => k \in remote[c]
      BY <1>3
    <2>3. ASSUME NEW i \in Job, i[1] = c PROVE JobDrop(i, k)'
      <3>1. CASE i = j
        BY <1>3, <2>3, <3>1
      <3>2. CASE i # j
        <4>1. JobDrop(i, k) /\ rec'[i] = rec[i]
          BY <1>1, <2>1, <2>3, <3>2 DEF DropSound
        <4> QED BY <2>2, <2>3, <4>1 DEF JobDrop, Planned
      <3> QED BY <3>1, <3>2
    <2> QED BY <2>1, <2>2, <2>3 DEF DropSound
  <1> QED BY <1>2, <1>3 DEF DInv

(* What a dropped key is, for a reconcile of its connection.               *)
LEMMA DropOf ==
    ASSUME TypeOK, DInv, ~raced, NEW j \in Job, NEW d \in dropped, d[1] = j[1]
    PROVE  /\ d[2] \in Key /\ DropSound(j[1], d[2]) /\ JobDrop(j, d[2])
  <1>1. d[2] \in Key /\ DropSound(j[1], d[2])
    BY DEF TypeOK, DInv
  <1> QED BY <1>1 DEF DropSound

(* A job that begins has planned nothing.                                  *)
LEMMA BeginDrops == ASSUME TypeOK, DInv, NEW j \in Job, Begin(j) PROVE DInv'
  <1>1. PICK q \in Rec : /\ rec' = [rec EXCEPT ![j] = q]
                         /\ q.stage = "waiting" /\ q.ins = {} /\ q.failAdd = {}
    BY BeginRec
  <1>2. UNCHANGED <<shared, dropped, raced>> /\ rec'[j] = q
    BY <1>1 DEF Begin, TypeOK
  <1>3. PlanNew(j)' /\ \A k \in Key : JobDrop(j, k)'
    BY <1>1, <1>2 DEF PlanNew, JobDrop, Planned
  <1>4. \A d \in dropped : d[2] \in Key
    BY DEF TypeOK
  <1> QED BY <1>1, <1>2, <1>3, <1>4, OwnDrops DEF shared

(* A fetch that misses a key takes it out of the account.                  *)
LEMMA FetchDrops == ASSUME TypeOK, DInv, NEW j \in Job, Fetch(j) PROVE DInv'
  <1> DEFINE c == j[1]
  <1>1. PICK q \in Rec, seen \in SUBSET remote[c] :
          /\ rec' = [rec EXCEPT ![j] = q]
          /\ q.stage = "fetched" /\ q.base = base[c] /\ q.seen = seen
          /\ q.ins = rec[j].ins /\ q.failAdd = rec[j].failAdd
          /\ dropped' = {d \in dropped : d[2] \notin remote[c] \ seen}
    BY FetchRec
  <1>2. UNCHANGED <<shared, raced>> /\ rec'[j] = q /\ rec[j].stage = "waiting"
    BY <1>1 DEF Fetch, TypeOK
  <1>3. PlanNew(j)'
    BY <1>1, <1>2 DEF DInv, PlanNew, Planned
  <1>4. ASSUME ~raced, NEW d \in dropped', d[1] = c PROVE JobDrop(j, d[2])'
    <2>1. d \in dropped /\ d[2] \notin remote[c] \ seen
      BY <1>1, <1>4
    <2>2. d[2] \in local \cup remote[c] => d[2] \in base[c].keys
      BY <1>4, <2>1, DropOf DEF DropSound
    <2> QED BY <1>1, <1>2, <2>1, <2>2 DEF JobDrop, Planned, shared
  <1> QED BY <1>1, <1>2, <1>3, <1>4, OwnDrops DEF shared

(* A plan adds nothing the baseline holds, and so nothing that was dropped. *)
LEMMA LoadDrops == ASSUME TypeOK, RInv, DInv, NEW j \in Job, Load(j) PROVE DInv'
  <1> DEFINE r == rec[j]
             c == j[1]
             b == IF list = 0 THEN Never ELSE r.base
  <1>1. UNCHANGED <<shared, dropped, raced>> /\ r.stage = "fetched" /\ AtWork(j) /\ c \in Conn
    BY DEF Load, AtWork, Job
  <1>2. CASE rec' = [rec EXCEPT ![j] = Idle]
    <2>1. rec'[j] = Idle
      BY <1>2 DEF TypeOK
    <2>2. \A d \in dropped : d[2] \in Key
      BY DEF TypeOK
    <2> QED BY <1>1, <1>2, <2>1, <2>2, IdleNew, OwnDrops DEF shared
  <1>3. ASSUME NEW q \in Rec,
               /\ rec' = [rec EXCEPT ![j] = q]
               /\ q.stage = "import" /\ q.on = r.on /\ q.base = r.base /\ q.seen = r.seen
               /\ q.list = list /\ q.applied = local
               /\ q.addL = AddLocal(local, r.seen, b, r.on)
               /\ q.remL = RemoveLocal(local, r.seen, b, r.on)
               /\ q.addR = AddRemote(local, r.seen, b, r.on)
               /\ q.remR = RemoveRemote(local, r.seen, b, r.on)
               /\ q.ins = r.ins /\ q.del = r.del /\ q.failRem = r.failRem /\ q.failAdd = r.failAdd
        PROVE  DInv'
    <2>1. rec'[j] = q
      BY <1>3 DEF TypeOK
    <2>2. r.ins = {} /\ r.failAdd = {}
      BY <1>1 DEF DInv, PlanNew, Planned
    <2>3. PlanNew(j)'
      <3>1. q.remL \cap q.seen = {}
        BY <1>3 DEF RemoveLocal
      <3>2. ASSUME list # 0, Both(r.on)
            PROVE  (q.addL \cup q.addR) \cap q.base.keys = {}
        BY <1>3, <3>2 DEF AddLocal, AddRemote, Both
      <3> QED BY <1>3, <2>1, <2>2, <3>1, <3>2 DEF PlanNew, Planned
    <2>4. ASSUME ~raced, NEW d \in dropped, d[1] = c PROVE JobDrop(j, d[2])'
      <3> DEFINE k == d[2]
      <3>1. /\ DropSound(c, k) /\ JobDrop(j, k) /\ ReadSound(j)
            /\ r.on = flags[c] /\ r.base = base[c]
        BY <1>1, <2>4, DropOf DEF RInv, ReadSound
      <3>2. /\ list # 0 /\ b = base[c] /\ Both(r.on)
            /\ k \notin local \cap remote[c]
            /\ k \in local \cup remote[c] \cup r.seen => k \in b.keys
            /\ k \in remote[c] => k \in r.seen
        BY <1>1, <3>1 DEF DropSound, JobDrop
      <3> HIDE DEF b, k
      <3>3. k \notin q.addL /\ k \notin q.addR
        BY <1>3, <3>2 DEF AddLocal, AddRemote, Both
      <3>4. k \in remote[c] => k \in q.remR
        BY <1>3, <3>2 DEF RemoveRemote, Both
      <3>5. JobDrop(j, k)'
        BY <1>1, <1>3, <2>1, <2>2, <3>3, <3>4 DEF JobDrop, Planned, shared
      <3> QED BY <3>5 DEF k
    <2> QED BY <1>1, <1>3, <2>3, <2>4, OwnDrops DEF shared
  <1> QED BY <1>2, <1>3, LoadRec

(* What is imported was planned; what is taken off the list was on it.     *)
LEMMA ImportDrops == ASSUME TypeOK, RInv, DInv, NEW j \in Job, Import(j) PROVE DInv'
  <1> DEFINE r == rec[j]
             c == j[1]
  <1>1. UNCHANGED <<shared, dropped, raced>> /\ r.stage = "import" /\ Planned(j) /\ c \in Conn
    BY DEF Import, Planned, Job
  <1>2. PICK q \in Rec, ins \in SUBSET r.addL :
          /\ rec' = [rec EXCEPT ![j] = q]
          /\ q.stage = "push" /\ q.on = r.on /\ q.base = r.base /\ q.seen = r.seen
          /\ q.list = r.list /\ q.applied = (r.applied \cup ins) \ r.remL
          /\ q.addL = r.addL /\ q.remL = r.remL /\ q.addR = r.addR /\ q.remR = r.remR
          /\ q.ins = ins
          /\ q.del = IF r.list = list THEN r.remL \cap local ELSE {}
          /\ q.failAdd = r.failAdd /\ q.failRem = r.failRem
    BY ImportRec
  <1>3. rec'[j] = q
    BY <1>2 DEF TypeOK
  <1>4. PlanNew(j)'
    <2>1. PlanNew(j)
      BY DEF DInv
    <2> QED BY <1>1, <1>2, <1>3, <2>1 DEF PlanNew, Planned
  <1>5. ASSUME ~raced, NEW d \in dropped, d[1] = c PROVE JobDrop(j, d[2])'
    <2> DEFINE k == d[2]
    <2>1. DropSound(c, k) /\ JobDrop(j, k) /\ PlanSound(j)
      BY <1>5, DropOf DEF RInv
    <2>2. list # 0 /\ r.list = list /\ r.del = {}
      BY <1>1, <2>1 DEF DropSound, PlanSound
    <2> HIDE DEF k
    <2>3. /\ k \notin r.addL \cup r.ins \cup r.addR \cup r.failAdd
          /\ k \in remote[c] => k \in (r.applied \ r.remL) \cup r.remR \cup r.failRem
          /\ k \in local => k \in r.applied
      BY <1>1, <2>1, <2>2 DEF JobDrop
    <2>4. k \in remote[c] => k \in (q.applied \ q.remL) \cup q.remR \cup q.failRem
      BY <1>2, <2>3
    <2>5. k \in local => k \in q.applied \cup q.del
      BY <1>2, <2>2, <2>3
    <2>6. k \notin q.addL \cup q.ins \cup q.addR \cup q.failAdd
      BY <1>2, <2>3
    <2>7. JobDrop(j, k)'
      BY <1>1, <1>2, <1>3, <2>4, <2>5, <2>6 DEF JobDrop, shared
    <2> QED BY <2>7 DEF k
  <1> QED BY <1>1, <1>2, <1>4, <1>5, OwnDrops DEF shared

(* A push adds only what was planned, and a removal that fails is kept.    *)
LEMMA PushDrops ==
    ASSUME TypeOK, RInv, DInv, NEW j \in Job, NEW k \in Key, PushAdd(j, k) \/ PushRemove(j, k)
    PROVE  DInv'
  <1> DEFINE r == rec[j]
             c == j[1]
  <1>1. /\ UNCHANGED <<local, list, base, flags, live, raced, dropped>>
        /\ r.stage = "push" /\ Planned(j) /\ c \in Conn /\ remote \in [Conn -> SUBSET Key]
    BY DEF PushAdd, PushRemove, Planned, Job, TypeOK
  <1>2. PICK q \in Rec :
          /\ rec' = [rec EXCEPT ![j] = q]
          /\ q.stage = "push" /\ q.on = r.on /\ q.base = r.base /\ q.seen = r.seen
          /\ q.list = r.list /\ q.applied = r.applied
          /\ q.addL = r.addL /\ q.remL = r.remL
          /\ q.ins = r.ins /\ q.del = r.del
          /\ q.addR \cup q.failAdd \subseteq r.addR \cup r.failAdd
          /\ remote'[c] \subseteq remote[c] \cup r.addR
          /\ (r.remR \cup r.failRem) \cap remote'[c] \subseteq q.remR \cup q.failRem
          /\ \A d \in Conn : d # c => remote'[d] = remote[d]
    <2>1. CASE PushAdd(j, k)
      <3>1. k \in r.addR
        BY <2>1 DEF PushAdd
      <3> QED BY <1>1, <2>1, <3>1, PushAddRec
    <2>2. CASE PushRemove(j, k)
      BY <1>1, <2>2, PushRemoveRec
    <2> QED BY <2>1, <2>2
  <1>3. rec'[j] = q
    BY <1>2 DEF TypeOK
  <1>4. PlanNew(j)'
    <2>1. PlanNew(j)
      BY DEF DInv
    <2> QED BY <1>1, <1>2, <1>3, <2>1 DEF PlanNew, Planned
  <1>5. ASSUME ~raced, NEW d \in dropped, d[1] = c
        PROVE  (d[2] \in remote'[c] => d[2] \in remote[c]) /\ JobDrop(j, d[2])'
    <2> DEFINE n == d[2]
    <2>1. JobDrop(j, n)
      BY <1>5, DropOf
    <2> HIDE DEF n
    <2>2. /\ n \notin r.addL \cup r.ins \cup r.addR \cup r.failAdd
          /\ n \in remote[c] => n \in (r.applied \ r.remL) \cup r.remR \cup r.failRem
          /\ n \in local => n \in r.applied \cup r.del
      BY <1>1, <2>1 DEF JobDrop
    <2>3. n \in remote'[c] => n \in remote[c]
      BY <1>2, <2>2
    <2>4. n \in remote'[c] => n \in (q.applied \ q.remL) \cup q.remR \cup q.failRem
      BY <1>2, <2>2, <2>3
    <2>5. /\ n \notin q.addL \cup q.ins \cup q.addR \cup q.failAdd
          /\ n \in local => n \in q.applied \cup q.del
      BY <1>2, <2>2
    <2>6. JobDrop(j, n)'
      BY <1>1, <1>2, <1>3, <2>4, <2>5 DEF JobDrop
    <2> QED BY <2>3, <2>6 DEF n
  <1>6. ASSUME ~raced, NEW d \in dropped PROVE d[2] \in remote'[d[1]] => d[2] \in remote[d[1]]
    <2>1. d[1] \in Conn
      BY DEF TypeOK
    <2> QED BY <1>2, <1>5, <1>6, <2>1
  <1> QED BY <1>1, <1>2, <1>4, <1>5, <1>6, OwnDrops

(* A reconcile of a connection commits what leaves a dropped key sound.    *)
LEMMA CommitDrop ==
    ASSUME TypeOK, RInv, DInv, ~raced, NEW j \in Job, Commit(j), NEW d \in dropped, d[1] = j[1]
    PROVE  /\ list' = list
           /\ d[2] \notin local' \ local
           /\ d[2] \in local' \cup remote[j[1]] => d[2] \in base'[j[1]].keys
  <1> DEFINE r == rec[j]
             c == j[1]
             k == d[2]
             b == NewBaseline(r.applied, r.failAdd, r.failRem)
  <1>1. r.stage = "push" /\ r.remR = {} /\ Planned(j) /\ c \in Conn
    BY DEF Commit, Planned, Job
  <1>2. DropSound(c, k) /\ JobDrop(j, k) /\ PlanSound(j)
    BY DropOf DEF RInv
  <1>3. list # 0 /\ r.list = list
    BY <1>1, <1>2 DEF DropSound, PlanSound
  <1>4. list' = list /\ local' = (local \cup r.ins) \ r.del
    BY <1>3 DEF Commit
  <1>5. base'[c] = b
    BY <1>1 DEF Commit, TypeOK
  <1>6. b.keys = (r.applied \cup r.failRem) \ r.failAdd
    BY DEF NewBaseline
  <1> HIDE DEF k, b
  <1>7. /\ k \notin r.ins \cup r.failAdd
        /\ k \in remote[c] => k \in r.applied \cup r.failRem
        /\ k \in local => k \in r.applied \cup r.del
    BY <1>1, <1>2 DEF JobDrop
  <1>8. k \notin local' \ local
    BY <1>4, <1>7
  <1>9. k \in local' \cup remote[c] => k \in b.keys
    BY <1>4, <1>6, <1>7
  <1> QED BY <1>4, <1>5, <1>8, <1>9 DEF k

(* With one connection, nothing else depends on the baseline.              *)
LEMMA CommitDrops == ASSUME OneConn, TypeOK, RInv, DInv, NEW j \in Job, Commit(j) PROVE DInv'
  <1> DEFINE c == j[1]
  <1>1. /\ UNCHANGED <<remote, flags, live, dropped, raced>>
        /\ rec' = [rec EXCEPT ![j] = Idle] /\ Planned(j) /\ c \in Conn
    BY DEF Commit, Planned, Job
  <1>2. rec'[j] = Idle /\ \A i \in Job : i # j => rec'[i] = rec[i]
    BY <1>1 DEF TypeOK
  <1>3. \A i \in Job : i # j => rec[i].stage \in {"idle", "waiting"}
    BY <1>1 DEF RInv, Exclusive, AtWork, Planned
  <1>4. \A i \in Job : PlanNew(i)'
    <2>1. ASSUME NEW i \in Job, i # j PROVE PlanNew(i)'
      BY <1>2, <2>1 DEF DInv, PlanNew, Planned
    <2> QED BY <1>2, <2>1, IdleNew
  <1>5. ASSUME ~raced, NEW d \in dropped PROVE DropSound(d[1], d[2])'
    <2> DEFINE k == d[2]
    <2>1. d[1] = c /\ k \in Key
      BY <1>1 DEF TypeOK, OneConn
    <2>2. /\ list' = list /\ k \notin local' \ local
          /\ k \in local' \cup remote[c] => k \in base'[c].keys
      BY <1>5, <2>1, CommitDrop
    <2>3. DropSound(c, k)
      BY <1>5, <2>1 DEF DInv
    <2> HIDE DEF k
    <2>4. ASSUME NEW i \in Job PROVE JobDrop(i, k)'
      <3>1. CASE i = j
        BY <1>2, <2>1, <3>1, IdleNew
      <3>2. CASE i # j
        BY <1>2, <1>3, <3>2 DEF JobDrop, Planned
      <3> QED BY <3>1, <3>2
    <2>5. DropSound(c, k)'
      BY <1>1, <2>2, <2>3, <2>4 DEF DropSound
    <2> QED BY <2>1, <2>5 DEF k
  <1> QED BY <1>1, <1>4, <1>5 DEF DInv

(* Every step keeps the account of the keys that were dropped.             *)
LEMMA DInvStep == OneConn /\ TypeOK /\ RInv /\ DInv /\ [Next]_vars => DInv'
  <1> SUFFICES ASSUME OneConn, TypeOK, RInv, DInv, [Next]_vars PROVE DInv'
    OBVIOUS
  <1>1. ASSUME NEW k \in Key, AddItem(k) PROVE DInv'
    <2>1. /\ UNCHANGED <<rec, list, flags, base, raced, remote>>
          /\ local' = local \cup {k} /\ dropped' = {d \in dropped : d[2] # k}
          /\ \A c \in Conn, n \in Key : n # k /\ <<c, n, TRUE>> \in live' => <<c, n, TRUE>> \in live
      BY <1>1 DEF AddItem
    <2>2. \A d \in dropped' : d \in dropped /\ d[1] \in Conn /\ d[2] \in Key /\ d[2] # k
      BY <2>1 DEF TypeOK
    <2> QED BY <2>1, <2>2, SidesKeepDrops
  <1>2. ASSUME NEW k \in Key, RemoveItem(k) PROVE DInv'
    <2>1. /\ UNCHANGED <<rec, list, flags, base, raced, remote>>
          /\ local' = local \ {k}
          /\ dropped' = dropped \cup {<<c, k>> : c \in {d \in Conn : Settled(d, k)}}
          /\ \A c \in Conn, n \in Key : <<c, n, TRUE>> \in live' => <<c, n, TRUE>> \in live
      BY <1>2 DEF RemoveItem
    <2>2. ASSUME ~raced, NEW c \in Conn, Settled(c, k) PROVE DropSound(c, k)'
      BY <2>1, <2>2, DropMade
    <2>3. \A d \in dropped : d[1] \in Conn /\ d[2] \in Key
      BY DEF TypeOK
    <2>4. \A d \in dropped' : d \in dropped \/ (d[1] \in Conn /\ Settled(d[1], k) /\ d[2] = k)
      BY <2>1
    <2> QED BY <2>1, <2>2, <2>3, <2>4, SidesKeepDrops
  <1>3. ASSUME NEW c \in Conn, NEW k \in Key, RemoteAdd(c, k) PROVE DInv'
    <2>1. /\ UNCHANGED <<rec, list, flags, base, raced, local, live>>
          /\ remote' = [remote EXCEPT ![c] = @ \cup {k}] /\ dropped' = {d \in dropped : d[2] # k}
      BY <1>3 DEF RemoteAdd
    <2>2. \A d \in dropped' : d \in dropped /\ (d[2] \in remote'[d[1]] => d[2] \in remote[d[1]])
      BY <2>1 DEF TypeOK
    <2> QED BY <2>1, <2>2, SidesKeepDrops
  <1>4. ASSUME NEW c \in Conn, NEW k \in Key, RemoteRemove(c, k) PROVE DInv'
    <2>1. /\ UNCHANGED <<rec, list, flags, base, raced, local, live>>
          /\ remote' = [remote EXCEPT ![c] = @ \ {k}]
          /\ dropped' = dropped \cup (IF Settled(c, k) THEN {<<c, k>>} ELSE {})
      BY <1>4 DEF RemoteRemove
    <2>2. k \notin remote'[c] /\ \A d \in Conn : remote'[d] \subseteq remote[d]
      BY <2>1 DEF TypeOK
    <2>3. ~raced /\ Settled(c, k) => DropSound(c, k)'
      BY <2>1, <2>2, DropMade
    <2>4. \A d \in dropped : d[1] \in Conn /\ d[2] \in Key
      BY DEF TypeOK
    <2>5. \A d \in dropped' : d \in dropped \/ (Settled(c, k) /\ d[1] = c /\ d[2] = k)
      BY <2>1
    <2> QED BY <2>1, <2>2, <2>3, <2>4, <2>5, SidesKeepDrops
  <1>5. ASSUME NEW c \in Conn, NEW k \in Key, NEW add \in BOOLEAN, Live(c, k, add) PROVE DInv'
    <2>1. /\ UNCHANGED <<rec, list, flags, base, raced, local, dropped>>
          /\ live' \subseteq live /\ <<c, k, add>> \in live
          /\ \/ remote' = [remote EXCEPT ![c] = IF add THEN @ \cup {k} ELSE @ \ {k}]
             \/ remote' = remote
      BY <1>5 DEF Live
    <2>2. ASSUME ~raced, NEW d \in dropped, d[2] \in remote'[d[1]] PROVE d[2] \in remote[d[1]]
      <3>1. d[1] \in Conn /\ d[2] \in Key /\ <<d[1], d[2], TRUE>> \notin live
        BY <2>2 DEF TypeOK, DInv, DropSound
      <3>2. ~(d[1] = c /\ d[2] = k /\ add)
        BY <2>1, <3>1
      <3> QED BY <2>1, <2>2, <3>1, <3>2 DEF TypeOK
    <2> QED BY <2>1, <2>2, SidesKeepDrops
  <1>6. ASSUME NEW c \in Conn, NEW on \in Flags, SetFlags(c, on) PROVE DInv'
    <2>1. dropped' = {d \in dropped : d[1] # c} /\ UNCHANGED rec
      BY <1>6 DEF SetFlags
    <2>2. dropped' = {}
      BY <2>1 DEF OneConn, TypeOK
    <2> QED BY <2>1, <2>2, PlanNewStays DEF DInv
  <1>7. CASE DeleteList
    <2>1. dropped' = {} /\ UNCHANGED rec
      BY <1>7 DEF DeleteList
    <2> QED BY <2>1, PlanNewStays DEF DInv
  <1>8. ASSUME NEW j \in Job, Fails(j) PROVE DInv'
    <2>1. /\ UNCHANGED <<shared, raced, dropped>>
          /\ rec' = [rec EXCEPT ![j] = Idle] /\ rec'[j] = Idle
      BY <1>8 DEF Fails, TypeOK
    <2>2. \A d \in dropped : d[2] \in Key
      BY DEF TypeOK
    <2> QED BY <2>1, <2>2, IdleNew, OwnDrops DEF shared
  <1>9. CASE Crash
    <2>1. /\ UNCHANGED <<local, list, remote, base, flags, raced, dropped>>
          /\ live' = {} /\ \A j \in Job : rec'[j] = Idle
      BY <1>9 DEF Crash
    <2>2. \A j \in Job : PlanNew(j)' /\ \A k \in Key : JobDrop(j, k)'
      BY <2>1, IdleNew
    <2>3. ASSUME ~raced, NEW d \in dropped PROVE DropSound(d[1], d[2])'
      <3>1. d[2] \in Key /\ DropSound(d[1], d[2])
        BY <2>3 DEF TypeOK, DInv
      <3> QED BY <2>1, <2>2, <3>1 DEF DropSound
    <2> QED BY <2>1, <2>2, <2>3 DEF DInv
  <1>10. CASE UNCHANGED vars
    BY <1>10, SidesKeepDrops DEF vars
  <1> QED BY <1>1, <1>2, <1>3, <1>4, <1>5, <1>6, <1>7, <1>8, <1>9, <1>10,
             BeginDrops, FetchDrops, LoadDrops, ImportDrops, PushDrops, CommitDrops
          DEF Next, Step

(* With one Plex connection, a key both sides agreed on and a user then    *)
(* removed from one of them is not added back to either by a reconcile in  *)
(* both directions, for any number of edits, failures and crashes and      *)
(* whether or not users wait for their pushes.                             *)
THEOREM RemovedStaysRemoved == OneConn => (Spec => NoResurrection)
  <1> SUFFICES ASSUME OneConn PROVE Spec => NoResurrection
    OBVIOUS
  <1> DEFINE Stays(j, k) ==
        /\ PushAdd(j, k) \/ Commit(j)
        /\ Both(rec[j].on) /\ ~raced
        /\ k \in (local' \ local) \cup (remote'[j[1]] \ remote[j[1]])
        => <<j[1], k>> \notin dropped
  <1>1. TypeOK /\ RInv /\ DInv => \A j \in Job, k \in Key : Stays(j, k)
    <2> SUFFICES ASSUME TypeOK, RInv, DInv, NEW j \in Job, NEW k \in Key, ~raced,
                        PushAdd(j, k) \/ Commit(j), <<j[1], k>> \in dropped
                 PROVE  k \notin (local' \ local) \cup (remote'[j[1]] \ remote[j[1]])
      OBVIOUS
    <2> DEFINE d == <<j[1], k>>
    <2>1. d \in dropped /\ d[1] = j[1] /\ d[2] = k
      OBVIOUS
    <2> HIDE DEF d
    <2>2. CASE PushAdd(j, k)
      <3>1. JobDrop(j, k)
        BY <2>1, DropOf
      <3> QED BY <2>2, <3>1 DEF PushAdd, JobDrop, Planned
    <2>3. CASE Commit(j)
      <3>1. k \notin local' \ local
        BY <2>1, <2>3, CommitDrop
      <3> QED BY <2>3, <3>1 DEF Commit
    <2> QED BY <2>2, <2>3
  <1>2. TypeOK /\ RInv /\ DInv => [\A j \in Job, k \in Key : Stays(j, k)]_vars
    BY <1>1
  <1>3. TypeOK /\ RInv /\ DInv /\ [Next]_vars => DInv'
    BY DInvStep
  <1> QED BY <1>2, <1>3, DInvInit, WatchlistTypeCorrect, ReconcileInvariant, PTL
          DEF Spec, NoResurrection
=============================================================================
