---------------------------- MODULE WatchLogProofs ----------------------------
(* What WatchLog keeps, for any number of rows, handlers, viewings and minutes. *)
EXTENDS WatchLog, TLAPS

-----------------------------------------------------------------------------
(* Types.                                                                  *)

(* A handler at rest has a transaction as well.                            *)
LEMMA IdleType == Idle \in Tx
  BY ConstantsAssumption DEF Idle, Tx, Time

Stage == {"idle", "check", "record", "after"}
Kind == {"webhook", "complete", "poll"}

(* One field of a transaction changes within its type.                     *)
LEMMA FieldType ==
    ASSUME NEW r \in Tx
    PROVE  /\ \A x \in Stage : [r EXCEPT !.stage = x] \in Tx
           /\ \A x \in Kind : [r EXCEPT !.kind = x] \in Tx
           /\ \A x \in Time : [r EXCEPT !.at = x] \in Tx
           /\ \A x \in SUBSET (Media \X Play) : [r EXCEPT !.todo = x] \in Tx
           /\ \A x \in SUBSET Event :
                /\ [r EXCEPT !.buf = x] \in Tx /\ [r EXCEPT !.rec = x] \in Tx
                /\ [r EXCEPT !.prog = x] \in Tx
           /\ \A x \in SUBSET Media : [r EXCEPT !.gone = x] \in Tx
           /\ \A x \in 0..MaxRewatch : [r EXCEPT !.rw = x] \in Tx
           /\ \A x \in BOOLEAN : [r EXCEPT !.fin = x] \in Tx
           /\ \A x \in SUBSET (Episode \X Time) : [r EXCEPT !.due = x] \in Tx
  <1> USE DEF Tx, Stage, Kind
  <1>1. \A x \in Stage : [r EXCEPT !.stage = x] \in Tx OBVIOUS
  <1>2. \A x \in Kind : [r EXCEPT !.kind = x] \in Tx OBVIOUS
  <1>3. \A x \in Time : [r EXCEPT !.at = x] \in Tx OBVIOUS
  <1>4. \A x \in SUBSET (Media \X Play) : [r EXCEPT !.todo = x] \in Tx OBVIOUS
  <1>5. \A x \in SUBSET Event : [r EXCEPT !.buf = x] \in Tx /\ [r EXCEPT !.rec = x] \in Tx OBVIOUS
  <1>6. \A x \in SUBSET Event : [r EXCEPT !.prog = x] \in Tx OBVIOUS
  <1>7. \A x \in SUBSET Media : [r EXCEPT !.gone = x] \in Tx OBVIOUS
  <1>8. \A x \in 0..MaxRewatch : [r EXCEPT !.rw = x] \in Tx OBVIOUS
  <1>9. \A x \in BOOLEAN : [r EXCEPT !.fin = x] \in Tx OBVIOUS
  <1>10. \A x \in SUBSET (Episode \X Time) : [r EXCEPT !.due = x] \in Tx OBVIOUS
  <1> HIDE DEF Tx, Stage, Kind
  <1> QED BY <1>1, <1>2, <1>3, <1>4, <1>5, <1>6, <1>7, <1>8, <1>9, <1>10

(* A transaction begins with plays to check and nothing done.              *)
Fresh(kind, t, todo) == [Idle EXCEPT !.stage = "check", !.kind = kind, !.at = t, !.todo = todo]

LEMMA Begun ==
    ASSUME NEW kind \in Kind, NEW t \in Time, NEW todo \in SUBSET (Media \X Play)
    PROVE  LET r == Fresh(kind, t, todo) IN
             /\ r \in Tx
             /\ r.stage = "check" /\ r.kind = kind /\ r.at = t /\ r.todo = todo
             /\ r.buf = {} /\ r.gone = {} /\ r.due = {}
  <1> DEFINE r1 == [Idle EXCEPT !.stage = "check"]
             r2 == [r1 EXCEPT !.kind = kind]
             r3 == [r2 EXCEPT !.at = t]
             r4 == [r3 EXCEPT !.todo = todo]
  <1>1. r1 \in Tx
    BY IdleType, FieldType DEF Stage
  <1>2. r2 \in Tx
    BY <1>1, FieldType
  <1>3. r3 \in Tx
    BY <1>2, FieldType
  <1>4. r4 \in Tx
    BY <1>3, FieldType
  <1>5. Fresh(kind, t, todo) = r4
    BY DEF Idle, Fresh
  <1>6. /\ r4.stage = "check" /\ r4.kind = kind /\ r4.at = t /\ r4.todo = todo
        /\ r4.buf = {} /\ r4.gone = {} /\ r4.due = {}
    BY DEF Idle
  <1> HIDE DEF r4
  <1> QED BY <1>4, <1>5, <1>6

(* The requests that start a transaction: what they make of the tx records.  *)
LEMMA WebhookTx ==
    ASSUME TypeOK, NEW w \in Worker, NEW m \in Media, Webhook(w, m)
    PROVE  \E p \in Play, r \in Tx :
             /\ tx' = [tx EXCEPT ![w] = r]
             /\ r.stage = "check" /\ r.kind = "webhook" /\ r.at = now /\ r.todo = {<<m, p>>}
             /\ r.buf = {} /\ r.gone = {} /\ r.due = {}
             /\ \/ p = used + 1 /\ NewPlay(Ep[m], now)
                \/ /\ p <= used /\ seen[p].ep = Ep[m] /\ Near(seen[p].at, now)
                   /\ UNCHANGED <<used, seen>>
  <1>1. PICK p \in Play :
            /\ \/ p = used + 1 /\ NewPlay(Ep[m], now)
               \/ /\ p <= used /\ seen[p].ep = Ep[m] /\ Near(seen[p].at, now)
                  /\ UNCHANGED <<used, seen>>
            /\ tx' = [tx EXCEPT ![w] = Fresh("webhook", now, {<<m, p>>})]
    BY DEF Webhook, Fresh
  <1> DEFINE r == Fresh("webhook", now, {<<m, p>>})
  <1>2. tx' = [tx EXCEPT ![w] = r]
    BY <1>1
  <1>3. now \in Time /\ {<<m, p>>} \in SUBSET (Media \X Play)
    BY DEF TypeOK
  <1>4. r \in Tx /\ r.stage = "check" /\ r.kind = "webhook" /\ r.at = now /\ r.todo = {<<m, p>>}
        /\ r.buf = {} /\ r.gone = {} /\ r.due = {}
    BY <1>3, Begun DEF Kind
  <1> HIDE DEF r
  <1> QED BY <1>1, <1>2, <1>4

(* A user completes a session: its play is to check.                       *)
LEMMA CompleteTx ==
    ASSUME TypeOK, NEW w \in Worker, NEW m \in Media, CompleteSession(w, m)
    PROVE  \E r \in Tx :
             /\ tx' = [tx EXCEPT ![w] = r]
             /\ r.stage = "check" /\ r.kind = "complete" /\ r.at = now
             /\ r.todo = {<<m, session[m].play>>}
             /\ r.buf = {} /\ r.gone = {} /\ r.due = {}
  <1> DEFINE todo == {<<m, session[m].play>>}
             r == Fresh("complete", now, todo)
  <1>1. now \in Time /\ session[m].play \in Play
    BY DEF TypeOK, CompleteSession, Session, Play
  <1>2. todo \in SUBSET (Media \X Play)
    BY <1>1
  <1>3. tx' = [tx EXCEPT ![w] = r]
    BY DEF CompleteSession, Fresh
  <1>4. r \in Tx /\ r.stage = "check" /\ r.kind = "complete" /\ r.at = now /\ r.todo = todo
        /\ r.buf = {} /\ r.gone = {} /\ r.due = {}
    <2> HIDE DEF todo
    <2> QED BY <1>1, <1>2, Begun DEF Kind
  <1> HIDE DEF r
  <1> QED BY <1>3, <1>4

(* The poller's pass: it has the plays of the sessions it found.           *)
LEMMA PollTx ==
    ASSUME TypeOK, SessionsPlay, Poll
    PROVE  \E r \in Tx :
             /\ tx' = [tx EXCEPT ![Poller] = r]
             /\ r.stage = "check" /\ r.kind = "poll" /\ r.at = now
             /\ \A q \in r.todo : q[1] \in Media /\ q[2] \in Play /\ q[2] = session[q[1]].play
             /\ r.buf = {} /\ r.gone = {} /\ r.due = {}
  <1> DEFINE due == {m \in Media : DueSession(m)}
             todo == {<<m, session[m].play>> : m \in due}
             r == Fresh("poll", now, todo)
  <1>1. now \in Time
    BY DEF TypeOK
  <1>2. ASSUME NEW m \in due PROVE session[m].play \in Play
    BY DEF TypeOK, SessionsPlay, DueSession, Session, Play
  <1>3. todo \in SUBSET (Media \X Play)
    BY <1>2
  <1>4. \A q \in todo : q[1] \in Media /\ q[2] \in Play /\ q[2] = session[q[1]].play
    BY <1>2
  <1>5. tx' = [tx EXCEPT ![Poller] = r]
    BY DEF Poll, Fresh
  <1>6. r \in Tx /\ r.stage = "check" /\ r.kind = "poll" /\ r.at = now /\ r.todo = todo
        /\ r.buf = {} /\ r.gone = {} /\ r.due = {}
    <2> HIDE DEF todo
    <2> QED BY <1>1, <1>3, Begun DEF Kind
  <1> HIDE DEF r, todo
  <1> QED BY <1>4, <1>5, <1>6

(* A check: its transaction keeps its kind and its time, and does what     *)
(* the duplicate check said.                                               *)
LEMMA CheckTx ==
    ASSUME TypeOK, NEW h \in Handler, Check(h)
    PROVE  \E q \in tx[h].todo, r \in Tx :
             /\ q[1] \in Media /\ q[2] \in Play /\ q = <<q[1], q[2]>>
             /\ Watched(h, q) \in Event /\ When(h) \in Time
             /\ tx[h].stage = "check" /\ lock[q[1]] \in {NoOne, h} /\ RowFree(q[1], h)
             /\ lock' = [lock EXCEPT ![q[1]] = h]
             /\ tx' = [tx EXCEPT ![h] = r]
             /\ r.stage \in {"check", "record"} /\ r.kind = tx[h].kind /\ r.at = tx[h].at
             /\ r.todo = tx[h].todo \ {q}
             /\ \/ Duplicate(q[1], When(h), tx[h].buf) /\ r.buf = tx[h].buf
                \/ ~Duplicate(q[1], When(h), tx[h].buf) /\ r.buf = tx[h].buf \cup {Watched(h, q)}
             /\ r.gone = tx[h].gone \cup
                    (IF Ended(tx[h].kind, q) THEN {q[1]} ELSE {})
             /\ r.due = tx[h].due \cup {<<Ep[q[1]], When(h)>>}
             /\ r.prog = tx[h].prog /\ r.fin = tx[h].fin
             /\ r.rw = IF rewatch.on THEN rewatch.id ELSE 0
  <1> DEFINE x == tx[h]
             T == When(h)
             New(q) == IF Duplicate(q[1], T, x.buf) THEN {} ELSE {Watched(h, q)}
             Ends(q) == IF Ended(x.kind, q) THEN {q[1]} ELSE {}
             rw == IF rewatch.on THEN rewatch.id ELSE 0
             stage == IF x.kind = "webhook" THEN "record" ELSE "check"
  <1>1. PICK q \in x.todo :
          /\ x.stage = "check"
          /\ LockFree(q[1], h) /\ RowFree(q[1], h)
          /\ lock' = [lock EXCEPT ![q[1]] = h]
          /\ tx' = [tx EXCEPT ![h] =
                 [x EXCEPT !.todo = x.todo \ {q}, !.buf = x.buf \cup New(q), !.rec = x.rec \cup New(q),
                           !.gone = x.gone \cup Ends(q), !.due = x.due \cup {<<Ep[q[1]], T>>},
                           !.rw = rw, !.stage = stage]]
    BY DEF Check
  <1> DEFINE m == q[1]
             e == Watched(h, q)
             new == New(q)
             due == x.due \cup {<<Ep[m], T>>}
             r1 == [x EXCEPT !.todo = x.todo \ {q}]
             r2 == [r1 EXCEPT !.buf = x.buf \cup new]
             r3 == [r2 EXCEPT !.rec = x.rec \cup new]
             r4 == [r3 EXCEPT !.gone = x.gone \cup Ends(q)]
             r5 == [r4 EXCEPT !.due = due]
             r6 == [r5 EXCEPT !.rw = rw]
             r7 == [r6 EXCEPT !.stage = stage]
  <1>2. x \in Tx /\ now \in Time
    BY DEF TypeOK
  <1>3. m \in Media /\ q[2] \in Play /\ q = <<m, q[2]>> /\ T \in Time
    BY <1>2 DEF Tx, When
  <1>4. e \in Event
    BY <1>3 DEF Event, Watched
  <1>5. /\ x.todo \ {q} \in SUBSET (Media \X Play) /\ x.buf \cup new \in SUBSET Event
        /\ x.rec \cup new \in SUBSET Event
        /\ x.gone \cup Ends(q) \in SUBSET Media /\ stage \in {"check", "record"}
    <2>1. new \in SUBSET Event
      BY <1>4
    <2>2. Ends(q) \in SUBSET Media
      BY <1>3
    <2> HIDE DEF New, Ends
    <2> QED BY <1>2, <1>3, <2>1, <2>2 DEF Tx
  <1>6. due \in SUBSET (Episode \X Time)
    <2> HIDE DEF T
    <2>1. Ep[m] \in Episode
      BY <1>3, ConstantsAssumption
    <2> QED BY <1>2, <1>3, <2>1 DEF Tx
  <1>7. rw \in 0..MaxRewatch
    BY ConstantsAssumption DEF TypeOK
  <1>8. tx' = [tx EXCEPT ![h] = r7]
    BY <1>1
  <1>9. stage \in Stage
    BY <1>5 DEF Stage
  <1> HIDE DEF New, Ends, T, due, rw, stage
  <1>10. r7 \in Tx
    <2>1. r1 \in Tx
      BY <1>2, <1>5, FieldType
    <2>2. r2 \in Tx
      BY <2>1, <1>5, FieldType
    <2>3. r3 \in Tx
      BY <2>2, <1>5, FieldType
    <2>4. r4 \in Tx
      BY <2>3, <1>5, FieldType
    <2>5. r5 \in Tx
      BY <2>4, <1>6, FieldType
    <2>6. r6 \in Tx
      BY <2>5, <1>7, FieldType
    <2> QED BY <2>6, <1>9, FieldType
  <1>11. /\ r7.stage = stage /\ r7.kind = x.kind /\ r7.at = x.at /\ r7.todo = x.todo \ {q}
         /\ r7.buf = x.buf \cup new /\ r7.gone = x.gone \cup Ends(q) /\ r7.due = due
         /\ r7.prog = x.prog /\ r7.fin = x.fin /\ r7.rw = rw
    BY <1>2 DEF Tx
  <1>12. \/ Duplicate(m, T, x.buf) /\ r7.buf = x.buf
         \/ ~Duplicate(m, T, x.buf) /\ r7.buf = x.buf \cup {e}
    <2> HIDE DEF r7
    <2> QED BY <1>11 DEF New
  <1>13. /\ r7.stage \in {"check", "record"}
         /\ r7.gone = x.gone \cup Ends(q) /\ r7.due = x.due \cup {<<Ep[m], T>>} /\ r7.rw = rw
    BY <1>5, <1>11 DEF due
  <1> HIDE DEF r7
  <1> QED BY <1>1, <1>3, <1>4, <1>8, <1>10, <1>11, <1>12, <1>13 DEF Ends, T, rw, LockFree

(* Recording a rewatch touches neither events nor what is owed.            *)
LEMMA RecordTx ==
    ASSUME TypeOK, NEW h \in Handler, Record(h)
    PROVE  \E r \in Tx :
             /\ tx' = [tx EXCEPT ![h] = r]
             /\ r.stage = tx[h].stage /\ r.kind = tx[h].kind /\ r.at = tx[h].at
             /\ r.todo = tx[h].todo /\ r.buf = tx[h].buf /\ r.gone = tx[h].gone /\ r.due = tx[h].due
             /\ r.rw = tx[h].rw
  <1> DEFINE x == tx[h]
             had == rewatch.done \cup x.prog
             New(e) == IF e.media \in MediaOf(had) THEN {} ELSE {e}
             All(e) == Cardinality(MediaOf(had \cup {e})) >= Total
  <1>1. PICK e \in x.rec :
          tx' = [tx EXCEPT ![h] =
                   [x EXCEPT !.rec = x.rec \ {e}, !.prog = x.prog \cup New(e), !.fin = All(e)]]
    BY DEF Record
  <1> DEFINE r1 == [x EXCEPT !.rec = x.rec \ {e}]
             r2 == [r1 EXCEPT !.prog = x.prog \cup New(e)]
             r3 == [r2 EXCEPT !.fin = All(e)]
  <1>2. x \in Tx
    BY DEF TypeOK
  <1>3. x.rec \ {e} \in SUBSET Event /\ x.prog \cup New(e) \in SUBSET Event /\ All(e) \in BOOLEAN
    <2>1. x.rec \in SUBSET Event /\ x.prog \in SUBSET Event
      BY <1>2 DEF Tx
    <2> QED BY <2>1
  <1>4. tx' = [tx EXCEPT ![h] = r3]
    BY <1>1
  <1> HIDE DEF New, All
  <1>5. r3 \in Tx
    <2>1. r1 \in Tx
      BY <1>2, <1>3, FieldType
    <2>2. r2 \in Tx
      BY <2>1, <1>3, FieldType
    <2> QED BY <2>2, <1>3, FieldType
  <1>6. /\ r3.stage = x.stage /\ r3.kind = x.kind /\ r3.at = x.at /\ r3.todo = x.todo
        /\ r3.buf = x.buf /\ r3.gone = x.gone /\ r3.due = x.due /\ r3.rw = x.rw
    BY <1>2 DEF Tx
  <1> HIDE DEF r3
  <1> QED BY <1>4, <1>5, <1>6

(* A transaction that ends owes nothing; it may go on in a second one.     *)
LEMMA EndTx ==
    ASSUME TypeOK, NEW h \in Handler, Commit(h) \/ Abort(h)
    PROVE  \E r \in Tx :
             /\ tx' = [tx EXCEPT ![h] = r]
             /\ r.stage \in {"idle", "after"} /\ (r.stage = "after" => tx[h].stage = "check" /\ r.at = tx[h].at)
             /\ r.todo = {} /\ r.buf = {} /\ r.gone = {} /\ r.due = {} /\ r.prog = {} /\ r.fin = FALSE
  <1> DEFINE x == tx[h]
             rw == IF rewatch.on THEN rewatch.id ELSE 0
             a == [Idle EXCEPT !.stage = "after", !.kind = x.kind, !.at = x.at, !.rec = x.buf, !.rw = rw]
             r1 == [Idle EXCEPT !.stage = "after"]
             r2 == [r1 EXCEPT !.kind = x.kind]
             r3 == [r2 EXCEPT !.at = x.at]
             r4 == [r3 EXCEPT !.rec = x.buf]
             r5 == [r4 EXCEPT !.rw = rw]
  <1>1. tx' = [tx EXCEPT ![h] = IF x.stage = "check" /\ x.buf # {} THEN a ELSE Idle]
        \/ tx' = [tx EXCEPT ![h] = Idle]
    BY DEF Commit, Abort
  <1>2. x \in Tx
    BY DEF TypeOK
  <1>3. x.kind \in Kind /\ x.at \in Time /\ x.buf \in SUBSET Event /\ rw \in 0..MaxRewatch
    <2>1. rw \in 0..MaxRewatch
      BY ConstantsAssumption DEF TypeOK
    <2> HIDE DEF rw
    <2> QED BY <1>2, <2>1 DEF Tx, Kind
  <1> HIDE DEF x, rw
  <1>4. a = r5
    OBVIOUS
  <1>5. r5 \in Tx
    <2>1. r1 \in Tx
      BY IdleType, FieldType DEF Stage
    <2>2. r2 \in Tx
      BY <2>1, <1>3, FieldType
    <2>3. r3 \in Tx
      BY <2>2, <1>3, FieldType
    <2>4. r4 \in Tx
      BY <2>3, <1>3, FieldType
    <2> QED BY <2>4, <1>3, FieldType
  <1>6. /\ r5.stage = "after" /\ r5.at = x.at
        /\ r5.todo = {} /\ r5.buf = {} /\ r5.gone = {} /\ r5.due = {} /\ r5.prog = {} /\ r5.fin = FALSE
    BY DEF Idle
  <1>7. /\ Idle.stage = "idle" /\ Idle.todo = {} /\ Idle.buf = {} /\ Idle.gone = {} /\ Idle.due = {}
        /\ Idle.prog = {} /\ Idle.fin = FALSE
    BY DEF Idle
  <1> HIDE DEF a, r5
  <1>8. CASE tx' = [tx EXCEPT ![h] = a] /\ x.stage = "check"
    BY <1>4, <1>5, <1>6, <1>8 DEF x
  <1>9. CASE tx' = [tx EXCEPT ![h] = Idle]
    BY <1>7, <1>9, IdleType
  <1> QED BY <1>1, <1>8, <1>9 DEF x

-----------------------------------------------------------------------------
(* Type correctness.                                                       *)

(* The poller's pass needs to know that what plays is of some viewing.     *)
TInv == TypeOK /\ SessionsPlay

(* The types hold at first.                                                *)
LEMMA InitTypes == Init => TInv
  <1> SUFFICES ASSUME Init PROVE TInv
    OBVIOUS
  <1>1. tx \in [Handler -> Tx]
    BY IdleType DEF Init
  <1>2. session \in [Media -> Session]
    BY ConstantsAssumption DEF Init, Session, NoSession, Time
  <1>3. seen \in [Play -> [ep : Episode \cup {NoOne}, at : Time]]
    BY ConstantsAssumption DEF Init, Time
  <1>4. SessionsPlay
    BY DEF Init, SessionsPlay, NoSession
  <1> QED BY <1>1, <1>2, <1>3, <1>4, ConstantsAssumption DEF Init, TInv, TypeOK, Time

(* A new viewing has a number of its own.                                  *)
LEMMA NewPlayTypes ==
    ASSUME TypeOK, NEW e \in Episode \cup {NoOne}, NewPlay(e, now)
    PROVE  /\ used' \in 0..MaxPlays /\ used' = used + 1 /\ used' \in Play
           /\ seen' \in [Play -> [ep : Episode \cup {NoOne}, at : Time]]
           /\ seen' = [seen EXCEPT ![used + 1] = [ep |-> e, at |-> now]]
  <1>1. used \in 0..MaxPlays /\ used < MaxPlays /\ used' = used + 1
    BY DEF TypeOK, NewPlay
  <1>2. used' \in 0..MaxPlays /\ used' \in Play
    BY <1>1, ConstantsAssumption DEF Play
  <1>3. seen' \in [Play -> [ep : Episode \cup {NoOne}, at : Time]]
    BY <1>2 DEF TypeOK, NewPlay
  <1> QED BY <1>1, <1>2, <1>3 DEF NewPlay

(* The bound on rare steps is one.                                         *)
LEMMA RarelyTypes ==
    ASSUME TypeOK, Rarely
    PROVE  other' \in 0..MaxOther
  BY ConstantsAssumption DEF TypeOK, Rarely

(* Reports that are withdrawn leave the rest of a transaction alone.       *)
LEMMA Withdrawn ==
    ASSUME TypeOK, NEW gone,
           tx' = [h \in Handler |-> [tx[h] EXCEPT !.due = {d \in tx[h].due : d[1] \notin gone}]]
    PROVE  /\ tx' \in [Handler -> Tx]
           /\ \A h \in Handler :
                /\ tx'[h].stage = tx[h].stage /\ tx'[h].kind = tx[h].kind /\ tx'[h].at = tx[h].at
                /\ tx'[h].todo = tx[h].todo /\ tx'[h].buf = tx[h].buf /\ tx'[h].gone = tx[h].gone
                /\ tx'[h].prog = tx[h].prog /\ tx'[h].fin = tx[h].fin /\ tx'[h].rw = tx[h].rw
                /\ tx'[h].due = {d \in tx[h].due : d[1] \notin gone}
  <1>1. ASSUME NEW h \in Handler
        PROVE  LET r == [tx[h] EXCEPT !.due = {d \in tx[h].due : d[1] \notin gone}] IN
               /\ r \in Tx
               /\ r.stage = tx[h].stage /\ r.kind = tx[h].kind /\ r.at = tx[h].at
               /\ r.todo = tx[h].todo /\ r.buf = tx[h].buf /\ r.gone = tx[h].gone
               /\ r.prog = tx[h].prog /\ r.fin = tx[h].fin /\ r.rw = tx[h].rw
               /\ r.due = {d \in tx[h].due : d[1] \notin gone}
    <2> DEFINE due == {d \in tx[h].due : d[1] \notin gone}
               r == [tx[h] EXCEPT !.due = due]
    <2>1. tx[h] \in Tx
      BY DEF TypeOK
    <2>2. due \in SUBSET (Episode \X Time)
      BY <2>1 DEF Tx
    <2> HIDE DEF due
    <2>3. r \in Tx
      BY <2>1, <2>2, FieldType
    <2>4. /\ r.stage = tx[h].stage /\ r.kind = tx[h].kind /\ r.at = tx[h].at
          /\ r.todo = tx[h].todo /\ r.buf = tx[h].buf /\ r.gone = tx[h].gone
          /\ r.prog = tx[h].prog /\ r.fin = tx[h].fin /\ r.rw = tx[h].rw
          /\ r.due = due
      BY <2>1 DEF Tx
    <2> QED BY <2>3, <2>4 DEF due
  <1>2. \A h \in Handler : tx'[h] = [tx[h] EXCEPT !.due = {d \in tx[h].due : d[1] \notin gone}]
    OBVIOUS
  <1> QED BY <1>1, <1>2

(* Every step keeps the types, one of a handler at work.                   *)
LEMMA WorkTypes ==
    ASSUME TInv, NEW h \in Handler, Check(h) \/ Record(h) \/ RecordFails(h) \/ Commit(h)
    PROVE  TInv'
  <1> USE DEF TInv
  <1>1. CASE Check(h)
    <2>1. PICK r \in Tx : tx' = [tx EXCEPT ![h] = r]
      BY <1>1, CheckTx
    <2>2. tx' \in [Handler -> Tx]
      BY <2>1 DEF TypeOK
    <2>3. lock' \in [Media -> Handler \cup {NoOne}]
      BY ZenonT(40), <1>1 DEF TypeOK, Check
    <2>4. UNCHANGED <<now, events, partial, session, rewatch, seen, dismissed, reported, used, other>>
      BY <1>1 DEF Check
    <2> QED BY <2>2, <2>3, <2>4 DEF TypeOK, SessionsPlay
  <1>2. CASE Record(h)
    <2>1. PICK r \in Tx : tx' = [tx EXCEPT ![h] = r]
      BY <1>2, RecordTx
    <2>2. tx' \in [Handler -> Tx]
      BY <2>1 DEF TypeOK
    <2>3. UNCHANGED <<now, events, partial, session, rewatch, lock, seen, dismissed, reported, used, other>>
      BY <1>2 DEF Record
    <2> QED BY <2>2, <2>3 DEF TypeOK, SessionsPlay
  <1>3. CASE RecordFails(h)
    <2>1. Abort(h)
      BY <1>3 DEF RecordFails
    <2>2. PICK r \in Tx : tx' = [tx EXCEPT ![h] = r]
      BY <2>1, EndTx
    <2>3. tx' \in [Handler -> Tx]
      BY <2>2 DEF TypeOK
    <2>4. lock' \in [Media -> Handler \cup {NoOne}]
      BY <2>1 DEF TypeOK, Abort, Release
    <2>5. UNCHANGED <<now, events, partial, session, rewatch, seen, dismissed, reported, used, other>>
      BY <2>1 DEF Abort
    <2> QED BY <2>3, <2>4, <2>5 DEF TypeOK, SessionsPlay
  <1>4. CASE Commit(h)
    <2>1. PICK r \in Tx : tx' = [tx EXCEPT ![h] = r]
      BY <1>4, EndTx
    <2>2. tx' \in [Handler -> Tx]
      BY <2>1 DEF TypeOK
    <2>3. lock' \in [Media -> Handler \cup {NoOne}]
      BY <1>4 DEF TypeOK, Commit, Release
    <2>4. tx[h] \in Tx
      BY DEF TypeOK
    <2>5. /\ tx[h].buf \in SUBSET Event /\ tx[h].due \in SUBSET (Episode \X Time)
          /\ tx[h].prog \in SUBSET Event
      BY <2>4 DEF Tx
    <2>6. NoSession \in Session
      BY ConstantsAssumption DEF NoSession, Session, Time
    <2>7. events' \in SUBSET Event /\ reported' \in SUBSET (Episode \X Time)
      BY <1>4, <2>5 DEF TypeOK, Commit
    <2>8. session' \in [Media -> Session] /\ SessionsPlay'
      <3>1. UNCHANGED session \/ session' = [m \in Media |-> IF m \in tx[h].gone THEN NoSession ELSE session[m]]
        BY <1>4 DEF Commit
      <3>2. NoSession.state = "none"
        BY DEF NoSession
      <3> QED BY <2>6, <3>1, <3>2 DEF TypeOK, SessionsPlay
    <2>9. rewatch' \in [id : 0..MaxRewatch, on : BOOLEAN, done : SUBSET Event]
      <3>1. rewatch' \in {[rewatch EXCEPT !.on = FALSE, !.done = {}],
                          [rewatch EXCEPT !.done = rewatch.done \cup tx[h].prog], rewatch}
        BY <1>4 DEF Commit, RewatchAfter
      <3> QED BY <2>5, <3>1 DEF TypeOK
    <2>10. UNCHANGED <<now, partial, seen, dismissed, used, other>>
      BY <1>4 DEF Commit
    <2> QED BY <2>2, <2>3, <2>7, <2>8, <2>9, <2>10 DEF TypeOK
  <1> QED BY <1>1, <1>2, <1>3, <1>4

(* Every step keeps the types, one that starts a transaction.              *)
LEMMA StartTypes ==
    ASSUME TInv,
           \/ \E w \in Worker, m \in Media : Webhook(w, m) \/ CompleteSession(w, m)
           \/ Poll
    PROVE  TInv'
  <1> USE DEF TInv
  <1>1. ASSUME NEW w \in Worker, NEW m \in Media, Webhook(w, m)
        PROVE  TInv'
    <2>1. PICK p \in Play, r \in Tx :
             /\ tx' = [tx EXCEPT ![w] = r]
             /\ \/ p = used + 1 /\ NewPlay(Ep[m], now)
                \/ UNCHANGED <<used, seen>>
      BY <1>1, WebhookTx
    <2>2. tx' \in [Handler -> Tx]
      BY <2>1 DEF TypeOK
    <2>3. used' \in 0..MaxPlays /\ seen' \in [Play -> [ep : Episode \cup {NoOne}, at : Time]]
      <3>1. Ep[m] \in Episode \cup {NoOne}
        BY ConstantsAssumption
      <3> QED BY <2>1, <3>1, NewPlayTypes DEF TypeOK
    <2>4. UNCHANGED <<now, events, partial, session, rewatch, lock, dismissed, reported, other>>
      BY <1>1 DEF Webhook
    <2> QED BY <2>2, <2>3, <2>4 DEF TypeOK, SessionsPlay
  <1>2. ASSUME NEW w \in Worker, NEW m \in Media, CompleteSession(w, m)
        PROVE  TInv'
    <2>1. PICK r \in Tx : tx' = [tx EXCEPT ![w] = r]
      BY <1>2, CompleteTx
    <2>2. tx' \in [Handler -> Tx]
      BY <2>1 DEF TypeOK
    <2>3. UNCHANGED <<now, events, partial, session, rewatch, lock, seen, dismissed, reported, used, other>>
      BY <1>2 DEF CompleteSession
    <2> QED BY <2>2, <2>3 DEF TypeOK, SessionsPlay
  <1>3. ASSUME Poll PROVE TInv'
    <2>1. PICK r \in Tx : tx' = [tx EXCEPT ![Poller] = r]
      BY <1>3, PollTx
    <2>2. tx' \in [Handler -> Tx]
      BY <2>1 DEF TypeOK
    <2>3. UNCHANGED <<now, events, partial, session, rewatch, lock, seen, dismissed, reported, used, other>>
      BY <1>3 DEF Poll
    <2> QED BY <2>2, <2>3 DEF TypeOK, SessionsPlay
  <1> QED BY <1>1, <1>2, <1>3

(* Every step keeps the types, a short request.                            *)
LEMMA ShortTypes ==
    ASSUME TInv,
           \/ \E m \in Media : StartSession(m) \/ Dismiss(m) \/ PullPartial(m) \/ Unwatch(m)
           \/ \E m \in Media, g \in 0..Runtime, st \in {"playing", "paused"} : Heartbeat(m, g, st)
           \/ StartRewatch \/ CancelRewatch \/ HealStuck \/ Crash \/ Tick
           \/ \E w \in 1..MaxTime, kept \in SUBSET events, left \in SUBSET partial :
                  HealDuplicates(w, kept, left)
    PROVE  TInv'
  <1> USE DEF TInv
  <1>1. ASSUME NEW m \in Media, StartSession(m) PROVE TInv'
    <2> DEFINE e == IF SharedPlays THEN Ep[m] ELSE NoOne
               s == [play |-> used + 1, prog |-> 0, upd |-> now, state |-> "playing"]
    <2>1. e \in Episode \cup {NoOne} /\ NewPlay(e, now)
      BY <1>1, ConstantsAssumption DEF StartSession
    <2>2. /\ used' \in 0..MaxPlays /\ used + 1 \in Play
          /\ seen' \in [Play -> [ep : Episode \cup {NoOne}, at : Time]]
      <3> HIDE DEF e
      <3>1. used' = used + 1 /\ used' \in Play
        BY <2>1, NewPlayTypes
      <3> QED BY <2>1, <3>1, NewPlayTypes
    <2>3. s \in Session /\ s.play # 0
      BY <2>2, ConstantsAssumption DEF TypeOK, Session, Play
    <2>4. session' = [session EXCEPT ![m] = s]
      BY <1>1 DEF StartSession
    <2> HIDE DEF s
    <2>5. session' \in [Media -> Session] /\ SessionsPlay'
      BY <2>3, <2>4 DEF TypeOK, SessionsPlay
    <2>6. UNCHANGED <<now, events, partial, rewatch, lock, tx, dismissed, reported, other>>
      BY <1>1 DEF StartSession
    <2> QED BY <2>2, <2>5, <2>6 DEF TypeOK
  <1>2. ASSUME NEW m \in Media, Dismiss(m) PROVE TInv'
    <2>1. session[m] \in Session /\ NoSession \in Session /\ NoSession.state = "none"
      BY ConstantsAssumption DEF TypeOK, NoSession, Session, Time
    <2>2. session' \in [Media -> Session] /\ SessionsPlay'
      BY <1>2, <2>1 DEF TypeOK, SessionsPlay, Dismiss
    <2>3. dismissed' \in SUBSET Play
      <3>1. session[m].play \in Play
        BY <1>2, <2>1 DEF Dismiss, Session, Play
      <3> QED BY <1>2, <3>1 DEF TypeOK, Dismiss
    <2>4. UNCHANGED <<now, events, partial, rewatch, lock, tx, seen, reported, used>>
      BY <1>2 DEF Dismiss
    <2>5. other' \in 0..MaxOther
      BY <1>2, RarelyTypes DEF Dismiss
    <2> QED BY <2>2, <2>3, <2>4, <2>5 DEF TypeOK
  <1>3. ASSUME NEW m \in Media, PullPartial(m) PROVE TInv'
    <2>1. partial' \in SUBSET (Media \X Time)
      BY <1>3 DEF TypeOK, PullPartial
    <2>2. UNCHANGED <<now, events, session, rewatch, lock, tx, seen, dismissed, reported, used>>
      BY <1>3 DEF PullPartial
    <2>3. other' \in 0..MaxOther
      BY <1>3, RarelyTypes DEF PullPartial
    <2> QED BY <2>1, <2>2, <2>3 DEF TypeOK, SessionsPlay
  <1>4. ASSUME NEW m \in Media, Unwatch(m) PROVE TInv'
    <2>1. other' \in 0..MaxOther
      BY <1>4, RarelyTypes DEF Unwatch
    <2>2. UNCHANGED <<now, session, lock, seen, dismissed, used>>
      BY <1>4 DEF Unwatch
    <2>3. CASE rewatch.on
      <3>1. rewatch' = [rewatch EXCEPT !.done = {e \in rewatch.done : e.media # m}]
        BY <1>4, <2>3 DEF Unwatch
      <3>2. rewatch' \in [id : 0..MaxRewatch, on : BOOLEAN, done : SUBSET Event]
        BY <3>1 DEF TypeOK
      <3>3. UNCHANGED <<events, partial, tx, reported>>
        BY <1>4, <2>3 DEF Unwatch
      <3> QED BY <2>1, <2>2, <3>2, <3>3 DEF TypeOK, SessionsPlay
    <2>4. CASE ~rewatch.on
      <3>1. tx' = [h \in Handler |-> [tx[h] EXCEPT !.due = {d \in tx[h].due : d[1] \notin {Ep[m]}}]]
        BY <1>4, <2>4 DEF Unwatch
      <3>2. tx' \in [Handler -> Tx]
        BY <3>1, Withdrawn
      <3>3. /\ events' \in SUBSET Event /\ partial' \in SUBSET (Media \X Time)
            /\ reported' \in SUBSET (Episode \X Time) /\ UNCHANGED rewatch
        BY <1>4, <2>4 DEF TypeOK, Unwatch
      <3> QED BY <2>1, <2>2, <3>2, <3>3 DEF TypeOK, SessionsPlay
    <2> QED BY <2>3, <2>4
  <1>5. ASSUME NEW m \in Media, NEW g \in 0..Runtime, NEW st \in {"playing", "paused"}, Heartbeat(m, g, st)
        PROVE  TInv'
    <2>1. session[m] \in Session /\ now \in Time /\ session[m].play # 0
      BY <1>5 DEF TypeOK, Heartbeat
    <2> DEFINE s == [session[m] EXCEPT !.prog = g, !.upd = now, !.state = st]
    <2>2. s \in Session /\ s.play # 0
      BY <2>1 DEF Session
    <2>3. session' = [session EXCEPT ![m] = s]
      BY <1>5 DEF TypeOK, Heartbeat
    <2> HIDE DEF s
    <2>4. session' \in [Media -> Session] /\ SessionsPlay'
      BY <2>2, <2>3 DEF TypeOK, SessionsPlay
    <2>5. UNCHANGED <<now, events, partial, rewatch, lock, tx, seen, dismissed, reported, used>>
      BY <1>5 DEF Heartbeat
    <2>6. other' \in 0..MaxOther
      BY <1>5, RarelyTypes DEF Heartbeat
    <2> QED BY <2>4, <2>5, <2>6 DEF TypeOK
  <1>6. ASSUME StartRewatch PROVE TInv'
    <2>1. rewatch' \in [id : 0..MaxRewatch, on : BOOLEAN, done : SUBSET Event]
      BY <1>6, ConstantsAssumption DEF TypeOK, StartRewatch
    <2>2. UNCHANGED <<now, events, partial, session, lock, tx, seen, dismissed, reported, used, other>>
      BY <1>6 DEF StartRewatch
    <2> QED BY <2>1, <2>2 DEF TypeOK, SessionsPlay
  <1>7. ASSUME CancelRewatch PROVE TInv'
    <2>1. rewatch' \in [id : 0..MaxRewatch, on : BOOLEAN, done : SUBSET Event]
      BY <1>7 DEF TypeOK, CancelRewatch
    <2>2. UNCHANGED <<now, events, partial, session, lock, tx, seen, dismissed, reported, used>>
      BY <1>7 DEF CancelRewatch
    <2>3. other' \in 0..MaxOther
      BY <1>7, RarelyTypes DEF CancelRewatch
    <2> QED BY <2>1, <2>2, <2>3 DEF TypeOK, SessionsPlay
  <1>8. ASSUME HealStuck PROVE TInv'
    BY <1>8 DEF TypeOK, SessionsPlay, HealStuck
  <1>9. ASSUME Crash PROVE TInv'
    <2>1. tx' \in [Handler -> Tx] /\ lock' \in [Media -> Handler \cup {NoOne}]
      BY <1>9, IdleType DEF Crash
    <2>2. UNCHANGED <<now, events, partial, session, rewatch, seen, dismissed, reported, used>>
      BY <1>9 DEF Crash
    <2>3. other' \in 0..MaxOther
      BY <1>9, RarelyTypes DEF Crash
    <2> QED BY <2>1, <2>2, <2>3 DEF TypeOK, SessionsPlay
  <1>10. ASSUME Tick PROVE TInv'
    <2>1. now' \in Time
      BY <1>10, ConstantsAssumption DEF TypeOK, Tick, Time
    <2>2. UNCHANGED <<events, partial, session, rewatch, lock, tx, seen, dismissed, reported, used, other>>
      BY <1>10 DEF Tick
    <2> QED BY <2>1, <2>2 DEF TypeOK, SessionsPlay
  <1>11. ASSUME NEW w \in 1..MaxTime, NEW kept \in SUBSET events, NEW left \in SUBSET partial,
                HealDuplicates(w, kept, left)
         PROVE  TInv'
    <2> DEFINE healed == {Ep[m] : m \in MediaOf(events \ kept)}
    <2>1. tx' = [h \in Handler |-> [tx[h] EXCEPT !.due = {d \in tx[h].due : d[1] \notin healed}]]
      BY <1>11 DEF HealDuplicates
    <2>2. tx' \in [Handler -> Tx]
      BY <2>1, Withdrawn
    <2>3. rewatch' \in [id : 0..MaxRewatch, on : BOOLEAN, done : SUBSET Event]
      <3>1. rewatch' = [rewatch EXCEPT !.done = rewatch.done \cap kept]
        BY <1>11 DEF HealDuplicates
      <3> QED BY <3>1 DEF TypeOK
    <2>4. /\ events' \in SUBSET Event /\ partial' \in SUBSET (Media \X Time)
          /\ reported' \in SUBSET (Episode \X Time)
      BY <1>11 DEF TypeOK, HealDuplicates
    <2>5. UNCHANGED <<now, session, lock, seen, dismissed, used>>
      BY <1>11 DEF HealDuplicates
    <2>6. other' \in 0..MaxOther
      BY <1>11, RarelyTypes DEF HealDuplicates
    <2> QED BY <2>2, <2>3, <2>4, <2>5, <2>6 DEF TypeOK, SessionsPlay
  <1> QED BY <1>1, <1>2, <1>3, <1>4, <1>5, <1>6, <1>7, <1>8, <1>9, <1>10, <1>11

(* Every step keeps the types.                                             *)
LEMMA TypesKept ==
    ASSUME TInv, [Next]_vars
    PROVE  TInv'
  <1>1. CASE Next
    <2> USE <1>1, StartTypes, WorkTypes, ShortTypes
    <2> QED BY DEF Next
  <1>2. CASE UNCHANGED vars
    BY <1>2 DEF vars, TInv, TypeOK, SessionsPlay
  <1> QED BY <1>1, <1>2

(* The types hold throughout.                                              *)
LEMMA TypesHold == Spec => []TInv
  BY InitTypes, TypesKept, PTL DEF Spec

(* Every variable keeps its type, for any library and number of handlers.  *)
THEOREM WatchTypeCorrect == Spec => []TypeOK
  <1>1. TInv => TypeOK
    BY DEF TInv
  <1> QED BY <1>1, TypesHold, PTL

-----------------------------------------------------------------------------
(* What a step does to the transactions, seen from the three fields the    *)
(* duplicate check is about.                                               *)

(* The transactions of the others stay as they are.                        *)
LEMMA Others ==
    ASSUME TypeOK, NEW h \in Handler, NEW r, tx' = [tx EXCEPT ![h] = r]
    PROVE  tx'[h] = r /\ \A g \in Handler \ {h} : tx'[g] = tx[g]
  BY DEF TypeOK

(* Steps that leave the history, and what any transaction has added to it  *)
(* under its locks, as they were, but for transactions that are given up   *)
(* or just begun.                                                          *)
Quiet ==
    /\ events' = events /\ reported' = reported
    /\ \A h \in Handler :
        \/ tx'[h].buf = {} /\ tx'[h].due = {}
        \/ /\ tx'[h].buf = tx[h].buf /\ tx'[h].due = tx[h].due
           /\ \A m \in Media : lock[m] = h => lock'[m] = h

(* All but a check, a commit and a removal of rows are quiet.              *)
LEMMA QuietSteps ==
    ASSUME TInv,
           \/ \E w \in Worker, m \in Media : Webhook(w, m) \/ CompleteSession(w, m)
           \/ Poll
           \/ \E h \in Handler : Record(h) \/ RecordFails(h)
           \/ \E m \in Media : StartSession(m) \/ Dismiss(m) \/ PullPartial(m)
           \/ \E m \in Media, g \in 0..Runtime, st \in {"playing", "paused"} : Heartbeat(m, g, st)
           \/ StartRewatch \/ CancelRewatch \/ HealStuck \/ Crash \/ Tick
           \/ UNCHANGED vars
    PROVE  Quiet
  <1> USE DEF TInv
  <1>1. ASSUME NEW w \in Worker, NEW m \in Media, Webhook(w, m) PROVE Quiet
    <2>1. PICK p \in Play, r \in Tx : tx' = [tx EXCEPT ![w] = r] /\ r.buf = {} /\ r.due = {}
      BY <1>1, WebhookTx
    <2>2. tx'[w] = r /\ \A g \in Handler \ {w} : tx'[g] = tx[g]
      BY <2>1, Others DEF Handler
    <2>3. events' = events /\ reported' = reported
      BY <1>1 DEF Webhook
    <2>4. lock' = lock
      BY <1>1 DEF Webhook
    <2> QED BY <2>1, <2>2, <2>3, <2>4 DEF Quiet
  <1>2. ASSUME NEW w \in Worker, NEW m \in Media, CompleteSession(w, m) PROVE Quiet
    <2>1. PICK r \in Tx : tx' = [tx EXCEPT ![w] = r] /\ r.buf = {} /\ r.due = {}
      BY <1>2, CompleteTx
    <2>2. tx'[w] = r /\ \A g \in Handler \ {w} : tx'[g] = tx[g]
      BY <2>1, Others DEF Handler
    <2>3. events' = events /\ reported' = reported
      BY <1>2 DEF CompleteSession
    <2>4. lock' = lock
      BY <1>2 DEF CompleteSession
    <2> QED BY <2>1, <2>2, <2>3, <2>4 DEF Quiet
  <1>3. ASSUME Poll PROVE Quiet
    <2>1. PICK r \in Tx : tx' = [tx EXCEPT ![Poller] = r] /\ r.buf = {} /\ r.due = {}
      BY <1>3, PollTx
    <2>2. tx'[Poller] = r /\ \A g \in Handler \ {Poller} : tx'[g] = tx[g]
      BY <2>1, Others DEF Handler
    <2>3. events' = events /\ reported' = reported
      BY <1>3 DEF Poll
    <2>4. lock' = lock
      BY <1>3 DEF Poll
    <2> QED BY <2>1, <2>2, <2>3, <2>4 DEF Quiet
  <1>4. ASSUME NEW h \in Handler, Record(h) PROVE Quiet
    <2>1. PICK r \in Tx : tx' = [tx EXCEPT ![h] = r] /\ r.buf = tx[h].buf /\ r.due = tx[h].due
      BY <1>4, RecordTx
    <2>2. tx'[h] = r /\ \A g \in Handler \ {h} : tx'[g] = tx[g]
      BY <2>1, Others
    <2>3. events' = events /\ reported' = reported
      BY <1>4 DEF Record
    <2>4. lock' = lock
      BY <1>4 DEF Record
    <2> QED BY <2>1, <2>2, <2>3, <2>4 DEF Quiet
  <1>5. ASSUME NEW h \in Handler, RecordFails(h) PROVE Quiet
    <2>1. Abort(h)
      BY <1>5 DEF RecordFails
    <2>2. PICK r \in Tx : tx' = [tx EXCEPT ![h] = r] /\ r.buf = {} /\ r.due = {}
      BY <2>1, EndTx
    <2>3. tx'[h] = r /\ \A g \in Handler \ {h} : tx'[g] = tx[g]
      BY <2>2, Others
    <2>4. events' = events /\ reported' = reported
      BY <2>1 DEF Abort
    <2>5. \A g \in Handler \ {h}, m \in Media : lock[m] = g => lock'[m] = g
      BY <2>1 DEF Abort, Release
    <2> QED BY <2>2, <2>3, <2>4, <2>5 DEF Quiet
  <1>6. ASSUME NEW m \in Media, StartSession(m) \/ Dismiss(m) \/ PullPartial(m) PROVE Quiet
    BY <1>6 DEF Quiet, StartSession, Dismiss, PullPartial
  <1>7. ASSUME NEW m \in Media, NEW g \in 0..Runtime, NEW st \in {"playing", "paused"}, Heartbeat(m, g, st)
        PROVE Quiet
    BY <1>7 DEF Quiet, Heartbeat
  <1>8. ASSUME StartRewatch \/ CancelRewatch \/ HealStuck \/ Tick \/ UNCHANGED vars PROVE Quiet
    BY <1>8 DEF Quiet, StartRewatch, CancelRewatch, HealStuck, Tick, vars
  <1>9. ASSUME Crash PROVE Quiet
    <2>1. Idle.buf = {} /\ Idle.due = {}
      BY DEF Idle
    <2> QED BY <1>9, <2>1 DEF Quiet, Crash
  <1> QED BY <1>1, <1>2, <1>3, <1>4, <1>5, <1>6, <1>7, <1>8, <1>9

-----------------------------------------------------------------------------
(* What was handled is in the history.                                     *)

(* Reports are kept, those still at work as well.                          *)
RKept == DueKept /\ ReportsKept

(* Quiet steps lose no report: what had been found is still there.         *)
LEMMA QuietKept ==
    ASSUME RKept, Quiet
    PROVE  RKept'
  BY DEF RKept, DueKept, ReportsKept, Quiet, Near

(* A check finds its report's event, or adds it.                           *)
LEMMA CheckKept ==
    ASSUME TInv, RKept, NEW h \in Handler, Check(h)
    PROVE  RKept'
  <1> USE DEF TInv
  <1>1. PICK q \in tx[h].todo, r \in Tx :
             /\ q[1] \in Media /\ Watched(h, q) \in Event /\ When(h) \in Time
             /\ tx' = [tx EXCEPT ![h] = r]
             /\ \/ Duplicate(q[1], When(h), tx[h].buf) /\ r.buf = tx[h].buf
                \/ ~Duplicate(q[1], When(h), tx[h].buf) /\ r.buf = tx[h].buf \cup {Watched(h, q)}
             /\ r.due = tx[h].due \cup {<<Ep[q[1]], When(h)>>}
    BY CheckTx
  <1>2. tx'[h] = r /\ \A g \in Handler \ {h} : tx'[g] = tx[g]
    BY <1>1, Others
  <1>3. events' = events /\ reported' = reported
    BY DEF Check
  <1>4. Watched(h, q).media = q[1] /\ Watched(h, q).at = When(h)
    BY DEF Watched
  <1>5. Near(When(h), When(h))
    BY <1>1, ConstantsAssumption DEF Near, Time
  <1>6. \E f \in events \cup r.buf : Ep[f.media] = Ep[q[1]] /\ Near(f.at, When(h))
    BY <1>1, <1>4, <1>5 DEF Duplicate
  <1>7. \A d \in r.due : \E f \in events \cup r.buf : Ep[f.media] = d[1] /\ Near(f.at, d[2])
    <2>1. \A d \in tx[h].due : \E f \in events \cup tx[h].buf : Ep[f.media] = d[1] /\ Near(f.at, d[2])
      BY DEF RKept, DueKept
    <2>2. tx[h].buf \subseteq r.buf
      BY <1>1
    <2>3. \A d \in r.due : d \in tx[h].due \/ d = <<Ep[q[1]], When(h)>>
      BY <1>1
    <2> QED BY <1>6, <2>1, <2>2, <2>3
  <1>8. DueKept'
    BY <1>2, <1>3, <1>7 DEF RKept, DueKept, Near
  <1> QED BY <1>3, <1>8 DEF RKept, ReportsKept, Near

(* A commit brings the event before the report counts as handled.          *)
LEMMA CommitKept ==
    ASSUME TInv, RKept, NEW h \in Handler, Commit(h)
    PROVE  RKept'
  <1> USE DEF TInv
  <1>1. PICK r \in Tx : tx' = [tx EXCEPT ![h] = r] /\ r.buf = {} /\ r.due = {}
    BY EndTx
  <1>2. tx'[h] = r /\ \A g \in Handler \ {h} : tx'[g] = tx[g]
    BY <1>1, Others
  <1>3. \/ events' = events \cup tx[h].buf /\ reported' = reported \cup tx[h].due
        \/ events' = events /\ reported' = reported
    BY DEF Commit
  <1>4. DueKept'
    BY <1>1, <1>2, <1>3 DEF RKept, DueKept, Near
  <1>5. ReportsKept'
    BY <1>3 DEF RKept, DueKept, ReportsKept, Near
  <1> QED BY <1>4, <1>5 DEF RKept

(* Who takes rows out of the history withdraws the reports they stand for. *)
LEMMA RemovalKept ==
    ASSUME TInv, RKept, NEW gone, NEW kept \in SUBSET events,
           \A e \in events \ kept : Ep[e.media] \in gone,
           events' = kept,
           tx' = [h \in Handler |-> [tx[h] EXCEPT !.due = {d \in tx[h].due : d[1] \notin gone}]],
           reported' = {d \in reported : d[1] \notin gone}
    PROVE  RKept'
  <1> USE DEF TInv
  <1>1. \A h \in Handler : tx'[h].buf = tx[h].buf /\ tx'[h].due = {d \in tx[h].due : d[1] \notin gone}
    BY Withdrawn
  <1>2. DueKept'
    <2> SUFFICES ASSUME NEW h \in Handler, NEW d \in tx'[h].due
                 PROVE  \E e \in events' \cup tx'[h].buf : Ep[e.media] = d[1] /\ Near(e.at, d[2])
      BY DEF DueKept, Near
    <2>1. d \in tx[h].due /\ d[1] \notin gone
      BY <1>1
    <2>2. PICK e \in events \cup tx[h].buf : Ep[e.media] = d[1] /\ Near(e.at, d[2])
      BY <2>1 DEF RKept, DueKept
    <2>3. e \in events' \cup tx'[h].buf
      BY <1>1, <2>1, <2>2
    <2> QED BY <2>2, <2>3
  <1>3. ReportsKept'
    <2> SUFFICES ASSUME NEW d \in reported'
                 PROVE  \E e \in events' : Ep[e.media] = d[1] /\ Near(e.at, d[2])
      BY DEF ReportsKept, Near
    <2>1. d \in reported /\ d[1] \notin gone
      OBVIOUS
    <2>2. PICK e \in events : Ep[e.media] = d[1] /\ Near(e.at, d[2])
      BY <2>1 DEF RKept, ReportsKept
    <2> QED BY <2>1, <2>2
  <1> QED BY <1>2, <1>3 DEF RKept

(* An unwatch withdraws the reports of its episode.                        *)
LEMMA UnwatchKept ==
    ASSUME TInv, RKept, NEW m \in Media, Unwatch(m)
    PROVE  RKept'
  <1>1. CASE rewatch.on
    <2>1. Quiet
      BY <1>1 DEF Unwatch, Quiet
    <2> QED BY <2>1, QuietKept
  <1>2. CASE ~rewatch.on
    <2> DEFINE kept == {e \in events : e.media # m}
    <2>1. /\ events' = kept
          /\ tx' = [h \in Handler |-> [tx[h] EXCEPT !.due = {d \in tx[h].due : d[1] \notin {Ep[m]}}]]
          /\ reported' = {d \in reported : d[1] \notin {Ep[m]}}
      BY <1>2 DEF Unwatch
    <2>2. \A e \in events \ kept : Ep[e.media] \in {Ep[m]}
      OBVIOUS
    <2>3. kept \in SUBSET events
      OBVIOUS
    <2> HIDE DEF kept
    <2> QED BY <2>1, <2>2, <2>3, RemovalKept
  <1> QED BY <1>1, <1>2

(* Collapsing duplicates withdraws the reports of the rows that go.        *)
LEMMA HealKept ==
    ASSUME TInv, RKept, NEW w \in 1..MaxTime, NEW kept \in SUBSET events, NEW left \in SUBSET partial,
           HealDuplicates(w, kept, left)
    PROVE  RKept'
  <1> DEFINE healed == {Ep[m] : m \in MediaOf(events \ kept)}
  <1>1. /\ events' = kept
        /\ tx' = [h \in Handler |-> [tx[h] EXCEPT !.due = {d \in tx[h].due : d[1] \notin healed}]]
        /\ reported' = {d \in reported : d[1] \notin healed}
    BY DEF HealDuplicates
  <1>2. \A e \in events \ kept : Ep[e.media] \in healed
    BY DEF MediaOf
  <1> HIDE DEF healed
  <1> QED BY <1>1, <1>2, RemovalKept

(* A report that was handled is in the history, as an event of its own or  *)
(* as one of the same episode within the window, until it is unwatched or  *)
(* collapsed: what the duplicate check drops is there.                     *)
THEOREM ReportsAreKept == Spec => []ReportsKept
  <1>1. Init => RKept
    <2>1. Idle.due = {}
      BY DEF Idle
    <2> QED BY <2>1 DEF Init, RKept, DueKept, ReportsKept
  <1>2. ASSUME TInv, RKept, [Next]_vars PROVE RKept'
    <2>1. CASE Quiet
      BY <1>2, <2>1, QuietKept
    <2>2. CASE ~Quiet
      <3> USE <1>2, <2>2, QuietSteps, CheckKept, CommitKept, UnwatchKept, HealKept
      <3> QED BY DEF Next
    <2> QED BY <2>1, <2>2
  <1>3. RKept => ReportsKept
    BY DEF RKept
  <1> QED BY <1>1, <1>2, <1>3, TypesHold, PTL DEF Spec

-----------------------------------------------------------------------------
(* The window.                                                             *)

(* Events far from one another stay so, whoever asks.                      *)
LEMMA NearSame ==
    ASSUME NEW a \in Time, NEW b \in Time
    PROVE  Near(a, b) <=> Near(b, a)
  BY DEF Near

(* Quiet steps add no event and take no lock away.                         *)
LEMMA QuietWindow ==
    ASSUME TypeOK, WInv, Quiet
    PROVE  WInv'
  <1>1. \A h \in Handler : \A e \in tx[h].buf : e.media \in Media
    BY DEF TypeOK, Tx, Event
  <1> QED BY <1>1 DEF WInv, Held, Spaced, Quiet, Near

(* A check takes the lock of its row; the event it adds is far from all    *)
(* that its transaction sees.                                              *)
LEMMA CheckWindow ==
    ASSUME TInv, WInv, NEW h \in Handler, Check(h)
    PROVE  WInv'
  <1> USE DEF TInv
  <1>1. PICK q \in tx[h].todo, r \in Tx :
             /\ q[1] \in Media /\ Watched(h, q) \in Event /\ When(h) \in Time
             /\ lock[q[1]] \in {NoOne, h}
             /\ lock' = [lock EXCEPT ![q[1]] = h]
             /\ tx' = [tx EXCEPT ![h] = r]
             /\ \/ Duplicate(q[1], When(h), tx[h].buf) /\ r.buf = tx[h].buf
                \/ ~Duplicate(q[1], When(h), tx[h].buf) /\ r.buf = tx[h].buf \cup {Watched(h, q)}
    BY CheckTx
  <1>2. tx'[h] = r /\ \A g \in Handler \ {h} : tx'[g] = tx[g]
    BY <1>1, Others
  <1>3. events' = events
    BY DEF Check
  <1> DEFINE e == Watched(h, q)
  <1>4. e.media = q[1] /\ e.at = When(h) /\ e \in Event
    BY <1>1 DEF Watched
  <1>5. r.buf = tx[h].buf \/ r.buf = tx[h].buf \cup {e}
    BY <1>1
  <1>6. ~Duplicate(q[1], When(h), tx[h].buf) =>
          \A f \in events \cup tx[h].buf : ~(Ep[f.media] = Ep[e.media] /\ Near(f.at, e.at))
    BY <1>4 DEF Duplicate
  <1> HIDE DEF e
  <1>7. \A g \in Handler : tx[g].buf \subseteq Event
    BY DEF TypeOK, Tx
  <1>8. Held'
    <2> SUFFICES ASSUME NEW g \in Handler, NEW f \in tx'[g].buf
                 PROVE  lock'[f.media] = g
      BY DEF Held
    <2>1. lock'[q[1]] = h /\ \A m \in Media \ {q[1]} : lock'[m] = lock[m]
      BY <1>1 DEF TypeOK
    <2>2. CASE g = h
      <3>1. f = e \/ f \in tx[h].buf
        BY <1>2, <1>5, <2>2
      <3>2. f \in tx[h].buf => lock[f.media] = h /\ f.media \in Media
        BY <1>7 DEF WInv, Held, Event
      <3> QED BY <1>4, <2>1, <2>2, <3>1, <3>2
    <2>3. CASE g # h
      <3>1. f \in tx[g].buf
        BY <1>2, <2>3
      <3>2. lock[f.media] = g /\ f.media \in Media
        BY <1>7, <3>1 DEF WInv, Held, Event
      <3>3. f.media # q[1]
        BY <1>1, <2>3, <3>2, ConstantsAssumption
      <3> QED BY <2>1, <3>2, <3>3
    <2> QED BY <2>2, <2>3
  <1>9. Spaced'
    <2> SUFFICES ASSUME NEW g \in Handler, NEW a \in events \cup tx'[g].buf, NEW b \in events \cup tx'[g].buf,
                        Ep[a.media] = Ep[b.media], Near(a.at, b.at)
                 PROVE  a = b
      BY <1>3 DEF Spaced, Near
    <2>1. CASE g # h \/ r.buf = tx[h].buf
      BY <1>2, <2>1 DEF WInv, Spaced
    <2>2. CASE g = h /\ r.buf # tx[h].buf
      <3>1. \A f \in events \cup tx[h].buf : ~(Ep[f.media] = Ep[e.media] /\ Near(f.at, e.at))
        BY <1>1, <1>6, <2>2
      <3>2. a \in Event /\ b \in Event
        BY <1>2, <1>4, <1>5, <1>7, <2>2 DEF TypeOK
      <3>3. Near(b.at, a.at)
        BY <3>2, NearSame DEF Event
      <3>4. {a, b} \subseteq (events \cup tx[h].buf) \cup {e}
        BY <1>2, <1>5, <2>2
      <3> QED BY <3>1, <3>3, <3>4 DEF WInv, Spaced
    <2> QED BY <2>1, <2>2
  <1> QED BY <1>8, <1>9 DEF WInv

(* What a commit brings is far from what the others have added: two events *)
(* of one episode would be of one row, and both hold its lock.             *)
LEMMA CommitWindow ==
    ASSUME OneRow, TInv, WInv, NEW h \in Handler, Commit(h)
    PROVE  WInv'
  <1> USE DEF TInv
  <1>1. PICK r \in Tx : tx' = [tx EXCEPT ![h] = r] /\ r.buf = {}
    BY EndTx
  <1>2. tx'[h] = r /\ \A g \in Handler \ {h} : tx'[g] = tx[g]
    BY <1>1, Others
  <1>3. events' = events \cup tx[h].buf \/ events' = events
    BY DEF Commit
  <1>4. \A m \in Media : lock[m] # h => lock'[m] = lock[m]
    BY DEF Commit, Release
  <1>5. \A g \in Handler : \A e \in tx[g].buf : e.media \in Media /\ e.at \in Time /\ lock[e.media] = g
    <2>1. \A g \in Handler : tx[g].buf \subseteq Event
      BY DEF TypeOK, Tx
    <2> QED BY <2>1 DEF Event, WInv, Held
  <1>6. Held'
    <2> SUFFICES ASSUME NEW g \in Handler, NEW f \in tx'[g].buf
                 PROVE  lock'[f.media] = g
      BY DEF Held
    <2>1. g # h /\ f \in tx[g].buf
      BY <1>1, <1>2
    <2> QED BY <1>4, <1>5, <2>1
  <1>7. Spaced'
    <2> SUFFICES ASSUME NEW g \in Handler,
                        NEW a \in events' \cup tx'[g].buf, NEW b \in events' \cup tx'[g].buf,
                        Ep[a.media] = Ep[b.media], Near(a.at, b.at)
                 PROVE  a = b
      BY DEF Spaced, Near
    <2>1. \A e \in tx[g].buf, f \in tx[h].buf : g # h => Ep[e.media] # Ep[f.media]
      BY <1>5 DEF OneRow
    <2>2. tx'[g].buf = {} \/ (tx'[g].buf = tx[g].buf /\ g # h)
      BY <1>1, <1>2
    <2>3. \A x \in events' \cup tx'[g].buf :
             x \in events \cup tx[h].buf \/ (x \in tx[g].buf /\ g # h)
      BY <1>3, <2>2
    <2>4. \/ {a, b} \subseteq events \cup tx[h].buf
          \/ {a, b} \subseteq events \cup tx[g].buf
      BY <2>1, <2>3
    <2> QED BY <2>4 DEF WInv, Spaced
  <1> QED BY <1>6, <1>7 DEF WInv

(* Rows that go leave the others as far from one another as they were.     *)
LEMMA RemovalWindow ==
    ASSUME TypeOK, WInv, NEW gone, NEW kept \in SUBSET events, events' = kept, lock' = lock,
           tx' = [h \in Handler |-> [tx[h] EXCEPT !.due = {d \in tx[h].due : d[1] \notin gone}]]
    PROVE  WInv'
  <1>1. \A h \in Handler : tx'[h].buf = tx[h].buf
    BY Withdrawn
  <1> QED BY SMTT(30), <1>1 DEF WInv, Held, Spaced, Near

(* The window is kept throughout when no episode has two rows.             *)
LEMMA WindowKept ==
    ASSUME OneRow
    PROVE  Spec => []WInv
  <1>1. Init => WInv
    <2>1. Idle.buf = {}
      BY DEF Idle
    <2> QED BY <2>1 DEF Init, WInv, Held, Spaced
  <1>2. ASSUME TInv, WInv, [Next]_vars PROVE WInv'
    <2> USE <1>2 DEF TInv
    <2>1. CASE Quiet
      BY <2>1, QuietWindow
    <2>2. ASSUME NEW m \in Media, Unwatch(m) PROVE WInv'
      <3>1. CASE rewatch.on
        <4>1. Quiet
          BY <2>2, <3>1 DEF Unwatch, Quiet
        <4> QED BY <4>1, QuietWindow
      <3>2. CASE ~rewatch.on
        <4>1. /\ events' = {e \in events : e.media # m} /\ lock' = lock
              /\ tx' = [h \in Handler |-> [tx[h] EXCEPT !.due = {d \in tx[h].due : d[1] \notin {Ep[m]}}]]
          BY <2>2, <3>2 DEF Unwatch
        <4> QED BY <4>1, RemovalWindow
      <3> QED BY <3>1, <3>2
    <2>3. ASSUME NEW w \in 1..MaxTime, NEW kept \in SUBSET events, NEW left \in SUBSET partial,
                 HealDuplicates(w, kept, left)
          PROVE  WInv'
      <3> DEFINE healed == {Ep[m] : m \in MediaOf(events \ kept)}
      <3>1. /\ events' = kept /\ lock' = lock
            /\ tx' = [h \in Handler |-> [tx[h] EXCEPT !.due = {d \in tx[h].due : d[1] \notin healed}]]
        BY <2>3 DEF HealDuplicates
      <3> HIDE DEF healed
      <3> QED BY <3>1, RemovalWindow
    <2>4. CASE ~Quiet
      <3> USE <2>2, <2>3, <2>4, QuietSteps, CheckWindow, CommitWindow
      <3> QED BY DEF Next
    <2> QED BY <2>1, <2>4
  <1> QED BY <1>1, <1>2, TypesHold, PTL DEF Spec

(* Two events of one episode within the duplicate window are never both in *)
(* the history, however webhooks, manual sessions and the poller interleave *)
(* and whatever crashes, when no episode has two rows.                     *)
THEOREM WindowProtected ==
    ASSUME OneRow
    PROVE  Spec => []WindowHolds
  <1>1. WInv => WindowHolds
    <2> SUFFICES ASSUME WInv PROVE WindowHolds
      OBVIOUS
    <2>1. Poller \in Handler
      BY DEF Handler
    <2> QED BY <2>1 DEF WInv, Spaced, WindowHolds
  <1> QED BY <1>1, WindowKept, PTL

-----------------------------------------------------------------------------
(* One viewing, one event.                                                 *)

(* Types of what the argument speaks of.                                   *)
LEMMA PlayTypes ==
    ASSUME TypeOK
    PROVE  /\ \A h \in Handler :
                /\ tx[h].at \in Time
                /\ \A q \in tx[h].todo : q[1] \in Media /\ q[2] \in Play /\ q = <<q[1], q[2]>>
                /\ \A e \in tx[h].buf : e.media \in Media /\ e.play \in Play /\ e.at \in Time
           /\ \A e \in events : e.media \in Media /\ e.play \in Play /\ e.at \in Time
           /\ \A p \in Play : seen[p].at \in Time /\ seen[p].ep \in Episode \cup {NoOne}
           /\ \A m \in Media : Ep[m] \in Episode /\ Ep[m] # NoOne /\ session[m].play \in Nat
           /\ now \in Nat /\ used \in Nat /\ Window \in Nat /\ Latency \in Nat /\ 2 * Latency <= Window
           /\ Time \subseteq Nat /\ Play \subseteq Nat \ {0}
  <1>1. \A h \in Handler : tx[h] \in Tx
    BY DEF TypeOK
  <1>2. Time \subseteq Nat /\ Play \subseteq Nat \ {0}
    BY DEF Time, Play
  <1>3. \A h \in Handler :
          /\ tx[h].at \in Time
          /\ \A q \in tx[h].todo : q[1] \in Media /\ q[2] \in Play /\ q = <<q[1], q[2]>>
          /\ \A e \in tx[h].buf : e.media \in Media /\ e.play \in Play /\ e.at \in Time
    BY <1>1 DEF Tx, Event
  <1>4. \A e \in events : e.media \in Media /\ e.play \in Play /\ e.at \in Time
    BY DEF TypeOK, Event
  <1>5. \A p \in Play : seen[p].at \in Time /\ seen[p].ep \in Episode \cup {NoOne}
    BY DEF TypeOK
  <1>6. \A m \in Media : Ep[m] \in Episode /\ Ep[m] # NoOne /\ session[m].play \in Nat
    BY ConstantsAssumption DEF TypeOK, Session
  <1>7. now \in Nat /\ used \in Nat /\ Window \in Nat /\ Latency \in Nat /\ 2 * Latency <= Window
    BY ConstantsAssumption DEF TypeOK, Time
  <1> QED BY <1>2, <1>3, <1>4, <1>5, <1>6, <1>7

(* Steps that bring nothing new: of what is in the history, plays or is at *)
(* work, some may be gone.                                                 *)
Shrinks ==
    /\ now' = now /\ seen' = seen /\ used' = used
    /\ events' \subseteq events
    /\ \A m \in Media : session'[m].play \in {session[m].play, 0}
    /\ \A h \in Handler :
        \/ /\ tx'[h].todo = {} /\ tx'[h].buf = {}
           /\ tx'[h].stage # "idle" => tx[h].stage # "idle" /\ tx'[h].at = tx[h].at
        \/ /\ tx'[h].stage # "idle" <=> tx[h].stage # "idle"
           /\ tx'[h].kind = tx[h].kind /\ tx'[h].at = tx[h].at /\ tx'[h].todo = tx[h].todo
           /\ tx'[h].buf = tx[h].buf /\ tx'[h].gone = tx[h].gone

(* Most steps are such.                                                    *)
LEMMA ShrinkSteps ==
    ASSUME TInv,
           \/ \E h \in Handler : Record(h) \/ RecordFails(h)
           \/ \E m \in Media : Dismiss(m) \/ PullPartial(m) \/ Unwatch(m)
           \/ \E m \in Media, g \in 0..Runtime, st \in {"playing", "paused"} : Heartbeat(m, g, st)
           \/ StartRewatch \/ CancelRewatch \/ HealStuck \/ Crash
           \/ \E w \in 1..MaxTime, kept \in SUBSET events, left \in SUBSET partial :
                  HealDuplicates(w, kept, left)
           \/ UNCHANGED vars
    PROVE  Shrinks
  <1> USE DEF TInv
  <1>1. ASSUME NEW h \in Handler, Record(h) PROVE Shrinks
    <2>1. PICK r \in Tx :
             /\ tx' = [tx EXCEPT ![h] = r]
             /\ r.stage = tx[h].stage /\ r.kind = tx[h].kind /\ r.at = tx[h].at
             /\ r.todo = tx[h].todo /\ r.buf = tx[h].buf /\ r.gone = tx[h].gone
      BY <1>1, RecordTx
    <2>2. tx'[h] = r /\ \A g \in Handler \ {h} : tx'[g] = tx[g]
      BY <2>1, Others
    <2>3. UNCHANGED <<now, seen, used, events, session>>
      BY <1>1 DEF Record
    <2> QED BY <2>1, <2>2, <2>3 DEF Shrinks
  <1>2. ASSUME NEW h \in Handler, RecordFails(h) PROVE Shrinks
    <2>1. Abort(h)
      BY <1>2 DEF RecordFails
    <2>2. tx' = [tx EXCEPT ![h] = Idle] /\ UNCHANGED <<now, seen, used, events, session>>
      BY <2>1 DEF Abort
    <2>3. tx'[h] = Idle /\ \A g \in Handler \ {h} : tx'[g] = tx[g]
      BY <2>2, Others
    <2>4. Idle.todo = {} /\ Idle.buf = {} /\ Idle.stage = "idle"
      BY DEF Idle
    <2> QED BY <2>2, <2>3, <2>4 DEF Shrinks
  <1>3. ASSUME NEW m \in Media, Dismiss(m) PROVE Shrinks
    <2>1. NoSession.play = 0
      BY DEF NoSession
    <2> QED BY <1>3, <2>1 DEF Shrinks, Dismiss, TypeOK
  <1>4. ASSUME NEW m \in Media, Unwatch(m) PROVE Shrinks
    <2>1. UNCHANGED <<now, session, seen, used>>
      BY <1>4 DEF Unwatch
    <2>2. CASE rewatch.on
      BY <1>4, <2>1, <2>2 DEF Unwatch, Shrinks
    <2>3. CASE ~rewatch.on
      <3>1. tx' = [h \in Handler |-> [tx[h] EXCEPT !.due = {d \in tx[h].due : d[1] \notin {Ep[m]}}]]
        BY <1>4, <2>3 DEF Unwatch
      <3>2. events' \subseteq events
        BY <1>4, <2>3 DEF Unwatch
      <3> QED BY <2>1, <3>1, <3>2, Withdrawn DEF Shrinks
    <2> QED BY <2>2, <2>3
  <1>5. ASSUME NEW m \in Media, NEW g \in 0..Runtime, NEW st \in {"playing", "paused"}, Heartbeat(m, g, st)
        PROVE  Shrinks
    <2>1. \A n \in Media : session'[n].play = session[n].play
      <3>1. session[m] \in Session
        BY DEF TypeOK
      <3> DEFINE s == [session[m] EXCEPT !.prog = g, !.upd = now, !.state = st]
      <3>2. s.play = session[m].play
        BY <3>1 DEF Session
      <3>3. session' = [session EXCEPT ![m] = s]
        BY <1>5 DEF TypeOK, Heartbeat
      <3> HIDE DEF s
      <3> QED BY <3>2, <3>3 DEF TypeOK
    <2>2. UNCHANGED <<now, seen, used, events, tx>>
      BY <1>5 DEF Heartbeat
    <2> QED BY <2>1, <2>2 DEF Shrinks
  <1>6. ASSUME StartRewatch \/ CancelRewatch \/ HealStuck \/ UNCHANGED vars PROVE Shrinks
    BY <1>6 DEF Shrinks, StartRewatch, CancelRewatch, HealStuck, vars
  <1>7. ASSUME NEW m \in Media, PullPartial(m) PROVE Shrinks
    BY <1>7 DEF Shrinks, PullPartial
  <1>8. ASSUME Crash PROVE Shrinks
    <2>1. Idle.todo = {} /\ Idle.buf = {} /\ Idle.stage = "idle"
      BY DEF Idle
    <2>2. UNCHANGED <<now, seen, used, events, session>> /\ \A h \in Handler : tx'[h] = Idle
      BY <1>8 DEF Crash
    <2> QED BY <2>1, <2>2 DEF Shrinks
  <1>9. ASSUME NEW w \in 1..MaxTime, NEW kept \in SUBSET events, NEW left \in SUBSET partial,
               HealDuplicates(w, kept, left)
        PROVE  Shrinks
    <2> DEFINE healed == {Ep[m] : m \in MediaOf(events \ kept)}
    <2>1. tx' = [h \in Handler |-> [tx[h] EXCEPT !.due = {d \in tx[h].due : d[1] \notin healed}]]
      BY <1>9 DEF HealDuplicates
    <2>2. events' \subseteq events /\ UNCHANGED <<now, seen, used, session>>
      BY <1>9 DEF HealDuplicates
    <2> HIDE DEF healed
    <2> QED BY <2>1, <2>2, Withdrawn DEF Shrinks
  <1> QED BY <1>1, <1>2, <1>3, <1>4, <1>5, <1>6, <1>7, <1>8, <1>9

(* Steps that bring nothing new break nothing.                             *)
LEMMA ShrinkPlays ==
    ASSUME TInv, PInv, Shrinks
    PROVE  PInv'
  <1> USE DEF TInv
  <1>1. \A h \in Handler : tx'[h].todo \subseteq tx[h].todo /\ tx'[h].buf \subseteq tx[h].buf
    BY DEF Shrinks
  <1>2. \A h \in Handler : tx'[h].todo # {} \/ tx'[h].buf # {} =>
           /\ tx'[h].stage # "idle" <=> tx[h].stage # "idle"
           /\ tx'[h].kind = tx[h].kind /\ tx'[h].at = tx[h].at /\ tx'[h].gone = tx[h].gone
    BY DEF Shrinks
  <1>3. \A h \in Handler : tx'[h].stage # "idle" => tx[h].stage # "idle" /\ tx'[h].at = tx[h].at
    BY DEF Shrinks
  <1>4. /\ now' = now /\ seen' = seen /\ used' = used /\ events' \subseteq events
        /\ \A m \in Media : session'[m].play = session[m].play \/ session'[m].play = 0
    BY DEF Shrinks
  <1>5. \A m \in Media, p \in Play : Knows(m, p)' => Knows(m, p)
    BY <1>1, <1>4, PlayTypes DEF Knows
  <1>6. PlaysKnown'
    BY <1>4, <1>5, PlayTypes DEF PInv, PlaysKnown
  <1>7. Timely'
    <2> SUFFICES ASSUME NEW h \in Handler
                 PROVE  /\ tx'[h].stage # "idle" => tx'[h].at <= now' /\ now' <= tx'[h].at + Latency
                        /\ tx'[h].todo # {} \/ tx'[h].buf # {} => tx'[h].stage # "idle"
                        /\ \A q \in tx'[h].todo :
                             IF tx'[h].kind = "webhook"
                             THEN /\ seen'[q[2]].ep # NoOne
                                  /\ seen'[q[2]].at <= tx'[h].at /\ tx'[h].at <= seen'[q[2]].at + Window
                             ELSE seen'[q[2]].ep = NoOne
                        /\ \A e \in tx'[h].buf : tx'[h].at <= e.at /\ e.at <= now'
      BY DEF Timely, Busy
    <2> QED BY <1>1, <1>2, <1>3, <1>4 DEF PInv, Timely, Busy
  <1>8. Dated'
    BY <1>1, <1>4 DEF PInv, Dated
  <1>9. SessionOver'
    BY <1>1, <1>2, <1>4, PlayTypes DEF PInv, SessionOver
  <1>10. Overlap'
    BY <1>1, <1>2, <1>4 DEF PInv, Overlap
  <1>11. Once'
    BY <1>1, <1>4 DEF PInv, Once
  <1> QED BY <1>6, <1>7, <1>8, <1>9, <1>10, <1>11 DEF PInv

(* Time passes only as far as the transactions at work allow.              *)
LEMMA TickPlays ==
    ASSUME TInv, PInv, Tick
    PROVE  PInv'
  <1> USE DEF TInv
  <1>1. /\ now' = now + 1 /\ events' = events /\ session' = session /\ tx' = tx
        /\ seen' = seen /\ used' = used
        /\ \A h \in Handler : tx[h].stage # "idle" => now < tx[h].at + Latency
    BY DEF Tick, Busy
  <1>2. PlaysKnown'
    BY <1>1, PlayTypes DEF PInv, PlaysKnown, Knows
  <1>3. Timely'
    BY <1>1, PlayTypes DEF PInv, Timely, Busy
  <1>4. Dated' /\ SessionOver' /\ Overlap' /\ Once'
    BY <1>1 DEF PInv, Dated, SessionOver, Overlap, Once
  <1> QED BY <1>2, <1>3, <1>4 DEF PInv

(* A viewing that is new is known nowhere; the others are as they were.    *)
LEMMA NewPlaySeen ==
    ASSUME TInv, PInv, NEW ep \in Episode \cup {NoOne}, NewPlay(ep, now)
    PROVE  /\ used + 1 \in Play /\ used' = used + 1
           /\ seen'[used + 1].ep = ep /\ seen'[used + 1].at = now
           /\ \A p \in Play \ {used + 1} : seen'[p] = seen[p]
           /\ \A m \in Media, p \in Play : Knows(m, p) => p # used + 1 /\ p <= used
           /\ \A h \in Handler : \A q \in tx[h].todo : q[2] # used + 1
           /\ \A h \in Handler : \A e \in tx[h].buf : e.play # used + 1
           /\ \A e \in events : e.play # used + 1
  <1> USE DEF TInv
  <1>1. used + 1 \in Play /\ used' = used + 1 /\ seen' = [seen EXCEPT ![used + 1] = [ep |-> ep, at |-> now]]
    BY NewPlayTypes
  <1>2. /\ seen'[used + 1].ep = ep /\ seen'[used + 1].at = now
        /\ \A p \in Play \ {used + 1} : seen'[p] = seen[p]
    BY <1>1 DEF TypeOK
  <1>3. \A m \in Media, p \in Play : Knows(m, p) => p # used + 1 /\ p <= used
    BY PlayTypes DEF PInv, PlaysKnown
  <1>4. \A h \in Handler : \A q \in tx[h].todo : q[2] # used + 1
    BY <1>3, PlayTypes DEF Knows
  <1>5. \A h \in Handler : \A e \in tx[h].buf : e.play # used + 1
    BY <1>3, PlayTypes DEF Knows
  <1>6. \A e \in events : e.play # used + 1
    BY <1>3, PlayTypes DEF Knows
  <1> QED BY <1>1, <1>2, <1>3, <1>4, <1>5, <1>6

(* A session that begins is of a viewing nobody has met.                   *)
LEMMA SessionPlays ==
    ASSUME TInv, PInv, ~SharedPlays, NEW m \in Media, StartSession(m)
    PROVE  PInv'
  <1> USE DEF TInv
  <1>1. NewPlay(NoOne, now) /\ NoOne \in Episode \cup {NoOne}
    BY DEF StartSession
  <1> DEFINE new == used + 1
  <1>2. /\ new \in Play /\ used' = new
        /\ seen'[new].ep = NoOne /\ seen'[new].at = now
        /\ \A p \in Play \ {new} : seen'[p] = seen[p]
        /\ \A n \in Media, p \in Play : Knows(n, p) => p # new /\ p <= used
        /\ \A h \in Handler : \A q \in tx[h].todo : q[2] # new
        /\ \A h \in Handler : \A e \in tx[h].buf : e.play # new
        /\ \A e \in events : e.play # new
    BY <1>1, NewPlaySeen
  <1>3. now' = now /\ events' = events /\ tx' = tx
    BY DEF StartSession
  <1>4. session'[m].play = new /\ \A n \in Media \ {m} : session'[n] = session[n]
    BY DEF StartSession, TypeOK
  <1> HIDE DEF new
  <1>5. \A n \in Media, p \in Play : Knows(n, p)' => Knows(n, p) \/ (n = m /\ p = new)
    BY <1>3, <1>4 DEF Knows
  <1>6. PlaysKnown'
    <2>1. \A p \in Play : seen'[p].at <= now'
      BY <1>2, <1>3, PlayTypes DEF PInv, PlaysKnown
    <2>2. ASSUME NEW n \in Media, NEW p \in Play
          PROVE  /\ Knows(n, p)' => p <= used' /\ seen'[p].ep \in {Ep[n], NoOne}
                 /\ session'[n].play = p => seen'[p].ep = NoOne
                 /\ \A k \in Media : Knows(n, p)' /\ Knows(k, p)' => n = k
      <3>1. CASE p = new
        <4>1. ~Knows(n, p) /\ \A k \in Media : Knows(k, p)' => k = m
          BY <1>2, <1>5, <3>1
        <4> QED BY <1>2, <1>5, <3>1, <4>1, PlayTypes
      <3>2. CASE p # new
        <4>1. /\ Knows(n, p)' => Knows(n, p) 
              /\ \A k \in Media : Knows(k, p)' => Knows(k, p)
              /\ session'[n].play = p => session[n].play = p
              /\ seen'[p] = seen[p]
          BY <1>2, <1>4, <1>5, <3>2
        <4>2. p <= used => p <= used'
          BY <1>1, PlayTypes DEF NewPlay
        <4> QED BY <4>1, <4>2 DEF PInv, PlaysKnown
      <3> QED BY <3>1, <3>2
    <2> QED BY <2>1, <2>2 DEF PlaysKnown
  <1>7. Timely'
    <2>1. \A h \in Handler : \A q \in tx[h].todo : seen'[q[2]] = seen[q[2]]
      BY <1>2, PlayTypes
    <2> QED BY <1>3, <2>1 DEF PInv, Timely, Busy
  <1>8. Dated'
    <2>1. \A e \in events \cup UNION {tx[h].buf : h \in Handler} : seen'[e.play] = seen[e.play]
      BY <1>2, PlayTypes
    <2> QED BY <1>3, <2>1 DEF PInv, Dated
  <1>9. SessionOver'
    BY <1>2, <1>3, <1>4 DEF PInv, SessionOver
  <1>10. Overlap'
    <2>1. \A e \in events : seen'[e.play] = seen[e.play]
      BY <1>2, PlayTypes
    <2> QED BY <1>3, <2>1 DEF PInv, Overlap
  <1>11. Once'
    BY <1>3 DEF PInv, Once
  <1> QED BY <1>6, <1>7, <1>8, <1>9, <1>10, <1>11 DEF PInv

(* A transaction that begins on what plays: none of its viewings is in the *)
(* history, their sessions are still there.                                *)
LEMMA BeginPlays ==
    ASSUME TInv, PInv, NEW w \in Handler, NEW r \in Tx, tx' = [tx EXCEPT ![w] = r],
           r.kind # "webhook", r.at = now, r.buf = {}, r.stage = "check",
           \A q \in r.todo : q[1] \in Media /\ q[2] \in Play /\ q[2] = session[q[1]].play,
           UNCHANGED <<now, events, session, seen, used>>
    PROVE  PInv'
  <1> USE DEF TInv
  <1>1. tx'[w] = r /\ \A g \in Handler \ {w} : tx'[g] = tx[g]
    BY Others
  <1>2. \A m \in Media, p \in Play : <<m, p>> \in r.todo => session[m].play = p
    OBVIOUS
  <1>3. \A m \in Media, p \in Play : Knows(m, p)' => Knows(m, p)
    BY <1>1, <1>2 DEF Knows
  <1>4. PlaysKnown'
    BY <1>3, PlayTypes DEF PInv, PlaysKnown
  <1>5. Timely'
    <2>1. \A q \in r.todo : seen[q[2]].ep = NoOne
      BY DEF PInv, PlaysKnown
    <2>2. now <= now /\ now <= now + Latency
      BY PlayTypes
    <2> QED BY <1>1, <2>1, <2>2 DEF PInv, Timely, Busy
  <1>6. Dated'
    BY <1>1 DEF PInv, Dated
  <1>7. SessionOver'
    BY <1>1 DEF PInv, SessionOver
  <1>8. Overlap'
    <2>1. \A e \in events, q \in r.todo : e.play # q[2]
      BY DEF PInv, SessionOver
    <2> QED BY <1>1, <2>1 DEF PInv, Overlap
  <1>9. Once'
    <2>1. \A g \in Handler : tx'[g].buf = tx[g].buf \/ tx'[g].buf = {}
      BY <1>1
    <2> QED BY <2>1 DEF PInv, Once
  <1> QED BY <1>4, <1>5, <1>6, <1>7, <1>8, <1>9 DEF PInv

(* A report begins a viewing nobody has met, or is of one its row was      *)
(* reported to be.                                                         *)
LEMMA WebhookPlays ==
    ASSUME OneRow, TInv, PInv, NEW w \in Worker, NEW m \in Media, Webhook(w, m)
    PROVE  PInv'
  <1> USE DEF TInv
  <1>1. PICK p \in Play, r \in Tx :
             /\ tx' = [tx EXCEPT ![w] = r]
             /\ r.stage = "check" /\ r.kind = "webhook" /\ r.at = now /\ r.todo = {<<m, p>>}
             /\ r.buf = {}
             /\ \/ p = used + 1 /\ NewPlay(Ep[m], now)
                \/ /\ p <= used /\ seen[p].ep = Ep[m] /\ Near(seen[p].at, now)
                   /\ UNCHANGED <<used, seen>>
    BY WebhookTx
  <1>2. tx'[w] = r /\ \A g \in Handler \ {w} : tx'[g] = tx[g]
    BY <1>1, Others DEF Handler
  <1>3. now' = now /\ events' = events /\ session' = session
    BY DEF Webhook
  <1>4. \A n \in Media, k \in Play : Knows(n, k)' => Knows(n, k) \/ (n = m /\ k = p)
    BY <1>1, <1>2, <1>3 DEF Knows
  <1>5. /\ \A n \in Media, k \in Play : Knows(n, k) => seen'[k] = seen[k]
        /\ p <= used' /\ used <= used' /\ seen'[p].ep = Ep[m]
        /\ seen'[p].at <= now /\ now <= seen'[p].at + Window
        /\ \A k \in Play : seen'[k].at <= now
        /\ \A n \in Media : Knows(n, p) => n = m
    <2>1. CASE p = used + 1 /\ NewPlay(Ep[m], now)
      <3>1. /\ used' = used + 1
            /\ seen'[p].ep = Ep[m] /\ seen'[p].at = now
            /\ \A k \in Play \ {p} : seen'[k] = seen[k]
            /\ \A n \in Media, k \in Play : Knows(n, k) => k # p
        BY <2>1, NewPlaySeen, PlayTypes
      <3>2. \A k \in Play : seen'[k].at <= now
        BY <3>1, PlayTypes DEF PInv, PlaysKnown
      <3> QED BY <2>1, <3>1, <3>2, PlayTypes
    <2>2. CASE p <= used /\ seen[p].ep = Ep[m] /\ Near(seen[p].at, now) /\ UNCHANGED <<used, seen>>
      <3>1. seen[p].at <= now /\ now <= seen[p].at + Window
        BY <2>2 DEF PInv, PlaysKnown, Near
      <3>2. \A n \in Media : Knows(n, p) => n = m
        BY <2>2, PlayTypes DEF PInv, PlaysKnown, OneRow
      <3>3. \A k \in Play : seen'[k].at <= now
        BY <2>2 DEF PInv, PlaysKnown
      <3> QED BY <2>2, <3>1, <3>2, <3>3, PlayTypes
    <2> QED BY <1>1, <2>1, <2>2
  <1>6. \A h \in Handler :
          /\ \A q \in tx[h].todo : seen'[q[2]] = seen[q[2]]
          /\ \A e \in tx[h].buf : seen'[e.play] = seen[e.play]
    <2>1. ASSUME NEW h \in Handler, NEW q \in tx[h].todo PROVE seen'[q[2]] = seen[q[2]]
      <3>1. q[1] \in Media /\ q[2] \in Play /\ <<q[1], q[2]>> \in tx[h].todo
        BY PlayTypes
      <3>2. Knows(q[1], q[2])
        BY <3>1 DEF Knows
      <3> QED BY <1>5, <3>1, <3>2
    <2>2. ASSUME NEW h \in Handler, NEW e \in tx[h].buf PROVE seen'[e.play] = seen[e.play]
      <3>1. e.media \in Media /\ e.play \in Play
        BY PlayTypes
      <3>2. Knows(e.media, e.play)
        BY <3>1 DEF Knows
      <3> QED BY <1>5, <3>1, <3>2
    <2> QED BY <2>1, <2>2
  <1>7. \A e \in events : seen'[e.play] = seen[e.play]
    BY <1>5, PlayTypes DEF Knows
  <1>8. PlaysKnown'
    <2>1. \A k \in Play : seen'[k].at <= now'
      BY <1>3, <1>5
    <2>2. ASSUME NEW n \in Media, NEW k \in Play
          PROVE  /\ Knows(n, k)' => k <= used' /\ seen'[k].ep \in {Ep[n], NoOne}
                 /\ session'[n].play = k => seen'[k].ep = NoOne
                 /\ \A j \in Media : Knows(n, k)' /\ Knows(j, k)' => n = j
      <3>1. Knows(n, k)' => k <= used' /\ seen'[k].ep \in {Ep[n], NoOne}
        <4>1. Knows(n, k) => k <= used /\ seen[k].ep \in {Ep[n], NoOne} /\ seen'[k] = seen[k]
          BY <1>5 DEF PInv, PlaysKnown
        <4>2. k <= used => k <= used'
          BY <1>1, <1>5, PlayTypes DEF NewPlay
        <4> QED BY <1>4, <1>5, <4>1, <4>2
      <3>2. session'[n].play = k => seen'[k].ep = NoOne
        <4>1. session[n].play = k => Knows(n, k)
          BY DEF Knows
        <4> QED BY <1>3, <1>5, <4>1 DEF PInv, PlaysKnown
      <3>3. ASSUME NEW j \in Media, Knows(n, k)', Knows(j, k)' PROVE n = j
        <4>1. (Knows(n, k) \/ (n = m /\ k = p)) /\ (Knows(j, k) \/ (j = m /\ k = p))
          BY <1>4, <3>3
        <4>2. Knows(n, k) /\ Knows(j, k) => n = j
          BY DEF PInv, PlaysKnown
        <4> QED BY <1>5, <4>1, <4>2
      <3> QED BY <3>1, <3>2, <3>3
    <2> QED BY <2>1, <2>2 DEF PlaysKnown
  <1>9. Timely'
    <2>1. now <= now /\ now <= now + Latency
      BY PlayTypes
    <2>2. \A q \in r.todo : q[2] = p
      BY <1>1
    <2>3. seen'[p].ep # NoOne
      BY <1>5, PlayTypes
    <2>4. ASSUME NEW h \in Handler
          PROVE  /\ tx'[h].stage # "idle" => tx'[h].at <= now' /\ now' <= tx'[h].at + Latency
                 /\ tx'[h].todo # {} \/ tx'[h].buf # {} => tx'[h].stage # "idle"
                 /\ \A q \in tx'[h].todo :
                      IF tx'[h].kind = "webhook"
                      THEN /\ seen'[q[2]].ep # NoOne
                           /\ seen'[q[2]].at <= tx'[h].at /\ tx'[h].at <= seen'[q[2]].at + Window
                      ELSE seen'[q[2]].ep = NoOne
                 /\ \A e \in tx'[h].buf : tx'[h].at <= e.at /\ e.at <= now'
      <3>1. CASE h = w
        BY <1>1, <1>2, <1>3, <1>5, <2>1, <2>2, <2>3, <3>1
      <3>2. CASE h # w
        <4>1. tx'[h] = tx[h] /\ now' = now /\ \A q \in tx[h].todo : seen'[q[2]] = seen[q[2]]
          BY <1>2, <1>3, <1>6, <3>2
        <4> QED BY <4>1 DEF PInv, Timely, Busy
      <3> QED BY <3>1, <3>2
    <2> QED BY <2>4 DEF Timely, Busy
  <1>10. Dated'
    <2>1. \A h \in Handler : tx'[h].buf = {} \/ tx'[h].buf = tx[h].buf
      BY <1>1, <1>2
    <2>2. \A e \in events \cup UNION {tx[h].buf : h \in Handler} : seen'[e.play] = seen[e.play]
      BY <1>6, <1>7
    <2>3. events' \cup UNION {tx'[h].buf : h \in Handler} \subseteq events \cup UNION {tx[h].buf : h \in Handler}
      BY <1>3, <2>1
    <2> QED BY <2>2, <2>3 DEF PInv, Dated
  <1>11. SessionOver'
    BY <1>1, <1>2, <1>3 DEF PInv, SessionOver
  <1>12. Overlap'
    <2> SUFFICES ASSUME NEW e \in events, NEW h \in Handler, NEW q \in tx'[h].todo,
                        e.play = q[2], seen'[e.play].ep = NoOne
                 PROVE  e.at <= tx'[h].at + Latency /\ tx'[h].at <= e.at + Latency
      BY <1>3 DEF Overlap
    <2>1. CASE h = w
      BY <1>1, <1>2, <1>5, <2>1, PlayTypes
    <2>2. CASE h # w
      BY <1>2, <1>7, <2>2 DEF PInv, Overlap
    <2> QED BY <2>1, <2>2
  <1>13. Once'
    <2>1. \A g \in Handler : tx'[g].buf = tx[g].buf \/ tx'[g].buf = {}
      BY <1>1, <1>2
    <2> QED BY <1>3, <2>1 DEF PInv, Once
  <1> QED BY <1>8, <1>9, <1>10, <1>11, <1>12, <1>13 DEF PInv

(* A check adds an event of its viewing only if there is none: one of a    *)
(* reported viewing lies within the window of the first report, and one of *)
(* a session's viewing was added by a transaction that overlaps this one.  *)
LEMMA CheckPlays ==
    ASSUME TInv, PInv, NEW h \in Handler, Check(h)
    PROVE  PInv'
  <1> USE DEF TInv
  <1>1. PICK q \in tx[h].todo, r \in Tx :
             /\ q[1] \in Media /\ q[2] \in Play /\ q = <<q[1], q[2]>>
             /\ Watched(h, q) \in Event /\ When(h) \in Time
             /\ tx[h].stage = "check"
             /\ tx' = [tx EXCEPT ![h] = r]
             /\ r.stage \in {"check", "record"} /\ r.kind = tx[h].kind /\ r.at = tx[h].at
             /\ r.todo = tx[h].todo \ {q}
             /\ \/ Duplicate(q[1], When(h), tx[h].buf) /\ r.buf = tx[h].buf
                \/ ~Duplicate(q[1], When(h), tx[h].buf) /\ r.buf = tx[h].buf \cup {Watched(h, q)}
             /\ r.gone = tx[h].gone \cup
                    (IF Ended(tx[h].kind, q) THEN {q[1]} ELSE {})
    BY CheckTx
  <1> DEFINE m == q[1]
             p == q[2]
             x == tx[h]
             t == When(h)
             e == Watched(h, q)
  <1>2. tx'[h] = r /\ \A g \in Handler \ {h} : tx'[g] = tx[g]
    BY <1>1, Others
  <1>3. UNCHANGED <<now, events, session, seen, used>>
    BY DEF Check
  <1>4. e.media = m /\ e.at = t /\ e.play = p
    BY DEF Watched
  <1>5. t = x.at \/ (x.kind # "webhook" /\ t = now)
    BY DEF When
  <1>6. r.buf = x.buf \/ (r.buf = x.buf \cup {e}
                          /\ \A f \in events \cup x.buf : ~(Ep[f.media] = Ep[m] /\ Near(f.at, t)))
    BY <1>1 DEF Duplicate
  <1>7. Knows(m, p)
    BY <1>1 DEF Knows
  <1>8. /\ x.at <= now /\ now <= x.at + Latency
        /\ IF x.kind = "webhook"
           THEN seen[p].ep # NoOne /\ seen[p].at <= x.at /\ x.at <= seen[p].at + Window
           ELSE seen[p].ep = NoOne
    BY <1>1 DEF PInv, Timely, Busy
  <1>9. x.at <= t /\ t <= now /\ x.at \in Nat /\ t \in Nat /\ now \in Nat /\ seen[p].at \in Nat
    BY <1>1, <1>5, <1>8, PlayTypes
  <1>10. m \in Media /\ p \in Play /\ e \in Event /\ x.stage # "idle" /\ r.stage # "idle"
    BY <1>1
  <1>11. x.kind # "webhook" /\ session[m].play = p => m \in r.gone
    <2>1. p # 0 /\ x.kind \in {"webhook", "complete", "poll"}
      BY <1>1, PlayTypes DEF Tx, Play, TypeOK
    <2> QED BY <1>1, <2>1 DEF Ended
  <1>12. r.kind = x.kind /\ r.at = x.at /\ r.todo \subseteq x.todo /\ x.gone \subseteq r.gone
    BY <1>1
  <1>13. q \in x.todo
    OBVIOUS
  <1> HIDE DEF m, p, x, t, e
  <1>14. \A n \in Media, k \in Play : Knows(n, k)' => Knows(n, k)
    <2> SUFFICES ASSUME NEW n \in Media, NEW k \in Play, Knows(n, k)' PROVE Knows(n, k)
      OBVIOUS
    <2>1. \A g \in Handler : tx'[g].todo \subseteq tx[g].todo
      BY <1>2, <1>12 DEF x
    <2>2. \A g \in Handler : \A f \in tx'[g].buf : f \in tx[g].buf \/ f = e
      BY <1>2, <1>6 DEF x
    <2> QED BY <1>3, <1>4, <1>7, <2>1, <2>2 DEF Knows
  <1>15. PlaysKnown'
    BY <1>3, <1>14 DEF PInv, PlaysKnown
  <1>16. Timely'
    <2> SUFFICES ASSUME NEW g \in Handler
                 PROVE  /\ tx'[g].stage # "idle" => tx'[g].at <= now /\ now <= tx'[g].at + Latency
                        /\ tx'[g].todo # {} \/ tx'[g].buf # {} => tx'[g].stage # "idle"
                        /\ \A k \in tx'[g].todo :
                             IF tx'[g].kind = "webhook"
                             THEN /\ seen[k[2]].ep # NoOne
                                  /\ seen[k[2]].at <= tx'[g].at /\ tx'[g].at <= seen[k[2]].at + Window
                             ELSE seen[k[2]].ep = NoOne
                        /\ \A f \in tx'[g].buf : tx'[g].at <= f.at /\ f.at <= now
      BY <1>3 DEF Timely, Busy
    <2>1. CASE g = h
      <3>1. \A f \in r.buf : x.at <= f.at /\ f.at <= now
        <4>1. \A f \in x.buf : x.at <= f.at /\ f.at <= now
          BY DEF PInv, Timely, x
        <4> QED BY <1>4, <1>6, <1>9, <4>1
      <3>2. \A k \in r.todo :
              IF x.kind = "webhook"
              THEN /\ seen[k[2]].ep # NoOne
                   /\ seen[k[2]].at <= x.at /\ x.at <= seen[k[2]].at + Window
              ELSE seen[k[2]].ep = NoOne
        BY <1>12 DEF PInv, Timely, x
      <3> QED BY <1>2, <1>8, <1>10, <1>12, <2>1, <3>1, <3>2
    <2>2. CASE g # h
      BY <1>2, <2>2 DEF PInv, Timely, Busy
    <2> QED BY <2>1, <2>2
  <1>17. Dated'
    <2> SUFFICES ASSUME NEW f \in events \cup UNION {tx'[g].buf : g \in Handler}, seen[f.play].ep # NoOne
                 PROVE  seen[f.play].at <= f.at /\ f.at <= seen[f.play].at + Window
      BY <1>3 DEF Dated
    <2>1. f \in events \cup UNION {tx[g].buf : g \in Handler} \/ f = e
      BY <1>2, <1>6 DEF x
    <2>2. CASE f = e
      BY <1>4, <1>5, <1>8, <2>2
    <2> QED BY <2>1, <2>2 DEF PInv, Dated
  <1>18. SessionOver'
    <2> SUFFICES ASSUME NEW n \in Media, NEW g \in Handler, NEW f \in tx'[g].buf, f.play = session[n].play
                 PROVE  n \in tx'[g].gone
      BY <1>3 DEF PInv, SessionOver
    <2>1. CASE f \in tx[g].buf
      <3>1. n \in tx[g].gone
        BY <2>1 DEF PInv, SessionOver
      <3> QED BY <1>2, <1>12, <3>1 DEF x
    <2>2. CASE f \notin tx[g].buf
      <3>1. g = h /\ f = e
        BY <1>2, <1>6, <2>2 DEF x
      <3>2. session[n].play = p
        BY <1>4, <3>1
      <3>3. Knows(n, p) /\ seen[p].ep = NoOne
        BY <1>10, <3>2 DEF Knows, PInv, PlaysKnown
      <3>4. n = m
        BY <1>7, <1>10, <3>3 DEF PInv, PlaysKnown
      <3> QED BY <1>2, <1>8, <1>11, <3>1, <3>2, <3>3, <3>4
    <2> QED BY <2>1, <2>2
  <1>19. Overlap'
    <2>1. \A g \in Handler : tx'[g].todo \subseteq tx[g].todo /\ tx'[g].at = tx[g].at
      BY <1>2, <1>12 DEF x
    <2> QED BY <1>3, <2>1 DEF PInv, Overlap
  <1>20. ASSUME NEW f \in events \cup x.buf, f.play = p, r.buf # x.buf
         PROVE  FALSE
    <2>1. f.media \in Media /\ f.at \in Nat
      BY PlayTypes DEF x
    <2>2. Knows(f.media, p)
      BY <1>20, <2>1 DEF Knows, x
    <2>3. f.media = m
      BY <1>7, <1>10, <2>1, <2>2 DEF PInv, PlaysKnown
    <2>4. ~Near(f.at, t)
      BY <1>6, <1>20, <2>3
    <2>5. CASE x.kind = "webhook"
      <3>1. f \in events \cup UNION {tx[g].buf : g \in Handler}
        BY DEF x
      <3>2. seen[p].at <= f.at /\ f.at <= seen[p].at + Window
        BY <1>8, <1>20, <2>5, <3>1 DEF PInv, Dated
      <3> QED BY <1>5, <1>8, <1>9, <2>1, <2>4, <2>5, <3>2, PlayTypes DEF Near
    <2>6. CASE x.kind # "webhook"
      <3>1. f.at <= x.at + Latency /\ x.at <= f.at + Latency
        <4>1. CASE f \in events
          BY <1>8, <1>13, <1>20, <2>6, <4>1 DEF PInv, Overlap, x, p
        <4>2. CASE f \in x.buf
          <5>1. x.at <= f.at /\ f.at <= now
            BY <4>2 DEF PInv, Timely, x
          <5> QED BY <1>8, <1>9, <2>1, <5>1, PlayTypes
        <4> QED BY <4>1, <4>2
      <3> QED BY <1>8, <1>9, <2>1, <2>4, <3>1, PlayTypes DEF Near
    <2> QED BY <2>5, <2>6
  <1>21. Once'
    <2> SUFFICES ASSUME NEW g \in Handler, NEW a \in events \cup tx'[g].buf, NEW b \in events \cup tx'[g].buf,
                        a.play = b.play
                 PROVE  a = b
      BY <1>3 DEF Once
    <2>1. CASE g # h \/ r.buf = x.buf
      BY <1>2, <2>1 DEF PInv, Once, x
    <2>2. CASE g = h /\ r.buf # x.buf
      <3>1. (a \in events \cup x.buf \/ a = e) /\ (b \in events \cup x.buf \/ b = e)
        BY <1>2, <1>6, <2>2
      <3>2. \A f \in events \cup x.buf : f.play # p
        BY <1>20, <2>2
      <3> QED BY <1>4, <3>1, <3>2 DEF PInv, Once, x
    <2> QED BY <2>1, <2>2
  <1> QED BY <1>15, <1>16, <1>17, <1>18, <1>19, <1>21 DEF PInv

(* A commit makes the history what its transaction saw; no other has added *)
(* an event of the same viewing, for it would hold the same lock.          *)
LEMMA CommitPlays ==
    ASSUME TInv, WInv, PInv, NEW h \in Handler, Commit(h)
    PROVE  PInv'
  <1> USE DEF TInv
  <1> DEFINE B == tx[h].buf
  <1>1. PICK r \in Tx :
             /\ tx' = [tx EXCEPT ![h] = r]
             /\ r.stage \in {"idle", "after"} /\ (r.stage = "after" => tx[h].stage = "check" /\ r.at = tx[h].at)
             /\ r.todo = {} /\ r.buf = {}
    BY EndTx
  <1>2. tx'[h] = r /\ \A g \in Handler \ {h} : tx'[g] = tx[g]
    BY <1>1, Others
  <1>3. UNCHANGED <<now, seen, used>>
    BY DEF Commit
  <1>4. CASE UNCHANGED <<events, session>>
    <2>1. Shrinks
      BY <1>1, <1>2, <1>3, <1>4 DEF Shrinks
    <2> QED BY <2>1, ShrinkPlays
  <1>5. CASE /\ events' = events \cup B
             /\ session' = [m \in Media |-> IF m \in tx[h].gone THEN NoSession ELSE session[m]]
    <2>1. \A m \in Media : session'[m].play = session[m].play
                           \/ (session'[m].play = 0 /\ m \in tx[h].gone)
      BY <1>5 DEF NoSession
    <2>2. \A m \in tx[h].gone \cap Media : session'[m].play = 0
      BY <1>5 DEF NoSession
    <2>3. \A g \in Handler : /\ tx'[g].todo \subseteq tx[g].todo /\ tx'[g].buf \subseteq tx[g].buf
                             /\ tx'[g].todo # {} \/ tx'[g].buf # {} => g # h /\ tx'[g] = tx[g]
      BY <1>1, <1>2
    <2>4. \A m \in Media, p \in Play : Knows(m, p)' => Knows(m, p)
      BY <1>5, <2>1, <2>3, PlayTypes DEF Knows
    <2>5. PlaysKnown'
      BY <1>3, <2>1, <2>4, PlayTypes DEF PInv, PlaysKnown
    <2>6. Timely'
      <3> SUFFICES ASSUME NEW g \in Handler
                   PROVE  /\ tx'[g].stage # "idle" => tx'[g].at <= now /\ now <= tx'[g].at + Latency
                          /\ tx'[g].todo # {} \/ tx'[g].buf # {} => tx'[g].stage # "idle"
                          /\ \A k \in tx'[g].todo :
                               IF tx'[g].kind = "webhook"
                               THEN /\ seen[k[2]].ep # NoOne
                                    /\ seen[k[2]].at <= tx'[g].at /\ tx'[g].at <= seen[k[2]].at + Window
                               ELSE seen[k[2]].ep = NoOne
                          /\ \A f \in tx'[g].buf : tx'[g].at <= f.at /\ f.at <= now
        BY <1>3 DEF Timely, Busy
      <3>1. CASE g = h
        BY <1>1, <1>2, <3>1 DEF PInv, Timely, Busy
      <3>2. CASE g # h
        BY <1>2, <3>2 DEF PInv, Timely, Busy
      <3> QED BY <3>1, <3>2
    <2>7. Dated'
      <3>1. events' \cup UNION {tx'[g].buf : g \in Handler} \subseteq events \cup UNION {tx[g].buf : g \in Handler}
        BY <1>5, <2>3
      <3> QED BY <1>3, <3>1 DEF PInv, Dated
    <2>8. SessionOver'
      <3>1. ASSUME NEW m \in Media, NEW f \in events' PROVE f.play # session'[m].play
        <4>1. f.play # 0
          BY <1>5, PlayTypes
        <4>2. f.play = session[m].play => m \in tx[h].gone
          BY <1>5 DEF PInv, SessionOver
        <4> QED BY <2>1, <2>2, <4>1, <4>2
      <3>2. ASSUME NEW m \in Media, NEW g \in Handler, NEW f \in tx'[g].buf, f.play = session'[m].play
            PROVE  m \in tx'[g].gone
        <4>1. f \in tx[g].buf /\ tx'[g] = tx[g]
          BY <2>3, <3>2
        <4>2. f.play # 0
          BY <4>1, PlayTypes
        <4> QED BY <2>1, <3>2, <4>1, <4>2 DEF PInv, SessionOver
      <3> QED BY <3>1, <3>2 DEF SessionOver
    <2>9. Overlap'
      <3> SUFFICES ASSUME NEW e \in events', NEW g \in Handler, NEW q \in tx'[g].todo,
                          e.play = q[2], seen[e.play].ep = NoOne
                   PROVE  e.at <= tx'[g].at + Latency /\ tx'[g].at <= e.at + Latency
        BY <1>3 DEF Overlap
      <3>1. q \in tx[g].todo /\ tx'[g] = tx[g]
        BY <2>3
      <3>2. CASE e \in events
        BY <3>1, <3>2 DEF PInv, Overlap
      <3>3. CASE e \in B
        <4>1. /\ tx[h].at <= e.at /\ e.at <= now /\ now <= tx[h].at + Latency
              /\ tx[g].at <= now /\ now <= tx[g].at + Latency
          BY <3>1, <3>3 DEF PInv, Timely
        <4>2. tx[h].at \in Nat /\ tx[g].at \in Nat /\ e.at \in Nat /\ now \in Nat /\ Latency \in Nat
          BY <3>3, PlayTypes
        <4>3. \A i, j, k, n, l \in Nat : i <= k /\ k <= n /\ n <= i + l /\ j <= n /\ n <= j + l
                                         => k <= j + l /\ j <= k + l
          OBVIOUS
        <4>4. e.at <= tx[g].at + Latency /\ tx[g].at <= e.at + Latency
          BY <4>1, <4>2, <4>3
        <4> QED BY <3>1, <4>4
      <3> QED BY <1>5, <3>2, <3>3
    <2>10. Once'
      <3> SUFFICES ASSUME NEW g \in Handler, NEW a \in events' \cup tx'[g].buf, NEW b \in events' \cup tx'[g].buf,
                          a.play = b.play
                   PROVE  a = b
        BY DEF Once
      <3>1. \A k \in Handler : \A e \in tx[k].buf :
               e.media \in Media /\ e.play \in Play /\ Knows(e.media, e.play) /\ lock[e.media] = k
        BY PlayTypes DEF Knows, WInv, Held
      <3>2. \A e \in B, f \in tx[g].buf : g # h => e.play # f.play
        BY <3>1 DEF PInv, PlaysKnown
      <3>3. tx'[g].buf = {} \/ (tx'[g].buf = tx[g].buf /\ g # h)
        BY <1>1, <1>2
      <3>4. \A e \in events' \cup tx'[g].buf : e \in events \cup B \/ (e \in tx[g].buf /\ g # h)
        BY <1>5, <3>3
      <3>5. {a, b} \subseteq events \cup B \/ {a, b} \subseteq events \cup tx[g].buf
        BY <3>2, <3>4
      <3> QED BY <3>5 DEF PInv, Once
    <2> QED BY <2>5, <2>6, <2>7, <2>8, <2>9, <2>10 DEF PInv
  <1> QED BY <1>4, <1>5 DEF Commit

(* One viewing is one row of the history, however many reports of it there *)
(* are and however their handlers interleave: when no episode has two rows *)
(* and media servers do not report what a manual session is already about. *)
THEOREM OnePlayOnce ==
    ASSUME OneRow, SharedPlays = FALSE
    PROVE  Spec => []OnePlayOneEvent
  <1>1. Init => PInv
    <2>1. /\ Idle.todo = {} /\ Idle.buf = {} /\ Idle.stage = "idle" /\ NoSession.play = 0
      BY DEF Idle, NoSession
    <2> SUFFICES ASSUME Init PROVE PInv
      OBVIOUS
    <2>2. /\ now = 0 /\ events = {} /\ used = 0
          /\ \A m \in Media : session[m].play = 0
          /\ \A h \in Handler : tx[h].todo = {} /\ tx[h].buf = {} /\ tx[h].stage = "idle"
          /\ \A p \in Play : seen[p].at = 0
      BY <2>1 DEF Init
    <2>3. \A m \in Media, p \in Play : ~Knows(m, p) /\ p # 0
      BY <2>2 DEF Knows, Play
    <2>4. PlaysKnown
      BY <2>2, <2>3 DEF PlaysKnown
    <2>5. Timely
      BY <2>2 DEF Timely, Busy
    <2>6. Dated /\ SessionOver /\ Overlap /\ Once
      BY <2>2 DEF Dated, SessionOver, Overlap, Once
    <2> QED BY <2>4, <2>5, <2>6 DEF PInv
  <1>2. ASSUME TInv, WInv, PInv, [Next]_vars PROVE PInv'
    <2> USE <1>2 DEF TInv
    <2>1. ASSUME NEW w \in Worker, NEW m \in Media, CompleteSession(w, m) PROVE PInv'
      <3>1. PICK r \in Tx :
             /\ tx' = [tx EXCEPT ![w] = r]
             /\ r.stage = "check" /\ r.kind = "complete" /\ r.at = now
             /\ r.todo = {<<m, session[m].play>>} /\ r.buf = {}
        BY <2>1, CompleteTx
      <3>2. UNCHANGED <<now, events, session, seen, used>>
        BY <2>1 DEF CompleteSession
      <3>3. w \in Handler /\ session[m].play \in Play
        BY <2>1 DEF CompleteSession, TypeOK, Session, Play, Handler
      <3>4. \A q \in r.todo : q[1] \in Media /\ q[2] \in Play /\ q[2] = session[q[1]].play
        BY <3>1, <3>3
      <3> QED BY <3>1, <3>2, <3>3, <3>4, BeginPlays
    <2>2. ASSUME Poll PROVE PInv'
      <3>1. PICK r \in Tx :
             /\ tx' = [tx EXCEPT ![Poller] = r]
             /\ r.stage = "check" /\ r.kind = "poll" /\ r.at = now
             /\ \A q \in r.todo : q[1] \in Media /\ q[2] \in Play /\ q[2] = session[q[1]].play
             /\ r.buf = {}
        BY <2>2, PollTx
      <3>2. UNCHANGED <<now, events, session, seen, used>> /\ Poller \in Handler
        BY <2>2 DEF Poll, Handler
      <3> QED BY <3>1, <3>2, BeginPlays
    <2>3. CASE Shrinks
      BY <2>3, ShrinkPlays
    <2>4. CASE ~Shrinks
      <3> USE <2>1, <2>2, <2>4, ShrinkSteps, TickPlays, SessionPlays, WebhookPlays, CheckPlays, CommitPlays
      <3> QED BY DEF Next
    <2> QED BY <2>3, <2>4
  <1>3. PInv => OnePlayOneEvent
    <2> SUFFICES ASSUME PInv PROVE OnePlayOneEvent
      OBVIOUS
    <2>1. Poller \in Handler
      BY DEF Handler
    <2> QED BY <2>1 DEF PInv, Once, OnePlayOneEvent
  <1> QED BY <1>1, <1>2, <1>3, TypesHold, WindowKept, PTL DEF Spec
=============================================================================
