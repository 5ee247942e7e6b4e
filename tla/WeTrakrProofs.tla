---------------------------- MODULE WeTrakrProofs ----------------------------
(* What WeTrakr's pull and push keep, for any number of items, changes and *)
(* failures.                                                               *)
EXTENDS WeTrakr, TLAPS

-----------------------------------------------------------------------------
(* Sections, moments and entries.                                          *)

(* The four stages of a pull are the four sections.                        *)
LEMMA Sections ==
    /\ \A n \in 1..4 : Order[n] \in Section
    /\ \A s \in Section : \E n \in 1..4 : Order[n] = s
    /\ \A m, n \in 1..4 : Order[m] = Order[n] => m = n
  <1>1. Order[1] = "watched" /\ Order[2] = "ratings" /\ Order[3] = "lists" /\ Order[4] = "comments"
    BY DEF Order
  <1> HIDE DEF Order
  <1>2. 1..4 = {1, 2, 3, 4}
    OBVIOUS
  <1> QED BY <1>1, <1>2 DEF Section

(* The stage a pull goes to is the first one left of a section it reads.   *)
LEMMA NextStage ==
    ASSUME NEW k \in 1..5, NEW S
    PROVE  /\ Stage(k, S) \in k..5
           /\ \A n \in k..4 : Order[n] \in S => Stage(k, S) <= n
  <1> DEFINE at == {n \in k..4 : Order[n] \in S}
  <1>1. CASE at = {}
    BY <1>1 DEF Stage
  <1>2. CASE at # {}
    <2>1. \E n \in at : \A o \in at : n <= o
      <3>1. at \subseteq {1, 2, 3, 4}
        OBVIOUS
      <3> HIDE DEF at
      <3>2. CASE 1 \in at BY <3>1, <3>2
      <3>3. CASE 1 \notin at /\ 2 \in at BY <3>1, <3>3
      <3>4. CASE 1 \notin at /\ 2 \notin at /\ 3 \in at BY <3>1, <3>4
      <3>5. CASE 1 \notin at /\ 2 \notin at /\ 3 \notin at
        <4>1. at = {4} BY <3>1, <3>5, <1>2
        <4> QED BY <4>1
      <3> QED BY <3>2, <3>3, <3>4, <3>5
    <2> DEFINE first == CHOOSE n \in at : \A o \in at : n <= o
    <2>2. Stage(k, S) = first
      BY <1>2 DEF Stage
    <2>3. first \in at /\ \A o \in at : first <= o
      <3> HIDE DEF at
      <3> QED BY <2>1
    <2> HIDE DEF first
    <2> QED BY <2>2, <2>3
  <1> QED BY <1>1, <1>2

(* WeTrakr has nothing twice.                                              *)
Apart(there) == \A d, e \in there : d.sec = e.sec /\ d.item = e.item => d = e

(* What telling WeTrakr of items does: it has them, each entry is an earlier one *)
(* or a new one that is later than every bookmark.                         *)
LEMMA Telling ==
    ASSUME NEW there \in SUBSET Entry, NEW s \in Section, NEW items \in SUBSET Item, Apart(there)
    PROVE  /\ Told(there, s, items) \in SUBSET Entry
           /\ Apart(Told(there, s, items))
           /\ there \subseteq Told(there, s, items)
           /\ \A e \in Told(there, s, items) : e \in there \/ e.stamp = {"pull", "job"}
           /\ items \subseteq Items(Told(there, s, items), s)
           /\ \A t \in Section : Items(there, t) \subseteq Items(Told(there, s, items), t)
  <1> DEFINE made(i) == [sec |-> s, item |-> i, hidden |-> TRUE, stamp |-> {"pull", "job"}]
             new == {made(i) : i \in items \ Items(there, s)}
             all == there \cup new
  <1>1. Told(there, s, items) = all
    BY DEF Told
  <1>2. ASSUME NEW i \in Item
        PROVE  /\ made(i) \in Entry
               /\ made(i).sec = s /\ made(i).item = i /\ made(i).stamp = {"pull", "job"}
    <2>1. {"pull", "job"} \in SUBSET {"pull", "job"}
      OBVIOUS
    <2> QED BY <2>1 DEF Entry
  <1> HIDE DEF made
  <1>3. \A e \in new : /\ e \in Entry /\ e.sec = s /\ e.item \in items \ Items(there, s)
                       /\ e.stamp = {"pull", "job"}
    BY <1>2
  <1>4. \A i \in items \ Items(there, s) : \E e \in new : e.sec = s /\ e.item = i
    BY <1>2
  <1>5. \A d, e \in new : d.item = e.item => d = e
    BY <1>2
  <1> HIDE DEF new
  <1>6. Apart(all)
    <2> SUFFICES ASSUME NEW d \in all, NEW e \in all, d.sec = e.sec, d.item = e.item PROVE d = e
      BY DEF Apart
    <2>1. CASE d \in there /\ e \in there BY <2>1 DEF Apart
    <2>2. CASE d \in new /\ e \in new BY <2>2, <1>5
    <2>3. CASE d \in there /\ e \in new BY <2>3, <1>3 DEF Items
    <2>4. CASE d \in new /\ e \in there BY <2>4, <1>3 DEF Items
    <2> QED BY <2>1, <2>2, <2>3, <2>4
  <1>7. items \subseteq Items(all, s)
    <2> SUFFICES ASSUME NEW i \in items PROVE i \in Items(all, s) OBVIOUS
    <2>1. CASE i \in Items(there, s) BY <2>1 DEF Items
    <2>2. CASE i \notin Items(there, s) BY <2>2, <1>4 DEF Items
    <2> QED BY <2>1, <2>2
  <1>8. \A t \in Section : Items(there, t) \subseteq Items(all, t)
    BY DEF Items
  <1>9. all \in SUBSET Entry /\ there \subseteq all /\ \A e \in all : e \in there \/ e.stamp = {"pull", "job"}
    BY <1>3
  <1> QED BY <1>1, <1>6, <1>7, <1>8, <1>9

(* One field of an entry or of a row changes within its type.              *)
LEMMA Changed ==
    /\ \A e \in Entry, x \in SUBSET {"pull", "job"} :
          LET d == [e EXCEPT !.stamp = x] IN
          d \in Entry /\ d.sec = e.sec /\ d.item = e.item /\ d.hidden = e.hidden /\ d.stamp = x
    /\ \A e \in Entry, x \in BOOLEAN :
          LET d == [e EXCEPT !.hidden = x] IN
          d \in Entry /\ d.sec = e.sec /\ d.item = e.item /\ d.hidden = x /\ d.stamp = e.stamp
    /\ \A r \in Row, x \in SUBSET {"push", "lists", "job"} :
          LET q == [r EXCEPT !.added = x] IN
          q \in Row /\ q.sec = r.sec /\ q.item = r.item /\ q.ours = r.ours /\ q.linked = r.linked
            /\ q.added = x
    /\ \A r \in Row, x \in BOOLEAN :
          LET q == [r EXCEPT !.linked = x] IN
          q \in Row /\ q.sec = r.sec /\ q.item = r.item /\ q.ours = r.ours /\ q.linked = x
            /\ q.added = r.added
  BY DEF Entry, Row

(* What a pull imports from section s: rows that did not come from here.    *)
LEMMA Imports ==
    ASSUME NEW s \in Section, NEW items \in SUBSET Item
    PROVE  /\ Imported(s, items) \in SUBSET Row
           /\ \A r \in Imported(s, items) :
                 /\ r.sec = s /\ r.item \in items /\ ~r.ours /\ r.added = Now
                 /\ s = "comments" => r.linked
           /\ \A i \in items : \E r \in Imported(s, items) : r.sec = s /\ r.item = i
  <1> DEFINE made(i) == [sec |-> s, item |-> i, ours |-> FALSE, linked |-> s = "comments", added |-> Now]
             new == {made(i) : i \in items}
  <1>1. Imported(s, items) = new
    BY DEF Imported
  <1>2. (s = "comments") \in BOOLEAN /\ Now \in SUBSET {"push", "lists", "job"}
    BY DEF Now
  <1>3. ASSUME NEW i \in Item
        PROVE  /\ made(i) \in Row
               /\ made(i).sec = s /\ made(i).item = i /\ ~made(i).ours /\ made(i).added = Now
               /\ (s = "comments") => made(i).linked
    BY <1>2 DEF Row
  <1> HIDE DEF made
  <1>4. new \in SUBSET Row
    BY <1>3
  <1>5. ASSUME NEW r \in new
        PROVE  /\ r.sec = s /\ r.item \in items /\ ~r.ours /\ r.added = Now
               /\ (s = "comments") => r.linked
    <2>1. PICK i \in items : r = made(i)
      OBVIOUS
    <2> QED BY <2>1, <1>3
  <1>6. \A i \in items : \E r \in new : r.sec = s /\ r.item = i
    BY <1>3
  <1> HIDE DEF new
  <1> QED BY <1>1, <1>4, <1>5, <1>6

(* What a pull's feed answers are items WeTrakr has.                       *)
LEMMA FeedItems ==
    ASSUME TypeOK, NEW s \in Section
    PROVE  Feed(s) \subseteq Items(theirs, s) /\ Feed(s) \in SUBSET Item
  <1>1. Feed(s) \subseteq Items(theirs, s)
    BY DEF Feed, Items, Visible
  <1>2. Items(theirs, s) \in SUBSET Item
    BY DEF TypeOK, Items, Entry
  <1> QED BY <1>1, <1>2

(* A row with another moment is a row, of the same item.                   *)
Put(r, x) == [r EXCEPT !.added = x]

LEMMA Putting ==
    ASSUME NEW r \in Row, NEW x \in SUBSET Now
    PROVE  /\ Put(r, x) \in Row
           /\ Put(r, x).sec = r.sec /\ Put(r, x).item = r.item /\ Put(r, x).ours = r.ours
           /\ Put(r, x).linked = r.linked /\ Put(r, x).added = x
  BY Changed DEF Put, Now

(* A push takes the time; a bookmark moves to it: the rows are those there were. *)
LEMMA PushRows ==
    /\ PushStart => /\ mine' = {Put(r, r.added \ {"job"}) : r \in mine}
                    /\ open' = {Put(r, r.added \ {"job"}) : r \in open}
    /\ \A r : Moved(r, Bookmarks) =
                Put(r, IF "job" \in r.added THEN r.added \cup Bookmarks ELSE r.added \ Bookmarks)
    /\ Bookmarks \subseteq {"push", "lists"}
  BY DEF PushStart, Put, Moved, Bookmarks

(* A row keeps its item and where it came from under a new moment.         *)
Same(q, r) == q.sec = r.sec /\ q.item = r.item /\ q.ours = r.ours /\ q.linked = r.linked

(* A set of rows, each with a moment that is one of its own.                *)
LEMMA Restamped ==
    ASSUME NEW rows \in SUBSET Row, NEW to \in [rows -> SUBSET Now]
    PROVE  LET new == {Put(r, to[r]) : r \in rows} IN
           /\ new \in SUBSET Row
           /\ \A q \in new : \E r \in rows : q = Put(r, to[r]) /\ Same(q, r) /\ q.added = to[r]
           /\ \A r \in rows : \E q \in new : q = Put(r, to[r]) /\ Same(q, r) /\ q.added = to[r]
           /\ \A s \in Section : Items(new, s) = Items(rows, s)
  <1>1. ASSUME NEW r \in rows
        PROVE  Put(r, to[r]) \in Row /\ Same(Put(r, to[r]), r) /\ Put(r, to[r]).added = to[r]
    BY Putting DEF Same
  <1> DEFINE new == {Put(r, to[r]) : r \in rows}
  <1>2. new \in SUBSET Row
    BY <1>1
  <1>3. \A q \in new : \E r \in rows : q = Put(r, to[r]) /\ Same(q, r) /\ q.added = to[r]
    BY <1>1
  <1>4. \A r \in rows : \E q \in new : q = Put(r, to[r]) /\ Same(q, r) /\ q.added = to[r]
    BY <1>1
  <1> HIDE DEF new
  <1>5. \A s \in Section : Items(new, s) = Items(rows, s)
    BY <1>3, <1>4 DEF Items, Same
  <1> QED BY <1>2, <1>3, <1>4, <1>5 DEF new

(* The entries a bookmark moves over, or a pull's time is set on.           *)
Mark(e, x) == [e EXCEPT !.stamp = x]

LEMMA Marking ==
    ASSUME NEW there \in SUBSET Entry, NEW to \in [there -> SUBSET {"pull", "job"}]
    PROVE  LET new == {Mark(e, to[e]) : e \in there} IN
           /\ new \in SUBSET Entry
           /\ \A d \in new : \E e \in there :
                 /\ d = Mark(e, to[e]) /\ d.sec = e.sec /\ d.item = e.item /\ d.hidden = e.hidden
                 /\ d.stamp = to[e]
           /\ Apart(there) => Apart(new)
           /\ \A s \in Section : Items(new, s) = Items(there, s)
  <1>1. ASSUME NEW e \in there
        PROVE  LET d == Mark(e, to[e]) IN
               /\ d \in Entry /\ d.sec = e.sec /\ d.item = e.item /\ d.hidden = e.hidden
               /\ d.stamp = to[e]
    BY Changed DEF Mark
  <1> DEFINE new == {Mark(e, to[e]) : e \in there}
  <1>2. new \in SUBSET Entry
    BY <1>1
  <1>3. \A d \in new : \E e \in there :
            /\ d = Mark(e, to[e]) /\ d.sec = e.sec /\ d.item = e.item /\ d.hidden = e.hidden
            /\ d.stamp = to[e]
    BY <1>1
  <1>4. \A e \in there : \E d \in new : d.sec = e.sec /\ d.item = e.item
    BY <1>1
  <1> HIDE DEF new
  <1>5. Apart(there) => Apart(new)
    BY <1>3 DEF Apart
  <1>6. \A s \in Section : Items(new, s) = Items(there, s)
    BY <1>3, <1>4 DEF Items
  <1> QED BY <1>2, <1>3, <1>5, <1>6 DEF new

(* A job is none, a pull or a push.                                        *)
LEMMA Jobs ==
    ASSUME TypeOK
    PROVE  /\ job.kind = "pull" => job \in PullJob
           /\ job.kind = "push" => job \in PushJob
           /\ job = NoJob => job.kind # "pull" /\ job.kind # "push"
  BY DEF TypeOK, NoJob, PullJob, PushJob

-----------------------------------------------------------------------------
(* What the jobs do to the rows and the entries.                           *)

(* An entry of afterwards is one of before, with a moment of its own.      *)
From(d, e) == d.sec = e.sec /\ d.item = e.item /\ d.hidden = e.hidden

(* A pull that begins takes the time: what is hidden is later than it.     *)
LEMMA PullStartThere ==
    ASSUME TypeOK, NEW full, NEW answered, NEW blocked, PullStart(full, answered, blocked),
           job' # job
    PROVE  /\ theirs' \in SUBSET Entry /\ Apart(theirs')
           /\ \A d \in theirs' : \E e \in theirs :
                 /\ From(d, e)
                 /\ d.stamp = IF e.hidden THEN e.stamp \cup {"job"} ELSE e.stamp \ {"job"}
           /\ \A s \in Section : Items(theirs', s) = Items(theirs, s)
  <1> DEFINE to == [e \in theirs |-> IF e.hidden THEN e.stamp \cup {"job"} ELSE e.stamp \ {"job"}]
             new == {Mark(e, to[e]) : e \in theirs}
  <1>1. theirs \in SUBSET Entry /\ Apart(theirs)
    BY DEF TypeOK, Apart
  <1>2. to \in [theirs -> SUBSET {"pull", "job"}]
    <2>1. \A e \in theirs : e.stamp \in SUBSET {"pull", "job"}
      BY <1>1 DEF Entry
    <2> QED BY <2>1
  <1>3. theirs' = new
    BY DEF PullStart, Mark
  <1>4. /\ new \in SUBSET Entry
        /\ \A d \in new : \E e \in theirs : From(d, e) /\ d.stamp = to[e]
        /\ Apart(theirs) => Apart(new)
        /\ \A s \in Section : Items(new, s) = Items(theirs, s)
    <2> HIDE DEF to
    <2> QED BY <1>1, <1>2, Marking DEF From
  <1>5. \A d \in new : \E e \in theirs :
            From(d, e) /\ d.stamp = IF e.hidden THEN e.stamp \cup {"job"} ELSE e.stamp \ {"job"}
    <2> SUFFICES ASSUME NEW d \in new
                 PROVE  \E e \in theirs :
                          /\ From(d, e)
                          /\ d.stamp = IF e.hidden THEN e.stamp \cup {"job"} ELSE e.stamp \ {"job"}
      OBVIOUS
    <2>1. PICK e \in theirs : From(d, e) /\ d.stamp = to[e]
      BY <1>4
    <2> QED BY <2>1
  <1> HIDE DEF new
  <1> QED BY <1>1, <1>3, <1>4, <1>5

(* A pull that ends may move the bookmark to its time.                     *)
LEMMA PullEndThere ==
    ASSUME TypeOK, PullEnd
    PROVE  /\ theirs' \in SUBSET Entry /\ Apart(theirs')
           /\ \A d \in theirs' : \E e \in theirs :
                 /\ From(d, e)
                 /\ d.stamp = IF job.stamped /\ ~job.errors
                              THEN IF "job" \in e.stamp THEN {"pull", "job"} ELSE {}
                              ELSE e.stamp
           /\ \A s \in Section : Items(theirs', s) = Items(theirs, s)
  <1> DEFINE to == [e \in theirs |-> IF "job" \in e.stamp THEN {"pull", "job"} ELSE {}]
             new == {Mark(e, to[e]) : e \in theirs}
  <1>1. theirs \in SUBSET Entry /\ Apart(theirs)
    BY DEF TypeOK, Apart
  <1>2. CASE job.stamped /\ ~job.errors
    <2>1. theirs' = new
      BY <1>2 DEF PullEnd, Mark
    <2>2. to \in [theirs -> SUBSET {"pull", "job"}]
      OBVIOUS
    <2>3. /\ new \in SUBSET Entry
          /\ \A d \in new : \E e \in theirs : From(d, e) /\ d.stamp = to[e]
          /\ Apart(theirs) => Apart(new)
          /\ \A s \in Section : Items(new, s) = Items(theirs, s)
      <3> HIDE DEF to
      <3> QED BY <1>1, <2>2, Marking DEF From
    <2>4. \A d \in new : \E e \in theirs :
             From(d, e) /\ d.stamp = IF "job" \in e.stamp THEN {"pull", "job"} ELSE {}
      <3> SUFFICES ASSUME NEW d \in new
                   PROVE  \E e \in theirs :
                            From(d, e) /\ d.stamp = IF "job" \in e.stamp THEN {"pull", "job"} ELSE {}
        OBVIOUS
      <3>1. PICK e \in theirs : From(d, e) /\ d.stamp = to[e]
        BY <2>3
      <3> QED BY <3>1
    <2> HIDE DEF new
    <2> QED BY <1>1, <1>2, <2>1, <2>3, <2>4
  <1>3. CASE ~(job.stamped /\ ~job.errors)
    BY <1>1, <1>3 DEF PullEnd, From
  <1> QED BY <1>2, <1>3

(* WeTrakr's journal becomes visible.                                      *)
LEMMA AppearThere ==
    ASSUME TypeOK, Appear
    PROVE  /\ theirs' \in SUBSET Entry /\ Apart(theirs')
           /\ \A d \in theirs' : \E e \in theirs :
                 d.sec = e.sec /\ d.item = e.item /\ d.stamp = e.stamp /\ ~d.hidden
           /\ \A s \in Section : Items(theirs', s) = Items(theirs, s)
  <1> DEFINE show(e) == [e EXCEPT !.hidden = FALSE]
             new == {show(e) : e \in theirs}
  <1>1. theirs \in SUBSET Entry /\ Apart(theirs)
    BY DEF TypeOK, Apart
  <1>2. theirs' = new
    BY DEF Appear
  <1>3. ASSUME NEW e \in theirs
        PROVE  /\ show(e) \in Entry /\ show(e).sec = e.sec /\ show(e).item = e.item
               /\ ~show(e).hidden /\ show(e).stamp = e.stamp
    BY <1>1, Changed
  <1> HIDE DEF show
  <1>4. new \in SUBSET Entry
    BY <1>3
  <1>5. \A d \in new : \E e \in theirs : d = show(e) /\ d.sec = e.sec /\ d.item = e.item /\ d.stamp = e.stamp /\ ~d.hidden
    BY <1>3
  <1>6. \A e \in theirs : \E d \in new : d.sec = e.sec /\ d.item = e.item
    BY <1>3
  <1> HIDE DEF new
  <1>7. Apart(new) /\ \A s \in Section : Items(new, s) = Items(theirs, s)
    BY <1>1, <1>5, <1>6 DEF Apart, Items
  <1> QED BY <1>2, <1>4, <1>5, <1>7

(* Something is marked at WeTrakr: what was there stays.                   *)
LEMMA WriteThereThere ==
    ASSUME TypeOK, NEW s \in Section, NEW i \in Item, WriteThere(s, i)
    PROVE  /\ theirs' \in SUBSET Entry /\ Apart(theirs')
           /\ \A e \in theirs' : e \in theirs \/ e.stamp = {"pull", "job"}
           /\ \A t \in Section : Items(theirs, t) \subseteq Items(theirs', t)
  <1> DEFINE rest == {e \in theirs : e.sec # s \/ e.item # i}
  <1>1. theirs \in SUBSET Entry /\ Apart(theirs)
    BY DEF TypeOK, Apart
  <1>2. rest \in SUBSET Entry /\ Apart(rest) /\ rest \subseteq theirs
    BY <1>1 DEF Apart
  <1>3. theirs' = Told(rest, s, {i}) /\ {i} \in SUBSET Item
    BY DEF WriteThere
  <1>4. \A e \in theirs : e \in rest \/ (e.sec = s /\ e.item = i)
    OBVIOUS
  <1> HIDE DEF rest
  <1>5. /\ theirs' \in SUBSET Entry /\ Apart(theirs') /\ rest \subseteq theirs'
        /\ \A e \in theirs' : e \in rest \/ e.stamp = {"pull", "job"}
        /\ {i} \subseteq Items(theirs', s)
    BY <1>2, <1>3, Telling
  <1>6. ASSUME NEW t \in Section, NEW x \in Items(theirs, t) PROVE x \in Items(theirs', t)
    <2>1. PICK e \in theirs : e.sec = t /\ e.item = x
      BY DEF Items
    <2>2. CASE e \in rest
      BY <2>1, <2>2, <1>5 DEF Items
    <2>3. CASE e.sec = s /\ e.item = i
      BY <2>1, <2>3, <1>5
    <2> QED BY <2>2, <2>3, <1>4
  <1> QED BY <1>2, <1>5, <1>6

(* A step after which WeTrakr has what it had, and what is new is later than *)
(* every bookmark.                                                         *)
Adds ==
    /\ theirs' \in SUBSET Entry /\ Apart(theirs')
    /\ theirs \subseteq theirs'
    /\ \A e \in theirs' : e \in theirs \/ e.stamp = {"pull", "job"}
    /\ \A t \in Section : Items(theirs, t) \subseteq Items(theirs', t)

(* Nothing told leaves things as they are; something told adds.            *)
LEMMA AddsNothing ==
    ASSUME TypeOK, theirs' = theirs
    PROVE  Adds
  BY DEF TypeOK, Apart, Adds

LEMMA AddsTold ==
    ASSUME TypeOK, NEW s \in Section, NEW items \in SUBSET Item, theirs' = Told(theirs, s, items)
    PROVE  Adds /\ items \subseteq Items(theirs', s)
  <1>1. theirs \in SUBSET Entry /\ Apart(theirs)
    BY DEF TypeOK, Apart
  <1> QED BY <1>1, Telling DEF Adds

(* The plays and ratings of a plan.                                        *)
Planned(ok, s) == {p[2] : p \in {q \in ok : q[1] = s}}

LEMMA PushCoreThere ==
    ASSUME TypeOK, NEW ok, NEW quota, PushCore(ok, quota)
    PROVE  /\ Adds
           /\ \A s \in Core : Planned(ok, s) \subseteq Items(theirs', s)
  <1> DEFINE plays == Planned(ok, "watched")
             rates == Planned(ok, "ratings")
             one == Told(theirs, "watched", plays)
             two == Told(one, "ratings", rates)
  <1>1. theirs' = two
    BY DEF PushCore, Planned
  <1>2. plays \in SUBSET Item /\ rates \in SUBSET Item
    <2>1. ok \subseteq Section \X Item
      BY Jobs DEF PushCore, PushJob
    <2> QED BY <2>1 DEF Planned
  <1>3. theirs \in SUBSET Entry /\ Apart(theirs) /\ "watched" \in Section /\ "ratings" \in Section
    BY DEF TypeOK, Apart, Section
  <1> HIDE DEF plays, rates
  <1>4. /\ one \in SUBSET Entry /\ Apart(one) /\ theirs \subseteq one
        /\ \A e \in one : e \in theirs \/ e.stamp = {"pull", "job"}
        /\ plays \subseteq Items(one, "watched")
        /\ \A t \in Section : Items(theirs, t) \subseteq Items(one, t)
    BY <1>2, <1>3, Telling
  <1> HIDE DEF one
  <1>5. /\ two \in SUBSET Entry /\ Apart(two) /\ one \subseteq two
        /\ \A e \in two : e \in one \/ e.stamp = {"pull", "job"}
        /\ rates \subseteq Items(two, "ratings")
        /\ \A t \in Section : Items(one, t) \subseteq Items(two, t)
    BY <1>2, <1>3, <1>4, Telling
  <1> HIDE DEF two
  <1>6. Adds
    BY <1>1, <1>4, <1>5 DEF Adds
  <1>7. plays \subseteq Items(theirs', "watched") /\ rates \subseteq Items(theirs', "ratings")
    BY <1>1, <1>3, <1>4, <1>5
  <1> QED BY <1>6, <1>7 DEF Core, plays, rates

(* A push's lists, if they are sent, are there.                            *)
LEMMA PushListsThere ==
    ASSUME TypeOK, NEW ok, PushLists(ok)
    PROVE  /\ Adds
           /\ "lists" \in job.flags /\ ListChanged /\ ok => Items(mine, "lists") \subseteq Items(theirs', "lists")
  <1>1. Items(mine, "lists") \in SUBSET Item /\ "lists" \in Section
    BY DEF TypeOK, Items, Row, Section
  <1>2. CASE "lists" \in job.flags /\ ListChanged /\ ok
    <2>1. theirs' = Told(theirs, "lists", Items(mine, "lists"))
      BY <1>2 DEF PushLists
    <2> QED BY <1>1, <2>1, AddsTold
  <1>3. CASE ~("lists" \in job.flags /\ ListChanged /\ ok)
    <2>1. theirs' = theirs
      BY <1>3 DEF PushLists
    <2> QED BY <1>3, <2>1, AddsNothing
  <1> QED BY <1>2, <1>3

(* Every other step but an import's or a bookmark's leaves what is there.  *)
LEMMA CommentThere ==
    ASSUME TypeOK, NEW r, NEW outcome, PushComment(r, outcome)
    PROVE  Adds
  <1>1. {r.item} \in SUBSET Item /\ "comments" \in Section
    BY DEF TypeOK, PushComment, Row, Section
  <1>2. CASE outcome = "failed"
    BY <1>2, AddsNothing DEF PushComment
  <1>3. CASE outcome # "failed"
    BY <1>1, <1>3, AddsTold DEF PushComment
  <1> QED BY <1>2, <1>3

LEMMA CommitThere ==
    ASSUME TypeOK, NEW r, NEW live, Commit(r, live)
    PROVE  Adds
  <1>1. {r.item} \in SUBSET Item /\ r.sec \in Section
    BY DEF TypeOK, Commit, Row
  <1>2. CASE ~live
    BY <1>2, AddsNothing DEF Commit
  <1>3. CASE live
    BY <1>1, <1>3, AddsTold DEF Commit
  <1> QED BY <1>2, <1>3

-----------------------------------------------------------------------------
(* What they do to the rows.                                               *)

(* The rows of afterwards are those of before, but for their moments.      *)
Kept(new, old) ==
    /\ new \in SUBSET Row
    /\ \A s \in Section : Items(new, s) = Items(old, s)

(* A push that begins: no row is later than the time it took.              *)
LEMMA PushStartRows ==
    ASSUME TypeOK, PushStart
    PROVE  /\ Kept(mine', mine) /\ Kept(open', open)
           /\ \A q \in mine' : \E r \in mine : q = Put(r, r.added \ {"job"}) /\ Same(q, r)
                                                 /\ q.added = r.added \ {"job"}
           /\ \A q \in open' : \E r \in open : q = Put(r, r.added \ {"job"}) /\ Same(q, r)
                                                 /\ q.added = r.added \ {"job"}
  <1>1. /\ mine' = {Put(r, r.added \ {"job"}) : r \in mine}
        /\ open' = {Put(r, r.added \ {"job"}) : r \in open}
    BY PushRows
  <1>2. mine \in SUBSET Row /\ open \in SUBSET Row
    BY DEF TypeOK
  <1>3. ASSUME NEW rows \in SUBSET Row
        PROVE  LET new == {Put(r, r.added \ {"job"}) : r \in rows} IN
               /\ Kept(new, rows)
               /\ \A q \in new : \E r \in rows : q = Put(r, r.added \ {"job"}) /\ Same(q, r)
                                                   /\ q.added = r.added \ {"job"}
    <2> DEFINE to == [r \in rows |-> r.added \ {"job"}]
               new == {Put(r, to[r]) : r \in rows}
    <2>1. to \in [rows -> SUBSET Now]
      <3>1. \A r \in rows : r.added \in SUBSET Now
        BY DEF Row, Now
      <3> QED BY <3>1
    <2>2. {Put(r, r.added \ {"job"}) : r \in rows} = new
      OBVIOUS
    <2>3. /\ new \in SUBSET Row
          /\ \A q \in new : \E r \in rows : q = Put(r, to[r]) /\ Same(q, r) /\ q.added = to[r]
          /\ \A s \in Section : Items(new, s) = Items(rows, s)
      <3> HIDE DEF to
      <3> QED BY <2>1, Restamped
    <2>4. ASSUME NEW q \in new
          PROVE  \E r \in rows : q = Put(r, r.added \ {"job"}) /\ Same(q, r) /\ q.added = r.added \ {"job"}
      <3>1. PICK r \in rows : q = Put(r, to[r]) /\ Same(q, r) /\ q.added = to[r]
        BY <2>3
      <3> QED BY <3>1
    <2> HIDE DEF new
    <2> QED BY <2>2, <2>3, <2>4 DEF Kept
  <1> QED BY <1>1, <1>2, <1>3

(* A push that ends: what is later than its time is later than the bookmarks that *)
(* moved to it.                                                            *)
Ended(r) == IF "job" \in r.added THEN r.added \cup Bookmarks ELSE r.added \ Bookmarks

LEMMA PushEndRows ==
    ASSUME TypeOK, PushEnd
    PROVE  /\ Kept(mine', mine) /\ Kept(open', open)
           /\ \A q \in mine' : \E r \in mine : q = Put(r, Ended(r)) /\ Same(q, r) /\ q.added = Ended(r)
           /\ \A q \in open' : \E r \in open : q = Put(r, Ended(r)) /\ Same(q, r) /\ q.added = Ended(r)
  <1>1. /\ mine' = {Put(r, Ended(r)) : r \in mine}
        /\ open' = {Put(r, Ended(r)) : r \in open}
    BY ZenonT(40), PushRows DEF PushEnd, Ended
  <1>2. mine \in SUBSET Row /\ open \in SUBSET Row
    BY DEF TypeOK
  <1>3. ASSUME NEW rows \in SUBSET Row
        PROVE  LET new == {Put(r, Ended(r)) : r \in rows} IN
               /\ Kept(new, rows)
               /\ \A q \in new : \E r \in rows : q = Put(r, Ended(r)) /\ Same(q, r) /\ q.added = Ended(r)
    <2> DEFINE to == [r \in rows |-> Ended(r)]
               new == {Put(r, to[r]) : r \in rows}
    <2>1. to \in [rows -> SUBSET Now]
      <3>1. \A r \in rows : r.added \in SUBSET Now
        BY DEF Row, Now
      <3>2. \A r \in rows : Ended(r) \in SUBSET Now
        BY <3>1, PushRows DEF Ended, Now
      <3> QED BY <3>2
    <2>2. {Put(r, Ended(r)) : r \in rows} = new
      OBVIOUS
    <2>3. /\ new \in SUBSET Row
          /\ \A q \in new : \E r \in rows : q = Put(r, to[r]) /\ Same(q, r) /\ q.added = to[r]
          /\ \A s \in Section : Items(new, s) = Items(rows, s)
      <3> HIDE DEF to
      <3> QED BY <2>1, Restamped
    <2>4. ASSUME NEW q \in new
          PROVE  \E r \in rows : q = Put(r, Ended(r)) /\ Same(q, r) /\ q.added = Ended(r)
      <3>1. PICK r \in rows : q = Put(r, to[r]) /\ Same(q, r) /\ q.added = to[r]
        BY <2>3
      <3> QED BY <3>1
    <2> HIDE DEF new
    <2> QED BY <2>2, <2>3, <2>4 DEF Kept
  <1> QED BY <1>1, <1>2, <1>3

(* A section of a pull: what it imports, and that the items it could are here: a *)
(* play the job knew when it began may have been taken back.               *)
LEMMA PullSectionRows ==
    ASSUME TypeOK, NEW ok, PullSection(ok)
    PROVE  LET s == Order[job.stage] IN
           /\ s \in Section /\ ok \in SUBSET Item /\ ok \subseteq Feed(s)
           /\ \E new \in SUBSET Row :
                /\ mine' = mine \cup new
                /\ \A r \in new : /\ r.sec = s /\ r.item \in ok /\ ~r.ours /\ r.added = Now
                                  /\ s = "comments" => r.linked
           /\ \A i \in ok : i \in Items(mine', s) \/ (s = "watched" /\ i \in job.known)
  <1> DEFINE s == Order[job.stage]
  <1>1. job \in PullJob /\ job.stage \in 1..4
    BY Jobs DEF PullSection, PullJob
  <1>2. s \in Section
    BY <1>1, Sections
  <1>3. ok \subseteq Feed(s) /\ ok \in SUBSET Item
    <2>1. ok \subseteq Feed(s)
      BY DEF PullSection
    <2>2. Feed(s) \in SUBSET Item
      BY <1>2, FeedItems
    <2> QED BY <2>1, <2>2
  <1>4. mine' = mine \cup CASE s = "watched" -> WatchedIn(ok)
                            [] s = "ratings" -> RatingsIn(ok)
                            [] s = "lists" -> ListItemsIn(ok)
                            [] s = "comments" -> CommentsIn(ok)
    BY DEF PullSection
  <1> HIDE DEF s
  <1>5. \E there : /\ mine' = mine \cup Imported(s, ok \ there)
                   /\ there = IF s = "watched" THEN job.known ELSE Items(mine, s)
    <2>1. CASE s = "watched" BY <1>4, <2>1 DEF WatchedIn
    <2>2. CASE s = "ratings" BY <1>4, <2>2 DEF RatingsIn
    <2>3. CASE s = "lists" BY <1>4, <2>3 DEF ListItemsIn
    <2>4. CASE s = "comments" BY <1>4, <2>4 DEF CommentsIn
    <2> QED BY <1>2, <2>1, <2>2, <2>3, <2>4 DEF Section
  <1>6. PICK there : /\ mine' = mine \cup Imported(s, ok \ there)
                     /\ there = IF s = "watched" THEN job.known ELSE Items(mine, s)
    BY <1>5
  <1> DEFINE new == Imported(s, ok \ there)
  <1>7. /\ new \in SUBSET Row
        /\ \A r \in new : /\ r.sec = s /\ r.item \in ok \ there /\ ~r.ours /\ r.added = Now
                          /\ s = "comments" => r.linked
        /\ \A i \in ok \ there : \E r \in new : r.sec = s /\ r.item = i
    <2>1. ok \ there \in SUBSET Item
      BY <1>3
    <2> QED BY <1>2, <2>1, Imports
  <1> HIDE DEF new
  <1>8. ASSUME NEW i \in ok PROVE i \in Items(mine', s) \/ (s = "watched" /\ i \in job.known)
    <2>1. mine' = mine \cup new
      BY <1>6 DEF new
    <2>2. CASE i \notin there BY <1>7, <2>1, <2>2 DEF Items
    <2>3. CASE i \in there /\ s = "watched" BY <1>6, <2>3
    <2>4. CASE i \in there /\ s # "watched" BY <1>6, <2>1, <2>4 DEF Items
    <2> QED BY <2>2, <2>3, <2>4
  <1>9. mine' = mine \cup new
    BY <1>6 DEF new
  <1> QED BY <1>2, <1>3, <1>7, <1>8, <1>9 DEF s

-----------------------------------------------------------------------------
(* Jobs.                                                                   *)

(* What a pull is when it begins.                                          *)
LEMMA PullStartJob ==
    ASSUME TypeOK, NEW full \in BOOLEAN, NEW answered \in BOOLEAN, NEW blocked \in BOOLEAN,
           PullStart(full, answered, blocked), job' # job
    PROVE  LET after == IF full THEN marked \ {"pull"} ELSE marked
               news(e) == "pull" \notin after \/ "pull" \in e.stamp
               changed == {s \in pulling : ~answered \/ \E e \in theirs : e.sec = s /\ news(e)}
               read == IF blocked THEN changed \ {"comments"} ELSE changed
           IN
           /\ job' \in PullJob
           /\ job'.stage = Stage(1, read) /\ job'.flags = read /\ job'.stamped = answered
           /\ ~job'.errors /\ job'.all = ("pull" \notin after) /\ job'.known = Items(mine, "watched")
           /\ marked' = after
           /\ excused' = excused \cup (IF blocked THEN {<<"pull", "comments", i>> : i \in Item} ELSE {})
  <1> DEFINE after == IF full THEN marked \ {"pull"} ELSE marked
             news(e) == "pull" \notin after \/ "pull" \in e.stamp
             changed == {s \in pulling : ~answered \/ \E e \in theirs : e.sec = s /\ news(e)}
             read == IF blocked THEN changed \ {"comments"} ELSE changed
             all == "pull" \notin after
             known == Items(mine, "watched")
             k == Stage(1, read)
  <1>1. /\ job' = [kind |-> "pull", stage |-> k, flags |-> read, stamped |-> answered,
                   errors |-> FALSE, all |-> all, known |-> known]
        /\ marked' = after
        /\ excused' = excused \cup (IF blocked THEN {<<"pull", "comments", i>> : i \in Item} ELSE {})
    BY DEF PullStart
  <1>2. k \in 1..5
    BY NextStage
  <1>3. read \subseteq Section
    BY ConstantsAssumption DEF TypeOK
  <1>4. known \in SUBSET Item
    BY DEF TypeOK, Items, Row
  <1>5. all \in BOOLEAN
    OBVIOUS
  <1> HIDE DEF k, read, known, all
  <1>6. [kind |-> "pull", stage |-> k, flags |-> read, stamped |-> answered,
         errors |-> FALSE, all |-> all, known |-> known] \in PullJob
    BY <1>2, <1>3, <1>4, <1>5 DEF PullJob
  <1>7. job' \in PullJob
    BY <1>1, <1>6
  <1>8. /\ job'.stage = k /\ job'.flags = read /\ job'.stamped = answered /\ ~job'.errors
        /\ job'.all = all /\ job'.known = known
    BY <1>1
  <1> HIDE DEF after
  <1>9. marked' = after
    BY <1>1
  <1> QED BY <1>1, <1>7, <1>8, <1>9 DEF k, read, known, all, after

(* A pull goes on to the next section.                                     *)
LEMMA PullSectionJob ==
    ASSUME TypeOK, NEW ok, PullSection(ok)
    PROVE  LET s == Order[job.stage] IN
           /\ job \in PullJob /\ job.stage \in 1..4
           /\ job' \in PullJob
           /\ job'.stage = Stage(job.stage + 1, job.flags)
           /\ job'.errors = (job.errors \/ Counts(s, Feed(s) \ ok))
           /\ job'.flags = job.flags /\ job'.stamped = job.stamped /\ job'.all = job.all
           /\ job'.known = job.known
  <1> DEFINE s == Order[job.stage]
             k == Stage(job.stage + 1, job.flags)
             err == job.errors \/ Counts(s, Feed(s) \ ok)
             mid == [job EXCEPT !.stage = k]
             new == [mid EXCEPT !.errors = err]
  <1>1. job \in PullJob /\ job.stage \in 1..4
    BY Jobs DEF PullSection, PullJob
  <1>2. job' = new
    BY <1>1 DEF PullSection, PullJob
  <1>3. k \in 1..5
    <2>1. job.stage + 1 \in 1..5
      BY <1>1
    <2> QED BY <2>1, NextStage
  <1>4. err \in BOOLEAN
    BY <1>1 DEF PullJob, Counts
  <1> HIDE DEF k, err
  <1>5. /\ mid \in PullJob /\ mid.stage = k /\ mid.flags = job.flags /\ mid.stamped = job.stamped
        /\ mid.all = job.all /\ mid.known = job.known
    BY <1>1, <1>3 DEF PullJob
  <1> HIDE DEF mid
  <1>6. /\ new \in PullJob /\ new.errors = err /\ new.stage = mid.stage /\ new.flags = mid.flags
        /\ new.stamped = mid.stamped /\ new.all = mid.all /\ new.known = mid.known
    BY <1>4, <1>5 DEF PullJob
  <1> HIDE DEF new
  <1> QED BY <1>1, <1>2, <1>5, <1>6 DEF k, err

(* What a push is when it begins.                                          *)
LEMMA PushStartJob ==
    ASSUME TypeOK, PushStart
    PROVE  /\ job' \in PushJob /\ job'.stage = "core" /\ job'.flags = pushing /\ job'.plan = CorePlan
           /\ ~job'.listsDone
  <1>1. pushing \subseteq Section
    BY ConstantsAssumption DEF TypeOK
  <1>2. CorePlan \in SUBSET (Section \X Item)
    BY DEF TypeOK, CorePlan, Row
  <1> DEFINE new == [kind |-> "push", stage |-> "core", flags |-> pushing, plan |-> CorePlan,
                     coreFailed |-> FALSE, listsDone |-> FALSE, quota |-> FALSE, tried |-> {}]
  <1>3. job' = new
    BY DEF PushStart
  <1>4. new \in PushJob
    BY <1>1, <1>2 DEF PushJob
  <1> QED BY <1>3, <1>4

(* A push goes on: its plan and flags stay.                                *)
LEMMA PushCoreJob ==
    ASSUME TypeOK, NEW ok, NEW quota \in BOOLEAN, PushCore(ok, quota)
    PROVE  /\ job \in PushJob /\ job' \in PushJob
           /\ job'.stage # "core" /\ job'.coreFailed = (ok # job.plan)
           /\ job'.flags = job.flags /\ job'.plan = job.plan /\ job'.listsDone = job.listsDone
  <1> DEFINE stage == IF quota THEN "end" ELSE "lists"
             one == [job EXCEPT !.coreFailed = (ok # job.plan)]
             two == [one EXCEPT !.quota = quota]
             new == [two EXCEPT !.stage = stage]
  <1>1. job \in PushJob
    BY Jobs DEF PushCore
  <1>2. job' = new
    BY <1>1 DEF PushCore, PushJob
  <1>3. /\ one \in PushJob /\ one.coreFailed = (ok # job.plan)
        /\ one.flags = job.flags /\ one.plan = job.plan /\ one.listsDone = job.listsDone
    BY <1>1 DEF PushJob
  <1> HIDE DEF one
  <1>4. /\ two \in PushJob /\ two.coreFailed = one.coreFailed
        /\ two.flags = one.flags /\ two.plan = one.plan /\ two.listsDone = one.listsDone
    BY <1>3 DEF PushJob
  <1> HIDE DEF two
  <1>5. /\ new \in PushJob /\ new.stage # "core" /\ new.coreFailed = two.coreFailed
        /\ new.flags = two.flags /\ new.plan = two.plan /\ new.listsDone = two.listsDone
    BY <1>4 DEF PushJob
  <1> HIDE DEF new
  <1> QED BY <1>1, <1>2, <1>3, <1>4, <1>5

LEMMA PushListsJob ==
    ASSUME TypeOK, NEW ok \in BOOLEAN, PushLists(ok)
    PROVE  /\ job \in PushJob /\ job.stage = "lists" /\ job' \in PushJob /\ job'.stage = "comments"
           /\ job'.listsDone = ("lists" \in job.flags /\ (("lists" \in job.flags /\ ListChanged) => ok))
           /\ job'.flags = job.flags /\ job'.plan = job.plan /\ job'.coreFailed = job.coreFailed
  <1> DEFINE done == "lists" \in job.flags /\ (("lists" \in job.flags /\ ListChanged) => ok)
             mid == [job EXCEPT !.listsDone = done]
             new == [mid EXCEPT !.stage = "comments"]
  <1>1. job \in PushJob /\ job.stage = "lists"
    BY Jobs DEF PushLists
  <1>2. job' = new
    BY <1>1 DEF PushLists, PushJob
  <1>3. done \in BOOLEAN
    OBVIOUS
  <1> HIDE DEF done
  <1>4. /\ mid \in PushJob /\ mid.listsDone = done
        /\ mid.flags = job.flags /\ mid.plan = job.plan /\ mid.coreFailed = job.coreFailed
    BY <1>1, <1>3 DEF PushJob
  <1> HIDE DEF mid
  <1>5. /\ new \in PushJob /\ new.stage = "comments" /\ new.listsDone = mid.listsDone
        /\ new.flags = mid.flags /\ new.plan = mid.plan /\ new.coreFailed = mid.coreFailed
    BY <1>4 DEF PushJob
  <1> HIDE DEF new
  <1> QED BY <1>1, <1>2, <1>4, <1>5 DEF done

LEMMA PushCommentJob ==
    ASSUME TypeOK, NEW r, NEW outcome, PushComment(r, outcome)
    PROVE  /\ job \in PushJob /\ job' \in PushJob /\ job'.stage = job.stage
           /\ job'.flags = job.flags /\ job'.plan = job.plan /\ job'.coreFailed = job.coreFailed
           /\ job'.listsDone = job.listsDone
  <1>1. job \in PushJob
    BY Jobs DEF PushComment
  <1>2. job' = [job EXCEPT !.tried = job.tried \cup {r.item}]
    BY DEF PushComment
  <1>3. job.tried \cup {r.item} \in SUBSET Item
    BY <1>1 DEF PushJob, PushComment, TypeOK, Row
  <1> QED BY <1>1, <1>2, <1>3 DEF PushJob

-----------------------------------------------------------------------------
(* Types.                                                                  *)

(* The counters stay within their bounds.                                  *)
LEMMA Counting ==
    ASSUME TypeOK
    PROVE  /\ Change => changes' \in 0..MaxChanges
           /\ \A b \in BOOLEAN : Fail(b) => fails' \in 0..MaxFails /\ fails <= fails'
           /\ Fail(TRUE) => fails' = fails + 1
  <1> USE ConstantsAssumption DEF TypeOK
  <1>1. Change => changes' \in 0..MaxChanges
    BY DEF Change
  <1>2. \A b \in BOOLEAN : Fail(b) => fails' \in 0..MaxFails /\ fails <= fails'
    BY DEF Fail
  <1>3. Fail(TRUE) => fails' = fails + 1
    BY DEF Fail
  <1> QED BY <1>1, <1>2, <1>3

(* The user's own steps keep the types.                                    *)
LEMMA WriteType ==
    ASSUME TypeOK, NEW s \in Section, NEW i \in Item, NEW imported \in BOOLEAN, Write(s, i, imported)
    PROVE  TypeOK'
  <1> DEFINE x == IF imported THEN {} ELSE Now
             new == [sec |-> s, item |-> i, ours |-> TRUE, linked |-> FALSE, added |-> x]
  <1>1. new \in Row
    <2>1. x \in SUBSET {"push", "lists", "job"}
      BY DEF Now
    <2> HIDE DEF x
    <2> QED BY <2>1 DEF Row
  <1>2. open' = open \cup {new}
    BY DEF Write
  <1> HIDE DEF new
  <1>3. open' \in SUBSET Row
    BY <1>1, <1>2 DEF TypeOK
  <1>4. writes' \in [Item -> Nat]
    BY DEF TypeOK, Write
  <1>5. changes' \in 0..MaxChanges
    BY Counting DEF Write
  <1> QED BY <1>3, <1>4, <1>5 DEF TypeOK, Write, user

LEMMA CommitType ==
    ASSUME TypeOK, NEW r \in open, NEW live \in BOOLEAN, Commit(r, live)
    PROVE  TypeOK'
  <1>1. Adds
    BY CommitThere
  <1>2. r \in Row
    BY DEF TypeOK
  <1>3. mine' \in SUBSET Row /\ open' \in SUBSET Row
    BY <1>2 DEF TypeOK, Commit
  <1>4. excused' \subseteq {"pull", "push"} \X Section \X Item
    BY <1>2 DEF TypeOK, Commit, Row
  <1> QED BY <1>1, <1>3, <1>4 DEF TypeOK, Commit, user, Adds, Apart

LEMMA ForgetType ==
    ASSUME TypeOK, NEW r \in mine, Forget(r)
    PROVE  TypeOK'
  <1>1. r \in Row
    BY DEF TypeOK
  <1>2. excused' \subseteq {"pull", "push"} \X Section \X Item
    BY <1>1 DEF TypeOK, Forget, Row
  <1>3. changes' \in 0..MaxChanges
    BY Counting DEF Forget
  <1> QED BY <1>2, <1>3 DEF TypeOK, Forget, user

LEMMA WriteThereType ==
    ASSUME TypeOK, NEW s \in Section, NEW i \in Item, WriteThere(s, i)
    PROVE  TypeOK'
  <1>1. theirs' \in SUBSET Entry /\ Apart(theirs')
    BY WriteThereThere
  <1>2. changes' \in 0..MaxChanges
    BY Counting DEF WriteThere
  <1> QED BY <1>1, <1>2 DEF TypeOK, WriteThere, user, history, Apart

LEMMA SettingsType ==
    ASSUME TypeOK, NEW newPull \in {{}, secs}, NEW newPush \in Choices \cap SUBSET secs,
           Settings(newPull, newPush)
    PROVE  TypeOK'
  <1>1. changes' \in 0..MaxChanges
    BY Counting DEF Settings
  <1>2. raced' \in BOOLEAN
    BY DEF TypeOK, Settings
  <1>3. marked' \in SUBSET {"pull", "push", "lists"}
    BY DEF TypeOK, Settings
  <1> QED BY <1>1, <1>2, <1>3 DEF TypeOK, Settings, world

LEMMA ReconnectType ==
    ASSUME TypeOK, Reconnect
    PROVE  TypeOK'
  <1>1. changes' \in 0..MaxChanges
    BY Counting DEF Reconnect
  <1>2. raced' \in BOOLEAN
    BY DEF TypeOK, Reconnect
  <1> QED BY <1>1, <1>2 DEF TypeOK, Reconnect, world, user

LEMMA AppearType ==
    ASSUME TypeOK, Appear
    PROVE  TypeOK'
  <1>1. theirs' \in SUBSET Entry /\ Apart(theirs')
    BY AppearThere
  <1> QED BY <1>1 DEF TypeOK, Appear, user, history, Apart

(* The pull's steps keep the types.                                        *)
LEMMA PullStartType ==
    ASSUME TypeOK, NEW full \in BOOLEAN, NEW answered \in BOOLEAN, NEW blocked \in BOOLEAN,
           PullStart(full, answered, blocked)
    PROVE  TypeOK'
  <1>1. fails' \in 0..MaxFails /\ fails <= fails'
    <2>1. Fail(~answered \/ blocked)
      BY DEF PullStart
    <2>2. (~answered \/ blocked) \in BOOLEAN
      OBVIOUS
    <2> QED BY <2>1, <2>2, Counting
  <1>2. marked' \in SUBSET {"pull", "push", "lists"}
    BY DEF TypeOK, PullStart
  <1>3. lost' \in 0..fails'
    BY <1>1 DEF TypeOK, PullStart
  <1>4. CASE job' # job
    <2>1. theirs' \in SUBSET Entry /\ Apart(theirs')
      BY <1>4, PullStartThere
    <2>2. job' \in PullJob
      BY <1>4, PullStartJob
    <2>3. excused' \subseteq {"pull", "push"} \X Section \X Item
      <3>1. {<<"pull", "comments", i>> : i \in Item} \subseteq {"pull", "push"} \X Section \X Item
        BY DEF Section
      <3>2. excused' \subseteq excused \cup {<<"pull", "comments", i>> : i \in Item}
        BY DEF PullStart
      <3> QED BY <3>1, <3>2 DEF TypeOK
    <2> QED BY <1>1, <1>2, <1>3, <2>1, <2>2, <2>3 DEF TypeOK, PullStart, user, Apart
  <1>5. CASE job' = job
    <2>1. UNCHANGED <<theirs, job, excused>>
      <3>1. job' = job /\ job = NoJob
        BY <1>5 DEF PullStart
      <3>2. job'.kind # "pull"
        BY <3>1 DEF NoJob
      <3> QED BY <3>2 DEF PullStart
    <2> QED BY <1>1, <1>2, <1>3, <2>1 DEF TypeOK, PullStart, user
  <1> QED BY <1>4, <1>5

LEMMA PullSectionType ==
    ASSUME TypeOK, NEW ok, PullSection(ok)
    PROVE  TypeOK'
  <1> DEFINE s == Order[job.stage]
             failed == Feed(s) \ ok
  <1>1. s \in Section /\ failed \in SUBSET Item
    <2>1. s \in Section
      BY PullSectionRows
    <2> QED BY <2>1, FeedItems
  <1>2. fails' \in 0..MaxFails /\ fails <= fails'
    <2>1. Fail(failed # {})
      BY DEF PullSection
    <2> QED BY <2>1, Counting
  <1>3. mine' \in SUBSET Row
    BY PullSectionRows DEF TypeOK
  <1>4. job' \in PullJob
    BY PullSectionJob
  <1>5. excused' \subseteq {"pull", "push"} \X Section \X Item
    <2>1. excused' \subseteq excused \cup {<<"pull", s, i>> : i \in failed}
      BY DEF PullSection
    <2>2. {<<"pull", s, i>> : i \in failed} \subseteq {"pull", "push"} \X Section \X Item
      BY <1>1
    <2> QED BY <2>1, <2>2 DEF TypeOK
  <1>6. listed' \in BOOLEAN
    BY DEF TypeOK, PullSection
  <1>7. lost' \in 0..fails'
    BY <1>2 DEF TypeOK, PullSection
  <1> QED BY <1>2, <1>3, <1>4, <1>5, <1>6, <1>7 DEF TypeOK, PullSection, user

LEMMA PullEndType ==
    ASSUME TypeOK, PullEnd
    PROVE  TypeOK'
  <1>1. theirs' \in SUBSET Entry /\ Apart(theirs')
    BY PullEndThere
  <1>2. marked' \in SUBSET {"pull", "push", "lists"}
    BY DEF TypeOK, PullEnd
  <1> QED BY <1>1, <1>2 DEF TypeOK, PullEnd, user, history, Apart

(* The push's steps keep the types.                                        *)
LEMMA PushStartType ==
    ASSUME TypeOK, PushStart
    PROVE  TypeOK'
  <1>1. mine' \in SUBSET Row /\ open' \in SUBSET Row
    BY PushStartRows DEF Kept
  <1>2. job' \in PushJob
    BY PushStartJob
  <1> QED BY <1>1, <1>2 DEF TypeOK, PushStart, user, history

LEMMA PushCoreType ==
    ASSUME TypeOK, NEW ok, NEW quota \in BOOLEAN, PushCore(ok, quota)
    PROVE  TypeOK'
  <1>1. fails' \in 0..MaxFails /\ fails <= fails'
    BY Counting DEF PushCore
  <1>2. lost' \in 0..fails'
    BY <1>1 DEF TypeOK, PushCore, history
  <1>3. job' \in PushJob
    BY PushCoreJob
  <1>4. Adds
    BY PushCoreThere
  <1> QED BY <1>1, <1>2, <1>3, <1>4 DEF TypeOK, PushCore, user, history, Adds, Apart

LEMMA PushListsType ==
    ASSUME TypeOK, NEW ok \in BOOLEAN, PushLists(ok)
    PROVE  TypeOK'
  <1>1. fails' \in 0..MaxFails /\ fails <= fails'
    BY Counting DEF PushLists
  <1>2. lost' \in 0..fails'
    BY <1>1 DEF TypeOK, PushLists, history
  <1>3. job' \in PushJob
    BY PushListsJob
  <1>4. Adds
    BY PushListsThere
  <1>5. listed' \in BOOLEAN
    BY DEF TypeOK, PushLists
  <1> QED BY <1>1, <1>2, <1>3, <1>4, <1>5 DEF TypeOK, PushLists, user, history, Adds, Apart

LEMMA PushCommentType ==
    ASSUME TypeOK, NEW r \in mine, NEW outcome \in {"written", "failed", "lost"},
           PushComment(r, outcome)
    PROVE  TypeOK'
  <1>1. fails' \in 0..MaxFails /\ fails <= fails'
    <2>1. Fail(outcome # "written")
      BY DEF PushComment
    <2> QED BY <2>1, Counting
  <1>2. lost' \in 0..fails'
    <2>1. CASE outcome = "lost"
      <3>1. fails' = fails + 1
        BY <2>1, Counting DEF PushComment
      <3>2. lost' = lost + 1
        BY <2>1 DEF PushComment
      <3> QED BY <3>1, <3>2, ConstantsAssumption DEF TypeOK
    <2>2. CASE outcome # "lost"
      BY <1>1, <2>2 DEF TypeOK, PushComment
    <2> QED BY <2>1, <2>2
  <1>3. job' \in PushJob
    BY PushCommentJob
  <1>4. Adds
    BY CommentThere
  <1>5. mine' \in SUBSET Row
    <2>1. r \in Row
      BY DEF TypeOK
    <2>2. Linked(r) \in Row
      BY <2>1, Changed DEF Linked
    <2> QED BY <2>2 DEF TypeOK, PushComment
  <1>6. writes' \in [Item -> Nat]
    BY DEF TypeOK, PushComment, Row
  <1> QED BY <1>1, <1>2, <1>3, <1>4, <1>5, <1>6 DEF TypeOK, PushComment, user, Adds, Apart

LEMMA PushEndType ==
    ASSUME TypeOK, PushEnd
    PROVE  TypeOK'
  <1>1. mine' \in SUBSET Row /\ open' \in SUBSET Row
    BY PushEndRows DEF Kept
  <1>2. marked' \in SUBSET {"pull", "push", "lists"}
    BY PushRows DEF TypeOK, PushEnd
  <1> QED BY <1>1, <1>2 DEF TypeOK, PushEnd, user, history

LEMMA BreakType ==
    ASSUME TypeOK, Break
    PROVE  TypeOK'
  <1>1. fails' \in 0..MaxFails /\ fails <= fails'
    BY Counting DEF Break
  <1>2. lost' \in 0..fails'
    BY <1>1 DEF TypeOK, Break, history
  <1> QED BY <1>1, <1>2 DEF TypeOK, Break, user, world, history

LEMMA TypeInit == Init => TypeOK
  <1> SUFFICES ASSUME Init PROVE TypeOK
    OBVIOUS
  <1>1. 0 \in 0..MaxChanges /\ 0 \in 0..MaxFails /\ 0 \in 0..0
    BY ConstantsAssumption
  <1>2. writes \in [Item -> Nat]
    BY DEF Init
  <1>3. job \in {NoJob} \cup PullJob \cup PushJob
    BY DEF Init
  <1> QED BY <1>1, <1>2, <1>3 DEF Init, TypeOK

LEMMA TypeStep == TypeOK /\ [Next]_vars => TypeOK'
  <1> SUFFICES ASSUME TypeOK, [Next]_vars PROVE TypeOK'
    OBVIOUS
  <1>1. secs \subseteq Section
    BY ConstantsAssumption DEF TypeOK
  <1>2. ASSUME NEW s \in secs, NEW i \in Item, Write(s, i, FALSE) \/ Write(s, i, TRUE) \/ WriteThere(s, i)
        PROVE  TypeOK'
    BY <1>1, <1>2, WriteType, WriteThereType
  <1>3. ASSUME NEW r \in open, NEW live \in BOOLEAN, Commit(r, live) PROVE TypeOK'
    BY <1>3, CommitType
  <1>4. ASSUME NEW r \in mine, Forget(r) PROVE TypeOK'
    BY <1>4, ForgetType
  <1>5. ASSUME NEW newPull \in {{}, secs}, NEW newPush \in Choices \cap SUBSET secs,
               Settings(newPull, newPush)
        PROVE  TypeOK'
    BY <1>5, SettingsType
  <1>6. CASE Reconnect \/ Appear \/ Break
    BY <1>6, ReconnectType, AppearType, BreakType
  <1>7. ASSUME NEW full \in BOOLEAN, NEW answered \in BOOLEAN, NEW blocked \in BOOLEAN,
               PullStart(full, answered, blocked)
        PROVE  TypeOK'
    BY <1>7, PullStartType
  <1>8. ASSUME NEW ok \in SUBSET Item, PullSection(ok) PROVE TypeOK'
    BY <1>8, PullSectionType
  <1>9. CASE PullEnd \/ PushStart \/ PushEnd
    BY <1>9, PullEndType, PushStartType, PushEndType
  <1>10. ASSUME NEW ok \in SUBSET (Core \X Item), NEW quota \in BOOLEAN, PushCore(ok, quota)
         PROVE  TypeOK'
    BY <1>10, PushCoreType
  <1>11. ASSUME NEW ok \in BOOLEAN, PushLists(ok) PROVE TypeOK'
    BY <1>11, PushListsType
  <1>12. ASSUME NEW r \in mine, NEW outcome \in {"written", "failed", "lost"}, PushComment(r, outcome)
         PROVE  TypeOK'
    BY <1>12, PushCommentType
  <1>13. CASE UNCHANGED vars
    BY <1>13 DEF TypeOK, vars
  <1> QED
    BY <1>2, <1>3, <1>4, <1>5, <1>6, <1>7, <1>8, <1>9, <1>10, <1>11, <1>12, <1>13 DEF Next

(* Every variable has its type, and WeTrakr has nothing twice.             *)
THEOREM WeTrakrTypeCorrect == Spec => []TypeOK
  <1>1. Init => TypeOK BY TypeInit
  <1>2. TypeOK /\ [Next]_vars => TypeOK' BY TypeStep
  <1> QED BY <1>1, <1>2, PTL DEF Spec

-----------------------------------------------------------------------------
(* Comments.                                                               *)

(* A step that changes no comment's row and writes none.                   *)
LEMMA CommentsUnchanged ==
    ASSUME CInv, mine' = mine, open' = open, writes' = writes, lost' = lost
    PROVE  CInv'
  BY DEF CInv, WrittenOnce, CommentsApart, WritesOwed, NewComment

(* A comment is written here: only if there is none on the item, so it is the only *)
(* one without an id, and it was not sent yet.                             *)
LEMMA WriteComments ==
    ASSUME TypeOK, CInv, NEW s \in Section, NEW i \in Item, NEW imported \in BOOLEAN,
           Write(s, i, imported)
    PROVE  CInv'
  <1> DEFINE x == IF imported THEN {} ELSE Now
             new == [sec |-> s, item |-> i, ours |-> TRUE, linked |-> FALSE, added |-> x]
  <1>1. open' = open \cup {new} /\ mine' = mine /\ lost' = lost
    BY DEF Write
  <1>2. new.sec = s /\ new.item = i
    OBVIOUS
  <1>3. \A r \in mine \cup open : r.sec = s => r.item # i
    BY DEF Write, Items
  <1>4. writes' = IF s = "comments" THEN [writes EXCEPT ![i] = 0] ELSE writes
    BY DEF Write
  <1>5. writes \in [Item -> Nat] /\ lost \in Nat /\ mine \cup open \subseteq Row
    BY ConstantsAssumption DEF TypeOK
  <1> HIDE DEF new
  <1>6. WrittenOnce'
    <2>1. \A j \in Item : writes'[j] = writes[j] \/ writes'[j] = 0
      BY <1>4, <1>5
    <2>2. \A j \in Item : writes[j] <= 1 + lost
      BY DEF CInv, WrittenOnce
    <2> QED BY <1>1, <1>5, <2>1, <2>2 DEF WrittenOnce
  <1>7. CommentsApart'
    <2>1. ASSUME NEW r \in mine \cup open \cup {new}, NEW q \in mine \cup open \cup {new},
                 NewComment(r), NewComment(q), r.item = q.item
          PROVE  r = q
      <3>1. CASE r \in mine \cup open /\ q \in mine \cup open
        BY <2>1, <3>1 DEF CInv, CommentsApart
      <3>2. CASE r = new /\ q \in mine \cup open
        BY <1>2, <1>3, <2>1, <3>2 DEF NewComment
      <3>3. CASE r \in mine \cup open /\ q = new
        BY <1>2, <1>3, <2>1, <3>3 DEF NewComment
      <3> QED BY <3>1, <3>2, <3>3
    <2>2. \A r \in mine \cap (open \cup {new}) : ~NewComment(r)
      BY <1>2, <1>3 DEF CInv, CommentsApart, NewComment
    <2> QED BY <1>1, <2>1, <2>2 DEF CommentsApart, NewComment
  <1>8. WritesOwed'
    <2>1. ASSUME NEW r \in mine \cup open \cup {new}, NewComment(r)
          PROVE  writes'[r.item] <= lost
      <3>1. CASE r = new
        BY <1>2, <1>4, <1>5, <2>1, <3>1 DEF NewComment
      <3>2. CASE r \in mine \cup open
        <4>1. writes[r.item] <= lost /\ r.item \in Item
          BY <1>5, <2>1, <3>2 DEF CInv, WritesOwed, Row
        <4>2. writes'[r.item] = writes[r.item] \/ writes'[r.item] = 0
          BY <1>4, <1>5, <4>1
        <4> QED BY <1>5, <4>1, <4>2
      <3> QED BY <3>1, <3>2
    <2> QED BY <1>1, <2>1 DEF WritesOwed, NewComment
  <1> QED BY <1>6, <1>7, <1>8 DEF CInv

(* Rows that go from the transaction to the database, or go altogether.    *)
LEMMA FewerComments ==
    ASSUME CInv, mine' \cup open' \subseteq mine \cup open,
           \A r \in mine' \cap open' : ~NewComment(r),
           writes' = writes, lost' = lost
    PROVE  CInv'
  BY DEF CInv, WrittenOnce, CommentsApart, WritesOwed, NewComment

LEMMA CommitComments ==
    ASSUME CInv, NEW r \in open, NEW live, Commit(r, live)
    PROVE  CInv'
  <1>1. open' = open \ {r} /\ mine' = mine \cup {r} /\ writes' = writes /\ lost' = lost
    BY DEF Commit
  <1> QED BY <1>1, FewerComments DEF CInv, CommentsApart

LEMMA ForgetComments ==
    ASSUME CInv, NEW r \in mine, Forget(r)
    PROVE  CInv'
  <1>1. open' = open /\ mine' = mine \ {r} /\ writes' = writes /\ lost' = lost
    BY DEF Forget
  <1> QED BY <1>1, FewerComments DEF CInv, CommentsApart

(* What a pull imports has its id.                                         *)
LEMMA ImportComments ==
    ASSUME TypeOK, CInv, NEW ok, PullSection(ok)
    PROVE  CInv'
  <1>1. PICK new \in SUBSET Row :
            mine' = mine \cup new /\ \A r \in new : r.sec = Order[job.stage]
                 /\ (Order[job.stage] = "comments" => r.linked)
    BY PullSectionRows
  <1>2. \A r \in new : ~NewComment(r)
    BY <1>1 DEF NewComment
  <1>3. open' = open /\ writes' = writes /\ lost' = lost
    BY DEF PullSection
  <1> QED BY <1>1, <1>2, <1>3 DEF CInv, WrittenOnce, CommentsApart, WritesOwed, NewComment

(* A push sets its time on the rows, a bookmark moves: the comments are the same. *)
LEMMA RestampedComments ==
    ASSUME CInv, NEW f, writes' = writes, lost' = lost,
           \A q \in mine' : \E r \in mine : q = Put(r, f[r]) /\ Same(q, r),
           \A q \in open' : \E r \in open : q = Put(r, f[r]) /\ Same(q, r)
    PROVE  CInv'
  <1>1. \A q \in mine' \cup open' : \E r \in mine \cup open : q = Put(r, f[r]) /\ Same(q, r)
    OBVIOUS
  <1>2. WrittenOnce'
    BY DEF CInv, WrittenOnce
  <1>3. \A r \in mine' \cup open', q \in mine' \cup open' :
            NewComment(r) /\ NewComment(q) /\ r.item = q.item => r = q
    <2> SUFFICES ASSUME NEW r \in mine' \cup open', NEW q \in mine' \cup open',
                        NewComment(r), NewComment(q), r.item = q.item
                 PROVE  r = q
      OBVIOUS
    <2>1. PICK a \in mine \cup open : r = Put(a, f[a]) /\ Same(r, a)
      BY <1>1
    <2>2. PICK b \in mine \cup open : q = Put(b, f[b]) /\ Same(q, b)
      BY <1>1
    <2>3. NewComment(a) /\ NewComment(b) /\ a.item = b.item
      BY <2>1, <2>2 DEF NewComment, Same
    <2>4. a = b
      BY <2>3 DEF CInv, CommentsApart
    <2> QED BY <2>1, <2>2, <2>4
  <1>4. \A q \in mine' \cap open' : ~NewComment(q)
    <2> SUFFICES ASSUME NEW q \in mine' \cap open', NewComment(q) PROVE FALSE
      OBVIOUS
    <2>1. PICK a \in mine : Same(q, a)
      OBVIOUS
    <2>2. PICK b \in open : Same(q, b)
      OBVIOUS
    <2>3. NewComment(a) /\ NewComment(b) /\ a.item = b.item
      BY <2>1, <2>2 DEF NewComment, Same
    <2>4. a = b
      BY <2>3 DEF CInv, CommentsApart
    <2> QED BY <2>3, <2>4 DEF CInv, CommentsApart
  <1>5. CommentsApart'
    BY <1>3, <1>4 DEF CommentsApart, NewComment
  <1>6. WritesOwed'
    <2> SUFFICES ASSUME NEW q \in mine' \cup open', NewComment(q) PROVE writes[q.item] <= lost
      BY DEF WritesOwed, NewComment
    <2>1. PICK a \in mine \cup open : Same(q, a)
      BY <1>1
    <2> QED BY <2>1 DEF NewComment, Same, CInv, WritesOwed
  <1> QED BY <1>2, <1>5, <1>6 DEF CInv

LEMMA PushStartComments ==
    ASSUME TypeOK, CInv, PushStart
    PROVE  CInv'
  <1> DEFINE f == [r \in mine \cup open |-> r.added \ {"job"}]
  <1>1. /\ \A q \in mine' : \E r \in mine : q = Put(r, f[r]) /\ Same(q, r)
        /\ \A q \in open' : \E r \in open : q = Put(r, f[r]) /\ Same(q, r)
    BY PushStartRows
  <1>2. writes' = writes /\ lost' = lost
    BY DEF PushStart, history
  <1> HIDE DEF f
  <1> QED BY <1>1, <1>2, RestampedComments

LEMMA PushEndComments ==
    ASSUME TypeOK, CInv, PushEnd
    PROVE  CInv'
  <1> DEFINE f == [r \in mine \cup open |-> Ended(r)]
  <1>1. /\ \A q \in mine' : \E r \in mine : q = Put(r, f[r]) /\ Same(q, r)
        /\ \A q \in open' : \E r \in open : q = Put(r, f[r]) /\ Same(q, r)
    BY PushEndRows
  <1>2. writes' = writes /\ lost' = lost
    BY DEF PushEnd, history
  <1> HIDE DEF f
  <1> QED BY <1>1, <1>2, RestampedComments

(* A comment is sent: it gets its id, or the answer is lost, or nothing happens. *)
LEMMA SentComments ==
    ASSUME TypeOK, CInv, NEW r \in mine, NEW outcome \in {"written", "failed", "lost"},
           PushComment(r, outcome)
    PROVE  CInv'
  <1>1. r \in Row /\ NewComment(r) /\ r.item \in Item
    BY DEF TypeOK, PushComment, NewComment, Row
  <1>2. writes \in [Item -> Nat] /\ lost \in Nat /\ open' = open
    BY ConstantsAssumption DEF TypeOK, PushComment
  <1>3. writes[r.item] <= lost
    BY <1>1 DEF CInv, WritesOwed
  <1>4. \A q \in mine \cup open : NewComment(q) /\ q.item = r.item => q = r
    BY <1>1 DEF CInv, CommentsApart
  <1>5. CASE outcome = "failed"
    BY <1>5, CommentsUnchanged DEF PushComment
  <1>6. CASE outcome = "lost"
    <2>1. mine' = mine /\ lost' = lost + 1 /\ writes' = [writes EXCEPT ![r.item] = writes[r.item] + 1]
      BY <1>6 DEF PushComment
    <2>2. \A i \in Item : writes'[i] <= writes[i] + 1
      BY <1>1, <1>2, <2>1
    <2>3. WrittenOnce'
      <3>1. ASSUME NEW i \in Item PROVE writes'[i] <= 1 + lost'
        <4>1. CASE i = r.item BY <1>1, <1>2, <1>3, <2>1, <4>1
        <4>2. CASE i # r.item BY <1>2, <2>1, <4>2 DEF CInv, WrittenOnce
        <4> QED BY <4>1, <4>2
      <3> QED BY <3>1 DEF WrittenOnce
    <2>4. CommentsApart'
      BY <1>2, <2>1 DEF CInv, CommentsApart, NewComment
    <2>5. ASSUME NEW q \in mine \cup open, NewComment(q) PROVE writes'[q.item] <= lost'
      <3>1. q.item \in Item /\ writes[q.item] <= lost
        BY <2>5 DEF TypeOK, Row, CInv, WritesOwed
      <3> QED BY <1>2, <2>1, <2>2, <3>1
    <2>6. WritesOwed'
      BY <1>2, <2>1, <2>5 DEF WritesOwed, NewComment
    <2> QED BY <2>3, <2>4, <2>6 DEF CInv
  <1>7. CASE outcome = "written"
    <2>1. /\ mine' = (mine \ {r}) \cup {Linked(r)} /\ lost' = lost
          /\ writes' = [writes EXCEPT ![r.item] = writes[r.item] + 1]
      BY <1>7 DEF PushComment
    <2>2. ~NewComment(Linked(r))
      BY <1>1, Changed DEF NewComment, Linked
    <2>3. WrittenOnce'
      <3>1. ASSUME NEW i \in Item PROVE writes'[i] <= 1 + lost'
        <4>1. CASE i = r.item BY <1>1, <1>2, <1>3, <2>1, <4>1
        <4>2. CASE i # r.item BY <1>2, <2>1, <4>2 DEF CInv, WrittenOnce
        <4> QED BY <4>1, <4>2
      <3> QED BY <3>1 DEF WrittenOnce
    <2>4. ASSUME NEW q \in mine' \cup open', NewComment(q)
          PROVE  q \in mine \cup open /\ q # r
      <3>1. r \notin open
        BY <1>1 DEF CInv, CommentsApart
      <3> QED BY <1>2, <2>1, <2>2, <2>4, <3>1
    <2>5. CommentsApart'
      <3>1. \A q, t \in mine' \cup open' : NewComment(q) /\ NewComment(t) /\ q.item = t.item => q = t
        BY <2>4 DEF CInv, CommentsApart
      <3>2. \A q \in mine' \cap open' : ~NewComment(q)
        BY <1>2, <2>1, <2>2, <2>4 DEF CInv, CommentsApart
      <3> QED BY <3>1, <3>2 DEF CommentsApart, NewComment
    <2>6. ASSUME NEW q \in mine' \cup open', NewComment(q) PROVE writes'[q.item] <= lost'
      <3>1. q \in mine \cup open /\ q.item # r.item
        BY <1>4, <2>4, <2>6
      <3>2. q.item \in Item /\ writes[q.item] <= lost
        BY <2>6, <3>1 DEF TypeOK, Row, CInv, WritesOwed
      <3> QED BY <1>2, <2>1, <3>1, <3>2
    <2>7. WritesOwed'
      BY <2>6 DEF WritesOwed, NewComment
    <2> QED BY <2>3, <2>5, <2>7 DEF CInv
  <1> QED BY <1>5, <1>6, <1>7

LEMMA CommentsInit == Init => CInv
  BY DEF Init, CInv, WrittenOnce, CommentsApart, WritesOwed

LEMMA CommentsStep == TypeOK /\ CInv /\ [Next]_vars => CInv'
  <1> SUFFICES ASSUME TypeOK, CInv, [Next]_vars PROVE CInv'
    OBVIOUS
  <1>1. secs \subseteq Section
    BY ConstantsAssumption DEF TypeOK
  <1>2. ASSUME NEW s \in secs, NEW i \in Item, Write(s, i, FALSE) \/ Write(s, i, TRUE)
        PROVE  CInv'
    BY <1>1, <1>2, WriteComments
  <1>3. ASSUME NEW r \in open, NEW live \in BOOLEAN, Commit(r, live) PROVE CInv'
    BY <1>3, CommitComments
  <1>4. ASSUME NEW r \in mine, Forget(r) PROVE CInv'
    BY <1>4, ForgetComments
  <1>5. ASSUME NEW ok \in SUBSET Item, PullSection(ok) PROVE CInv'
    BY <1>5, ImportComments
  <1>6. CASE PushStart \/ PushEnd
    BY <1>6, PushStartComments, PushEndComments
  <1>7. ASSUME NEW r \in mine, NEW outcome \in {"written", "failed", "lost"}, PushComment(r, outcome)
        PROVE  CInv'
    BY <1>7, SentComments
  <1>8. ASSUME mine' = mine, open' = open, writes' = writes, lost' = lost PROVE CInv'
    BY <1>8, CommentsUnchanged
  <1>9. ASSUME NEW s \in secs, NEW i \in Item, WriteThere(s, i) PROVE CInv'
    BY <1>8, <1>9 DEF WriteThere, history
  <1>10. ASSUME NEW newPull \in {{}, secs}, NEW newPush \in Choices \cap SUBSET secs,
               Settings(newPull, newPush)
        PROVE  CInv'
    BY <1>8, <1>10 DEF Settings, world
  <1>11. CASE Reconnect \/ Appear \/ Break
    BY <1>8, <1>11 DEF Reconnect, Appear, Break, world, history
  <1>12. ASSUME NEW full \in BOOLEAN, NEW answered \in BOOLEAN, NEW blocked \in BOOLEAN,
               PullStart(full, answered, blocked)
        PROVE  CInv'
    BY <1>8, <1>12 DEF PullStart
  <1>13. CASE PullEnd
    BY <1>8, <1>13 DEF PullEnd, history
  <1>14. ASSUME NEW ok \in SUBSET (Core \X Item), NEW quota \in BOOLEAN, PushCore(ok, quota)
         PROVE  CInv'
    BY <1>8, <1>14 DEF PushCore, history
  <1>15. ASSUME NEW ok \in BOOLEAN, PushLists(ok) PROVE CInv'
    BY <1>8, <1>15 DEF PushLists, history
  <1>16. CASE UNCHANGED vars
    BY <1>8, <1>16 DEF vars
  <1> QED
    BY <1>2, <1>3, <1>4, <1>5, <1>6, <1>7, <1>9, <1>10, <1>11, <1>12, <1>13, <1>14, <1>15, <1>16 DEF Next

(* A comment is written at WeTrakr once, and once more for every answer that was *)
(* lost, whatever else is changed, imported or sent in between.            *)
THEOREM CommentsWrittenOnce == Spec => []WrittenOnce
  <1>1. Init => TypeOK /\ CInv BY TypeInit, CommentsInit
  <1>2. TypeOK /\ CInv /\ [Next]_vars => TypeOK' /\ CInv' BY TypeStep, CommentsStep
  <1>3. CInv => WrittenOnce BY DEF CInv
  <1> QED BY <1>1, <1>2, <1>3, PTL DEF Spec

-----------------------------------------------------------------------------
(* The push's bookmarks.                                                   *)

(* What is at WeTrakr or excused stays so.                                 *)
Grows ==
    /\ \A s \in Section : Items(theirs, s) \subseteq Items(theirs', s)
    /\ excused \subseteq excused'

LEMMA StillAtService ==
    ASSUME Grows, NEW r \in Row, NEW q \in Row, Same(q, r), AtService(r)
    PROVE  AtService(q)'
  BY DEF Grows, Row, Same, AtService

(* The bookmark a row of section s is compared with.                       *)
MarkOf(s) == IF s = "lists" THEN "lists" ELSE "push"

(* The same as PushCovers, row by row.                                     *)
LEMMA CoversRow ==
    ASSUME PushCovers, ~raced, NEW r \in mine, r.sec # "comments", r.sec \in pushing,
           MarkOf(r.sec) \in marked, MarkOf(r.sec) \notin r.added
    PROVE  AtService(r)
  BY DEF PushCovers, MarkOf, AtService

(* Steps that bring no row in but the user's own, and do not push.          *)
Quiet ==
    /\ mine' \subseteq mine
    /\ \A r \in mine' \cup open' : r \in mine \cup open \/ r.ours
    /\ pushing' = pushing
    /\ marked' \cap {"push", "lists"} \subseteq marked
    /\ raced => raced'
    /\ job' = job \/ job'.kind # "push"

LEMMA QuietPush ==
    ASSUME TypeOK, PushInv, Grows, Quiet
    PROVE  PushInv'
  <1>1. mine \in SUBSET Row /\ open \in SUBSET Row
    BY DEF TypeOK
  <1>2. ASSUME NEW r \in mine, AtService(r) PROVE AtService(r)'
    BY <1>1, <1>2, StillAtService DEF Same
  <1>3. PushCovers'
    <2> SUFFICES ASSUME ~raced', NEW r \in mine', r.sec # "comments", r.sec \in pushing',
                        MarkOf(r.sec) \in marked', MarkOf(r.sec) \notin r.added
                 PROVE  AtService(r)'
      BY DEF PushCovers, MarkOf, AtService
    <2>1. r \in mine /\ ~raced /\ r.sec \in pushing /\ MarkOf(r.sec) \in marked
      BY DEF Quiet, MarkOf
    <2> QED BY <1>2, <2>1, CoversRow DEF PushInv
  <1>4. FromThere'
    <2> SUFFICES ASSUME NEW r \in mine' \cup open', ~r.ours PROVE r.item \in Items(theirs', r.sec)
      BY DEF FromThere
    <2>1. r \in mine \cup open
      BY DEF Quiet
    <2>2. r.item \in Items(theirs, r.sec) /\ r.sec \in Section
      BY <1>1, <2>1 DEF PushInv, FromThere, Row
    <2> QED BY <2>2 DEF Grows
  <1>5. PushReads'
    <2>1. CASE job'.kind # "push"
      BY <2>1 DEF PushReads
    <2>2. CASE job' = job
      <3> SUFFICES ASSUME job.kind = "push", ~raced' PROVE PushReads'
        BY <2>2 DEF PushReads
      <3>1. ~raced /\ PushReads
        BY DEF Quiet, PushInv
      <3>2. job.flags = pushing'
        BY <3>1 DEF PushReads, Quiet
      <3>3. ASSUME NEW r \in mine', r.sec \in Core \cap pushing', "job" \notin r.added
            PROVE  \/ AtService(r)'
                   \/ IF job.stage = "core" THEN <<r.sec, r.item>> \in job.plan ELSE job.coreFailed
        BY <1>2, <3>1, <3>3 DEF PushReads, Quiet
      <3>4. ASSUME job.listsDone, NEW r \in mine', r.sec = "lists", "job" \notin r.added
            PROVE  AtService(r)'
        BY <1>2, <3>1, <3>4 DEF PushReads, Quiet
      <3> QED BY <2>2, <3>2, <3>3, <3>4 DEF PushReads
    <2> QED BY <2>1, <2>2 DEF Quiet
  <1> QED BY <1>3, <1>4, <1>5 DEF PushInv

(* What is told adds.                                                      *)
LEMMA AddsGrows ==
    ASSUME Adds, excused \subseteq excused'
    PROVE  Grows
  BY DEF Adds, Grows

(* Settings: what is switched on is read from the start.                   *)
LEMMA SettingsPush ==
    ASSUME TypeOK, PushInv, NEW newPull \in {{}, secs}, NEW newPush \in Choices \cap SUBSET secs,
           Settings(newPull, newPush)
    PROVE  PushInv'
  <1>1. /\ mine' = mine /\ open' = open /\ theirs' = theirs /\ job' = job /\ excused' = excused
        /\ pushing' = newPush /\ marked' = marked \ ResetBy(newPull \ pulling, newPush \ pushing)
        /\ raced' = (raced \/ job # NoJob)
    BY DEF Settings, world
  <1>2. FromThere'
    BY <1>1 DEF PushInv, FromThere, Items
  <1>3. PushReads'
    <2>1. CASE raced'
      BY <2>1 DEF PushReads
    <2>2. CASE job' = NoJob
      BY <2>2 DEF PushReads, NoJob
    <2> QED BY <1>1, <2>1, <2>2
  <1>4. PushCovers'
    <2> SUFFICES ASSUME ~raced', NEW r \in mine, r.sec # "comments", r.sec \in newPush,
                        MarkOf(r.sec) \in marked', MarkOf(r.sec) \notin r.added
                 PROVE  AtService(r)
      BY <1>1 DEF PushCovers, MarkOf, AtService, Items
    <2>1. ~raced /\ MarkOf(r.sec) \in marked
      BY <1>1
    <2>2. CASE r.sec \in pushing
      BY <2>1, <2>2, CoversRow DEF PushInv
    <2>3. CASE r.sec \notin pushing
      <3>1. r.sec \in Core \/ r.sec = "lists"
        BY DEF TypeOK, Row, Section, Core
      <3>2. MarkOf(r.sec) \in ResetBy(newPull \ pulling, newPush \ pushing)
        BY <2>3, <3>1 DEF MarkOf, ResetBy, Core
      <3> QED BY <1>1, <3>2
    <2> QED BY <2>2, <2>3
  <1> QED BY <1>2, <1>3, <1>4 DEF PushInv

(* A step that adds rows to the database that are later than every bookmark, or *)
(* excused as committed too late.                                          *)
LEMMA MorePush ==
    ASSUME TypeOK, PushInv, Grows, NEW new \in SUBSET Row, mine' = mine \cup new,
           \A r \in new : r.added = Now \/ AtService(r)',
           \A r \in new \cup open' : r \in open \/ (~r.ours => r.item \in Items(theirs', r.sec)),
           pushing' = pushing, marked' = marked, raced' = raced,
           job' = job \/ job'.kind # "push"
    PROVE  PushInv'
  <1>1. mine \in SUBSET Row /\ open \in SUBSET Row
    BY DEF TypeOK
  <1>2. ASSUME NEW r \in mine, AtService(r) PROVE AtService(r)'
    BY <1>1, <1>2, StillAtService DEF Same
  <1>3. PushCovers'
    <2> SUFFICES ASSUME ~raced', NEW r \in mine', r.sec # "comments", r.sec \in pushing',
                        MarkOf(r.sec) \in marked', MarkOf(r.sec) \notin r.added
                 PROVE  AtService(r)'
      BY DEF PushCovers, MarkOf, AtService
    <2>1. CASE r \in mine
      BY <1>2, <2>1, CoversRow DEF PushInv
    <2>2. CASE r \in new
      BY <2>2 DEF Now, MarkOf
    <2> QED BY <2>1, <2>2
  <1>4. FromThere'
    <2> SUFFICES ASSUME NEW r \in mine' \cup open', ~r.ours PROVE r.item \in Items(theirs', r.sec)
      BY DEF FromThere
    <2>1. CASE r \in mine \cup open
      <3>1. r.item \in Items(theirs, r.sec) /\ r.sec \in Section
        BY <1>1, <2>1 DEF PushInv, FromThere, Row
      <3> QED BY <3>1 DEF Grows
    <2>2. CASE r \notin mine \cup open
      BY <2>2
    <2> QED BY <2>1, <2>2
  <1>5. PushReads'
    <2>1. CASE job'.kind # "push"
      BY <2>1 DEF PushReads
    <2>2. CASE job' = job
      <3> SUFFICES ASSUME job.kind = "push", ~raced' PROVE PushReads'
        BY <2>2 DEF PushReads
      <3>1. ~raced /\ PushReads
        BY DEF PushInv
      <3>2. job.flags = pushing'
        BY <3>1 DEF PushReads
      <3>3. ASSUME NEW r \in mine', r.sec \in Core \cap pushing', "job" \notin r.added
            PROVE  \/ AtService(r)'
                   \/ IF job.stage = "core" THEN <<r.sec, r.item>> \in job.plan ELSE job.coreFailed
        <4>1. CASE r \in mine BY <1>2, <3>1, <3>3, <4>1 DEF PushReads
        <4>2. CASE r \in new BY <3>3, <4>2 DEF Now
        <4> QED BY <4>1, <4>2
      <3>4. ASSUME job.listsDone, NEW r \in mine', r.sec = "lists", "job" \notin r.added
            PROVE  AtService(r)'
        <4>1. CASE r \in mine BY <1>2, <3>1, <3>4, <4>1 DEF PushReads
        <4>2. CASE r \in new BY <3>4, <4>2 DEF Now
        <4> QED BY <4>1, <4>2
      <3> QED BY <2>2, <3>2, <3>3, <3>4 DEF PushReads
    <2> QED BY <2>1, <2>2
  <1> QED BY <1>3, <1>4, <1>5 DEF PushInv

(* A transaction commits: later than every push began, or excused.          *)
LEMMA CommitPush ==
    ASSUME TypeOK, PushInv, NEW r \in open, NEW live \in BOOLEAN, Commit(r, live)
    PROVE  PushInv'
  <1>1. Grows
    BY CommitThere, AddsGrows DEF Commit
  <1>2. r \in Row /\ mine' = mine \cup {r} /\ open' = open \ {r}
    BY DEF TypeOK, Commit
  <1>3. r.added = Now \/ AtService(r)'
    BY DEF Commit, AtService
  <1>4. pushing' = pushing /\ marked' = marked /\ raced' = raced /\ job' = job
    BY DEF Commit, user
  <1> DEFINE new == {r}
  <1>5. /\ new \in SUBSET Row /\ mine' = mine \cup new
        /\ \A q \in new : q.added = Now \/ AtService(q)'
        /\ \A q \in new \cup open' : q \in open
    BY <1>2, <1>3
  <1> HIDE DEF new
  <1> QED BY <1>1, <1>4, <1>5, MorePush

(* A pull imports what WeTrakr has.                                        *)
LEMMA PullSectionPush ==
    ASSUME TypeOK, PushInv, NEW ok, PullSection(ok)
    PROVE  PushInv'
  <1> DEFINE s == Order[job.stage]
  <1>1. PICK new \in SUBSET Row :
            mine' = mine \cup new
              /\ \A r \in new : r.sec = s /\ r.item \in ok /\ ~r.ours /\ r.added = Now
    BY PullSectionRows
  <1>2. s \in Section /\ ok \subseteq Items(theirs, s)
    <2>1. s \in Section /\ ok \subseteq Feed(s)
      BY PullSectionRows
    <2> QED BY <2>1, FeedItems
  <1>3. /\ theirs' = theirs /\ open' = open /\ pushing' = pushing /\ marked' = marked /\ raced' = raced
        /\ excused \subseteq excused'
    BY DEF PullSection, user
  <1>4. Grows
    BY <1>3 DEF Grows, Items
  <1>5. job'.kind # "push"
    BY PullSectionJob DEF PullJob
  <1> HIDE DEF s
  <1>6. \A r \in new \cup open' : r \in open \/ (~r.ours => r.item \in Items(theirs', r.sec))
    BY <1>1, <1>2, <1>3
  <1> QED BY <1>1, <1>3, <1>4, <1>5, <1>6, MorePush

(* A push begins: what it does not plan was sent or came from there.        *)
LEMMA PushStartPush ==
    ASSUME TypeOK, PushInv, PushStart
    PROVE  PushInv'
  <1>1. /\ theirs' = theirs /\ pushing' = pushing /\ marked' = marked /\ raced' = raced
        /\ excused' = excused
    BY DEF PushStart, user, history
  <1>2. Grows
    BY <1>1 DEF Grows, Items
  <1>3. mine \in SUBSET Row /\ open \in SUBSET Row /\ mine' \in SUBSET Row
    BY PushStartRows DEF TypeOK, Kept
  <1>4. \A q \in mine' : \E r \in mine : Same(q, r) /\ q.added = r.added \ {"job"}
    BY PushStartRows
  <1>5. PushCovers'
    <2> SUFFICES ASSUME ~raced', NEW q \in mine', q.sec # "comments", q.sec \in pushing',
                        MarkOf(q.sec) \in marked', MarkOf(q.sec) \notin q.added
                 PROVE  AtService(q)'
      BY DEF PushCovers, MarkOf, AtService
    <2>1. PICK r \in mine : Same(q, r) /\ q.added = r.added \ {"job"}
      BY <1>4
    <2>2. AtService(r)
      BY <1>1, <2>1, CoversRow DEF PushInv, Same, MarkOf
    <2> QED BY <1>2, <1>3, <2>1, <2>2, StillAtService
  <1>6. FromThere'
    <2> SUFFICES ASSUME NEW q \in mine' \cup open', ~q.ours PROVE q.item \in Items(theirs', q.sec)
      BY DEF FromThere
    <2>1. PICK r \in mine \cup open : Same(q, r)
      BY PushStartRows
    <2>2. r.item \in Items(theirs, r.sec)
      BY <2>1 DEF Same, PushInv, FromThere
    <2> QED BY <1>1, <2>1, <2>2 DEF Same, Items
  <1>7. PushReads'
    <2>1. job'.stage = "core" /\ job'.flags = pushing' /\ job'.plan = CorePlan /\ ~job'.listsDone
      BY <1>1, PushStartJob
    <2>2. ASSUME ~raced', NEW q \in mine', q.sec \in Core \cap pushing', "job" \notin q.added
          PROVE  AtService(q)' \/ <<q.sec, q.item>> \in CorePlan
      <3>1. PICK r \in mine : Same(q, r)
        BY <1>4
      <3>2. r.sec \in Core \cap pushing /\ r.sec \in Section
        BY <1>1, <1>3, <2>2, <3>1 DEF Same, Row
      <3>3. CASE r.sec = "watched" /\ ~r.ours
        <4>1. AtService(r)
          BY <3>3 DEF PushInv, FromThere, AtService
        <4> QED BY <1>2, <1>3, <3>1, <4>1, StillAtService
      <3>4. CASE ~Later(r.added, "push")
        <4>1. AtService(r)
          <5>1. "push" \in marked /\ "push" \notin r.added
            BY <3>4 DEF Later
          <5>2. r.sec # "comments" /\ MarkOf(r.sec) = "push" /\ ~raced
            BY <1>1, <2>2, <3>2 DEF Core, MarkOf
          <5> QED BY <3>2, <5>1, <5>2, CoversRow DEF PushInv
        <4> QED BY <1>2, <1>3, <3>1, <4>1, StillAtService
      <3>5. CASE (r.sec = "watched" => r.ours) /\ Later(r.added, "push")
        <4>1. <<r.sec, r.item>> \in CorePlan
          BY <3>2, <3>5 DEF CorePlan
        <4> QED BY <3>1, <4>1 DEF Same
      <3> QED BY <3>3, <3>4, <3>5
    <2> QED BY <2>1, <2>2 DEF PushReads
  <1> QED BY <1>5, <1>6, <1>7 DEF PushInv

(* A push's step that leaves the rows as they are, sends and keeps its own word: *)
(* PushCovers and FromThere follow.                                        *)
LEMMA SendsPush ==
    ASSUME TypeOK, PushInv, Grows, mine' = mine, open' = open, pushing' = pushing,
           marked' = marked, raced' = raced
    PROVE  PushCovers' /\ FromThere'
  <1>1. mine \in SUBSET Row /\ open \in SUBSET Row
    BY DEF TypeOK
  <1>2. PushCovers'
    <2> SUFFICES ASSUME ~raced, NEW r \in mine, r.sec # "comments", r.sec \in pushing,
                        MarkOf(r.sec) \in marked, MarkOf(r.sec) \notin r.added
                 PROVE  AtService(r)'
      BY DEF PushCovers, MarkOf, AtService
    <2>1. AtService(r)
      BY CoversRow DEF PushInv
    <2> QED BY <1>1, <2>1, StillAtService DEF Same
  <1>3. FromThere'
    <2> SUFFICES ASSUME NEW r \in mine \cup open, ~r.ours PROVE r.item \in Items(theirs', r.sec)
      BY DEF FromThere
    <2>1. r.item \in Items(theirs, r.sec) /\ r.sec \in Section
      BY <1>1 DEF PushInv, FromThere, Row
    <2> QED BY <2>1 DEF Grows
  <1> QED BY <1>2, <1>3

(* Plays and ratings: if nothing of the plan failed, all of it is there.    *)
LEMMA PushCorePush ==
    ASSUME TypeOK, PushInv, NEW ok \in SUBSET (Core \X Item), NEW quota \in BOOLEAN,
           PushCore(ok, quota)
    PROVE  PushInv'
  <1>1. /\ mine' = mine /\ open' = open /\ pushing' = pushing /\ marked' = marked
        /\ raced' = raced /\ excused' = excused
    BY DEF PushCore, user, history
  <1>2. Grows
    BY <1>1, PushCoreThere, AddsGrows
  <1>3. PushCovers' /\ FromThere'
    BY <1>1, <1>2, SendsPush
  <1>4. mine \in SUBSET Row
    BY DEF TypeOK
  <1>5. PushReads'
    <2> SUFFICES ASSUME ~raced PROVE PushReads'
      BY <1>1 DEF PushReads
    <2>1. /\ job.kind = "push" /\ job.stage = "core" /\ job'.stage # "core"
          /\ job'.coreFailed = (ok # job.plan) /\ job'.flags = job.flags
          /\ job'.listsDone = job.listsDone
      <3>1. job.kind = "push" /\ job.stage = "core"
        BY DEF PushCore
      <3>2. /\ job'.stage # "core" /\ job'.coreFailed = (ok # job.plan) /\ job'.flags = job.flags
            /\ job'.listsDone = job.listsDone
        BY PushCoreJob
      <3> QED BY <3>1, <3>2
    <2>2. PushReads
      BY DEF PushInv
    <2>3. ASSUME NEW r \in mine, r.sec \in Core \cap pushing, "job" \notin r.added, ok = job.plan
          PROVE  AtService(r)'
      <3>1. CASE AtService(r)
        BY <1>2, <1>4, <3>1, StillAtService DEF Same
      <3>2. CASE <<r.sec, r.item>> \in ok
        <4>1. r.item \in Planned(ok, r.sec)
          <5> DEFINE p == <<r.sec, r.item>>
          <5>1. p \in {q \in ok : q[1] = r.sec} /\ p[2] = r.item
            BY <3>2
          <5> HIDE DEF p
          <5> QED BY <5>1 DEF Planned
        <4> QED BY <2>3, <4>1, PushCoreThere DEF AtService
      <3>3. AtService(r) \/ <<r.sec, r.item>> \in job.plan
        BY <2>1, <2>2, <2>3 DEF PushReads
      <3> QED BY <2>3, <3>1, <3>2, <3>3
    <2>4. ASSUME job.listsDone, NEW r \in mine, r.sec = "lists", "job" \notin r.added
          PROVE  AtService(r)'
      <3>1. AtService(r)
        BY <2>1, <2>2, <2>4 DEF PushReads
      <3> QED BY <1>2, <1>4, <3>1, StillAtService DEF Same
    <2>5. job'.flags = pushing'
      BY <1>1, <2>1, <2>2 DEF PushReads
    <2> QED BY <1>1, <2>1, <2>3, <2>4, <2>5 DEF PushReads
  <1> QED BY <1>3, <1>5 DEF PushInv

(* Lists: they are all there, or none gained anything since the bookmark.   *)
LEMMA PushListsPush ==
    ASSUME TypeOK, PushInv, NEW ok \in BOOLEAN, PushLists(ok)
    PROVE  PushInv'
  <1>1. /\ mine' = mine /\ open' = open /\ pushing' = pushing /\ marked' = marked
        /\ raced' = raced /\ excused' = excused
    BY DEF PushLists, user, history
  <1>2. Grows
    BY <1>1, PushListsThere, AddsGrows
  <1>3. PushCovers' /\ FromThere'
    BY <1>1, <1>2, SendsPush
  <1>4. mine \in SUBSET Row
    BY DEF TypeOK
  <1>5. PushReads'
    <2> SUFFICES ASSUME ~raced PROVE PushReads'
      BY <1>1 DEF PushReads
    <2>1. /\ job.kind = "push" /\ job.stage = "lists" /\ job'.stage = "comments"
          /\ job'.coreFailed = job.coreFailed /\ job'.flags = job.flags
          /\ job'.listsDone = ("lists" \in job.flags /\ (("lists" \in job.flags /\ ListChanged) => ok))
      BY PushListsJob DEF PushLists
    <2>2. PushReads
      BY DEF PushInv
    <2>3. ASSUME NEW r \in mine, r.sec \in Core \cap pushing, "job" \notin r.added
          PROVE  AtService(r)' \/ job.coreFailed
      <3>1. AtService(r) \/ job.coreFailed
        BY <2>1, <2>2, <2>3 DEF PushReads
      <3> QED BY <1>2, <1>4, <3>1, StillAtService DEF Same
    <2>4. ASSUME job'.listsDone, NEW r \in mine, r.sec = "lists", "job" \notin r.added
          PROVE  AtService(r)'
      <3>1. "lists" \in job.flags /\ (ListChanged => ok)
        BY <2>1, <2>4
      <3>2. CASE ListChanged
        <4>1. r.item \in Items(mine, "lists")
          BY <2>4 DEF Items
        <4>2. Items(mine, "lists") \subseteq Items(theirs', "lists")
          BY <3>1, <3>2, PushListsThere
        <4> QED BY <2>4, <4>1, <4>2 DEF AtService
      <3>3. CASE ~ListChanged
        <4>1. "lists" \in marked /\ "lists" \notin r.added
          BY <2>4, <3>3 DEF ListChanged, Later
        <4>2. "lists" \in pushing
          BY <2>1, <2>2, <3>1 DEF PushReads
        <4>3. AtService(r)
          BY <2>4, <4>1, <4>2, CoversRow DEF PushInv, MarkOf
        <4> QED BY <1>2, <1>4, <4>3, StillAtService DEF Same
      <3> QED BY <3>2, <3>3
    <2>5. job'.flags = pushing'
      BY <1>1, <2>1, <2>2 DEF PushReads
    <2> QED BY <1>1, <2>1, <2>3, <2>4, <2>5 DEF PushReads
  <1> QED BY <1>3, <1>5 DEF PushInv

(* A comment is sent: plays, ratings and lists are as they were.            *)
LEMMA PushCommentPush ==
    ASSUME TypeOK, PushInv, NEW r \in mine, NEW outcome, PushComment(r, outcome)
    PROVE  PushInv'
  <1>1. /\ open' = open /\ pushing' = pushing /\ marked' = marked
        /\ raced' = raced /\ excused' = excused
    BY DEF PushComment, user
  <1>2. Grows
    BY <1>1, CommentThere, AddsGrows
  <1>3. mine \in SUBSET Row /\ open \in SUBSET Row
    BY DEF TypeOK
  <1>4. ASSUME NEW q \in mine' PROVE q \in Row /\ \E a \in mine : q.sec = a.sec /\ q.item = a.item
                                          /\ q.ours = a.ours /\ q.added = a.added
    <2>1. q \in mine \/ q = Linked(r)
      BY DEF PushComment
    <2>2. CASE q \in mine
      BY <1>3, <2>2
    <2>3. CASE q = Linked(r)
      <3>1. /\ Linked(r) \in Row /\ Linked(r).sec = r.sec /\ Linked(r).item = r.item
            /\ Linked(r).ours = r.ours /\ Linked(r).added = r.added
        BY <1>3, Changed DEF Linked
      <3> HIDE DEF Linked
      <3> QED BY <2>3, <3>1
    <2> QED BY <2>1, <2>2, <2>3
  <1>5. ASSUME NEW q \in mine', NEW a \in mine, q.sec = a.sec, q.item = a.item, AtService(a)
        PROVE  AtService(q)'
    BY <1>2, <1>3, <1>5 DEF AtService, Grows, Row
  <1>6. PushCovers'
    <2> SUFFICES ASSUME ~raced, NEW q \in mine', q.sec # "comments", q.sec \in pushing,
                        MarkOf(q.sec) \in marked, MarkOf(q.sec) \notin q.added
                 PROVE  AtService(q)'
      BY <1>1 DEF PushCovers, MarkOf, AtService
    <2>1. PICK a \in mine : q.sec = a.sec /\ q.item = a.item /\ q.added = a.added
      BY <1>4
    <2>2. AtService(a)
      BY <2>1, CoversRow DEF PushInv
    <2> QED BY <1>5, <2>1, <2>2
  <1>7. FromThere'
    <2> SUFFICES ASSUME NEW q \in mine' \cup open', ~q.ours PROVE q.item \in Items(theirs', q.sec)
      BY DEF FromThere
    <2>1. PICK a \in mine \cup open : q.sec = a.sec /\ q.item = a.item /\ q.ours = a.ours
      BY <1>1, <1>4
    <2>2. a.item \in Items(theirs, a.sec) /\ a.sec \in Section
      BY <1>3, <2>1 DEF PushInv, FromThere, Row
    <2> QED BY <1>2, <2>1, <2>2 DEF Grows
  <1>8. PushReads'
    <2> SUFFICES ASSUME ~raced PROVE PushReads'
      BY <1>1 DEF PushReads
    <2>1. /\ job.kind = "push" /\ job.stage = "comments" /\ job'.stage = "comments"
          /\ job'.coreFailed = job.coreFailed /\ job'.flags = job.flags
          /\ job'.listsDone = job.listsDone
      BY PushCommentJob DEF PushComment
    <2>2. PushReads
      BY DEF PushInv
    <2>3. ASSUME NEW q \in mine', q.sec \in Core \cap pushing, "job" \notin q.added
          PROVE  AtService(q)' \/ job.coreFailed
      <3>1. PICK a \in mine : q.sec = a.sec /\ q.item = a.item /\ q.added = a.added
        BY <1>4
      <3>2. AtService(a) \/ job.coreFailed
        BY <2>1, <2>2, <2>3, <3>1 DEF PushReads
      <3> QED BY <1>5, <3>1, <3>2
    <2>4. ASSUME job.listsDone, NEW q \in mine', q.sec = "lists", "job" \notin q.added
          PROVE  AtService(q)'
      <3>1. PICK a \in mine : q.sec = a.sec /\ q.item = a.item /\ q.added = a.added
        BY <1>4
      <3>2. AtService(a)
        BY <2>1, <2>2, <2>4, <3>1 DEF PushReads
      <3> QED BY <1>5, <3>1, <3>2
    <2>5. job'.flags = pushing'
      BY <1>1, <2>1, <2>2 DEF PushReads
    <2> QED BY <1>1, <2>1, <2>3, <2>4, <2>5 DEF PushReads
  <1> QED BY <1>6, <1>7, <1>8 DEF PushInv

(* A push ends: the bookmarks that move were read and sent up to its time.  *)
LEMMA PushEndPush ==
    ASSUME TypeOK, PushInv, PushEnd
    PROVE  PushInv'
  <1>1. /\ theirs' = theirs /\ pushing' = pushing /\ marked' = marked \cup Bookmarks /\ raced' = raced
        /\ excused' = excused /\ job' = NoJob
    BY DEF PushEnd, user, history
  <1>2. Grows
    BY <1>1 DEF Grows, Items
  <1>3. mine \in SUBSET Row /\ mine' \in SUBSET Row
    BY PushEndRows DEF TypeOK, Kept
  <1>4. PushCovers'
    <2> SUFFICES ASSUME ~raced, NEW q \in mine', q.sec # "comments", q.sec \in pushing,
                        MarkOf(q.sec) \in marked', MarkOf(q.sec) \notin q.added
                 PROVE  AtService(q)'
      BY <1>1 DEF PushCovers, MarkOf, AtService
    <2>1. PICK r \in mine : Same(q, r) /\ q.added = Ended(r)
      BY PushEndRows
    <2> DEFINE m == MarkOf(r.sec)
    <2>2. r.sec # "comments" /\ r.sec \in pushing /\ m \in marked \cup Bookmarks /\ m \notin Ended(r)
      BY <1>1, <2>1 DEF Same
    <2>3. CASE m \in marked /\ m \notin r.added
      <3>1. AtService(r)
        BY <2>2, <2>3, CoversRow DEF PushInv
      <3> QED BY <1>2, <1>3, <2>1, <3>1, StillAtService
    <2>4. CASE m \in Bookmarks /\ "job" \notin r.added
      <3>1. PushReads /\ job.kind = "push" /\ job.stage # "core"
        BY DEF PushInv, PushEnd
      <3>2. AtService(r)
        <4>1. CASE r.sec = "lists"
          <5>1. job.listsDone
            BY <2>4, <4>1 DEF MarkOf, Bookmarks
          <5> QED BY <2>4, <3>1, <4>1, <5>1 DEF PushReads
        <4>2. CASE r.sec # "lists"
          <5>1. ~job.coreFailed
            BY <2>4, <4>2 DEF MarkOf, Bookmarks
          <5>2. r.sec \in Core
            BY <1>3, <2>2, <4>2 DEF Row, Section, Core
          <5> QED BY <2>2, <2>4, <3>1, <5>1, <5>2 DEF PushReads
        <4> QED BY <4>1, <4>2
      <3> QED BY <1>2, <1>3, <2>1, <3>2, StillAtService
    <2>5. (m \in marked /\ m \notin r.added) \/ (m \in Bookmarks /\ "job" \notin r.added)
      BY <2>2 DEF Ended
    <2> QED BY <2>3, <2>4, <2>5
  <1>5. FromThere'
    <2> SUFFICES ASSUME NEW q \in mine' \cup open', ~q.ours PROVE q.item \in Items(theirs', q.sec)
      BY DEF FromThere
    <2>1. PICK r \in mine \cup open : Same(q, r)
      BY PushEndRows
    <2>2. r.item \in Items(theirs, r.sec)
      BY <2>1 DEF Same, PushInv, FromThere
    <2> QED BY <1>1, <2>1, <2>2 DEF Same, Items
  <1>6. PushReads'
    BY <1>1 DEF PushReads, NoJob
  <1> QED BY <1>4, <1>5, <1>6 DEF PushInv

(* The steps that do not push.                                             *)
LEMMA QuietSteps ==
    ASSUME TypeOK,
           \/ \E s \in Section, i \in Item : \/ Write(s, i, FALSE) \/ Write(s, i, TRUE)
                                             \/ WriteThere(s, i)
           \/ \E r \in mine : Forget(r)
           \/ Reconnect \/ Appear \/ Break
           \/ \E full, answered, blocked \in BOOLEAN : PullStart(full, answered, blocked)
           \/ PullEnd
           \/ UNCHANGED vars
    PROVE  Grows /\ Quiet
  <1>1. ASSUME NEW s \in Section, NEW i \in Item, NEW imported \in BOOLEAN, Write(s, i, imported)
        PROVE  Grows /\ Quiet
    <2> DEFINE x == IF imported THEN {} ELSE Now
               new == [sec |-> s, item |-> i, ours |-> TRUE, linked |-> FALSE, added |-> x]
    <2>1. open' = open \cup {new}
      BY <1>1 DEF Write
    <2>2. new.ours
      OBVIOUS
    <2> HIDE DEF new
    <2>3. /\ mine' = mine /\ theirs' = theirs /\ pushing' = pushing /\ marked' = marked /\ job' = job
          /\ excused' = excused /\ raced' = raced
      BY <1>1 DEF Write, user
    <2> QED BY <2>1, <2>2, <2>3 DEF Grows, Quiet, Items
  <1>2. ASSUME NEW s \in Section, NEW i \in Item, WriteThere(s, i)
        PROVE  Grows /\ Quiet
    <2>1. Grows
      BY <1>2, WriteThereThere DEF Grows, WriteThere, history
    <2>2. Quiet
      BY <1>2 DEF Quiet, WriteThere, user, history
    <2> QED BY <2>1, <2>2
  <1>3. ASSUME NEW r \in mine, Forget(r)
        PROVE  Grows /\ Quiet
    BY <1>3 DEF Grows, Quiet, Forget, user, Items
  <1>4. CASE Reconnect
    BY <1>4 DEF Grows, Quiet, Reconnect, user, world, Items
  <1>5. CASE Appear
    <2>1. Grows
      BY <1>5, AppearThere DEF Grows, Appear, history
    <2>2. Quiet
      BY <1>5 DEF Quiet, Appear, user, history
    <2> QED BY <2>1, <2>2
  <1>6. CASE Break
    BY <1>6 DEF Grows, Quiet, Break, user, world, history, Items, NoJob
  <1>7. ASSUME NEW full \in BOOLEAN, NEW answered \in BOOLEAN, NEW blocked \in BOOLEAN,
               PullStart(full, answered, blocked)
        PROVE  Grows /\ Quiet
    <2>1. /\ mine' = mine /\ open' = open /\ pushing' = pushing /\ raced' = raced
          /\ marked' \subseteq marked
      BY <1>7 DEF PullStart, user
    <2>2. CASE job' = job
      <3>1. job'.kind # "pull"
        BY <1>7, <2>2 DEF PullStart, NoJob
      <3>2. UNCHANGED <<theirs, job, excused>>
        BY <1>7, <3>1 DEF PullStart
      <3> QED BY <2>1, <3>2 DEF Grows, Quiet, Items
    <2>3. CASE job' # job
      <3>1. job'.kind # "push"
        <4>1. job' \in PullJob
          BY <1>7, <2>3, PullStartJob
        <4> QED BY <4>1 DEF PullJob
      <3>2. \A s \in Section : Items(theirs', s) = Items(theirs, s)
        BY <1>7, <2>3, PullStartThere
      <3>3. excused \subseteq excused'
        BY <1>7, <2>3, PullStartJob
      <3> QED BY <2>1, <3>1, <3>2, <3>3 DEF Grows, Quiet
    <2> QED BY <2>2, <2>3
  <1>8. CASE PullEnd
    <2>1. Grows
      BY <1>8, PullEndThere DEF Grows, PullEnd, history
    <2>2. Quiet
      BY <1>8 DEF Quiet, PullEnd, user, history, NoJob
    <2> QED BY <2>1, <2>2
  <1>9. CASE UNCHANGED vars
    BY <1>9 DEF vars, Grows, Quiet, Items
  <1> QED
    BY <1>1, <1>2, <1>3, <1>4, <1>5, <1>6, <1>7, <1>8, <1>9

LEMMA PushInit == Init => PushInv
  BY DEF Init, PushInv, PushCovers, FromThere, PushReads, NoJob

LEMMA PushStep == TypeOK /\ PushInv /\ [Next]_vars => PushInv'
  <1> SUFFICES ASSUME TypeOK, PushInv, [Next]_vars PROVE PushInv'
    OBVIOUS
  <1>1. secs \subseteq Section
    BY ConstantsAssumption DEF TypeOK
  <1>2. ASSUME NEW r \in open, NEW live \in BOOLEAN, Commit(r, live) PROVE PushInv'
    BY <1>2, CommitPush
  <1>3. ASSUME NEW newPull \in {{}, secs}, NEW newPush \in Choices \cap SUBSET secs,
               Settings(newPull, newPush)
        PROVE  PushInv'
    BY <1>3, SettingsPush
  <1>4. ASSUME NEW ok \in SUBSET Item, PullSection(ok) PROVE PushInv'
    BY <1>4, PullSectionPush
  <1>5. CASE PushStart \/ PushEnd
    BY <1>5, PushStartPush, PushEndPush
  <1>6. ASSUME NEW ok \in SUBSET (Core \X Item), NEW quota \in BOOLEAN, PushCore(ok, quota)
        PROVE  PushInv'
    BY <1>6, PushCorePush
  <1>7. ASSUME NEW ok \in BOOLEAN, PushLists(ok) PROVE PushInv'
    BY <1>7, PushListsPush
  <1>8. ASSUME NEW r \in mine, NEW outcome \in {"written", "failed", "lost"}, PushComment(r, outcome)
        PROVE  PushInv'
    BY <1>8, PushCommentPush
  <1>9. ASSUME \/ \E s \in Section, i \in Item : \/ Write(s, i, FALSE) \/ Write(s, i, TRUE)
                                                 \/ WriteThere(s, i)
               \/ \E r \in mine : Forget(r)
               \/ Reconnect \/ Appear \/ Break
               \/ \E full, answered, blocked \in BOOLEAN : PullStart(full, answered, blocked)
               \/ PullEnd
               \/ UNCHANGED vars
        PROVE  PushInv'
    BY <1>9, QuietSteps, QuietPush
  <1> QED BY <1>1, <1>2, <1>3, <1>4, <1>5, <1>6, <1>7, <1>8, <1>9 DEF Next

(* A bookmark of the push passes nothing that is not at WeTrakr, but for rows that *)
(* were committed with an older date than the last push began.             *)
THEOREM PushBookmarkCovers == Spec => []PushCovers
  <1>1. Init => TypeOK /\ PushInv BY TypeInit, PushInit
  <1>2. TypeOK /\ PushInv /\ [Next]_vars => TypeOK' /\ PushInv' BY TypeStep, PushStep
  <1>3. PushInv => PushCovers BY DEF PushInv
  <1> QED BY <1>1, <1>2, <1>3, PTL DEF Spec

-----------------------------------------------------------------------------
(* The pull's bookmark.                                                    *)

(* What is here or excused stays so: what the user takes back is excused.   *)
Stays ==
    /\ \A s \in Section : \A i \in Items(mine, s) : i \in Items(mine', s) \/ <<"pull", s, i>> \in excused'
    /\ excused \subseteq excused'

LEMMA StillCovered ==
    ASSUME Stays, pulling' \subseteq pulling, NEW e \in Entry, NEW d, d.sec = e.sec, d.item = e.item,
           Covered(e)
    PROVE  Covered(d)'
  BY DEF Stays, Covered, Entry

(* Steps that do not pull: an entry of afterwards is one of before, perhaps visible *)
(* now, or later than every bookmark.                                      *)
Aside ==
    /\ \A d \in theirs' : \/ d.stamp = {"pull", "job"}
                          \/ \E e \in theirs : /\ d.sec = e.sec /\ d.item = e.item /\ d.stamp = e.stamp
                                               /\ d.hidden => e.hidden
    /\ \/ pulling' \subseteq pulling
       \/ "pull" \notin marked' /\ (raced' \/ job'.kind # "pull")
    /\ "pull" \in marked' => "pull" \in marked
    /\ raced => raced'
    /\ \/ raced' \/ job'.kind # "pull"
       \/ job' = job /\ ("pull" \in marked => "pull" \in marked')

LEMMA AsidePull ==
    ASSUME TypeOK, PullInv, Stays, Aside
    PROVE  PullInv'
  <1>1. theirs \in SUBSET Entry
    BY DEF TypeOK
  <1>2. PullCovers'
    <2> SUFFICES ASSUME "pull" \in marked', ~raced', NEW d \in theirs', "pull" \notin d.stamp
                 PROVE  Covered(d)'
      BY DEF PullCovers, Covered
    <2>1. PICK e \in theirs : d.sec = e.sec /\ d.item = e.item /\ d.stamp = e.stamp
      BY DEF Aside
    <2>2. Covered(e)
      BY <2>1 DEF Aside, PullInv, PullCovers, Covered
    <2>3. pulling' \subseteq pulling
      BY DEF Aside
    <2> QED BY <1>1, <2>1, <2>2, <2>3, StillCovered
  <1>3. PullReads'
    <2> SUFFICES ASSUME job'.kind = "pull", ~raced' PROVE PullReads'
      BY DEF PullReads
    <2>1. /\ job' = job /\ ("pull" \in marked => "pull" \in marked') /\ ~raced
          /\ pulling' \subseteq pulling
      BY DEF Aside
    <2>2. PullReads
      BY DEF PullInv
    <2>3. ~job.all => "pull" \in marked'
      BY <2>1, <2>2 DEF PullReads
    <2>4. \A i \in job.known : i \in Items(mine', "watched") \/ <<"pull", "watched", i>> \in excused'
      BY <2>1, <2>2 DEF PullReads, Stays, Section
    <2>5. ASSUME job.stamped, ~job.errors, NEW d \in theirs', "job" \notin d.stamp
          PROVE  Covered(d)' \/ ToRead(d)'
      <3>1. PICK e \in theirs : /\ d.sec = e.sec /\ d.item = e.item /\ d.stamp = e.stamp
                                /\ d.hidden => e.hidden
        BY <2>5 DEF Aside
      <3>2. Covered(e) \/ ToRead(e)
        BY <2>1, <2>2, <2>5, <3>1 DEF PullReads
      <3>3. CASE Covered(e)
        BY <1>1, <2>1, <3>1, <3>3, StillCovered
      <3>4. CASE ToRead(e)
        BY <2>1, <3>1, <3>4 DEF ToRead
      <3> QED BY <3>2, <3>3, <3>4
    <2> QED BY <2>1, <2>3, <2>4, <2>5 DEF PullReads
  <1> QED BY <1>2, <1>3 DEF PullInv

(* A pull begins: what is not later than its time was covered before, is in a feed *)
(* it will read, or is a comment while they are blocked.                   *)
LEMMA PullStartPull ==
    ASSUME TypeOK, PullInv, NEW full \in BOOLEAN, NEW answered \in BOOLEAN, NEW blocked \in BOOLEAN,
           PullStart(full, answered, blocked), job' # job
    PROVE  PullInv'
  <1> DEFINE after == IF full THEN marked \ {"pull"} ELSE marked
             news(e) == "pull" \notin after \/ "pull" \in e.stamp
             changed == {s \in pulling : ~answered \/ \E e \in theirs : e.sec = s /\ news(e)}
             read == IF blocked THEN changed \ {"comments"} ELSE changed
  <1>1. /\ job'.stage = Stage(1, read) /\ job'.flags = read /\ job'.stamped = answered
        /\ job'.all = ("pull" \notin after) /\ job'.known = Items(mine, "watched")
        /\ marked' = after
        /\ excused' = excused \cup (IF blocked THEN {<<"pull", "comments", i>> : i \in Item} ELSE {})
    BY ZenonT(40), PullStartJob
  <1>2. mine' = mine /\ pulling' = pulling /\ raced' = raced
    BY DEF PullStart, user
  <1>3. \A d \in theirs' : \E e \in theirs :
           /\ From(d, e)
           /\ d.stamp = IF e.hidden THEN e.stamp \cup {"job"} ELSE e.stamp \ {"job"}
    BY PullStartThere
  <1>4. theirs \in SUBSET Entry
    BY DEF TypeOK
  <1>5. Stays
    BY <1>1, <1>2 DEF Stays, Items
  <1>6. ASSUME ~raced, "pull" \in after, NEW e \in theirs, "pull" \notin e.stamp,
               NEW d, From(d, e)
        PROVE  Covered(d)'
    <2>1. Covered(e)
      BY <1>6 DEF PullInv, PullCovers, Covered
    <2> QED BY <1>2, <1>4, <1>5, <1>6, <2>1, StillCovered DEF From
  <1>7. PullCovers'
    <2> SUFFICES ASSUME "pull" \in after, ~raced, NEW d \in theirs', "pull" \notin d.stamp
                 PROVE  Covered(d)'
      BY <1>1, <1>2 DEF PullCovers, Covered
    <2>1. PICK e \in theirs : From(d, e) /\ "pull" \notin e.stamp
      BY <1>3
    <2> HIDE DEF after
    <2> QED BY <1>6, <2>1
  <1>8. PullReads'
    <2> SUFFICES ASSUME ~raced PROVE PullReads'
      BY <1>2 DEF PullReads
    <2>1. ASSUME answered, NEW d \in theirs', "job" \notin d.stamp
          PROVE  Covered(d)' \/ ToRead(d)'
      <3>1. PICK e \in theirs : From(d, e) /\ ~e.hidden /\ d.stamp = e.stamp \ {"job"}
        BY <1>3, <2>1
      <3>2. e \in Entry
        BY <1>4
      <3>3. CASE e.sec \notin pulling
        BY <1>2, <3>1, <3>3 DEF Covered, From
      <3>4. CASE ~news(e)
        BY <1>6, <3>1, <3>4
      <3>5. CASE e.sec \in pulling /\ news(e)
        <4>1. e.sec \in changed
          BY <3>5
        <4>2. CASE e.sec \notin read
          <5>1. blocked /\ e.sec = "comments" /\ e.item \in Item
            BY <3>2, <4>1, <4>2 DEF Entry
          <5>2. <<"pull", "comments", e.item>> \in excused'
            BY <1>1, <5>1
          <5> QED BY <3>1, <5>1, <5>2 DEF Covered, From
        <4>3. CASE e.sec \in read
          <5>1. PICK n \in 1..4 : Order[n] = e.sec
            BY <3>2, Sections DEF Entry
          <5>2. job'.stage \in 1..5 /\ job'.stage <= n
            BY <1>1, <4>3, <5>1, NextStage
          <5>3. n \in (job'.stage)..4
            BY <5>2
          <5>4. job'.all \/ "pull" \in d.stamp
            BY <1>1, <3>1, <3>5
          <5>5. d.sec = e.sec /\ ~d.hidden
            BY <3>1 DEF From
          <5>6. d.sec \in job'.flags
            BY <1>1, <4>3, <5>5
          <5> HIDE DEF read, changed, after
          <5> QED BY <5>1, <5>3, <5>4, <5>5, <5>6 DEF ToRead
        <4> QED BY <4>2, <4>3
      <3> QED BY <3>3, <3>4, <3>5
    <2>2. \A i \in job'.known : i \in Items(mine', "watched")
      BY <1>1, <1>2
    <2>3. ~job'.all => "pull" \in marked'
      BY <1>1
    <2>4. job'.stamped = answered
      BY <1>1
    <2> HIDE DEF read, changed, after
    <2> QED BY <2>1, <2>2, <2>3, <2>4 DEF PullReads
  <1> QED BY <1>7, <1>8 DEF PullInv

(* A section is read: what its feed answered is here, was taken back, is an item of *)
(* a list that could not be read, or counts as an error.                   *)
LEMMA PullSectionPull ==
    ASSUME TypeOK, PullInv, NEW ok, PullSection(ok)
    PROVE  PullInv'
  <1> DEFINE s == Order[job.stage]
             failed == Feed(s) \ ok
  <1>1. /\ theirs' = theirs /\ marked' = marked /\ pulling' = pulling /\ raced' = raced
        /\ job.kind = "pull"
    BY DEF PullSection, user
  <1>2. /\ s \in Section /\ ok \subseteq Feed(s)
        /\ \A i \in ok : i \in Items(mine', s) \/ (s = "watched" /\ i \in job.known)
    BY PullSectionRows
  <1>3. /\ job.stage \in 1..4 /\ job'.stage = Stage(job.stage + 1, job.flags)
        /\ job'.errors = (job.errors \/ Counts(s, failed))
        /\ job'.flags = job.flags /\ job'.stamped = job.stamped /\ job'.all = job.all
        /\ job'.known = job.known
    BY PullSectionJob
  <1>4. /\ excused \subseteq excused'
        /\ ~Counts(s, failed) /\ failed # {} => s = "lists" /\ \A i \in failed : <<"pull", s, i>> \in excused'
    BY DEF PullSection, Counts
  <1>5. Stays
    <2>1. mine \subseteq mine'
      BY DEF PullSection
    <2> QED BY <1>4, <2>1 DEF Stays, Items
  <1>6. theirs \in SUBSET Entry
    BY DEF TypeOK
  <1>7. ASSUME NEW e \in theirs, Covered(e) PROVE Covered(e)'
    BY <1>1, <1>5, <1>6, <1>7, StillCovered
  <1>8. PullCovers'
    <2> SUFFICES ASSUME "pull" \in marked, ~raced, NEW e \in theirs, "pull" \notin e.stamp
                 PROVE  Covered(e)'
      BY <1>1 DEF PullCovers, Covered
    <2>1. Covered(e)
      BY DEF PullInv, PullCovers, Covered
    <2> QED BY <1>7, <2>1
  <1>9. PullReads'
    <2> SUFFICES ASSUME ~raced PROVE PullReads'
      BY <1>1 DEF PullReads
    <2>1. PullReads
      BY DEF PullInv
    <2>2. \A i \in job.known : i \in Items(mine, "watched") \/ <<"pull", "watched", i>> \in excused
      BY <1>1, <2>1 DEF PullReads
    <2>3. \A i \in job'.known : i \in Items(mine', "watched") \/ <<"pull", "watched", i>> \in excused'
      BY <1>3, <1>5, <2>2 DEF Stays, Section
    <2>4. ASSUME job.stamped, ~job.errors, ~Counts(s, failed), NEW e \in theirs, "job" \notin e.stamp
          PROVE  Covered(e)' \/ ToRead(e)'
      <3>1. Covered(e) \/ ToRead(e)
        BY <1>1, <2>1, <2>4 DEF PullReads
      <3>2. CASE Covered(e)
        BY <1>7, <3>2
      <3>3. CASE ToRead(e) /\ e.sec = s
        <4>1. e.item \in Feed(s)
          BY <3>3 DEF ToRead, Feed, Visible
        <4>2. CASE e.item \in ok
          <5>1. e.item \in Items(mine', s) \/ <<"pull", s, e.item>> \in excused'
            BY <1>2, <1>3, <2>3, <4>2
          <5> QED BY <3>3, <5>1 DEF Covered
        <4>3. CASE e.item \notin ok
          <5>1. e.item \in failed
            BY <4>1, <4>3
          <5>2. <<"pull", s, e.item>> \in excused'
            BY <1>4, <2>4, <5>1
          <5> QED BY <3>3, <5>2 DEF Covered
        <4> QED BY <4>2, <4>3
      <3>4. CASE ToRead(e) /\ e.sec # s
        <4>1. PICK n \in (job.stage)..4 : Order[n] = e.sec /\ e.sec \in job.flags
          BY <3>4 DEF ToRead
        <4>2. n # job.stage
          BY <3>4, <4>1
        <4>3. n \in (job.stage + 1)..4 /\ job.stage + 1 \in 1..5
          BY <1>3, <4>1, <4>2
        <4>4. job'.stage \in (job.stage + 1)..5 /\ job'.stage <= n
          BY <1>3, <4>1, <4>3, NextStage
        <4>5. n \in (job'.stage)..4
          BY <1>3, <4>3, <4>4
        <4> QED BY <1>3, <3>4, <4>1, <4>5 DEF ToRead
      <3> QED BY <3>1, <3>2, <3>3, <3>4
    <2>5. ~job'.all => "pull" \in marked'
      BY <1>1, <1>3, <2>1 DEF PullReads
    <2> HIDE DEF s, failed
    <2> QED BY <1>1, <1>3, <2>3, <2>4, <2>5 DEF PullReads
  <1> QED BY <1>8, <1>9 DEF PullInv

(* A pull ends: the bookmark moves only to what was read.                  *)
LEMMA PullEndPull ==
    ASSUME TypeOK, PullInv, PullEnd
    PROVE  PullInv'
  <1>1. /\ mine' = mine /\ pulling' = pulling /\ raced' = raced /\ excused' = excused
        /\ job.kind = "pull" /\ job.stage = 5 /\ job' = NoJob
        /\ marked' = IF job.stamped /\ ~job.errors THEN marked \cup {"pull"} ELSE marked
    BY DEF PullEnd, user, history
  <1>2. \A d \in theirs' : \E e \in theirs :
          /\ From(d, e)
          /\ d.stamp = IF job.stamped /\ ~job.errors
                       THEN IF "job" \in e.stamp THEN {"pull", "job"} ELSE {}
                       ELSE e.stamp
    BY PullEndThere
  <1>3. theirs \in SUBSET Entry
    BY DEF TypeOK
  <1>4. Stays
    BY <1>1 DEF Stays, Items
  <1>5. PullCovers'
    <2> SUFFICES ASSUME "pull" \in marked', ~raced, NEW d \in theirs', "pull" \notin d.stamp
                 PROVE  Covered(d)'
      BY <1>1 DEF PullCovers, Covered
    <2>1. PICK e \in theirs :
            /\ From(d, e)
            /\ d.stamp = IF job.stamped /\ ~job.errors
                         THEN IF "job" \in e.stamp THEN {"pull", "job"} ELSE {}
                         ELSE e.stamp
      BY <1>2
    <2>2. Covered(e)
      <3>1. CASE job.stamped /\ ~job.errors
        <4>1. "job" \notin e.stamp
          BY <2>1, <3>1
        <4>2. Covered(e) \/ ToRead(e)
          BY <1>1, <3>1, <4>1 DEF PullInv, PullReads
        <4>3. ~ToRead(e)
          BY <1>1 DEF ToRead
        <4> QED BY <4>2, <4>3
      <3>2. CASE ~(job.stamped /\ ~job.errors)
        BY <1>1, <2>1, <3>2 DEF PullInv, PullCovers, Covered
      <3> QED BY <3>1, <3>2
    <2> QED BY <1>1, <1>3, <1>4, <2>1, <2>2, StillCovered DEF From
  <1>6. PullReads'
    BY <1>1 DEF PullReads, NoJob
  <1> QED BY <1>5, <1>6 DEF PullInv

(* A step that keeps what is here and the settings, and adds to what is there. *)
LEMMA AddsAside ==
    ASSUME Adds, pulling' = pulling, raced' = raced, "pull" \in marked' <=> "pull" \in marked,
           job' = job \/ job'.kind # "pull"
    PROVE  Aside
  BY DEF Adds, Aside

(* The user's steps and the push's.                                        *)
LEMMA AsideUser ==
    ASSUME TypeOK,
           \/ \E s \in Section, i \in Item : \/ Write(s, i, FALSE) \/ Write(s, i, TRUE)
                                             \/ WriteThere(s, i)
           \/ \E r \in open, live \in BOOLEAN : Commit(r, live)
           \/ \E r \in mine : Forget(r)
           \/ \E newPull \in {{}, secs}, newPush \in Choices \cap SUBSET secs :
                 Settings(newPull, newPush)
           \/ Reconnect \/ Appear \/ Break
           \/ UNCHANGED vars
    PROVE  Stays /\ Aside
  <1>1. ASSUME NEW s \in Section, NEW i \in Item, NEW imported \in BOOLEAN, Write(s, i, imported)
        PROVE  Stays /\ Aside
    <2>1. /\ mine' = mine /\ theirs' = theirs /\ pulling' = pulling /\ marked' = marked /\ job' = job
          /\ excused' = excused /\ raced' = raced
      BY <1>1 DEF Write, user
    <2> QED BY <2>1, AddsNothing, AddsAside DEF Stays, Items
  <1>2. ASSUME NEW s \in Section, NEW i \in Item, WriteThere(s, i)
        PROVE  Stays /\ Aside
    <2>1. /\ mine' = mine /\ pulling' = pulling /\ marked' = marked /\ job' = job
          /\ excused' = excused /\ raced' = raced
      BY <1>2 DEF WriteThere, user, history
    <2>2. \A e \in theirs' : e \in theirs \/ e.stamp = {"pull", "job"}
      BY <1>2, WriteThereThere
    <2> QED BY <2>1, <2>2 DEF Stays, Items, Aside
  <1>3. ASSUME NEW r \in open, NEW live \in BOOLEAN, Commit(r, live)
        PROVE  Stays /\ Aside
    <2>1. /\ mine \subseteq mine' /\ pulling' = pulling /\ marked' = marked /\ job' = job
          /\ excused \subseteq excused' /\ raced' = raced
      BY <1>3 DEF Commit, user
    <2>2. Adds
      BY <1>3, CommitThere
    <2> QED BY <2>1, <2>2, AddsAside DEF Stays, Items
  <1>4. ASSUME NEW r \in mine, Forget(r)
        PROVE  Stays /\ Aside
    <2>1. /\ mine' = mine \ {r} /\ theirs' = theirs /\ pulling' = pulling /\ marked' = marked
          /\ job' = job /\ excused' = excused \cup {<<"pull", r.sec, r.item>>} /\ raced' = raced
      BY <1>4 DEF Forget, user
    <2>2. Stays
      BY <2>1 DEF Stays, Items
    <2> QED BY <2>1, <2>2, AddsNothing, AddsAside
  <1>5. ASSUME NEW newPull \in {{}, secs}, NEW newPush \in Choices \cap SUBSET secs,
               Settings(newPull, newPush)
        PROVE  Stays /\ Aside
    <2>1. /\ mine' = mine /\ theirs' = theirs /\ job' = job /\ excused' = excused
          /\ pulling' = newPull /\ marked' = marked \ ResetBy(newPull \ pulling, newPush \ pushing)
          /\ raced' = (raced \/ job # NoJob)
      BY <1>5 DEF Settings, world
    <2>2. \/ raced' \/ job'.kind # "pull"
      <3>1. CASE job = NoJob
        BY <2>1, <3>1 DEF NoJob
      <3>2. CASE job # NoJob
        BY <2>1, <3>2
      <3> QED BY <3>1, <3>2
    <2>3. pulling' \subseteq pulling \/ "pull" \notin marked'
      BY <2>1 DEF ResetBy
    <2> QED BY <2>1, <2>2, <2>3 DEF Stays, Items, Aside
  <1>6. CASE Reconnect
    <2>1. /\ mine' = mine /\ theirs' = theirs /\ job' = job /\ excused' = excused
          /\ pulling' = pulling /\ marked' = {} /\ raced' = (raced \/ job # NoJob)
      BY <1>6 DEF Reconnect, world, user
    <2>2. \/ raced' \/ job'.kind # "pull"
      <3>1. CASE job = NoJob
        BY <2>1, <3>1 DEF NoJob
      <3>2. CASE job # NoJob
        BY <2>1, <3>2
      <3> QED BY <3>1, <3>2
    <2> QED BY <2>1, <2>2 DEF Stays, Items, Aside
  <1>7. CASE Appear
    <2>1. /\ mine' = mine /\ pulling' = pulling /\ marked' = marked /\ job' = job
          /\ excused' = excused /\ raced' = raced
      BY <1>7 DEF Appear, user, history
    <2>2. \A d \in theirs' : \E e \in theirs :
             d.sec = e.sec /\ d.item = e.item /\ d.stamp = e.stamp /\ ~d.hidden
      BY <1>7, AppearThere
    <2> QED BY <2>1, <2>2 DEF Stays, Items, Aside
  <1>8. CASE Break
    <2>1. /\ mine' = mine /\ theirs' = theirs /\ pulling' = pulling /\ marked' = marked
          /\ job'.kind # "pull" /\ excused' = excused /\ raced' = raced
      BY <1>8 DEF Break, user, world, history, NoJob
    <2> QED BY <2>1, AddsNothing, AddsAside DEF Stays, Items
  <1>9. CASE UNCHANGED vars
    <2>1. /\ mine' = mine /\ theirs' = theirs /\ pulling' = pulling /\ marked' = marked
          /\ job' = job /\ excused' = excused /\ raced' = raced
      BY <1>9 DEF vars
    <2> QED BY <2>1, AddsNothing, AddsAside DEF Stays, Items
  <1> QED BY <1>1, <1>2, <1>3, <1>4, <1>5, <1>6, <1>7, <1>8, <1>9

LEMMA AsidePush ==
    ASSUME TypeOK,
           \/ PushStart \/ PushEnd
           \/ \E ok \in SUBSET (Core \X Item), quota \in BOOLEAN : PushCore(ok, quota)
           \/ \E ok \in BOOLEAN : PushLists(ok)
           \/ \E r \in mine, outcome \in {"written", "failed", "lost"} : PushComment(r, outcome)
    PROVE  Stays /\ Aside
  <1>1. CASE PushStart
    <2>1. /\ theirs' = theirs /\ pulling' = pulling /\ marked' = marked
          /\ excused' = excused /\ raced' = raced
      BY <1>1 DEF PushStart, user, history
    <2>2. job'.kind # "pull"
      BY <1>1, PushStartJob DEF PushJob
    <2>3. Stays
      BY <1>1, <2>1, PushStartRows DEF Stays, Kept
    <2> QED BY <2>1, <2>2, <2>3, AddsNothing, AddsAside
  <1>2. CASE PushEnd
    <2>1. /\ theirs' = theirs /\ pulling' = pulling /\ marked' = marked \cup Bookmarks
          /\ excused' = excused /\ raced' = raced /\ job' = NoJob
      BY <1>2 DEF PushEnd, user, history
    <2>2. job'.kind # "pull" /\ ("pull" \in marked' <=> "pull" \in marked)
      BY <2>1, PushRows DEF NoJob
    <2>3. Stays
      BY <1>2, <2>1, PushEndRows DEF Stays, Kept
    <2> QED BY <2>1, <2>2, <2>3, AddsNothing, AddsAside
  <1>3. ASSUME NEW ok \in SUBSET (Core \X Item), NEW quota \in BOOLEAN, PushCore(ok, quota)
        PROVE  Stays /\ Aside
    <2>1. /\ mine' = mine /\ pulling' = pulling /\ marked' = marked
          /\ excused' = excused /\ raced' = raced
      BY <1>3 DEF PushCore, user, history
    <2>2. job'.kind # "pull"
      <3>1. job' \in PushJob
        BY <1>3, PushCoreJob
      <3> QED BY <3>1 DEF PushJob
    <2>3. Adds
      BY <1>3, PushCoreThere
    <2> QED BY <2>1, <2>2, <2>3, AddsAside DEF Stays, Items
  <1>4. ASSUME NEW ok \in BOOLEAN, PushLists(ok)
        PROVE  Stays /\ Aside
    <2>1. /\ mine' = mine /\ pulling' = pulling /\ marked' = marked
          /\ excused' = excused /\ raced' = raced
      BY <1>4 DEF PushLists, user, history
    <2>2. job'.kind # "pull"
      <3>1. job' \in PushJob
        BY <1>4, PushListsJob
      <3> QED BY <3>1 DEF PushJob
    <2>3. Adds
      BY <1>4, PushListsThere
    <2> QED BY <2>1, <2>2, <2>3, AddsAside DEF Stays, Items
  <1>5. ASSUME NEW r \in mine, NEW outcome \in {"written", "failed", "lost"}, PushComment(r, outcome)
        PROVE  Stays /\ Aside
    <2>1. /\ pulling' = pulling /\ marked' = marked /\ excused' = excused /\ raced' = raced
      BY <1>5 DEF PushComment, user
    <2>2. job'.kind # "pull"
      <3>1. job' \in PushJob
        BY <1>5, PushCommentJob
      <3> QED BY <3>1 DEF PushJob
    <2>3. Adds
      BY <1>5, CommentThere
    <2>4. Stays
      <3>1. /\ Linked(r).sec = r.sec /\ Linked(r).item = r.item
        BY Changed DEF TypeOK, Linked
      <3>2. \A q \in mine : \E t \in mine' : t.sec = q.sec /\ t.item = q.item
        <4>1. mine' = mine \/ mine' = (mine \ {r}) \cup {Linked(r)}
          BY <1>5 DEF PushComment
        <4> HIDE DEF Linked
        <4> QED BY <3>1, <4>1
      <3> QED BY <2>1, <3>2 DEF Stays, Items
    <2> QED BY <2>1, <2>2, <2>3, <2>4, AddsAside
  <1> QED BY <1>1, <1>2, <1>3, <1>4, <1>5

LEMMA PullInit == Init => PullInv
  BY DEF Init, PullInv, PullCovers, PullReads, NoJob

LEMMA PullStep == TypeOK /\ PullInv /\ [Next]_vars => PullInv'
  <1> SUFFICES ASSUME TypeOK, PullInv, [Next]_vars PROVE PullInv'
    OBVIOUS
  <1>1. secs \subseteq Section
    BY ConstantsAssumption DEF TypeOK
  <1>2. ASSUME NEW full \in BOOLEAN, NEW answered \in BOOLEAN, NEW blocked \in BOOLEAN,
               PullStart(full, answered, blocked)
        PROVE  PullInv'
    <2>1. CASE job' # job
      BY <1>2, <2>1, PullStartPull
    <2>2. CASE job' = job
      <3>1. job'.kind # "pull"
        BY <1>2, <2>2 DEF PullStart, NoJob
      <3>2. UNCHANGED <<theirs, job, excused>>
        BY <1>2, <3>1 DEF PullStart
      <3>3. mine' = mine /\ pulling' = pulling /\ raced' = raced
        BY <1>2 DEF PullStart, user
      <3>4. marked' \subseteq marked
        BY <1>2 DEF PullStart
      <3>5. Stays
        BY <3>2, <3>3 DEF Stays, Items
      <3>6. Aside
        BY <3>1, <3>2, <3>3, <3>4 DEF Aside
      <3> QED BY <3>5, <3>6, AsidePull
    <2> QED BY <2>1, <2>2
  <1>3. ASSUME NEW ok \in SUBSET Item, PullSection(ok) PROVE PullInv'
    BY <1>3, PullSectionPull
  <1>4. CASE PullEnd
    BY <1>4, PullEndPull
  <1>5. ASSUME \/ \E s \in Section, i \in Item : \/ Write(s, i, FALSE) \/ Write(s, i, TRUE)
                                                 \/ WriteThere(s, i)
               \/ \E r \in open, live \in BOOLEAN : Commit(r, live)
               \/ \E r \in mine : Forget(r)
               \/ \E newPull \in {{}, secs}, newPush \in Choices \cap SUBSET secs :
                     Settings(newPull, newPush)
               \/ Reconnect \/ Appear \/ Break
               \/ UNCHANGED vars
        PROVE  PullInv'
    BY <1>5, AsideUser, AsidePull
  <1>6. ASSUME \/ PushStart \/ PushEnd
               \/ \E ok \in SUBSET (Core \X Item), quota \in BOOLEAN : PushCore(ok, quota)
               \/ \E ok \in BOOLEAN : PushLists(ok)
               \/ \E r \in mine, outcome \in {"written", "failed", "lost"} : PushComment(r, outcome)
        PROVE  PullInv'
    BY <1>6, AsidePush, AsidePull
  <1> QED BY <1>1, <1>2, <1>3, <1>4, <1>5, <1>6 DEF Next

(* The pull's bookmark passes nothing that was marked at WeTrakr and is not here, *)
(* but for what the user took back, comments while they were blocked and items of a *)
(* list that could not be read.                                            *)
THEOREM PullBookmarkCovers == Spec => []PullCovers
  <1>1. Init => TypeOK /\ PullInv BY TypeInit, PullInit
  <1>2. TypeOK /\ PullInv /\ [Next]_vars => TypeOK' /\ PullInv' BY TypeStep, PullStep
  <1>3. PullInv => PullCovers BY DEF PullInv
  <1> QED BY <1>1, <1>2, <1>3, PTL DEF Spec
=============================================================================
