--------------------------- MODULE PushStateProofs ---------------------------
(***************************************************************************)
(* What a push remembers and what a full push re-asserts, proved for every *)
(* library, server, number of concurrent pushes and clock of PushState.    *)
(***************************************************************************)
EXTENDS PushState, TLAPS

\* What a push at work still owes: every known copy of an item it set out to
\* send is still to do, failed, or has taken the value; an item it recorded
\* was taken by some copy.
Owes(r, S) ==
    /\ r.mode = "none" => \A i \in Item : r.want[i] = None
    /\ \A c \in r.todo : r.want[Home[c]] \in Value
    /\ \A i \in r.look : r.want[i] \in Value
    /\ \A i \in r.rec : r.want[i] \in Value /\ \E c \in Copy : Home[c] = i /\ <<c, r.want[i]>> \in S
    /\ \A i \in Item : r.want[i] # None =>
         \A c \in Known : Home[c] = i => c \in r.todo \/ i \in r.failed \/ <<c, r.want[i]>> \in S

\* What a full push that resumed nothing has re-asserted so far: a known copy
\* nobody else touched is still to do, failed, or shows the user's value.
Reasserts(r, L, V) ==
    (r.on /\ r.mode = "full" /\ ~r.resumed) =>
        \A c \in Known \ r.since : L[Home[c]] # None =>
            /\ r.want[Home[c]] = L[Home[c]]
            /\ c \in r.todo \/ Home[c] \in r.failed \/ V[c] = L[Home[c]]

PInv ==
    /\ TypeOK
    /\ \A s \in Slot : Owes(run[s], sent) /\ Reasserts(run[s], local, server)
    /\ RecordedWasSent

-----------------------------------------------------------------------------
(* Lemmas about the operators.                                             *)

(* Touch keeps every field of every push but the history since.            *)
LEMMA Touched ==
    ASSUME NEW r \in [Slot -> Run], NEW C \in SUBSET Copy, NEW s
    PROVE  /\ Touch(r, C, s) \in [Slot -> Run]
           /\ \A t \in Slot :
                /\ Touch(r, C, s)[t].on = r[t].on
                /\ Touch(r, C, s)[t].mode = r[t].mode
                /\ Touch(r, C, s)[t].resumed = r[t].resumed
                /\ Touch(r, C, s)[t].want = r[t].want
                /\ Touch(r, C, s)[t].todo = r[t].todo
                /\ Touch(r, C, s)[t].look = r[t].look
                /\ Touch(r, C, s)[t].rec = r[t].rec
                /\ Touch(r, C, s)[t].failed = r[t].failed
                /\ r[t].on /\ t # s => Touch(r, C, s)[t].since = r[t].since \cup C
                /\ t = s => Touch(r, C, s)[t] = r[t]
  BY DEF Touch, Run

(* The idle push is a push, and owes nothing.                              *)
LEMMA OffIsIdle ==
    ASSUME ConstantsAssumption
    PROVE  /\ Off \in Run
           /\ \A S : Owes(Off, S)
           /\ \A L, V : Reasserts(Off, L, V)
  <1>1. 0 \in Age
    BY DEF Age, ConstantsAssumption
  <1>2. Off \in Run
    BY <1>1 DEF Off, Run, Setting
  <1>3. ~Off.on /\ Off.todo = {} /\ Off.look = {} /\ Off.rec = {} /\ Off.want = [i \in Item |-> None]
    BY DEF Off
  <1> QED BY <1>2, <1>3 DEF Owes, Reasserts

(* Ages grow up to their cap.                                              *)
LEMMA OlderType ==
    ASSUME NEW max \in Nat, NEW a \in 0..max
    PROVE  Older(a, max) \in 0..max
  BY DEF Older

(* What a save writes is well typed, and never claims more than was sent.  *)
LEMMA SaveTells ==
    ASSUME ConstantsAssumption, TypeOK, RecordedWasSent,
           NEW r \in Run, NEW whole \in BOOLEAN, Owes(r, sent),
           whole => r.todo = {}, Save(r, whole), UNCHANGED sent
    PROVE  /\ store' \in [Item -> StoreRow]
           /\ miss' \in [Item -> 0..MissTTL]
           /\ RecordedWasSent'
  <1>1. \A i \in Pending(r) : i \in Item /\ r.want[i] \in Value /\ i \notin r.failed /\ i \in r.rec
    BY DEF Pending, Owes, Run
  <1>2. \A i \in Pending(r) : r.mode \in {"full", "incremental"}
    BY <1>1 DEF Owes, Run, ConstantsAssumption
  <1>3. \A i \in Pending(r) :
          [value |-> r.want[i], age |-> r.age, mode |-> r.mode, whole |-> whole] \in StoreRow
    BY <1>1, <1>2 DEF StoreRow, Setting, Run
  <1>4. store' \in [Item -> StoreRow]
    BY <1>3 DEF Save, TypeOK
  <1>5. r.age \in Nat /\ MissTTL \in Nat
    BY DEF Run, Age, ConstantsAssumption
  <1>6. \A i \in Item : miss'[i] \in 0..MissTTL
    BY <1>5 DEF Save, TypeOK
  <1>7. miss' \in [Item -> 0..MissTTL]
    BY <1>6 DEF Save
  <1>8. ASSUME NEW i \in Item, store'[i].value # None
        PROVE  /\ store'[i].whole => \A c \in KnownOf(i) : <<c, store'[i].value>> \in sent
               /\ \E c \in Copy : Home[c] = i /\ <<c, store'[i].value>> \in sent
    <2>1. CASE i \in Pending(r)
      <3>1. store'[i].value = r.want[i] /\ store'[i].whole = whole
        BY <2>1 DEF Save
      <3>2. r.want[i] # None /\ i \in r.rec /\ i \notin r.failed
        BY <1>1, <2>1 DEF ConstantsAssumption
      <3>3. \E c \in Copy : Home[c] = i /\ <<c, r.want[i]>> \in sent
        BY <3>2 DEF Owes
      <3>4. ASSUME whole, NEW c \in KnownOf(i) PROVE <<c, r.want[i]>> \in sent
        BY <3>2, <3>4 DEF Owes, KnownOf
      <3> QED BY <3>1, <3>3, <3>4
    <2>2. CASE i \notin Pending(r)
      <3>1. store'[i] = store[i]
        BY <2>2 DEF Save
      <3> QED BY <3>1, <1>8 DEF RecordedWasSent
    <2> QED BY <2>1, <2>2
  <1>9. RecordedWasSent'
    BY <1>8 DEF RecordedWasSent, KnownOf
  <1> QED BY <1>4, <1>7, <1>9

-----------------------------------------------------------------------------
(* Type correctness.                                                       *)

(* The first state is well typed.                                          *)
LEMMA TypeInit == ASSUME ConstantsAssumption, Init PROVE TypeOK
  <1>1. 0 \in Age /\ Week \in Age /\ MissTTL \in 0..MissTTL
    BY DEF Age, ConstantsAssumption
  <1>2. NoRow \in StoreRow
    BY <1>1 DEF NoRow, StoreRow, Setting
  <1>3. None \in Setting
    BY DEF Setting
  <1> QED BY <1>1, <1>2, <1>3, OffIsIdle DEF Init, TypeOK, ConstantsAssumption

(* An edit or nothing, counted, stays within the bounds.                   *)
LEMMA EditedType == ASSUME TypeOK, ConstantsAssumption, Edited PROVE edits' \in 0..MaxEdits /\ faults' \in 0..MaxFaults
  BY DEF Edited, TypeOK, ConstantsAssumption

(* So does a fault.                                                        *)
LEMMA FaultType == ASSUME TypeOK, ConstantsAssumption, Fault PROVE edits' \in 0..MaxEdits /\ faults' \in 0..MaxFaults
  BY DEF Fault, TypeOK, ConstantsAssumption

(* The run a push begins with.                                             *)
LEMMA BeginRun ==
    ASSUME ConstantsAssumption, TypeOK, NEW s \in Slot, NEW incremental \in BOOLEAN, Begin(s, incremental)
    PROVE  \E q \in Run, send \in SUBSET Item :
             /\ run' = [run EXCEPT ![s] = q]
             /\ q.on
             /\ q.mode = "none" => \A i \in Item : local[i] = None
             /\ q.want = [i \in Item |-> IF i \in send THEN local[i] ELSE None]
             /\ \A i \in send : local[i] # None
             /\ q.todo = {c \in Known : Home[c] \in send}
             /\ q.look \subseteq send /\ q.rec = {} /\ q.since = {}
             /\ (q.mode = "full" /\ ~q.resumed) => send = {i \in Item : local[i] # None}
  <1> DEFINE plan == Plan(incremental)
             send == {i \in Item : local[i] # None /\ ~Unchanged(i, plan)}
             unknown == {i \in send : KnownOf(i) = {}}
             recent == {i \in unknown : RecentMiss(i, plan)}
             want == [i \in Item |-> IF i \in send THEN local[i] ELSE None]
             todo == {c \in Known : Home[c] \in send}
             mode == IF \A i \in Item : local[i] = None THEN "none" ELSE plan.mode
             resumed == plan.resume # {}
             q == [Off EXCEPT !.on = TRUE, !.resumed = resumed, !.mode = mode, !.want = want,
                              !.todo = todo, !.look = unknown \ recent, !.failed = recent]
  <1>1. plan.mode \in {"full", "incremental"}
    BY DEF Plan
  <1>2. want \in [Item -> Setting] /\ send \in SUBSET Item
    BY DEF TypeOK, Setting
  <1>3. todo \in SUBSET Copy /\ recent \in SUBSET Item /\ unknown \ recent \in SUBSET Item
    BY DEF ConstantsAssumption
  <1>4. mode \in {"full", "incremental", "none"} /\ resumed \in BOOLEAN
    BY <1>1
  <1>5. q \in Run
    <2> HIDE DEF want, todo, mode, resumed, recent, unknown
    <2> QED BY <1>2, <1>3, <1>4, OffIsIdle DEF Run
  <1>6. /\ q.on /\ q.want = want /\ q.todo = todo /\ q.look = unknown \ recent
        /\ q.rec = {} /\ q.since = {} /\ q.mode = mode /\ q.resumed = resumed
    <2> HIDE DEF want, todo, mode, resumed, recent, unknown
    <2> QED BY DEF Off
  <1>7. run' = [run EXCEPT ![s] = q]
    BY DEF Begin
  <1>8. (q.mode = "full" /\ ~q.resumed) => send = {i \in Item : local[i] # None}
    <2>1. plan.mode = "full" /\ plan.resume = {} => \A i \in Item : ~Unchanged(i, plan)
      BY DEF Unchanged
    <2>2. mode = "full" => plan.mode = "full"
      BY <1>1
    <2> QED BY <2>1, <2>2, <1>6
  <1>9. q.mode = "none" => \A i \in Item : local[i] = None
    BY <1>1, <1>6
  <1> HIDE DEF q, recent
  <1> QED BY <1>2, <1>5, <1>6, <1>7, <1>8, <1>9

(* Every step keeps the types, given that what is remembered was sent.     *)
LEMMA TypeStep == ASSUME ConstantsAssumption, TypeOK, RecordedWasSent,
                         \A s \in Slot : Owes(run[s], sent), [Next]_vars
                  PROVE  TypeOK'
  <1> USE DEF env, memory
  <1>1. ASSUME NEW i \in Item, NEW v \in Setting, Rate(i, v) PROVE TypeOK'
    <2>1. run' \in [Slot -> Run]
      BY <1>1, Touched DEF Rate, TypeOK
    <2>2. edits' \in 0..MaxEdits /\ faults' \in 0..MaxFaults
      BY <1>1, EditedType DEF Rate
    <2> QED BY <1>1, <2>1, <2>2 DEF Rate, TypeOK
  <1>2. ASSUME NEW i \in Item, NEW v \in Setting, LiveArrives(i, v) PROVE TypeOK'
    <2>1. PICK ok \in SUBSET KnownOf(i) :
            /\ ok # KnownOf(i) => Fault
            /\ ok = KnownOf(i) => UNCHANGED <<edits, faults>>
            /\ server' = [c \in Copy |-> IF c \in ok THEN v ELSE server[c]]
            /\ run' = Touch(run, ok, Nobody)
      BY <1>2 DEF LiveArrives
    <2>2. edits' \in 0..MaxEdits /\ faults' \in 0..MaxFaults
      BY <2>1, FaultType DEF TypeOK
    <2>3. ok \in SUBSET Copy
      BY DEF KnownOf, ConstantsAssumption
    <2>4. run' \in [Slot -> Run]
      BY <2>1, <2>3, Touched DEF TypeOK
    <2> QED BY <1>2, <2>1, <2>2, <2>4 DEF LiveArrives, TypeOK
  <1>3. ASSUME NEW c \in Copy, NEW v \in Value, ServerEdit(c, v) PROVE TypeOK'
    <2>1. run' \in [Slot -> Run]
      BY ZenonT(40), <1>3, Touched DEF ServerEdit, TypeOK
    <2>2. edits' \in 0..MaxEdits /\ faults' \in 0..MaxFaults
      BY <1>3, EditedType DEF ServerEdit
    <2> QED BY <1>3, <2>1, <2>2 DEF ServerEdit, TypeOK, Setting
  <1>4. ASSUME NEW c \in Copy, ServerAdds(c) PROVE TypeOK'
    BY <1>4, EditedType DEF ServerAdds, TypeOK
  <1>5. ASSUME NEW s \in Slot, NEW incremental \in BOOLEAN, Begin(s, incremental) PROVE TypeOK'
    <2>1. \E q \in Run : run' = [run EXCEPT ![s] = q]
      BY <1>5, BeginRun, ZenonT(40)
    <2>2. run' \in [Slot -> Run]
      BY <2>1 DEF TypeOK
    <2> QED BY <1>5, <2>2 DEF Begin, TypeOK
  <1>6. ASSUME NEW s \in Slot, NEW i \in Item, Lookup(s, i) PROVE TypeOK'
    <2>1. run[s] \in Run
      BY DEF TypeOK
    <2>2. ASSUME NEW c \in CopiesOf(i)
          PROVE  [run[s] EXCEPT !.look = @ \ {i}, !.found = @ \cup {i}, !.todo = @ \cup {c}] \in Run
      BY <2>1 DEF Run, CopiesOf, TypeOK
    <2>3. [run[s] EXCEPT !.look = @ \ {i}, !.missed = @ \cup {i}, !.failed = @ \cup {i}] \in Run
      BY <2>1 DEF Run
    <2>4. \E q \in Run : run' = [run EXCEPT ![s] = q]
      <3>1. CASE CopiesOf(i) = {}
        BY <1>6, <2>1, <2>3, <3>1 DEF Lookup, TypeOK
      <3>2. CASE CopiesOf(i) # {}
        BY <1>6, <2>1, <2>2, <3>2 DEF Lookup, TypeOK
      <3> QED BY <3>1, <3>2
    <2>5. run' \in [Slot -> Run]
      BY <2>4 DEF TypeOK
    <2> QED BY <1>6, <2>5 DEF Lookup, TypeOK
  <1>7. ASSUME NEW s \in Slot, NEW c \in Copy, Send(s, c) PROVE TypeOK'
    <2> DEFINE i == Home[c]
               T == Touch(run, {c}, s)
    <2>1. i \in Item /\ run[s].want[i] \in Value
      BY <1>7 DEF Send, Owes, ConstantsAssumption
    <2>2. T \in [Slot -> Run] /\ run \in [Slot -> Run]
      BY ZenonT(40), Touched DEF TypeOK
    <2> HIDE DEF T
    <2>3. \A r \in Run : /\ [r EXCEPT !.todo = @ \ {c}, !.rec = @ \cup {i}] \in Run
                         /\ [r EXCEPT !.todo = @ \ {c}, !.failed = @ \cup {i}] \in Run
      BY <2>1 DEF Run
    <2> HIDE DEF i
    <2>4. [T EXCEPT ![s].todo = @ \ {c}, ![s].rec = @ \cup {i}] \in [Slot -> Run]
      BY <2>2, <2>3
    <2>5. [run EXCEPT ![s].todo = @ \ {c}, ![s].failed = @ \cup {i}] \in [Slot -> Run]
      BY <2>2, <2>3
    <2>6. run' \in [Slot -> Run]
      BY <1>7, <2>4, <2>5 DEF Send, T, i
    <2>7. server' \in [Copy -> Setting] /\ sent' \in SUBSET (Copy \X Value)
      BY <1>7, <2>1 DEF Send, TypeOK, Setting, i
    <2>8. edits' \in 0..MaxEdits /\ faults' \in 0..MaxFaults
      BY <1>7, FaultType DEF Send, TypeOK
    <2> QED BY <1>7, <2>6, <2>7, <2>8 DEF Send, TypeOK
  <1>8. ASSUME NEW s \in Slot, Complete(s) PROVE TypeOK'
    <2>1. store' \in [Item -> StoreRow] /\ miss' \in [Item -> 0..MissTTL]
      BY <1>8, SaveTells DEF Complete, TypeOK
    <2>2. lastFull' \in Age
      BY <1>8 DEF Complete, TypeOK, Age, ConstantsAssumption
    <2>3. run' \in [Slot -> Run]
      BY <1>8, OffIsIdle DEF Complete, TypeOK
    <2>4. edits' \in 0..MaxEdits /\ faults' \in 0..MaxFaults
      BY <1>8, FaultType DEF Complete, TypeOK
    <2> QED BY <1>8, <2>1, <2>2, <2>3, <2>4 DEF Complete, TypeOK
  <1>9. ASSUME NEW s \in Slot, CancelPush(s) PROVE TypeOK'
    <2>1. run[s] \in Run
      BY DEF TypeOK
    <2>2. [run[s] EXCEPT !.cancelled = TRUE] \in Run
      BY <2>1 DEF Run
    <2> QED BY <1>9, <2>2, FaultType DEF CancelPush, TypeOK
  <1>10. ASSUME NEW s \in Slot, Interrupt(s) PROVE TypeOK'
    <2>1. store' \in [Item -> StoreRow] /\ miss' \in [Item -> 0..MissTTL]
      BY <1>10, SaveTells DEF Interrupt, TypeOK
    <2>2. broken' \in SUBSET Age
      BY <1>10 DEF Interrupt, TypeOK, Run
    <2>3. run' \in [Slot -> Run]
      BY <1>10, OffIsIdle DEF Interrupt, TypeOK
    <2>4. edits' \in 0..MaxEdits /\ faults' \in 0..MaxFaults
      BY <1>10, FaultType DEF Interrupt, TypeOK
    <2> QED BY <1>10, <2>1, <2>2, <2>3, <2>4 DEF Interrupt, TypeOK
  <1>11. ASSUME ClearAll PROVE TypeOK'
    <2>1. run' \in [Slot -> Run]
      BY <1>11, Touched DEF ClearAll, TypeOK
    <2> QED BY <1>11, <2>1, EditedType DEF ClearAll, TypeOK, Setting
  <1>12. ASSUME Crash PROVE TypeOK'
    <2>1. broken' \in SUBSET Age
      BY <1>12 DEF Crash, TypeOK, Run
    <2>2. run' \in [Slot -> Run]
      BY <1>12, OffIsIdle DEF Crash
    <2> QED BY <1>12, <2>1, <2>2, FaultType DEF Crash, TypeOK
  <1>13. ASSUME Tick PROVE TypeOK'
    <2>1. Week \in Nat /\ MissTTL \in Nat
      BY DEF ConstantsAssumption
    <2>2. \A a \in Age : Older(a, Week) \in Age
      BY <2>1, OlderType DEF Age
    <2>3. \A r \in StoreRow : [r EXCEPT !.age = Older(@, Week)] \in StoreRow
      BY <2>2 DEF StoreRow
    <2>4. \A r \in Run : [r EXCEPT !.age = Older(@, Week)] \in Run
      BY <2>2 DEF Run
    <2>5. store' \in [Item -> StoreRow] /\ run' \in [Slot -> Run] /\ lastFull' \in Age
      BY <1>13, <2>2, <2>3, <2>4 DEF Tick, TypeOK
    <2>6. miss' \in [Item -> 0..MissTTL]
      BY <1>13, <2>1, OlderType DEF Tick, TypeOK
    <2>7. broken' \in SUBSET Age
      BY <1>13, <2>1 DEF Tick, TypeOK, Age
    <2> QED BY <1>13, <2>5, <2>6, <2>7 DEF Tick, TypeOK
  <1>14. ASSUME UNCHANGED vars PROVE TypeOK'
    BY <1>14 DEF vars, TypeOK
  <1> QED BY <1>1, <1>2, <1>3, <1>4, <1>5, <1>6, <1>7, <1>8, <1>9, <1>10, <1>11, <1>12, <1>13, <1>14
          DEF Next, RunStep

-----------------------------------------------------------------------------
(* What a push owes and has re-asserted, step by step.                     *)

(* What a push owes does not depend on what it is called or who else wrote;*)
(* a server that took more is owed less.                                   *)
LEMMA OwesKept ==
    ASSUME NEW r, NEW q, NEW S, NEW S2, Owes(r, S), S \subseteq S2,
           q.mode = r.mode, q.want = r.want, q.todo = r.todo, q.look = r.look,
           q.rec = r.rec, q.failed = r.failed
    PROVE  Owes(q, S2)
  BY DEF Owes

(* Someone else writes copies C, or their items' ratings: a push that saw  *)
(* them touched claims nothing of them.                                    *)
LEMMA ReassertsKept ==
    ASSUME NEW r, NEW q, NEW L, NEW L2, NEW V, NEW V2, NEW C, Reasserts(r, L, V),
           q.on = r.on, q.mode = r.mode, q.resumed = r.resumed, q.want = r.want,
           q.todo = r.todo, q.failed = r.failed,
           r.on => q.since = r.since \cup C,
           \A c \in Known \ C : L2[Home[c]] = L[Home[c]] /\ V2[c] = V[c]
    PROVE  Reasserts(q, L2, V2)
  BY DEF Reasserts

(* Every step that only touches: users' edits and the real-time pushes.    *)
LEMMA TouchStep ==
    ASSUME ConstantsAssumption, TypeOK, NEW C \in SUBSET Copy,
           \A s \in Slot : Owes(run[s], sent) /\ Reasserts(run[s], local, server),
           run' = Touch(run, C, Nobody), UNCHANGED sent,
           \A c \in Known \ C : local'[Home[c]] = local[Home[c]] /\ server'[c] = server[c]
    PROVE  \A s \in Slot : Owes(run'[s], sent') /\ Reasserts(run'[s], local', server')
  <1> SUFFICES ASSUME NEW s \in Slot
               PROVE  Owes(run'[s], sent') /\ Reasserts(run'[s], local', server')
    OBVIOUS
  <1>1. run \in [Slot -> Run] /\ s # Nobody
    BY DEF TypeOK, ConstantsAssumption
  <1>2. /\ run'[s].on = run[s].on /\ run'[s].mode = run[s].mode
        /\ run'[s].resumed = run[s].resumed /\ run'[s].want = run[s].want
        /\ run'[s].todo = run[s].todo /\ run'[s].look = run[s].look
        /\ run'[s].rec = run[s].rec /\ run'[s].failed = run[s].failed
        /\ run[s].on => run'[s].since = run[s].since \cup C
    BY <1>1 DEF Touch, Run
  <1>3. Owes(run'[s], sent')
    <2>1. Owes(run[s], sent) /\ sent \subseteq sent'
      OBVIOUS
    <2> QED BY <1>2, <2>1, OwesKept
  <1>4. Reasserts(run'[s], local', server')
    <2>1. Reasserts(run[s], local, server)
      OBVIOUS
    <2> QED BY <1>2, <2>1, ReassertsKept
  <1> QED BY <1>3, <1>4

(* A fresh server owes nothing.                                            *)
LEMMA PInvInit == ASSUME ConstantsAssumption, Init PROVE PInv
  <1>1. TypeOK
    BY TypeInit
  <1>2. \A s \in Slot : Owes(run[s], sent) /\ Reasserts(run[s], local, server)
    BY OffIsIdle DEF Init
  <1>3. RecordedWasSent
    BY DEF Init, RecordedWasSent, NoRow
  <1> QED BY <1>1, <1>2, <1>3 DEF PInv

(* One push takes a step of its own; the others keep what they owe.        *)
LEMMA RunsStep ==
    ASSUME ConstantsAssumption, PInv, [Next]_vars
    PROVE  \A s \in Slot : Owes(run'[s], sent') /\ Reasserts(run'[s], local', server')
  <1> USE DEF env, memory
  <1>0. /\ TypeOK /\ \A s \in Slot : Owes(run[s], sent) /\ Reasserts(run[s], local, server)
        /\ run \in [Slot -> Run]
    BY DEF PInv, TypeOK
  <1> DEFINE Goal == \A s \in Slot : Owes(run'[s], sent') /\ Reasserts(run'[s], local', server')
  <1>1. ASSUME NEW i \in Item, NEW v \in Setting, Rate(i, v) PROVE Goal
    <2> DEFINE C == {c \in Copy : Home[c] = i}
    <2>1. \A c \in Known \ C : local'[Home[c]] = local[Home[c]] /\ server'[c] = server[c]
      BY <1>1, <1>0 DEF Rate, TypeOK, ConstantsAssumption
    <2>2. run' = Touch(run, C, Nobody) /\ UNCHANGED sent /\ C \in SUBSET Copy
      BY <1>1 DEF Rate
    <2> HIDE DEF C
    <2> QED BY <1>0, <2>1, <2>2, TouchStep
  <1>2. ASSUME NEW i \in Item, NEW v \in Setting, LiveArrives(i, v) PROVE Goal
    <2>1. PICK C \in SUBSET KnownOf(i) :
            /\ server' = [c \in Copy |-> IF c \in C THEN v ELSE server[c]]
            /\ run' = Touch(run, C, Nobody)
      BY <1>2 DEF LiveArrives
    <2>2. \A c \in Known \ C : local'[Home[c]] = local[Home[c]] /\ server'[c] = server[c]
      BY <1>2, <2>1 DEF LiveArrives, ConstantsAssumption
    <2>3. C \in SUBSET Copy /\ UNCHANGED sent
      BY <1>2 DEF LiveArrives, KnownOf, ConstantsAssumption
    <2> QED BY <1>0, <2>1, <2>2, <2>3, TouchStep
  <1>3. ASSUME NEW c \in Copy, NEW v \in Value, ServerEdit(c, v) PROVE Goal
    <2>1. \A d \in Known \ {c} : local'[Home[d]] = local[Home[d]] /\ server'[d] = server[d]
      BY <1>3, <1>0 DEF ServerEdit, TypeOK, ConstantsAssumption
    <2>2. run' = Touch(run, {c}, Nobody) /\ UNCHANGED sent /\ {c} \in SUBSET Copy
      BY <1>3 DEF ServerEdit
    <2> QED BY <1>0, <2>1, <2>2, TouchStep
  <1>4. ASSUME NEW c \in Copy, ServerAdds(c) PROVE Goal
    BY <1>0, <1>4 DEF ServerAdds
  <1>5. ASSUME ClearAll PROVE Goal
    <2>1. \A d \in Known \ Copy : local'[Home[d]] = local[Home[d]] /\ server'[d] = server[d]
      BY DEF ConstantsAssumption
    <2>2. run' = Touch(run, Copy, Nobody) /\ UNCHANGED sent /\ Copy \in SUBSET Copy
      BY <1>5 DEF ClearAll
    <2> QED BY <1>0, <2>1, <2>2, TouchStep
  <1>6. ASSUME NEW s \in Slot, NEW incremental \in BOOLEAN, Begin(s, incremental) PROVE Goal
    <2>1. \E q \in Run, send \in SUBSET Item :
             /\ run' = [run EXCEPT ![s] = q]
             /\ q.on
             /\ q.mode = "none" => \A i \in Item : local[i] = None
             /\ q.want = [i \in Item |-> IF i \in send THEN local[i] ELSE None]
             /\ \A i \in send : local[i] # None
             /\ q.todo = {c \in Known : Home[c] \in send}
             /\ q.look \subseteq send /\ q.rec = {} /\ q.since = {}
             /\ (q.mode = "full" /\ ~q.resumed) => send = {i \in Item : local[i] # None}
      BY <1>0, <1>6, BeginRun, ZenonT(40)
    <2>2. PICK q \in Run, send \in SUBSET Item :
             /\ run' = [run EXCEPT ![s] = q]
             /\ q.mode = "none" => \A i \in Item : local[i] = None
             /\ q.want = [i \in Item |-> IF i \in send THEN local[i] ELSE None]
             /\ \A i \in send : local[i] # None
             /\ q.todo = {c \in Known : Home[c] \in send}
             /\ q.look \subseteq send /\ q.rec = {} /\ q.since = {}
             /\ (q.mode = "full" /\ ~q.resumed) => send = {i \in Item : local[i] # None}
      BY <2>1
    <2>3. \A i \in send : q.want[i] \in Value
      BY <1>0, <2>2 DEF TypeOK, Setting
    <2>4. Owes(q, sent)
      BY <2>2, <2>3 DEF Owes
    <2>5. Reasserts(q, local, server)
      BY <2>2 DEF Reasserts, ConstantsAssumption
    <2>6. UNCHANGED <<sent, local, server>>
      BY <1>6 DEF Begin
    <2> QED BY <1>0, <2>2, <2>4, <2>5, <2>6
  <1>7. ASSUME NEW s \in Slot, NEW i \in Item, Lookup(s, i) PROVE Goal
    <2> DEFINE r == run[s]
    <2>1. /\ r \in Run /\ Owes(r, sent) /\ Reasserts(r, local, server)
          /\ i \in r.look /\ UNCHANGED <<sent, local, server>>
      BY <1>0, <1>7 DEF Lookup
    <2>2. ASSUME NEW c \in CopiesOf(i), NEW q,
                 q = [r EXCEPT !.look = @ \ {i}, !.found = @ \cup {i}, !.todo = @ \cup {c}]
          PROVE  Owes(q, sent) /\ Reasserts(q, local, server)
      <3>1. /\ q.on = r.on /\ q.mode = r.mode /\ q.resumed = r.resumed /\ q.want = r.want
            /\ q.todo = r.todo \cup {c} /\ q.look = r.look \ {i} /\ q.rec = r.rec
            /\ q.failed = r.failed /\ q.since = r.since
        BY <2>1, <2>2 DEF Run
      <3> HIDE DEF r
      <3>2. Owes(q, sent)
        BY <2>1, <3>1 DEF Owes, CopiesOf
      <3>3. Reasserts(q, local, server)
        BY <2>1, <3>1 DEF Reasserts
      <3> QED BY <3>2, <3>3
    <2>3. ASSUME NEW q, q = [r EXCEPT !.look = @ \ {i}, !.missed = @ \cup {i}, !.failed = @ \cup {i}]
          PROVE  Owes(q, sent) /\ Reasserts(q, local, server)
      <3>1. /\ q.on = r.on /\ q.mode = r.mode /\ q.resumed = r.resumed /\ q.want = r.want
            /\ q.todo = r.todo /\ q.look = r.look \ {i} /\ q.rec = r.rec
            /\ q.failed = r.failed \cup {i} /\ q.since = r.since
        BY <2>1, <2>3 DEF Run
      <3> HIDE DEF r
      <3>2. Owes(q, sent)
        BY <2>1, <3>1 DEF Owes
      <3>3. Reasserts(q, local, server)
        BY <2>1, <3>1 DEF Reasserts
      <3> QED BY <3>2, <3>3
    <2>4. \E q : run' = [run EXCEPT ![s] = q] /\ Owes(q, sent) /\ Reasserts(q, local, server)
      <3>1. CASE CopiesOf(i) = {}
        BY <1>0, <1>7, <2>3, <3>1 DEF Lookup
      <3>2. CASE CopiesOf(i) # {}
        BY <1>0, <1>7, <2>2, <3>2 DEF Lookup
      <3> QED BY <3>1, <3>2
    <2> QED BY <1>0, <2>1, <2>4
  <1>8. ASSUME NEW s \in Slot, NEW c \in Copy, Send(s, c) PROVE Goal
    <2> DEFINE i == Home[c]
               r == run[s]
               T == Touch(run, {c}, s)
    <2>1. /\ r \in Run /\ Owes(r, sent) /\ Reasserts(r, local, server)
          /\ c \in r.todo /\ UNCHANGED local /\ server \in [Copy -> Setting]
      BY <1>0, <1>8 DEF Send, TypeOK
    <2>2. i \in Item /\ r.want[i] \in Value
      BY <2>1 DEF Owes, ConstantsAssumption
    <2>3. CASE /\ server' = [server EXCEPT ![c] = r.want[i]]
               /\ run' = [T EXCEPT ![s].todo = @ \ {c}, ![s].rec = @ \cup {i}]
               /\ sent' = sent \cup {<<c, r.want[i]>>}
      <3>1. T[s] = r /\ T \in [Slot -> Run]
        <4>1. {c} \in SUBSET Copy
          OBVIOUS
        <4>2. T \in [Slot -> Run]
          BY <1>0, <4>1, Touched
        <4>3. T[s] = r
          BY DEF Touch
        <4> QED BY <4>2, <4>3
      <3>2. ASSUME NEW t \in Slot, t # s
            PROVE  Owes(run'[t], sent') /\ Reasserts(run'[t], local', server')
        <4>1. /\ run'[t].on = run[t].on /\ run'[t].mode = run[t].mode
              /\ run'[t].resumed = run[t].resumed /\ run'[t].want = run[t].want
              /\ run'[t].todo = run[t].todo /\ run'[t].look = run[t].look
              /\ run'[t].rec = run[t].rec /\ run'[t].failed = run[t].failed
              /\ run[t].on => run'[t].since = run[t].since \cup {c}
          <5>1. run'[t] = T[t]
            <6> HIDE DEF T, i, r
            <6> QED BY <2>3, <3>1, <3>2
          <5> QED BY <1>0, <3>2, <5>1 DEF Touch, Run
        <4>2. Owes(run[t], sent) /\ Reasserts(run[t], local, server) /\ sent \subseteq sent'
          BY <1>0, <2>3
        <4>3. \A d \in Known \ {c} : local'[Home[d]] = local[Home[d]] /\ server'[d] = server[d]
          BY <2>1, <2>3 DEF ConstantsAssumption
        <4>4. Owes(run'[t], sent')
          BY <4>1, <4>2, OwesKept
        <4>5. Reasserts(run'[t], local', server')
          BY <4>1, <4>2, <4>3, ReassertsKept
        <4> QED BY <4>4, <4>5
      <3>3. run'[s] = [r EXCEPT !.todo = @ \ {c}, !.rec = @ \cup {i}]
        <4> HIDE DEF T, i, r
        <4> QED BY <2>3, <3>1
      <3>4. /\ run'[s].on = r.on /\ run'[s].mode = r.mode /\ run'[s].resumed = r.resumed
            /\ run'[s].want = r.want /\ run'[s].todo = r.todo \ {c} /\ run'[s].look = r.look
            /\ run'[s].rec = r.rec \cup {i} /\ run'[s].failed = r.failed /\ run'[s].since = r.since
        <4> HIDE DEF i, r
        <4> QED BY <2>1, <3>3 DEF Run
      <3>5. Owes(run'[s], sent')
        <4>1. /\ r.mode = "none" => \A j \in Item : r.want[j] = None
              /\ \A d \in r.todo : r.want[Home[d]] \in Value
              /\ \A j \in r.look : r.want[j] \in Value
          BY <2>1 DEF Owes
        <4>2. \A j \in r.rec \cup {i} :
                r.want[j] \in Value /\ \E d \in Copy : Home[d] = j /\ <<d, r.want[j]>> \in sent'
          BY <2>1, <2>2, <2>3 DEF Owes
        <4>3. \A j \in Item : r.want[j] # None =>
                \A d \in Known : Home[d] = j =>
                  d \in r.todo \ {c} \/ j \in r.failed \/ <<d, r.want[j]>> \in sent'
          BY <2>1, <2>3 DEF Owes
        <4> HIDE DEF r, i
        <4> QED BY <3>4, <4>1, <4>2, <4>3 DEF Owes
      <3>6. Reasserts(run'[s], local', server')
        <4>1. \A d \in Known : server'[d] = IF d = c THEN r.want[Home[c]] ELSE server[d]
          BY <2>1, <2>3 DEF ConstantsAssumption
        <4>2. \A d \in r.todo \ {c} : d \in run'[s].todo
          BY <3>4
        <4> HIDE DEF r, i
        <4> QED BY <2>1, <3>4, <4>1, <4>2 DEF Reasserts
      <3> QED BY <3>2, <3>5, <3>6
    <2>4. CASE /\ run' = [run EXCEPT ![s].todo = @ \ {c}, ![s].failed = @ \cup {i}]
               /\ UNCHANGED <<server, sent>>
      <3>1. /\ run'[s].on = r.on /\ run'[s].mode = r.mode /\ run'[s].resumed = r.resumed
            /\ run'[s].want = r.want /\ run'[s].todo = r.todo \ {c} /\ run'[s].look = r.look
            /\ run'[s].rec = r.rec /\ run'[s].failed = r.failed \cup {i} /\ run'[s].since = r.since
        BY <1>0, <2>4 DEF Run
      <3>2. Owes(run'[s], sent')
        <4>1. Owes(r, sent) /\ sent' = sent /\ run'[s].todo \cup {c} = r.todo
          BY <2>1, <2>4, <3>1
        <4>2. \A j \in Item : r.want[j] # None =>
                \A d \in Known : Home[d] = j =>
                  d \in r.todo \ {c} \/ j \in r.failed \cup {i} \/ <<d, r.want[j]>> \in sent'
          BY <4>1 DEF Owes
        <4> HIDE DEF r, i
        <4> QED BY <3>1, <4>1, <4>2 DEF Owes
      <3>3. Reasserts(run'[s], local', server')
        <4> HIDE DEF r
        <4> QED BY <2>1, <2>4, <3>1 DEF Reasserts
      <3> QED BY <1>0, <2>1, <2>4, <3>2, <3>3
    <2> QED BY <1>8, <2>3, <2>4 DEF Send
  <1>9. ASSUME NEW s \in Slot, Complete(s) PROVE Goal
    BY <1>0, <1>9, OffIsIdle DEF Complete
  <1>10. ASSUME NEW s \in Slot, CancelPush(s) PROVE Goal
    <2>1. ASSUME NEW r \in Run, Owes(r, sent), Reasserts(r, local, server)
          PROVE  LET q == [r EXCEPT !.cancelled = TRUE]
                 IN  Owes(q, sent) /\ Reasserts(q, local, server)
      BY <2>1 DEF Owes, Reasserts, Run
    <2> QED BY <1>0, <1>10, <2>1 DEF CancelPush
  <1>11. ASSUME NEW s \in Slot, Interrupt(s) PROVE Goal
    BY <1>0, <1>11, OffIsIdle DEF Interrupt
  <1>12. ASSUME Crash PROVE Goal
    BY <1>12, OffIsIdle DEF Crash
  <1>13. ASSUME Tick PROVE Goal
    <2>1. ASSUME NEW r \in Run, Owes(r, sent), Reasserts(r, local, server)
          PROVE  LET q == [r EXCEPT !.age = Older(@, Week)]
                 IN  Owes(q, sent) /\ Reasserts(q, local, server)
      BY <2>1 DEF Owes, Reasserts, Run
    <2> QED BY <1>0, <1>13, <2>1 DEF Tick
  <1>14. ASSUME UNCHANGED vars PROVE Goal
    BY <1>0, <1>14 DEF vars
  <1> QED BY <1>1, <1>2, <1>3, <1>4, <1>5, <1>6, <1>7, <1>8, <1>9, <1>10, <1>11, <1>12, <1>13, <1>14
          DEF Next, RunStep

(* No step makes the memory claim what was not sent.                       *)
LEMMA RowsStep ==
    ASSUME ConstantsAssumption, PInv, [Next]_vars
    PROVE  RecordedWasSent'
  <1> USE DEF env, memory
  <1>0. TypeOK /\ RecordedWasSent /\ \A s \in Slot : run[s] \in Run /\ Owes(run[s], sent)
    BY DEF PInv, TypeOK
  <1>1. ASSUME UNCHANGED store, sent \subseteq sent' PROVE RecordedWasSent'
    BY <1>0, <1>1 DEF RecordedWasSent, KnownOf
  <1>2. ASSUME NEW s \in Slot, Complete(s) PROVE RecordedWasSent'
    <2>1. CASE Save(run[s], TRUE)
      BY <1>0, <1>2, <2>1, SaveTells DEF Complete
    <2>2. CASE UNCHANGED <<store, miss>>
      BY <1>1, <1>2, <2>2 DEF Complete
    <2> QED BY <1>2, <2>1, <2>2 DEF Complete
  <1>3. ASSUME NEW s \in Slot, Interrupt(s) PROVE RecordedWasSent'
    <2>1. Save(run[s], FALSE) /\ UNCHANGED sent
      BY <1>3 DEF Interrupt
    <2> QED BY <1>0, <2>1, SaveTells
  <1>4. ASSUME Tick PROVE RecordedWasSent'
    <2>1. ASSUME NEW i \in Item
          PROVE  store'[i].value = store[i].value /\ store'[i].whole = store[i].whole
      <3>1. store[i] \in StoreRow /\ store'[i] = [store[i] EXCEPT !.age = Older(@, Week)]
        BY <1>0, <1>4 DEF Tick, TypeOK
      <3> QED BY <3>1 DEF StoreRow
    <2>2. sent' = sent
      BY <1>4 DEF Tick
    <2> QED BY <1>0, <2>1, <2>2 DEF RecordedWasSent, KnownOf
  <1>5. ASSUME NEW s \in Slot, NEW c \in Copy, Send(s, c) PROVE RecordedWasSent'
    BY <1>1, <1>5 DEF Send
  <1>6. CASE UNCHANGED <<store, sent>>
    BY <1>1, <1>6
  <1>7. \/ UNCHANGED <<store, sent>> \/ Tick
        \/ \E s \in Slot : Complete(s) \/ Interrupt(s) \/ \E c \in Copy : Send(s, c)
    BY ZenonT(40) DEF Next, RunStep, Rate, LiveArrives, ServerEdit, ServerAdds, ClearAll, Begin, Lookup,
           CancelPush, Crash, vars
  <1> QED BY <1>2, <1>3, <1>4, <1>5, <1>6, <1>7

-----------------------------------------------------------------------------
(* Theorems.                                                               *)

(* PInv is inductive: what every push owes, what it has re-asserted and    *)
(* what the rows claim hold at every moment of every behaviour.            *)
THEOREM PushInvariant == Spec => []PInv
  <1>1. Init => PInv
    BY PInvInit, ConstantsAssumption
  <1>2. PInv /\ [Next]_vars => PInv'
    <2> SUFFICES ASSUME PInv, [Next]_vars PROVE PInv'
      OBVIOUS
    <2>1. TypeOK'
      BY TypeStep, ConstantsAssumption DEF PInv
    <2>2. \A s \in Slot : Owes(run'[s], sent') /\ Reasserts(run'[s], local', server')
      BY RunsStep, ConstantsAssumption
    <2>3. RecordedWasSent'
      BY RowsStep, ConstantsAssumption
    <2> QED BY <2>1, <2>2, <2>3 DEF PInv
  <1> QED BY <1>1, <1>2, PTL DEF Spec

(* Every variable keeps its type.                                          *)
THEOREM PushTypeCorrect == Spec => []TypeOK
  <1>1. PInv => TypeOK
    BY DEF PInv
  <1> QED BY <1>1, PushInvariant, PTL

(* A remembered value was accepted by a copy of the item, and by every     *)
(* known copy when the push that remembered it completed.                  *)
THEOREM MemoryTellsTheTruth == Spec => []RecordedWasSent
  <1>1. PInv => RecordedWasSent
    BY DEF PInv
  <1> QED BY <1>1, PushInvariant, PTL

(* A full push that resumed nothing leaves every known copy that nobody    *)
(* else touched, of every item that did not fail, at the user's value.     *)
THEOREM FullPushReconciles == Spec => FullReconciles
  <1> DEFINE A == \A s \in Slot :
                    Complete(s) /\ run[s].mode = "full" /\ ~run[s].resumed
                    => \A i \in Item, c \in Known :
                         (Home[c] = i /\ local[i] # None /\ i \notin run[s].failed
                            /\ c \notin run[s].since)
                         => server[c] = local[i]
  <1>1. PInv => A
    <2> SUFFICES ASSUME PInv, NEW s \in Slot, Complete(s), run[s].mode = "full", ~run[s].resumed,
                        NEW i \in Item, NEW c \in Known, Home[c] = i, local[i] # None,
                        i \notin run[s].failed, c \notin run[s].since
                 PROVE  server[c] = local[i]
      OBVIOUS
    <2>1. run[s].on /\ run[s].todo = {}
      BY DEF Complete
    <2> QED BY <2>1 DEF PInv, Reasserts
  <1>2. PInv /\ [Next]_vars => [A]_vars
    BY <1>1
  <1> QED BY <1>2, PushInvariant, PTL DEF Spec, FullReconciles
=============================================================================
