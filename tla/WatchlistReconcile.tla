------------------------- MODULE WatchlistReconcile -------------------------
(***************************************************************************)
(* The Plex watchlists of a user's connections and the one managed list    *)
(* they are reconciled with (core/watchlist_reconcile.py and               *)
(* _reconcile_plex_watchlist): the pull and the push job of a connection   *)
(* run the same three-way reconcile against the baseline the last one      *)
(* left, while users change either side, each change of the list is pushed *)
(* to Plex at once, and calls fail.                                        *)
(*                                                                         *)
(* A reconcile is one database transaction: what it does to the list and   *)
(* the baseline shows when it commits, what it does to Plex shows at once. *)
(***************************************************************************)
EXTENDS Naturals, FiniteSets

CONSTANTS
    Key,        \* movies and shows with a TMDB id
    Conn,       \* Plex connections of the user
    Floor,      \* SUPPRESS_MIN_BASELINE
    Patient,    \* does a user wait for a change to be pushed before the next
                \* one of the same item?
    MaxEdits,   \* bound: changes by users
    MaxFaults   \* bound: failed calls, truncated fetches, crashes

ASSUME ConstantsAssumption ==
    /\ IsFiniteSet(Key)
    /\ Floor \in Nat
    /\ Patient \in BOOLEAN
    /\ MaxEdits \in Nat /\ MaxFaults \in Nat

VARIABLES
    local,      \* the managed list's keys
    list,       \* the id of its row, 0 when there is none
    made,       \* lists made so far
    twin,       \* were two managed lists made?
    remote,     \* [Conn -> SUBSET Key]: the Plex watchlists
    base,       \* plex_watchlist_synced_keys: [Conn -> Baseline]
    flags,      \* [Conn -> Flags]: the directions that are on
    rec,        \* [Job -> Rec]: the reconciles at work
    live,       \* immediate pushes on their way: <<connection, key, add?>>
    removed,    \* history: the keys a user removed on either side
    lost,       \* history: the keys a truncated fetch did not return
    dropped,    \* history: <<connection, key>>, settled and then removed
    raced,      \* history: were directions changed under a reconcile?
    edits, faults

shared == <<local, list, made, twin, remote, base, flags, live>>
vars == <<local, list, made, twin, remote, base, flags, rec, live, removed, lost, dropped, raced, edits, faults>>

Job == Conn \X {"pull", "push"}
Flags == [pull : BOOLEAN, push : BOOLEAN]
\* NULL in the column: never reconciled.
Never == [ever |-> FALSE, keys |-> {}]
Baseline == {Never} \cup [ever : {TRUE}, keys : SUBSET Key]

Idle == [stage |-> "idle", on |-> [pull |-> FALSE, push |-> FALSE], base |-> Never, seen |-> {},
         list |-> 0, addL |-> {}, remL |-> {}, addR |-> {}, remR |-> {},
         ins |-> {}, del |-> {}, applied |-> {}, failAdd |-> {}, failRem |-> {}]
Rec == [stage : {"idle", "waiting", "fetched", "import", "push"},
        on : Flags,             \* the directions it has read
        base : Baseline,        \* the baseline it has read
        seen : SUBSET Key,      \* the remote watchlist it has fetched
        list : Nat,             \* the list it has found
        addL : SUBSET Key, remL : SUBSET Key,   \* its plan: local changes
        addR : SUBSET Key, remR : SUBSET Key,   \* and the pushes still to do
        ins : SUBSET Key, del : SUBSET Key,     \* uncommitted list items
        applied : SUBSET Key,                   \* the keys it takes to be listed
        failAdd : SUBSET Key, failRem : SUBSET Key]

TypeOK ==
    /\ local \in SUBSET Key
    /\ list \in Nat /\ made \in Nat /\ twin \in BOOLEAN
    /\ remote \in [Conn -> SUBSET Key]
    /\ base \in [Conn -> Baseline]
    /\ flags \in [Conn -> Flags]
    /\ rec \in [Job -> Rec]
    /\ live \in SUBSET (Conn \X Key \X BOOLEAN)
    /\ removed \in SUBSET Key /\ lost \in SUBSET Key
    /\ dropped \in SUBSET (Conn \X Key) /\ raced \in BOOLEAN
    /\ edits \in 0..MaxEdits
    /\ faults \in 0..MaxFaults

-----------------------------------------------------------------------------
(* plan_watchlist_reconcile: what to do about each key, by where it is.    *)

\* Mutant of AddLocal: what was removed here comes back from Plex.
AddLocalAlways(l, r, b, on) == {k \in r \ l : on.pull}

AddLocal(l, r, b, on) == {k \in r \ l : on.pull /\ (k \in b.keys => ~on.push)}
RemoveLocal(l, r, b, on) == {k \in l \ r : on.pull /\ b.ever /\ (k \notin b.keys => ~on.push)}
\* Mutant of AddRemote: what left Plex is not sent again.
AddRemoteNew(l, r, b, on) == {k \in l \ r : on.push /\ k \notin b.keys}

AddRemote(l, r, b, on) == {k \in l \ r : on.push /\ (k \in b.keys => ~on.pull)}
RemoveRemote(l, r, b, on) == {k \in r \ l : on.push /\ k \in b.keys}

\* The circuit breaker: the fetch looks broken.
Suspect(l, r, b, on) ==
    LET rem == RemoveLocal(l, r, b, on) IN
    /\ rem # {}
    /\ Cardinality(b.keys) >= Floor
    /\ r = {} \/ 2 * Cardinality(rem \cap b.keys) > Cardinality(b.keys)

\* compute_new_baseline: what really happened.
NewBaseline(applied, failAdd, failRem) == [ever |-> TRUE, keys |-> (applied \cup failRem) \ failAdd]

-----------------------------------------------------------------------------
(* Users.                                                                  *)

Edit == edits < MaxEdits /\ edits' = edits + 1 /\ UNCHANGED faults
Fault == faults < MaxFaults /\ faults' = faults + 1 /\ UNCHANGED edits
NoFault == UNCHANGED <<edits, faults>>
Writing(j) == rec[j].stage = "push"
Quiet(k) == Patient => \A c \in Conn, a \in BOOLEAN : <<c, k, a>> \notin live
Both(on) == on.pull /\ on.push

\* A reconcile that has seen k on both sides, and leaves it there.
Agrees(r, k) ==
    \/ r.stage \in {"idle", "waiting"}
    \/ r.stage = "fetched" /\ k \in r.seen
    \/ r.stage \in {"import", "push"} /\ k \in r.seen \cap r.applied

\* Both sides of c, its baseline and whoever reconciles them agree on k, and
\* no change of it is on its way.
Settled(c, k) ==
    /\ list # 0 /\ Both(flags[c])
    /\ k \in (local \cap remote[c] \cap base[c].keys) \ lost
    /\ \A j \in Job : j[1] = c => Agrees(rec[j], k)
    /\ \A a \in BOOLEAN : <<c, k, a>> \notin live

\* POST /lists/{id}/items: commit, then push to every connection that pushes.
AddItem(k) ==
    /\ Edit /\ Quiet(k)
    /\ list # 0 /\ k \notin local
    /\ \A j \in Job : Writing(j) => k \notin rec[j].ins
    /\ local' = local \cup {k}
    /\ live' = live \cup {<<c, k, TRUE>> : c \in {d \in Conn : flags[d].push}}
    /\ dropped' = {d \in dropped : d[2] # k}
    /\ UNCHANGED <<list, made, twin, remote, base, flags, rec, removed, lost, raced>>

RemoveItem(k) ==
    /\ Edit /\ Quiet(k)
    /\ k \in local
    /\ \A j \in Job : Writing(j) => k \notin rec[j].del
    /\ local' = local \ {k}
    /\ live' = live \cup {<<c, k, FALSE>> : c \in {d \in Conn : flags[d].push}}
    /\ removed' = removed \cup {k}
    /\ dropped' = dropped \cup {<<c, k>> : c \in {d \in Conn : Settled(d, k)}}
    /\ UNCHANGED <<list, made, twin, remote, base, flags, rec, lost, raced>>

\* DELETE /lists/{id}: nothing is pushed.
DeleteList ==
    /\ Edit
    /\ list # 0
    /\ \A j \in Job : Writing(j) => rec[j].ins \cup rec[j].del = {}
    /\ list' = 0 /\ local' = {} /\ dropped' = {}
    /\ UNCHANGED <<made, twin, remote, base, flags, rec, live, removed, lost, raced>>

\* PATCH /connections/{id}: a direction that is switched on starts afresh.
SetFlags(c, on) ==
    /\ Edit
    /\ on # flags[c]
    /\ flags' = [flags EXCEPT ![c] = on]
    /\ base' = IF (on.pull /\ ~flags[c].pull) \/ (on.push /\ ~flags[c].push)
               THEN [base EXCEPT ![c] = Never] ELSE base
    /\ dropped' = {d \in dropped : d[1] # c}
    /\ raced' = (raced \/ \E j \in Job : j[1] = c /\ rec[j].stage # "idle")
    /\ UNCHANGED <<local, list, made, twin, remote, rec, live, removed, lost>>

RemoteAdd(c, k) ==
    /\ Edit
    /\ k \notin remote[c]
    /\ remote' = [remote EXCEPT ![c] = @ \cup {k}]
    /\ dropped' = {d \in dropped : d[2] # k}
    /\ UNCHANGED <<local, list, made, twin, base, flags, rec, live, removed, lost, raced>>

RemoteRemove(c, k) ==
    /\ Edit
    /\ k \in remote[c]
    /\ remote' = [remote EXCEPT ![c] = @ \ {k}]
    /\ removed' = removed \cup {k}
    /\ dropped' = dropped \cup (IF Settled(c, k) THEN {<<c, k>>} ELSE {})
    /\ UNCHANGED <<local, list, made, twin, base, flags, rec, live, lost, raced>>

\* An immediate push reaches Plex, or does not.
Live(c, k, add) ==
    /\ <<c, k, add>> \in live
    /\ live' = live \ {<<c, k, add>>}
    /\ \/ remote' = [remote EXCEPT ![c] = IF add THEN @ \cup {k} ELSE @ \ {k}] /\ NoFault
       \/ Fault /\ UNCHANGED remote
    /\ UNCHANGED <<local, list, made, twin, base, flags, rec, removed, lost, dropped, raced>>

-----------------------------------------------------------------------------
(* A reconcile.                                                            *)

\* The job reads the connection's directions, then waits for its lock.
Begin(j) ==
    /\ rec[j].stage = "idle"
    /\ IF j[2] = "pull" THEN flags[j[1]].pull ELSE flags[j[1]].push
    /\ rec' = [rec EXCEPT ![j] = [Idle EXCEPT !.stage = "waiting", !.on = flags[j[1]]]]
    /\ UNCHANGED <<shared, removed, lost, dropped, raced, edits, faults>>

LockFree(c) == \A j \in Job : j[1] = c => rec[j].stage \in {"idle", "waiting"}

\* The lock is taken, the baseline read and the watchlist fetched; a fetch
\* that succeeds may still have lost some of it.
Fetch(j) ==
    LET c == j[1] IN
    /\ rec[j].stage = "waiting"
    /\ LockFree(c)
    /\ \E seen \in SUBSET remote[c] :
        /\ IF seen = remote[c] THEN NoFault ELSE Fault
        /\ rec' = [rec EXCEPT ![j].stage = "fetched", ![j].base = base[c], ![j].seen = seen]
        /\ lost' = lost \cup (remote[c] \ seen)
        /\ dropped' = {d \in dropped : d[2] \notin remote[c] \ seen}
    /\ UNCHANGED <<shared, removed, raced>>

\* Mutant of Load: the baseline is used even if the list is gone.
LoadWithBaseline(j) ==
    LET r == rec[j] IN
    /\ r.stage = "fetched"
    /\ rec' = [rec EXCEPT ![j] =
                [r EXCEPT !.stage = "import", !.list = list, !.applied = local,
                          !.addL = AddLocal(local, r.seen, r.base, r.on),
                          !.remL = RemoveLocal(local, r.seen, r.base, r.on),
                          !.addR = AddRemote(local, r.seen, r.base, r.on),
                          !.remR = RemoveRemote(local, r.seen, r.base, r.on)]]
    /\ UNCHANGED <<shared, removed, lost, dropped, raced, edits, faults>>

\* The list is read and the plan made.  Without a list the baseline does not
\* count; a suspect fetch ends the run, and so does a second managed list
\* (scalar_one_or_none raises).
Load(j) ==
    LET r == rec[j]
        b == IF list = 0 THEN Never ELSE r.base
    IN
    /\ r.stage = "fetched"
    /\ rec' = [rec EXCEPT ![j] =
                IF twin \/ Suspect(local, r.seen, b, r.on) THEN Idle
                ELSE [r EXCEPT !.stage = "import", !.list = list, !.applied = local,
                               !.addL = AddLocal(local, r.seen, b, r.on),
                               !.remL = RemoveLocal(local, r.seen, b, r.on),
                               !.addR = AddRemote(local, r.seen, b, r.on),
                               !.remR = RemoveRemote(local, r.seen, b, r.on)]]
    /\ UNCHANGED <<shared, removed, lost, dropped, raced, edits, faults>>

\* _apply_local_watchlist_changes: each import may fail, and all do if the
\* list has been deleted since it was read.
Import(j) ==
    LET r == rec[j] IN
    /\ r.stage = "import"
    /\ \E ins \in SUBSET r.addL :
        /\ IF r.list # 0 /\ r.list # list THEN ins = {} /\ NoFault
           ELSE IF ins = r.addL THEN NoFault ELSE Fault
        /\ rec' = [rec EXCEPT ![j] =
                    [r EXCEPT !.stage = "push", !.ins = ins,
                              !.del = IF r.list = list THEN r.remL \cap local ELSE {},
                              !.applied = (@ \cup ins) \ r.remL]]
    /\ UNCHANGED <<shared, removed, lost, dropped, raced>>

\* _apply_remote_watchlist_changes: the additions, then the removals.
PushAdd(j, k) ==
    /\ rec[j].stage = "push" /\ k \in rec[j].addR
    /\ \/ /\ remote' = [remote EXCEPT ![j[1]] = @ \cup {k}]
          /\ rec' = [rec EXCEPT ![j].addR = @ \ {k}]
          /\ NoFault
       \/ /\ Fault
          /\ rec' = [rec EXCEPT ![j].addR = @ \ {k}, ![j].failAdd = @ \cup {k}]
          /\ UNCHANGED remote
    /\ UNCHANGED <<local, list, made, twin, base, flags, live, removed, lost, dropped, raced>>

PushRemove(j, k) ==
    /\ rec[j].stage = "push" /\ rec[j].addR = {} /\ k \in rec[j].remR
    /\ \/ /\ remote' = [remote EXCEPT ![j[1]] = @ \ {k}]
          /\ rec' = [rec EXCEPT ![j].remR = @ \ {k}]
          /\ NoFault
       \/ /\ Fault
          /\ rec' = [rec EXCEPT ![j].remR = @ \ {k}, ![j].failRem = @ \cup {k}]
          /\ UNCHANGED remote
    /\ UNCHANGED <<local, list, made, twin, base, flags, live, removed, lost, dropped, raced>>

\* The baseline is written and everything committed.
Commit(j) ==
    LET r == rec[j]
        makes == r.list = 0 /\ r.addL # {}
    IN
    /\ r.stage = "push" /\ r.addR = {} /\ r.remR = {}
    /\ base' = [base EXCEPT ![j[1]] = NewBaseline(r.applied, r.failAdd, r.failRem)]
    /\ made' = IF makes THEN made + 1 ELSE made
    /\ twin' = (twin \/ (makes /\ list # 0))
    /\ list' = IF makes /\ list = 0 THEN made + 1 ELSE list
    /\ local' = IF makes THEN (IF list = 0 THEN r.ins ELSE local)
                ELSE IF r.list = list THEN (local \cup r.ins) \ r.del ELSE local
    /\ rec' = [rec EXCEPT ![j] = Idle]
    /\ UNCHANGED <<remote, flags, live, removed, lost, dropped, raced, edits, faults>>

\* Any step may raise: the transaction is rolled back, the run only warns.
Fails(j) ==
    /\ Fault
    /\ rec[j].stage # "idle"
    /\ rec' = [rec EXCEPT ![j] = Idle]
    /\ UNCHANGED <<shared, removed, lost, dropped, raced>>

Crash ==
    /\ Fault
    /\ rec' = [j \in Job |-> Idle]
    /\ live' = {}
    /\ UNCHANGED <<local, list, made, twin, remote, base, flags, removed, lost, dropped, raced>>

Init ==
    /\ local = {} /\ list = 0 /\ made = 0 /\ twin = FALSE
    /\ remote \in [Conn -> SUBSET Key]
    /\ base = [c \in Conn |-> Never]
    /\ flags = [c \in Conn |-> [pull |-> TRUE, push |-> TRUE]]
    /\ rec = [j \in Job |-> Idle]
    /\ live = {} /\ removed = {} /\ lost = {} /\ dropped = {} /\ raced = FALSE
    /\ edits = 0 /\ faults = 0

Step(j) ==
    \/ Fetch(j) \/ Load(j) \/ Import(j) \/ Commit(j)
    \/ \E k \in Key : PushAdd(j, k) \/ PushRemove(j, k)

Next ==
    \/ \E k \in Key : AddItem(k) \/ RemoveItem(k)
    \/ \E c \in Conn, k \in Key : RemoteAdd(c, k) \/ RemoteRemove(c, k)
    \/ \E c \in Conn, k \in Key, add \in BOOLEAN : Live(c, k, add)
    \/ \E c \in Conn, on \in Flags : SetFlags(c, on)
    \/ \E j \in Job : Begin(j) \/ Step(j) \/ Fails(j)
    \/ DeleteList \/ Crash

Spec == Init /\ [][Next]_vars

\* The scheduler keeps starting the jobs, every call returns in the end.
Fairness ==
    /\ \A j \in Job : WF_vars(Begin(j)) /\ WF_vars(Step(j))
    /\ \A c \in Conn, k \in Key, add \in BOOLEAN : WF_vars(Live(c, k, add))

FairSpec == Spec /\ Fairness

-----------------------------------------------------------------------------
(* Properties.                                                             *)

\* What a user removed, or a truncated fetch made look so.
Gone == removed \cup lost

\* Plex's auto-remove-after-watching is not undone: a key both sides agreed
\* on and a user then removed from one of them is not added back to either
\* by a reconcile in both directions.
NoResurrection ==
    [][\A j \in Job, k \in Key :
        /\ PushAdd(j, k) \/ Commit(j)
        /\ Both(rec[j].on) /\ ~raced
        /\ k \in (local' \ local) \cup (remote'[j[1]] \ remote[j[1]])
        => <<j[1], k>> \notin dropped]_vars

\* Only what a user removed is removed: a reconcile in both directions never
\* takes a key off the list or off Plex that nobody removed from either.
\* Failed pushes and imports, crashes, and the deletion of the whole list
\* ("every baseline key would read as a local deletion") do not look like
\* removals.
OnlyRemovedGoes ==
    [][\A j \in Job, k \in Key :
        /\ PushRemove(j, k) \/ Commit(j)
        /\ Both(rec[j].on) /\ ~raced
        => (local \ local') \cup (remote[j[1]] \ remote'[j[1]]) \subseteq Gone]_vars

\* The inductive invariant behind it, for a user with one Plex connection: what
\* the baseline and a reconcile at work take to be on both sides is there, but
\* for what was removed or lost.
AtWork(j) == rec[j].stage \notin {"idle", "waiting"}
Planned(j) == rec[j].stage \in {"import", "push"}

Exclusive == \A i, j \in Job : AtWork(i) /\ AtWork(j) => i = j
LiveSound == \A c \in Conn, k \in Key : <<c, k, FALSE>> \in live => k \in removed
BaseSound ==
    \A c \in Conn :
        /\ list # 0 => base[c].keys \subseteq local \cup Gone
        /\ Both(flags[c]) => base[c].keys \subseteq remote[c] \cup Gone
\* What a reconcile has read is still so.
ReadSound(j) ==
    LET r == rec[j] IN
    /\ r.stage # "idle" => r.on = flags[j[1]]
    /\ AtWork(j) => r.base = base[j[1]] /\ r.seen \subseteq remote[j[1]] \cup Gone
    /\ ~Planned(j) => r.ins \cup r.del \cup r.failRem = {}
    /\ r.stage = "fetched" /\ Both(r.on) => r.base.keys \subseteq r.seen \cup Gone
\* What it has planned removes only what is gone, and ends in a sound baseline.
PlanSound(j) ==
    LET r == rec[j] IN
    Planned(j) =>
        /\ IF r.list = 0 THEN list = 0 /\ r.applied \subseteq r.ins ELSE list \in {0, r.list}
        /\ r.del \subseteq r.remL
        /\ r.remR \cup r.failRem \subseteq Gone
        /\ r.addL \subseteq r.seen /\ r.ins \subseteq r.addL
        /\ r.stage = "import" => r.ins = {} /\ r.del = {}
        /\ r.stage = "push" => r.applied \cap r.del = {}
        /\ list # 0 => r.applied \subseteq r.ins \cup local \cup removed
        /\ Both(r.on) => /\ r.remL \subseteq Gone
                         /\ r.applied \subseteq remote[j[1]] \cup r.addR \cup r.failAdd \cup Gone
RInv ==
    /\ LiveSound /\ Exclusive
    /\ ~raced => /\ list = 0 => local = {}
                 /\ BaseSound
                 /\ \A j \in Job : ReadSound(j) /\ PlanSound(j)

\* And the one behind NoResurrection, for one connection too.  A plan adds only what
\* the baseline did not hold, and takes off the list only what Plex did not have.
PlanNew(j) ==
    LET r == rec[j] IN
    /\ ~Planned(j) => r.ins \cup r.failAdd = {}
    /\ Planned(j) => r.remL \cap r.seen = {}
    /\ Planned(j) /\ r.list # 0 /\ Both(r.on)
            => (r.addL \cup r.ins \cup r.addR \cup r.failAdd) \cap r.base.keys = {}
\* A reconcile adds no key that was dropped, and knows the side it is still on.
JobDrop(j, k) ==
    LET r == rec[j] IN
    /\ r.stage = "fetched" =>
          /\ k \in remote[j[1]] => k \in r.seen
          /\ k \in r.seen \cup local => k \in r.base.keys
    /\ Planned(j) =>
          /\ k \notin r.addL \cup r.ins \cup r.addR \cup r.failAdd
          /\ k \in remote[j[1]] => k \in (r.applied \ r.remL) \cup r.remR \cup r.failRem
          /\ k \in local => k \in r.applied \cup r.del
\* Such a key is on one side at most, in the baseline as long as it is, and no push
\* brings it back.
DropSound(c, k) ==
    /\ list # 0 /\ Both(flags[c])
    /\ <<c, k, TRUE>> \notin live
    /\ k \notin local \cap remote[c]
    /\ k \in local \cup remote[c] => k \in base[c].keys
    /\ \A j \in Job : j[1] = c => JobDrop(j, k)
DInv ==
    /\ \A j \in Job : PlanNew(j)
    /\ ~raced => \A d \in dropped : DropSound(d[1], d[2])

\* "Two consecutive runs settle; nothing oscillates": once users and faults
\* stop, every enabled direction ends up in sync and stays so, unless the
\* circuit breaker asks the user.
InSync(c) ==
    \/ /\ flags[c].pull => local = remote[c]
       /\ flags[c].push => local \subseteq remote[c]
    \/ Suspect(local, remote[c], base[c], flags[c])
Settles == \A c \in Conn : <>[]InSync(c)
=============================================================================
