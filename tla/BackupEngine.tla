----------------------------- MODULE BackupEngine -----------------------------
(***************************************************************************)
(* One policy's backup passes (engine/mod.rs, engine/backfill.rs,          *)
(* engine/sync.rs) against a JMAP account that changes while they run, into *)
(* a git or a plain directory store whose process may be cancelled, fail   *)
(* or be killed between any two of its durable steps.                      *)
(*                                                                         *)
(* The account's mailboxes are fixed here, so mailbox_events only ever     *)
(* yields the upserts a store lacks: their cards (.mailbox.yaml) are one   *)
(* unit.  A Box is the place a mailbox has; where that is, and the mail    *)
(* filed in _unfiled while the index lacks its mailbox, is in MailboxTree. *)
(* dry_run is off; the account id always matches.                          *)
(***************************************************************************)
EXTENDS MailStore

CONSTANTS
    Day,         \* the UTC day each message was received
    Today,       \* the current day
    Git,         \* TRUE for a git store, FALSE for a plain directory store
    OmitsTransient, \* the server leaves out of a change list what was both
                    \* created and destroyed in it (RFC 8620 5.2: SHOULD)
    LosesAnchor, \* a lost query anchor makes the enumeration skip a message
    TornSaves,   \* an error or a kill may fall within the writing of state.json and
                 \* index.json, not only before or after both
    MaxVersion, MaxCrashes, MaxFails, MaxCancels  \* bounds

ASSUME DayAssumption == Day \in [Msg -> Nat \ {0}] /\ Today \in Nat
ASSUME SwitchAssumption ==
    {Git, OmitsTransient, LosesAnchor, TornSaves} \subseteq BOOLEAN
ASSUME BoundAssumption ==
    /\ MaxVersion \in Nat \ {0}
    /\ {MaxCrashes, MaxFails, MaxCancels} \subseteq Nat

VARIABLES
    \* The JMAP account: its Email state, and each message's metadata with the
    \* states that created and last changed (or destroyed) it.
    version, meta, created, changed,
    \* Durable: worktree, tree of HEAD, state.json, index.json.
    wt, head, dstate, dindex,
    \* The process: StoreState, StoreIndex, DirMailStore::path_edits,
    \* GitMailStore::pending, the cancel flag.
    st, ix, edits, pending, cancel,
    \* The cards of the mailboxes.
    cards,
    \* The pass: where it is, what it was asked for, what it has collected.
    pc, kind, stage, target, delta, unread, anchor, seen, metas, plan, batch,
    \* Faults so far.
    crashes, fails, cancels

serverVars  == <<version, meta, created, changed>>
diskVars    == <<wt, head, dstate, dindex>>
queueVars   == <<edits, pending, cards>>
memVars     == <<st, ix>>
collectVars == <<delta, unread, anchor, seen, metas>>
faultVars   == <<crashes, fails, cancels>>
vars == <<serverVars, diskVars, queueVars, memVars, cancel, pc, kind, stage,
          target, collectVars, plan, batch, faultVars>>

Version == 0 .. MaxVersion      \* 0: no Email state yet

\* BackfillCursor, and the part of StoreState the engine and the store read;
\* saved abstracts head_at_save to whether it names the current HEAD.
Cursor == [start : Version, last : Nat]
State == [source : Version, backfill : Cursor \cup {None}, saved : BOOLEAN]
DefaultState == [source |-> 0, backfill |-> None, saved |-> FALSE]

ASSUME CursorAssumption == None \notin Cursor \cup State

\* Where the cards are: in the worktree, in HEAD, as edits for the next commit,
\* as mailboxes of the StoreIndex and of index.json.  bare is history: the last
\* backfill to end had committed no day, as it met no mail.
Cards == [worktree : BOOLEAN, head : BOOLEAN, queued : BOOLEAN,
          known : BOOLEAN, indexed : BOOLEAN, bare : BOOLEAN]
NoCards == [worktree |-> FALSE, head |-> FALSE, queued |-> FALSE,
            known |-> FALSE, indexed |-> FALSE, bare |-> FALSE]

Changes == [created : SUBSET Msg, updated : SUBSET Msg, destroyed : SUBSET Msg]
NoChanges == [created |-> {}, updated |-> {}, destroyed |-> {}]
Planned == [add : SUBSET Msg, update : SUBSET Msg, delete : SUBSET Msg]
NothingPlanned == [add |-> {}, update |-> {}, delete |-> {}]
NoMetas == [m \in Msg |-> None]

Alive(m) == meta[m] # None
Matches(x) == x \in Wanted
Known(m) == ix[m] # None

VarsOK ==
    /\ version \in Version \ {0}
    /\ meta \in [Msg -> Meta \cup {None}]
    /\ created \in [Msg -> Version] /\ changed \in [Msg -> Version]
    /\ wt \in Tree /\ head \in Tree
    /\ dstate \in State \cup {None} /\ dindex \in Index \cup {None}
    /\ st \in State /\ ix \in Index
    /\ edits \in Edits /\ pending \in Edits /\ cancel \in BOOLEAN
    /\ pc \in {"idle", "enumerate", "day", "changes", "plan", "apply days",
               "apply", "commit", "save state", "save index"}
    /\ kind \in {"backup", "refresh"}
    /\ stage \in {"backfill", "sync", "reconcile", "past day", "final", "done"}
    /\ target \in Version
    /\ delta \in Changes
    /\ unread \subseteq Msg /\ seen \subseteq Msg /\ anchor \in Msg \cup {None}
    /\ metas \in [Msg -> Meta \cup {None}]
    /\ plan \in Planned /\ batch \in Planned
    /\ crashes \in Nat /\ fails \in Nat /\ cancels \in Nat

TypeOK == VarsOK /\ cards \in Cards

-----------------------------------------------------------------------------
(* The account (external).                                                  *)

\* Mail may already be there before the first pass.
ServerInit ==
    /\ version = 1
    /\ meta \in [Msg -> Meta \cup {None}]
    /\ created = [m \in Msg |-> IF Alive(m) THEN 1 ELSE 0]
    /\ changed = created

ServerStep(m, x) ==
    /\ version < MaxVersion
    /\ version' = version + 1
    /\ meta' = [meta EXCEPT ![m] = x]
    /\ changed' = [changed EXCEPT ![m] = version + 1]
    /\ UNCHANGED <<diskVars, queueVars, memVars, cancel, pc, kind, stage,
                   target, collectVars, plan, batch, faultVars>>

Arrive(m, x) ==
    /\ created[m] = 0
    /\ created' = [created EXCEPT ![m] = version + 1]
    /\ ServerStep(m, x)

Modify(m, x) ==
    /\ Alive(m) /\ meta[m] # x
    /\ ServerStep(m, x)
    /\ UNCHANGED created

Destroy(m) ==
    /\ Alive(m)
    /\ ServerStep(m, None)
    /\ UNCHANGED created

\* Email/changes from state since, a page that ends at state upto.
ChangedIn(since, upto) == {m \in Msg : since < changed[m] /\ changed[m] <= upto}
Page(since, upto) ==
    LET c == ChangedIn(since, upto) IN
    [created   |-> {m \in c : Alive(m) /\ created[m] > since},
     updated   |-> {m \in c : Alive(m) /\ created[m] <= since},
     destroyed |-> {m \in c : ~Alive(m) /\ ~(OmitsTransient /\ created[m] > since)}]

-----------------------------------------------------------------------------
(* Entering a pass.                                                         *)

\* MailStore::open, then connect.  The index cache is trusted only when it
\* was saved against the current HEAD; a directory store always trusts it.
Opened(s) == IF s = None THEN DefaultState ELSE s
Trusted == dindex # None /\ (Git => dstate # None /\ dstate.saved)

\* (mutant: a git store reads its worktree instead of HEAD.)
OpenIndexFromWorktree == IF Trusted THEN {dindex} ELSE Rebuilt(wt)

OpenIndex == IF Trusted THEN {dindex} ELSE Rebuilt(IF Git THEN head ELSE wt)

\* The mailboxes of that index.
OpenedCards ==
    [cards EXCEPT !.known = IF Trusted THEN cards.indexed
                            ELSE IF Git THEN cards.head ELSE cards.worktree]

\* (mutant: the edits of the mailbox upserts are not taken over.)
CardsUnqueued(c) ==
    IF c.known THEN c ELSE [c EXCEPT !.worktree = TRUE, !.known = TRUE]

\* store.apply of the upserts: the cards of mailboxes that the index lacks are
\* written, and wait for a commit.
CardsWritten(c) ==
    IF c.known THEN c
    ELSE [c EXCEPT !.worktree = TRUE, !.known = TRUE, !.queued = TRUE]

NeedsBackfill(s) == s.backfill # None \/ s.source = 0

StartEnumeration(after) ==
    /\ pc' = "enumerate"
    /\ unread' = {m \in Msg : Day[m] > after}
    /\ seen' = {} /\ anchor' = None /\ metas' = NoMetas

StartBackfill(s, c) ==
    LET cursor == IF s.backfill # None THEN s.backfill
                  ELSE [start |-> version, last |-> 0]
    IN  /\ stage' = "backfill"
        /\ st' = [s EXCEPT !.backfill = cursor]
        /\ cards' = CardsWritten(c)
        /\ StartEnumeration(cursor.last)
        /\ UNCHANGED <<target, delta>>

\* (mutant: only today's mail is enumerated.)
StartReconcileToday(c) ==
    /\ stage' = "reconcile"
    /\ target' = version
    /\ cards' = CardsWritten(c)
    /\ StartEnumeration(Today - 1)
    /\ UNCHANGED delta

StartReconcile(c) ==
    /\ stage' = "reconcile"
    /\ target' = version
    /\ cards' = CardsWritten(c)
    /\ StartEnumeration(0)
    /\ UNCHANGED delta

\* (mutant: the catch-up starts from the state the account is in by now.)
StartSyncLate(s) ==
    /\ stage' = "sync" /\ pc' = "changes"
    /\ target' = version
    /\ delta' = NoChanges
    /\ UNCHANGED <<unread, seen, anchor, metas>>

StartSync(s) ==
    /\ stage' = "sync" /\ pc' = "changes"
    /\ target' = s.source
    /\ delta' = NoChanges
    /\ UNCHANGED <<unread, seen, anchor, metas>>

\* run_backup and run_refresh.
Begin(k) ==
    /\ pc = "idle" /\ ~cancel
    /\ kind' = k
    /\ \E index \in OpenIndex : ix' = index
    /\ LET s == Opened(dstate) IN
       IF NeedsBackfill(s) THEN StartBackfill(s, OpenedCards)
       ELSE /\ st' = s
            /\ IF k = "backup" THEN StartSync(s) /\ cards' = OpenedCards
               ELSE StartReconcile(OpenedCards)
    /\ UNCHANGED <<serverVars, diskVars, edits, pending, cancel, plan, batch,
                   faultVars>>

\* What the process still holds in memory is dropped at the next open, so it
\* is forgotten here; the queues of edits are not.
EndPass ==
    /\ pc' = "idle" /\ kind' = "backup" /\ stage' = "done" /\ target' = 0
    /\ st' = DefaultState /\ ix' = EmptyIndex
    /\ delta' = NoChanges /\ unread' = {} /\ anchor' = None /\ seen' = {}
    /\ metas' = NoMetas /\ plan' = NothingPlanned /\ batch' = NothingPlanned

-----------------------------------------------------------------------------
(* Enumerating the account (jmap/mod.rs, sorted by receivedAt).             *)

Upcoming == {m \in unread : Alive(m)}
NextUp(m) == m \in Upcoming /\ \A n \in Upcoming : Day[m] <= Day[n]

\* One message is yielded.  Paging never looks back, so whatever is dated
\* before it is out of reach; backfill stops when the day changes.
Enumerate(m) ==
    /\ pc = "enumerate" /\ NextUp(m)
    /\ ~cancel
    /\ metas' = [metas EXCEPT ![m] = meta[m]]
    /\ seen' = seen \cup {m}
    /\ unread' = {n \in unread : Day[n] >= Day[m]} \ {m}
    /\ anchor' = m
    /\ pc' = IF stage = "backfill" /\ \E n \in seen : Day[n] # Day[m]
             THEN "day" ELSE "enumerate"
    /\ UNCHANGED <<serverVars, diskVars, queueVars, memVars, cancel, kind, stage,
                   target, delta, plan, batch, faultVars>>

\* The last message of a page is destroyed before the next page is asked for:
\* positional paging continues one place too far.
SkipAfterLostAnchor(m) ==
    /\ LosesAnchor
    /\ pc = "enumerate" /\ NextUp(m)
    /\ ~cancel
    /\ anchor # None /\ ~Alive(anchor)
    /\ unread' = unread \ {m}
    /\ anchor' = None
    /\ UNCHANGED <<serverVars, diskVars, queueVars, memVars, cancel, pc, kind,
                   stage, target, delta, seen, metas, plan, batch, faultVars>>

\* The stream ends: nothing is left, or a page is not asked for because of the
\* cancel flag (which the consumer cannot tell apart).
EnumerationEnds ==
    /\ pc = "enumerate"
    /\ Upcoming = {} \/ cancel
    /\ stage = "reconcile" \/ seen # {}
    /\ unread' = {}
    /\ pc' = IF stage = "backfill" THEN "day" ELSE "plan"
    /\ UNCHANGED <<serverVars, diskVars, queueVars, memVars, cancel, kind, stage,
                   target, delta, anchor, seen, metas, plan, batch, faultVars>>

-----------------------------------------------------------------------------
(* Backfill.                                                                *)

\* (mutant: the day of the message that ended day d.)
CursorAfterNext(d) ==
    [st.backfill EXCEPT !.last =
        CHOOSE e \in {Day[m] : m \in seen} :
           \A m \in seen : Day[m] <= e]

\* The cursor once day d is written.
CursorAfter(d) == [st.backfill EXCEPT !.last = d]

\* finalize_day for the oldest day collected.
FinalizeDay(d) ==
    LET ofDay == {m \in seen : Day[m] = d}
        fetch == {m \in ofDay : Matches(metas[m]) /\ ~Known(m)}
    IN  /\ pc = "day" /\ ofDay # {} /\ \A m \in seen : Day[m] >= d
        /\ \A m \in fetch : Alive(m)
        /\ batch' = [NothingPlanned EXCEPT !.add = fetch]
        /\ seen' = seen \ ofDay
        /\ st' = [st EXCEPT !.backfill = CursorAfter(d)]
        /\ pc' = "apply"
        /\ UNCHANGED <<serverVars, diskVars, queueVars, ix, cancel, kind, stage,
                       target, delta, unread, anchor, metas, plan, faultVars>>

\* (mutant: the catch-up starts from where the backfill ended.)
BackfillCompleteNow ==
    /\ pc = "enumerate" /\ stage = "backfill"
    /\ Upcoming = {} /\ seen = {} /\ ~cancel
    /\ st' = [st EXCEPT !.source = version, !.backfill = None]
    /\ cards' = [cards EXCEPT !.bare = st.backfill.last = 0]
    /\ stage' = "done"
    /\ pc' = "save state"
    /\ UNCHANGED <<serverVars, diskVars, edits, pending, ix, cancel, kind, target,
                   collectVars, plan, batch, faultVars>>

\* Every day is committed: the catch-up will start from where we began.
BackfillComplete ==
    /\ pc = "enumerate" /\ stage = "backfill"
    /\ Upcoming = {} /\ seen = {} /\ ~cancel
    /\ st' = [st EXCEPT !.source = st.backfill.start, !.backfill = None]
    /\ cards' = [cards EXCEPT !.bare = st.backfill.last = 0]
    /\ stage' = "done"
    /\ pc' = "save state"
    /\ UNCHANGED <<serverVars, diskVars, edits, pending, ix, cancel, kind, target,
                   collectVars, plan, batch, faultVars>>

-----------------------------------------------------------------------------
(* Changes-based catch-up.                                                  *)

ChangesPage(upto) ==
    /\ pc = "changes" /\ ~cancel
    /\ upto \in target .. version
    /\ (target < version) => (target < upto)
    /\ LET page == Page(target, upto) IN
       delta' = [created   |-> delta.created \cup page.created,
                 updated   |-> delta.updated \cup page.updated,
                 destroyed |-> delta.destroyed \cup page.destroyed]
    /\ target' = upto
    /\ pc' = IF upto < version THEN "changes" ELSE "plan"
    /\ UNCHANGED <<serverVars, diskVars, queueVars, memVars, cancel, kind, stage,
                   unread, anchor, seen, metas, plan, batch, faultVars>>

\* cannotCalculateChanges: reconnect and reconcile instead.
StateTooOld ==
    /\ pc = "changes" /\ ~cancel
    /\ target < version
    /\ StartReconcile(cards)
    /\ UNCHANGED <<serverVars, diskVars, edits, pending, memVars, cancel, kind,
                   plan, batch, faultVars>>

\* dedupe_changes: what is destroyed by now needs no fetching, and what is both
\* created and updated is fetched once.
Deduped == (delta.created \cup delta.updated) \ delta.destroyed

\* get_messages and plan_message_changes, over the deduplicated lists.
PlanSync ==
    LET touched == {m \in Deduped : Alive(m)}
        planned == [add    |-> {m \in touched : ~Known(m) /\ Matches(meta[m])},
                    update |-> {m \in touched : Known(m) /\ Matches(meta[m])},
                    delete |-> delta.destroyed \cup
                               {m \in touched : Known(m) /\ ~Matches(meta[m])}]
    IN  /\ pc = "plan" /\ stage = "sync"
        /\ IF planned = NothingPlanned /\ target = st.source
           THEN EndPass
           ELSE /\ plan' = planned
                /\ metas' = [m \in Msg |-> IF m \in touched THEN meta[m] ELSE None]
                /\ pc' = "apply days"
                /\ UNCHANGED <<memVars, kind, stage, target, delta, unread,
                               anchor, seen, batch>>
        /\ UNCHANGED <<serverVars, diskVars, queueVars, cancel, faultVars>>

-----------------------------------------------------------------------------
(* Reconciliation: diff the whole enumeration against the index.            *)

PlanReconcile ==
    /\ pc = "plan" /\ stage = "reconcile"
    /\ plan' = [add    |-> {m \in seen : ~Known(m) /\ Matches(metas[m])},
                update |-> {m \in seen : /\ Known(m) /\ Matches(metas[m])
                                         /\ ix[m].meta # metas[m]},
                delete |-> {m \in seen : Known(m) /\ ~Matches(metas[m])}
                           \cup {m \in Msg : Known(m) /\ m \notin seen}]
    /\ pc' = "apply days"
    /\ UNCHANGED <<serverVars, diskVars, queueVars, memVars, cancel, kind, stage,
                   target, collectVars, batch, faultVars>>

-----------------------------------------------------------------------------
(* apply_planned: mail of other days in commits of their own, oldest first; *)
(* then today's mail with the updates, the deletions and the new cursor.    *)

OtherDays == {Day[m] : m \in plan.add} \ {Today}

StartPastDay(d) ==
    LET ofDay == {m \in plan.add : Day[m] = d} IN
    /\ pc = "apply days" /\ ~cancel
    /\ d \in OtherDays /\ \A e \in OtherDays : d <= e
    /\ \A m \in ofDay : Alive(m)
    /\ batch' = [NothingPlanned EXCEPT !.add = ofDay]
    /\ plan' = [plan EXCEPT !.add = plan.add \ ofDay]
    /\ stage' = "past day" /\ pc' = "apply"
    /\ UNCHANGED <<serverVars, diskVars, queueVars, memVars, cancel, kind, target,
                   collectVars, faultVars>>

StartFinal ==
    /\ pc = "apply days" /\ ~cancel
    /\ OtherDays = {}
    /\ \A m \in plan.add : Alive(m)
    /\ batch' = plan
    /\ plan' = NothingPlanned
    /\ stage' = "final"
    /\ pc' = IF plan = NothingPlanned THEN "commit" ELSE "apply"
    /\ st' = [st EXCEPT !.source = target]
    /\ UNCHANGED <<serverVars, diskVars, queueVars, ix, cancel, kind, target,
                   collectVars, faultVars>>

\* fetch_raw: the content of a message that is gone cannot be downloaded, and
\* the pass fails; the daemon tries again.
ToFetch ==
    CASE pc = "day" ->
           LET d == CHOOSE d \in {Day[m] : m \in seen} : \A m \in seen : d <= Day[m]
           IN  {m \in seen : Day[m] = d /\ Matches(metas[m]) /\ ~Known(m)}
      [] pc = "apply days" /\ OtherDays = {} -> plan.add
      [] pc = "apply days" ->
           {m \in plan.add : Day[m] # Today /\ \A d \in OtherDays : Day[m] <= d}
      [] OTHER -> {}

FetchFails ==
    /\ \E m \in ToFetch : ~Alive(m)
    /\ pc = "apply days" => ~cancel
    /\ EndPass
    /\ UNCHANGED <<serverVars, diskVars, queueVars, cancel, faultVars>>

-----------------------------------------------------------------------------
(* MailStore::apply, one event at a time.                                   *)

Files == [wt |-> wt, ed |-> edits]

Applied(s, m, entry) ==
    /\ wt' = s.wt
    /\ edits' = s.ed
    /\ ix' = [ix EXCEPT ![m] = entry]
    /\ UNCHANGED <<serverVars, head, dstate, dindex, pending, cards, st, cancel, pc,
                   kind, stage, target, collectVars, plan, faultVars>>

ApplyAdded(m) ==
    /\ pc = "apply" /\ m \in batch.add
    /\ batch' = [batch EXCEPT !.add = @ \ {m}]
    /\ Applied(AddDone(Files, m, ix[m], metas[m]), m,
               AddEntry(Files, m, ix[m], metas[m]))

ApplyUpdated(m) ==
    /\ pc = "apply" /\ batch.add = {} /\ m \in batch.update
    /\ batch' = [batch EXCEPT !.update = @ \ {m}]
    /\ Applied(UpdateDone(Files, m, ix[m], metas[m]), m,
               UpdateEntry(Files, m, ix[m], metas[m]))

ApplyDeleted(m) ==
    /\ pc = "apply" /\ batch.add = {} /\ batch.update = {} /\ m \in batch.delete
    /\ batch' = [batch EXCEPT !.delete = @ \ {m}]
    /\ Applied(IF Known(m) THEN DeleteDone(Files, m, ix[m]) ELSE Files, m, None)

\* The git store takes over the recorded edits once the batch has succeeded.
ApplyEnds ==
    /\ pc = "apply" /\ batch = NothingPlanned
    /\ pending' = IF Git THEN Overlay(pending, edits) ELSE pending
    /\ edits' = IF Git THEN NoEdits ELSE edits
    /\ pc' = "commit"
    /\ UNCHANGED <<serverVars, diskVars, cards, memVars, cancel, kind, stage, target,
                   collectVars, plan, batch, faultVars>>

-----------------------------------------------------------------------------
(* MailStore::checkpoint: commit, save state.json, save index.json.         *)

Commit ==
    /\ pc = "commit"
    /\ IF Git
       THEN LET tree == BuildTree(head, pending, wt)
                new  == tree # head \/ (cards.queued /\ ~cards.head)
            IN  /\ Buildable(pending, wt)
                /\ head' = tree
                /\ cards' = [cards EXCEPT !.head = @ \/ cards.queued, !.queued = FALSE]
                /\ dstate' = IF new /\ dstate # None
                             THEN [dstate EXCEPT !.saved = FALSE] ELSE dstate
                /\ st' = [st EXCEPT !.saved = TRUE]
       ELSE /\ cards' = [cards EXCEPT !.queued = FALSE]
            /\ UNCHANGED <<head, dstate, st>>
    /\ pending' = NoEdits
    /\ pc' = "save state"
    /\ UNCHANGED <<serverVars, wt, dindex, edits, ix, cancel, kind, stage, target,
                   collectVars, plan, batch, faultVars>>

\* A file to be committed is not in the worktree: the checkpoint fails after
\* build_tree has drained the queue.
BuildTreeFails ==
    /\ pc = "commit" /\ Git /\ ~Buildable(pending, wt)
    /\ pending' = NoEdits
    /\ cards' = [cards EXCEPT !.queued = FALSE]
    /\ EndPass
    /\ UNCHANGED <<serverVars, diskVars, edits, cancel, faultVars>>

SaveState ==
    /\ pc = "save state"
    /\ dstate' = st
    /\ pc' = "save index"
    /\ UNCHANGED <<serverVars, wt, head, dindex, queueVars, memVars, cancel, kind,
                   stage, target, collectVars, plan, batch, faultVars>>

\* What follows the checkpoint (or, after a backfill, the bare save_state).
SaveIndex ==
    /\ pc = "save index"
    /\ dindex' = ix
    /\ cards' = [cards EXCEPT !.indexed = cards.known]
    /\ edits' = IF stage = "done" THEN edits ELSE NoEdits
    /\ CASE stage = "backfill" ->
              /\ pc' = "enumerate"
              /\ UNCHANGED <<memVars, kind, stage, target, collectVars, plan, batch>>
         [] stage = "past day" ->
              /\ pc' = "apply days"
              /\ UNCHANGED <<memVars, kind, stage, target, collectVars, plan, batch>>
         [] stage = "done" /\ kind = "backup" ->
              /\ StartSync(st)
              /\ UNCHANGED <<memVars, kind, plan, batch>>
         [] OTHER -> EndPass
    /\ UNCHANGED <<serverVars, wt, head, dstate, pending, cancel, faultVars>>

-----------------------------------------------------------------------------
(* Cancellation, failure and death.                                         *)

Cancel ==
    /\ ~cancel /\ cancels < MaxCancels
    /\ cancel' = TRUE /\ cancels' = cancels + 1
    /\ UNCHANGED <<serverVars, diskVars, queueVars, memVars, pc, kind, stage,
                   target, collectVars, plan, batch, crashes, fails>>

\* The checks of the cancel flag that abandon the pass.
Interrupted ==
    /\ cancel
    /\ \/ pc \in {"changes", "apply days"}
       \/ pc = "enumerate" /\ Upcoming # {}
       \/ pc = "enumerate" /\ stage = "backfill" /\ seen = {}
    /\ EndPass
    /\ UNCHANGED <<serverVars, diskVars, queueVars, cancel, faultVars>>

\* A cancelled process leaves; the next one starts with empty queues.
Restart ==
    /\ pc = "idle" /\ cancel
    /\ cancel' = FALSE
    /\ edits' = NoEdits /\ pending' = NoEdits
    /\ cards' = [cards EXCEPT !.queued = FALSE]
    /\ UNCHANGED <<serverVars, diskVars, memVars, pc, kind, stage, target,
                   collectVars, plan, batch, faultVars>>

\* What an event that stops half-way leaves behind.
TornFiles ==
    CASE batch.add # {} ->
           UNION {AddTorn(Files, m, ix[m], metas[m]) : m \in batch.add}
      [] batch.add = {} /\ batch.update # {} ->
           UNION {UpdateTorn(Files, m, ix[m], metas[m]) : m \in batch.update}
      [] batch.add = {} /\ batch.update = {} /\ batch.delete # {} ->
           UNION {IF Known(m) THEN DeleteTorn(Files, m, ix[m]) ELSE {Files} :
                    m \in batch.delete}
      [] OTHER -> {Files}

Torn(file) == IF TornSaves THEN {file, None} ELSE {file}

\* The step under way stops at any of the points where it can; the queues of
\* edits survive an error but not the process.
Queues(died, e, p, queued) ==
    /\ edits' = IF died THEN NoEdits ELSE e
    /\ pending' = IF died THEN NoEdits ELSE p
    /\ cards' = [cards EXCEPT !.queued = ~died /\ queued]

Abandon(died) ==
    \/ /\ pc = "apply"
       /\ \E s \in TornFiles : wt' = s.wt /\ Queues(died, s.ed, pending, cards.queued)
       /\ UNCHANGED <<head, dstate, dindex>>
    \/ /\ pc = "commit" /\ Queues(died, edits, NoEdits, FALSE)
       /\ UNCHANGED diskVars
    \/ /\ pc = "save state" /\ Queues(died, edits, pending, cards.queued)
       /\ \E s \in Torn(dstate) : dstate' = s
       /\ UNCHANGED <<wt, head, dindex>>
    \/ /\ pc = "save index" /\ TornSaves /\ Queues(died, edits, pending, cards.queued)
       /\ \E i \in Torn(dindex) : dindex' = i
       /\ UNCHANGED <<wt, head, dstate>>
    \/ /\ pc \notin {"idle", "apply", "commit", "save state", "save index"}
       /\ Queues(died, edits, pending, cards.queued)
       /\ UNCHANGED diskVars

\* An error ends the pass; the daemon starts another one later.
Fail ==
    /\ fails < MaxFails /\ fails' = fails + 1
    /\ Abandon(FALSE)
    /\ EndPass
    /\ UNCHANGED <<serverVars, cancel, crashes, cancels>>

\* The process is killed and started again.
Crash ==
    /\ crashes < MaxCrashes /\ crashes' = crashes + 1
    /\ Abandon(TRUE)
    /\ cancel' = FALSE
    /\ EndPass
    /\ UNCHANGED <<serverVars, fails, cancels>>

-----------------------------------------------------------------------------
Init ==
    /\ ServerInit
    /\ wt = EmptyTree /\ head = EmptyTree /\ dstate = None /\ dindex = None
    /\ st = DefaultState /\ ix = EmptyIndex
    /\ edits = NoEdits /\ pending = NoEdits /\ cards = NoCards /\ cancel = FALSE
    /\ pc = "idle" /\ kind = "backup" /\ stage = "done" /\ target = 0
    /\ delta = NoChanges /\ unread = {} /\ anchor = None /\ seen = {}
    /\ metas = NoMetas /\ plan = NothingPlanned /\ batch = NothingPlanned
    /\ crashes = 0 /\ fails = 0 /\ cancels = 0

Account ==
    \E m \in Msg : \/ \E x \in Meta : Arrive(m, x) \/ Modify(m, x)
                   \/ Destroy(m)

Collect ==
    \/ \E m \in Msg : Enumerate(m) \/ SkipAfterLostAnchor(m)
    \/ EnumerationEnds
    \/ \E upto \in Version : ChangesPage(upto)
    \/ StateTooOld
    \/ PlanSync
    \/ PlanReconcile

Write ==
    \/ \E d \in {Day[m] : m \in Msg} : FinalizeDay(d) \/ StartPastDay(d)
    \/ BackfillComplete
    \/ StartFinal
    \/ \E m \in Msg : ApplyAdded(m) \/ ApplyUpdated(m) \/ ApplyDeleted(m)
    \/ ApplyEnds
    \/ Commit
    \/ SaveState
    \/ SaveIndex

Stop == FetchFails \/ BuildTreeFails \/ Interrupted \/ Restart

Engine == (\E k \in {"backup", "refresh"} : Begin(k)) \/ Collect \/ Write \/ Stop

Next == Account \/ Engine \/ Cancel \/ Fail \/ Crash

Spec == Init /\ [][Next]_vars

\* The daemon always starts another pass and every pass goes on.
FairSpec == Spec /\ WF_vars(Engine)

-----------------------------------------------------------------------------
(* What the engine promises.                                                *)

\* What a backup is restored from.
Archive == IF Git THEN head ELSE wt

\* The server state the store has acknowledged; 0 before a backfill is done.
Acknowledged ==
    IF dstate = None \/ dstate.backfill # None THEN 0 ELSE dstate.source

Settled(m) == 0 < changed[m] /\ changed[m] <= Acknowledged

Expected(m) == Alive(m) /\ Matches(meta[m])

\* The archive holds m in exactly the place and with the metadata it has on
\* the server, or not at all when it should not exist.
Mirrored(m) ==
    \A b \in Box :
        LET here == Expected(m) /\ meta[m].box = b IN
        /\ Archive[Eml(m, b)] = IF here THEN Raw ELSE None
        /\ Archive[Sidecar(m, b)] = IF here THEN meta[m] ELSE None

Held(m) == \E b \in Box : Archive[Eml(m, b)] = Raw /\ Archive[Sidecar(m, b)] # None

\* Everything the acknowledged server state covers is mirrored exactly: the
\* cursor in state.json never runs ahead of what was archived, whatever
\* changes on the server while a pass is under way.
CursorSound == \A m \in Msg : Settled(m) => Mirrored(m)

\* No message that should be in the archive, and that the cursor will not
\* deliver again, is missing from it.
NoMessageLost == \A m \in Msg : Settled(m) /\ Expected(m) => Held(m)

\* While a backfill is under way, every message of a day that state.json calls
\* committed is held, unless it changed after the backfill began: resuming
\* from the next day misses nothing, whatever error, or state file lost to
\* one, came before.
BackfilledDaysHeld ==
    dstate # None /\ dstate.backfill # None =>
        \A m \in Msg :
            /\ 0 < changed[m] /\ changed[m] <= dstate.backfill.start
            /\ Expected(m) /\ Day[m] <= dstate.backfill.last
            => Held(m)

\* In the archive every sidecar has its .eml beside it and every .eml its
\* sidecar, and no message is filed in two places.
WellFiled ==
    \A m \in Msg, b \in Box :
        /\ Archive[Eml(m, b)] = Raw <=> Archive[Sidecar(m, b)] # None
        /\ \A c \in Box : Archive[Sidecar(m, b)] # None /\ Archive[Sidecar(m, c)] # None
                            => b = c

\* Between passes the index.json that the next pass will trust describes the
\* archive: a message it knows is there as it says, and no other message is.
IndexDescribesArchive ==
    pc = "idle" /\ Trusted => dindex \in Rebuilt(Archive)

\* Between passes `mail-backup verify' finds no mail of a git store out of
\* place: the worktree is the committed tree.  It finds the cards of the
\* mailboxes only if nothing has been saved yet, as the first pass was cut short
\* before its first day, or if the backfill met no mail at all; and then no
\* index that an open trusts knows the mailboxes, so that the next backfill or
\* refresh writes their cards again, for the commit that it makes.
WorktreeCommitted ==
    pc = "idle" /\ Git =>
        /\ wt = head
        /\ cards.worktree # cards.head => /\ dstate = None \/ cards.bare
                                         /\ ~(Trusted /\ cards.indexed)

\* A message only leaves the archive because of a change that is not yet
\* acknowledged, or because it should not be there: never because of what a
\* pass has not seen.
RemovalJustified ==
    [][\A m \in Msg : Held(m) /\ ~Held(m)' =>
          changed[m] > Acknowledged \/ ~Expected(m)]_vars

\* The engine and its store implement Mirror: read the sidecars, and take the
\* cursor of a completed backfill as the acknowledged state.
Filed(m) ==
    IF \E b \in Box : Archive[Sidecar(m, b)] # None
    THEN Archive[Sidecar(m, CHOOSE b \in Box : Archive[Sidecar(m, b)] # None)]
    ELSE None

Abstract == INSTANCE Mirror WITH
    expected <- [m \in Msg |-> IF Expected(m) THEN meta[m] ELSE None],
    filed <- [m \in Msg |-> Filed(m)],
    acked <- Acknowledged

ImplementsMirror == Abstract!Spec

\* Once the account stops changing, the archive becomes its mirror for good.
Converges == <>[](\A m \in Msg : changed[m] > 0 => Mirrored(m))

=============================================================================
