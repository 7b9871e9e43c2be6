------------------------------ MODULE JmapSource ------------------------------
(***************************************************************************)
(* The requests of one pass (sources/jmap/mod.rs, helpers/jmap/client.rs), *)
(* as engine/mod.rs, engine/sync.rs and engine/backfill.rs ask for them,   *)
(* while messages and mailboxes change between any two.  The account has   *)
(* two states, Email's and Mailbox's, that are never read together; the    *)
(* pass saves a cursor of both.                                            *)
(*                                                                         *)
(* Passes neither fail nor stop here, the filter takes everything, and     *)
(* query anchors are not lost: BackupEngine.  Mailboxes are flat and keep  *)
(* their roles: MailboxTree.                                               *)
(***************************************************************************)
EXTENDS Integers, FiniteSets, FiniteSetsExt

CONSTANTS
    Msg, Box, Name, None,
    Unfiled,        \* the directory of messages in no known mailbox
    Rank,           \* the order of mailboxes by role
    PageSize,       \* QUERY_PAGE_SIZE
    ChunkSize,      \* maxObjectsInGet
    MaxTime         \* bound: changes of the account

ASSUME NoneAssumption ==
    None \notin Name /\ Unfiled \notin Box /\ \A x \in SUBSET Box : x # None
ASSUME RankAssumption ==
    /\ Rank \in [Box -> Nat]
    /\ \A a, b \in Box : Rank[a] = Rank[b] => a = b
ASSUME SizeAssumption == {PageSize, ChunkSize, MaxTime} \subseteq Nat \ {0}
ASSUME AccountAssumption == Msg # {} /\ Box # {}

VARIABLES
    now,                    \* how often the account has changed
    boxes, boxAt,           \* its mailboxes, and when each one last changed
    mails, mailAt, bornAt,  \* its messages (their mailboxes), likewise; their arrival
    cursor,                 \* SourceState in state.json; None before the backfill
    dirs, held, filed,      \* the store: mailboxes, messages, their directories
    pc, mode, target,       \* the pass, and the SourceState it will save
    more, relist,           \* has_more, mailboxes_changed
    listed,                 \* what list_mailboxes returned
    ids, seen, destroyed, metas,  \* to get; queried; destroyed; got
    left,                   \* history: messages a refresh left where they were
    omitted                 \* history: messages whose end no change list told

accountVars == <<now, boxes, boxAt, mails, mailAt, bornAt>>
storeVars   == <<cursor, dirs, held, filed, left, omitted>>
listVars    == <<ids, seen, destroyed, metas>>
passVars    == <<pc, mode, target, more, relist, listed, listVars>>
vars == <<accountVars, storeVars, passVars>>

Time == 0 .. MaxTime
Mailboxes == [Box -> Name \cup {None}]
Meta == SUBSET Box \ {{}}
Metas == [Msg -> {None} \cup Meta]
State == [email : Time, mailbox : Time]
Held(f) == {x \in DOMAIN f : f[x] # None}
NoMetas == [m \in Msg |-> None]
NoTarget == [email |-> 0, mailbox |-> 0]

ASSUME CursorAssumption == None \notin State \cup Mailboxes

TypeOK ==
    /\ now \in Time /\ boxes \in Mailboxes /\ mails \in Metas
    /\ boxAt \in [Box -> Time] /\ mailAt \in [Msg -> Time] /\ bornAt \in [Msg -> Time]
    /\ cursor \in State \cup {None}
    /\ dirs \in Mailboxes /\ held \in Metas /\ filed \in [Msg -> Box \cup {Unfiled}]
    /\ pc \in {"idle", "email state", "mailbox state", "email changes",
               "mailbox changes", "list", "query", "get", "apply"}
    /\ mode \in {"backfill", "sync", "reconcile"} /\ target \in State
    /\ more \in BOOLEAN /\ relist \in BOOLEAN /\ listed \in Mailboxes \cup {None}
    /\ ids \subseteq Msg /\ seen \subseteq Msg /\ destroyed \subseteq Msg
    /\ metas \in Metas /\ left \subseteq Msg /\ omitted \subseteq Msg

-----------------------------------------------------------------------------
(* The account (external).  A state names the last change of its type; a    *)
(* mailbox may change in ways that do not show (its counts).                *)

EmailState == Max({mailAt[m] : m \in Msg})
MailboxState == Max({boxAt[b] : b \in Box})

AccountStep == now < MaxTime /\ now' = now + 1 /\ UNCHANGED <<storeVars, passVars>>

PutMailbox(b, n) ==
    /\ AccountStep
    /\ boxes' = [boxes EXCEPT ![b] = n] /\ boxAt' = [boxAt EXCEPT ![b] = now + 1]
    /\ UNCHANGED <<mails, mailAt, bornAt>>

\* Its messages leave a mailbox with it, and go when they are in no other.
DestroyMailbox(b) ==
    /\ boxes[b] # None /\ AccountStep
    /\ boxes' = [boxes EXCEPT ![b] = None] /\ boxAt' = [boxAt EXCEPT ![b] = now + 1]
    /\ LET inside == {m \in Held(mails) : b \in mails[m]} IN
       /\ mails' = [m \in Msg |-> IF m \notin inside THEN mails[m]
                                  ELSE IF mails[m] = {b} THEN None ELSE mails[m] \ {b}]
       /\ mailAt' = [m \in Msg |-> IF m \in inside THEN now + 1 ELSE mailAt[m]]
    /\ UNCHANGED bornAt

\* A message arrives (once) or is filed elsewhere.
PutMessage(m, x) ==
    /\ mails[m] # None \/ mailAt[m] = 0
    /\ mails[m] # x /\ x \subseteq Held(boxes) /\ AccountStep
    /\ mails' = [mails EXCEPT ![m] = x] /\ mailAt' = [mailAt EXCEPT ![m] = now + 1]
    /\ bornAt' = IF mails[m] = None THEN [bornAt EXCEPT ![m] = now + 1] ELSE bornAt
    /\ UNCHANGED <<boxes, boxAt>>

DestroyMessage(m) ==
    /\ mails[m] # None /\ AccountStep
    /\ mails' = [mails EXCEPT ![m] = None] /\ mailAt' = [mailAt EXCEPT ![m] = now + 1]
    /\ UNCHANGED <<boxes, boxAt, bornAt>>

\* A change list may stop early, at any state on the way.
Between(from, to, at) == {to} \cup {at[x] : x \in {y \in DOMAIN at : from < at[y]}}
ChangedIn(at, from, to) == {x \in DOMAIN at : from < at[x] /\ at[x] <= to}

-----------------------------------------------------------------------------
(* connect.                                                                 *)

\* run_backup (which goes straight to the changes once there is a cursor)
\* or run_refresh.
Begin(refresh) ==
    /\ pc = "idle"
    /\ mode' = IF cursor = None THEN "backfill"
               ELSE IF refresh THEN "reconcile" ELSE "sync"
    /\ pc' = IF mode' = "sync" THEN "email changes" ELSE "email state"
    /\ target' = IF mode' = "sync" THEN cursor ELSE NoTarget
    /\ UNCHANGED <<accountVars, storeVars, more, relist, listed, listVars>>

ReadEmailState ==
    /\ pc = "email state"
    /\ target' = [target EXCEPT !.email = EmailState]
    /\ pc' = "mailbox state"
    /\ UNCHANGED <<accountVars, storeVars, mode, more, relist, listed, listVars>>

\* Also the way on when the Mailbox changes cannot be computed.
ReadMailboxState ==
    /\ pc = "mailbox state"
    /\ target' = [target EXCEPT !.mailbox = MailboxState]
    /\ pc' = IF mode = "sync" /\ more THEN "email changes" ELSE "list"
    /\ UNCHANGED <<accountVars, storeVars, mode, more, relist, listed, listVars>>

-----------------------------------------------------------------------------
(* changes, asked for until has_more is FALSE (sync::run).                  *)

\* What was both created and destroyed since the state asked about, any part of
\* which the server may leave out (silent).
Transient(page) == {m \in page : mails[m] = None /\ target.email < bornAt[m]}

EmailChanges(upto, silent) ==
    /\ pc = "email changes" /\ upto \in Between(target.email, EmailState, mailAt)
    /\ LET page == ChangedIn(mailAt, target.email, upto) IN
       /\ silent \subseteq Transient(page)
       /\ destroyed' = destroyed \cup {m \in page \ silent : mails[m] = None}
       /\ ids' = (ids \cup page) \ (destroyed' \cup silent)
       /\ omitted' = omitted \cup (silent \cap Held(held))
    /\ target' = [target EXCEPT !.email = upto]
    /\ more' = (upto < EmailState)
    /\ pc' = "mailbox changes"
    /\ UNCHANGED <<accountVars, cursor, dirs, held, filed, left, mode, relist, listed,
                   seen, metas>>

\* cannotCalculateChanges: connect again, for a reconciliation.
StateTooOld ==
    /\ pc = "email changes"
    /\ mode' = "reconcile" /\ pc' = "email state"
    /\ ids' = {} /\ destroyed' = {} /\ more' = FALSE /\ relist' = FALSE
    /\ UNCHANGED <<accountVars, storeVars, target, listed, seen, metas>>

Relist(upto) == relist \/ ChangedIn(boxAt, target.mailbox, upto) # {}

MailboxChanges(upto) ==
    /\ pc = "mailbox changes" /\ upto \in Between(target.mailbox, MailboxState, boxAt)
    /\ relist' = Relist(upto)
    /\ target' = [target EXCEPT !.mailbox = upto]
    /\ pc' = IF upto < MailboxState THEN "mailbox changes"
             ELSE IF more THEN "email changes"
             ELSE IF relist' THEN "list" ELSE "get"
    /\ UNCHANGED <<accountVars, storeVars, mode, more, listed, listVars>>

MailboxStateTooOld ==
    /\ pc = "mailbox changes"
    /\ relist' = TRUE /\ pc' = "mailbox state"
    /\ UNCHANGED <<accountVars, storeVars, mode, target, more, listed, listVars>>

-----------------------------------------------------------------------------
(* list_mailboxes, enumerate and get_messages.                              *)

Upserted(known, list) == [b \in Box |-> IF list[b] # None THEN list[b] ELSE known[b]]

\* A backfill and a reconciliation apply the upserts at once, a catch-up with
\* everything else.
List ==
    /\ pc = "list"
    /\ listed' = boxes
    /\ dirs' = IF mode = "sync" THEN dirs ELSE Upserted(dirs, boxes)
    /\ pc' = IF mode = "sync" THEN "get" ELSE "query"
    /\ UNCHANGED <<accountVars, cursor, held, filed, left, omitted, mode, target, more,
                   relist, listVars>>

\* One page of query_page; an empty one ends the enumeration.
Query(page) ==
    /\ pc = "query"
    /\ page \subseteq Held(mails) \ seen /\ Cardinality(page) <= PageSize
    /\ page = {} => Held(mails) \subseteq seen
    /\ ids' = page /\ seen' = seen \cup page
    /\ pc' = IF page = {} THEN "apply" ELSE "get"
    /\ UNCHANGED <<accountVars, storeVars, mode, target, more, relist, listed,
                   destroyed, metas>>

\* get_message_chunk: what has gone meanwhile is not in the answer.
Get(chunk) ==
    /\ pc = "get" /\ chunk \subseteq ids
    /\ Cardinality(chunk) = Min({ChunkSize, Cardinality(ids)})
    /\ metas' = [m \in Msg |-> IF m \in chunk THEN mails[m] ELSE metas[m]]
    /\ ids' = ids \ chunk
    /\ pc' = IF ids' # {} THEN "get" ELSE IF mode = "sync" THEN "apply" ELSE "query"
    /\ UNCHANGED <<accountVars, storeVars, mode, target, more, relist, listed,
                   seen, destroyed>>

-----------------------------------------------------------------------------
(* The plan and its application (plan_message_changes, reconcile,           *)
(* apply_planned).                                                          *)

\* (mutant: no directory for messages in no known mailbox.)
PrimaryDirOrNone(known, x) ==
    IF x \cap Held(known) = {} THEN None
    ELSE CHOOSE b \in x \cap Held(known) : \A c \in x \cap Held(known) : Rank[b] <= Rank[c]

PrimaryDir(known, x) ==
    IF x \cap Held(known) = {} THEN Unfiled
    ELSE CHOOSE b \in x \cap Held(known) : \A c \in x \cap Held(known) : Rank[b] <= Rank[c]

\* (mutant: a catch-up skips what it already holds as reported, too.)
FiledIfDifferent == {m \in Held(metas) : held[m] # metas[m]}

\* A reconciliation updates what differs, a catch-up all that was reported.
Filed == {m \in Held(metas) : mode = "sync" \/ held[m] # metas[m]}

Removed == IF mode = "sync" THEN destroyed
           ELSE IF mode = "reconcile" THEN Held(held) \ Held(metas) ELSE {}

Apply ==
    /\ pc = "apply"
    /\ held' = [m \in Msg |-> IF m \in Removed THEN None
                              ELSE IF m \in Filed THEN metas[m] ELSE held[m]]
    /\ LET known == IF listed = None THEN dirs ELSE Upserted(dirs, listed)
           occupied == {filed'[m] : m \in Held(held')} IN
       /\ filed' = [m \in Msg |-> IF m \in Filed THEN PrimaryDir(known, metas[m])
                                  ELSE IF held'[m] = None THEN Unfiled ELSE filed[m]]
       \* Mailboxes that are gone go last, unless they have contents.
       /\ dirs' = IF listed = None \/ mode = "backfill" THEN known
                  ELSE [b \in Box |-> IF listed[b] = None /\ b \notin occupied
                                      THEN None ELSE known[b]]
       /\ left' = {m \in Held(held') :
                     /\ m \in left \/ mode = "reconcile"
                     /\ m \notin Filed
                     /\ filed'[m] # PrimaryDir(known, held'[m])}
    /\ omitted' = IF mode = "sync" THEN omitted ELSE {}
    /\ cursor' = target
    /\ pc' = "idle" /\ mode' = "sync" /\ target' = NoTarget
    /\ more' = FALSE /\ relist' = FALSE /\ listed' = None
    /\ ids' = {} /\ seen' = {} /\ destroyed' = {} /\ metas' = NoMetas
    /\ UNCHANGED accountVars

-----------------------------------------------------------------------------
Init ==
    /\ now = 0
    /\ boxes \in Mailboxes /\ boxAt = [b \in Box |-> 0]
    /\ mails \in Metas /\ mailAt = [m \in Msg |-> 0] /\ bornAt = mailAt
    /\ \A m \in Held(mails) : mails[m] \subseteq Held(boxes)
    /\ cursor = None
    /\ dirs = [b \in Box |-> None] /\ held = NoMetas
    /\ filed = [m \in Msg |-> Unfiled] /\ left = {} /\ omitted = {}
    /\ pc = "idle" /\ mode = "sync" /\ target = NoTarget
    /\ more = FALSE /\ relist = FALSE /\ listed = None
    /\ ids = {} /\ seen = {} /\ destroyed = {} /\ metas = NoMetas

Next ==
    \/ \E b \in Box, n \in Name : PutMailbox(b, n)
    \/ \E b \in Box : DestroyMailbox(b)
    \/ \E m \in Msg, x \in Meta : PutMessage(m, x)
    \/ \E m \in Msg : DestroyMessage(m)
    \/ \E refresh \in BOOLEAN : Begin(refresh)
    \/ ReadEmailState \/ ReadMailboxState
    \/ \E upto \in Time, silent \in SUBSET Msg : EmailChanges(upto, silent)
    \/ \E upto \in Time : MailboxChanges(upto)
    \/ StateTooOld \/ MailboxStateTooOld
    \/ List
    \/ \E page \in SUBSET Msg : Query(page)
    \/ \E chunk \in SUBSET Msg : Get(chunk)
    \/ Apply

Spec == Init /\ [][Next]_vars

-----------------------------------------------------------------------------
(* Properties.                                                              *)

\* The part of the store the saved states vouch for, since no later pass is
\* told of it again: what last changed no later than they say.
CoveredMessages == {m \in Msg : mailAt[m] <= cursor.email}
CoveredMailboxes == {b \in Box : boxAt[b] <= cursor.mailbox}

\* Between passes, with a cursor saved: every message that last changed no
\* later than its Email state is held as it is, in the directory of its
\* primary mailbox, and every mailbox that last changed no later than its
\* Mailbox state and still exists is known as it is; although the two states,
\* the list, the pages and the chunks were all read at different times
\* (jmap/mod.rs connect, changes, get_messages; sync.rs run).  Excepted are
\* messages filed before their mailbox was known which a reconciliation then
\* leaves there, as it compares metadata and not places (sync.rs reconcile), and,
\* until the next reconciliation, those that an enumeration met after the state it
\* saved was read, and that were destroyed without the change list saying so: a
\* server may leave out what was both created and destroyed since a state.
CursorCovers ==
    pc = "idle" /\ cursor # None =>
        /\ \A m \in CoveredMessages \ omitted :
              /\ held[m] = mails[m]
              /\ held[m] # None /\ m \notin left => filed[m] = PrimaryDir(boxes, mails[m])
        /\ \A b \in CoveredMailboxes : boxes[b] # None => dirs[b] = boxes[b]
=============================================================================
