------------------------------- MODULE MailStore -------------------------------
(***************************************************************************)
(* The files and the index of a mail store, and what one mail event does   *)
(* to them (stores/dir.rs), together with the git layer's tree edits       *)
(* (stores/git.rs).  This module has no variables: BackupEngine composes   *)
(* these operators into steps.                                             *)
(*                                                                         *)
(* A message is stored as two files, `<base>.eml' (its raw bytes, which    *)
(* never change) and `<base>.meta' (its sidecar: the mutable metadata).    *)
(* <base> is a function of the message and of the directory of its primary *)
(* mailbox, so a file is named here by message, mailbox and kind.          *)
(***************************************************************************)
EXTENDS Naturals, FiniteSets

CONSTANTS
    Msg,    \* message ids
    Box,    \* mailboxes, each with a fixed directory
    Meta,   \* the mutable metadata a message may have on the server
    Wanted, \* the metadata that matches the policy's filter
    Raw,    \* the raw content of an .eml file
    None    \* absence: no file, no index entry, no saved state

ASSUME MetaAssumption == \A x \in Meta : x.box \in Box
ASSUME WantedAssumption == Wanted \subseteq Meta
ASSUME NoneAssumption == None \notin Meta /\ Raw # None /\ Raw \notin Meta

File == Msg \X Box \X {"eml", "meta"}
Eml(m, b) == <<m, b, "eml">>
Sidecar(m, b) == <<m, b, "meta">>

\* A directory tree, or the tree of a commit.
Tree == {t \in [File -> Meta \cup {Raw, None}] :
            \A m \in Msg, b \in Box : /\ t[Eml(m, b)] \in {Raw, None}
                                      /\ t[Sidecar(m, b)] \in Meta \cup {None}}
EmptyTree == [f \in File |-> None]

\* Vec<PathEdit> up to what build_tree reads of it: the last edit of each path.
Edits == [File -> {"keep", "upsert", "remove"}]
NoEdits == [f \in File |-> "keep"]

\* StoredMessage: the metadata last written, and where the files are.
Entry == [meta : Meta, box : Box]
Index == [Msg -> Entry \cup {None}]
EmptyIndex == [m \in Msg |-> None]

ASSUME EntryAssumption == None \notin Entry

-----------------------------------------------------------------------------
(* Primitive file operations.  A state s is [wt |-> worktree, ed |-> edits] *)
(* where ed is DirMailStore::path_edits.                                    *)

Stage == [wt : Tree, ed : Edits]

Push(s, f, how) == [s EXCEPT !.ed[f] = how]

\* write_file: the temporary file replaces the target in two steps, so a
\* target that existed is gone for a moment.
WriteFile(s, f, c) == [Push(s, f, "upsert") EXCEPT !.wt[f] = c]
WriteFileTorn(s, f) == [s EXCEPT !.wt[f] = None]

RemoveFile(s, f) == [Push(s, f, "remove") EXCEPT !.wt[f] = None]

Rename(t, from, to) == [t EXCEPT ![to] = t[from], ![from] = None]

-----------------------------------------------------------------------------
(* apply_message_updated.  e is the index entry, or None.                   *)

MoveNeeded(e, x) == x.box # e.box

\* The message is unknown, or neither its old nor its new .eml exists: "it
\* needs a full fetch".
UpdateSkipped(s, m, e, x) ==
    \/ e = None
    \/ /\ MoveNeeded(e, x)
       /\ s.wt[Eml(m, e.box)] = None
       /\ s.wt[Eml(m, x.box)] = None

EmlMoved(s, m, e, x) ==
    IF MoveNeeded(e, x) /\ s.wt[Eml(m, e.box)] # None
    THEN [s EXCEPT !.wt = Rename(s.wt, Eml(m, e.box), Eml(m, x.box))]
    ELSE s

\* (mutant: the sidecar is renamed onto the .eml.)
SidecarMovedOntoEml(s, m, e, x) ==
    LET t == EmlMoved(s, m, e, x) IN
    IF MoveNeeded(e, x) /\ t.wt[Sidecar(m, e.box)] # None
    THEN [t EXCEPT !.wt = Rename(t.wt, Sidecar(m, e.box), Eml(m, x.box))]
    ELSE t

\* The sidecar follows, but only when the .eml was moved by this very call.
SidecarMoved(s, m, e, x) ==
    LET t == EmlMoved(s, m, e, x) IN
    IF /\ MoveNeeded(e, x)
       /\ s.wt[Eml(m, e.box)] # None
       /\ s.wt[Sidecar(m, e.box)] # None
    THEN [t EXCEPT !.wt = Rename(t.wt, Sidecar(m, e.box), Sidecar(m, x.box))]
    ELSE t

\* (mutant: the old sidecar is not recorded as removed.)
MovePushedOldSidecarKept(s, m, e, x) ==
    LET t == SidecarMoved(s, m, e, x) IN
    IF MoveNeeded(e, x)
    THEN [t EXCEPT !.ed = [t.ed EXCEPT ![Eml(m, e.box)] = "remove",
                                       ![Eml(m, x.box)] = "upsert",
                                       ![Sidecar(m, x.box)] = "upsert"]]
    ELSE t

MovePushed(s, m, e, x) ==
    LET t == SidecarMoved(s, m, e, x) IN
    IF MoveNeeded(e, x)
    THEN [t EXCEPT !.ed = [t.ed EXCEPT ![Eml(m, e.box)] = "remove",
                                       ![Sidecar(m, e.box)] = "remove",
                                       ![Eml(m, x.box)] = "upsert",
                                       ![Sidecar(m, x.box)] = "upsert"]]
    ELSE t

\* (mutant: a move leaves the sidecar as it was.)
UpdateDoneMoveOnly(s, m, e, x) ==
    LET t == MovePushed(s, m, e, x) IN
    IF UpdateSkipped(s, m, e, x) THEN s
    ELSE IF MoveNeeded(e, x) THEN t
    ELSE WriteFile(t, Sidecar(m, x.box), x)

\* The sidecar is rewritten, and the edit recorded, only when it differs.
UpdateDone(s, m, e, x) ==
    LET t == MovePushed(s, m, e, x) IN
    IF UpdateSkipped(s, m, e, x) THEN s
    ELSE IF t.wt[Sidecar(m, x.box)] = x THEN t
    ELSE WriteFile(t, Sidecar(m, x.box), x)

\* What a call that stops half-way can leave behind.
UpdateTorn(s, m, e, x) ==
    LET moved == EmlMoved(s, m, e, x)
        t     == MovePushed(s, m, e, x)
        side  == Sidecar(m, x.box)
    IN  IF UpdateSkipped(s, m, e, x) THEN {s}
        ELSE {s, moved, SidecarMoved(s, m, e, x), t}
             \cup (IF SidecarMoved(s, m, e, x) # moved
                   THEN {WriteFileTorn(moved, side)} ELSE {})
             \cup (IF t.wt[side] # x THEN {WriteFileTorn(t, side)} ELSE {})

\* (mutant: the index keeps the old place.)
UpdateEntryStale(s, m, e, x) ==
    IF UpdateSkipped(s, m, e, x) THEN e ELSE [meta |-> x, box |-> e.box]

UpdateEntry(s, m, e, x) ==
    IF UpdateSkipped(s, m, e, x) THEN e ELSE [meta |-> x, box |-> x.box]

-----------------------------------------------------------------------------
(* apply_message_added.  e is the index entry, or None.                     *)

\* A message already held: make sure the .eml exists, then update.
EmlRestored(s, m, e) ==
    IF s.wt[Eml(m, e.box)] = None THEN WriteFile(s, Eml(m, e.box), Raw) ELSE s

\* (mutant: no edit is recorded for an .eml that is there already.)
EmlAddedOnce(s, m, x) ==
    IF s.wt[Eml(m, x.box)] = Raw THEN s ELSE WriteFile(s, Eml(m, x.box), Raw)

\* A new message: both files are written unless an interrupted run already
\* left them there; the edits are recorded either way.
EmlAdded(s, m, x) == WriteFile(s, Eml(m, x.box), Raw)

AddDone(s, m, e, x) ==
    IF e # None THEN UpdateDone(EmlRestored(s, m, e), m, e, x)
    ELSE WriteFile(EmlAdded(s, m, x), Sidecar(m, x.box), x)

AddTorn(s, m, e, x) ==
    IF e # None THEN {s} \cup UpdateTorn(EmlRestored(s, m, e), m, e, x)
    ELSE LET t == EmlAdded(s, m, x)
         IN  {s, t} \cup (IF t.wt[Sidecar(m, x.box)] \in {None, x} THEN {}
                          ELSE {WriteFileTorn(t, Sidecar(m, x.box))})

AddEntry(s, m, e, x) ==
    IF e # None THEN UpdateEntry(EmlRestored(s, m, e), m, e, x)
    ELSE [meta |-> x, box |-> x.box]

-----------------------------------------------------------------------------
(* apply_message_deleted, for a message the index knows as e.               *)

\* (mutant: the sidecar is left behind.)
DeleteDoneEmlOnly(s, m, e) == RemoveFile(s, Eml(m, e.box))

DeleteDone(s, m, e) ==
    RemoveFile(RemoveFile(s, Eml(m, e.box)), Sidecar(m, e.box))
DeleteTorn(s, m, e) == {s, RemoveFile(s, Eml(m, e.box))}

-----------------------------------------------------------------------------
(* The git layer.                                                           *)

\* pending.extend(take_path_edits()): later edits of a path win.
Overlay(p, e) == [f \in File |-> IF e[f] = "keep" THEN p[f] ELSE e[f]]

\* build_tree reads every upserted file from the worktree.
Buildable(p, wt) == \A f \in File : p[f] = "upsert" => wt[f] # None

BuildTree(t, p, wt) ==
    [f \in File |-> IF p[f] = "upsert" THEN wt[f]
                    ELSE IF p[f] = "remove" THEN None
                    ELSE t[f]]

\* rebuild_index_from_head / rebuild_from_dir: only sidecars are read, and of
\* two sidecars of one message the last one visited wins.
Rebuilt(t) ==
    LET held(m) == {b \in Box : t[Sidecar(m, b)] # None} IN
    {[m \in Msg |-> IF held(m) = {} THEN None
                    ELSE [meta |-> t[Sidecar(m, last[m])], box |-> last[m]]] :
       last \in {p \in [Msg -> Box] : \A m \in Msg : held(m) = {} \/ p[m] \in held(m)}}
=============================================================================
